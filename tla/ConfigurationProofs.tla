------------------------- MODULE ConfigurationProofs -------------------------
(***************************************************************************)
(* Proofs about the configuration files, for any paths, documents,         *)
(* commands, edits and failures.                                           *)
(***************************************************************************)
EXTENDS ConfigurationProps, SequenceTheorems, WellFoundedInduction, TLAPS

Slots == {"op", "stage", "left", "named", "force", "env", "from", "cfg", "ok",
          "touched", "mixed", "amid", "missed", "stayed"}

Creating == {"init", "create"}

\* What a command is given, and what its stage says of its operation.
Shaped(e) ==
    /\ DOMAIN e = Slots
    /\ e.stage # "idle" => e.left \in Seq(Paths) /\ e.left # <<>>
    /\ e.op \in Creating => e.stage # "idle" /\ Len(e.left) = 1
    /\ e.stage \in {"create", "write", "rest"} => e.op \in Creating
    /\ e.op = "create" => e.stage # "report"
    /\ e.mixed => e.stage \in {"write", "rest", "done"}

\* What it knows of the file it looks at: f, with the texts st not of finspect,
\* after fl failures.
Knowing(e, f, st, fl) ==
    LET p == Head(e.left) IN
    /\ e.stage = "create" /\ ~e.force /\ ~e.touched /\ ~e.missed => f[p] = Absent
    /\ e.op \in Creating /\ e.stage \in {"open", "write", "rest"} /\ p \notin st => f[p] # Absent
    /\ e.op = "create" /\ e.stage = "done" /\ p \notin st \cup Json /\ fl = 0 /\ ~e.amid =>
          e.ok /\ e.cfg = Default

Good(e, f, st, fl) == Shaped(e) /\ Knowing(e, f, st, fl)

\* What finspect alone has written.
OwnTexts(f, st) == \A p \in Paths \ st : f[p] \in {Absent, EmptyFile, DefaultFile(p)} \cup Pieces

\* A text that is not finished is one that the last who emptied it will finish.
WritesAt(e, p) == e.stage \in {"write", "rest"} /\ Head(e.left) = p

SettledAt(cmd, f, st, p) ==
    /\ p \notin st
    /\ f[p] \in Pieces \/ \E c \in Commands : WritesAt(cmd[c], p)
    => f[p] \in {Absent, DefaultFile(p)} \/ \E c \in Commands : WritesAt(cmd[c], p) /\ ~cmd[c].mixed

Settled(cmd, f, st) == \A p \in Paths : SettledAt(cmd, f, st, p)

IInv ==
    /\ file \in [Paths -> Contents]
    /\ OwnTexts(file, strange)
    /\ faults \in Nat
    /\ DOMAIN command = Commands
    /\ \A c \in Commands : Good(command[c], file, strange, faults)
    /\ Settled(command, file, strange)

-----------------------------------------------------------------------------
LEMMA DefaultIsValid == Valid(Default)
<1>1. MountsValid(Default.mounts)
    <2>1. /\ DOMAIN Default.mounts = {1}
          /\ Default.mounts[1].path = "/" /\ Default.mounts[1].type = "filesystem"
      BY DEF Default
    <2> QED
      BY <2>1 DEF MountsValid, Blank
<1>2. /\ Default.concurrency = 10 /\ Default.port = 8080 /\ Default.level = "info"
    BY DEF Default
<1> QED
    BY <1>1, <1>2 DEF Valid, Levels, Ports

LEMMA DefaultIsExpanded == ASSUME NEW env PROVE Expanded(env, Default) = Default
<1>1. Expand(env, ".") = "." /\ Expand(env, "/") = "/"
  BY ConfigurationAssumption DEF Expand
<1>2. Default.mounts = <<[path |-> "/", type |-> "filesystem"]>> /\ Default.workdir = "."
  BY DEF Default
<1>3. [i \in DOMAIN Default.mounts |->
          [Default.mounts[i] EXCEPT !.path = Expand(env, Default.mounts[i].path)]] = Default.mounts
  BY <1>1, <1>2
<1>4. Expanded(env, Default) = [Default EXCEPT !.workdir = Default.workdir,
                                              !.mounts = Default.mounts]
  BY <1>1, <1>2, <1>3 DEF Expanded
<1>5. Default = [f \in DOMAIN Default |-> Default[f]]
  BY DEF Default
<1> QED
  BY <1>4, <1>5

\* The defaults, and an empty text that is not JSON, load as the defaults.
LEMMA DefaultsLoad ==
    ASSUME NEW p \in Paths \ Json, NEW env, NEW content \in {EmptyFile, DefaultFile(p)}
    PROVE  LoadFrom(p, env, content) = Default
<1>1. content # Absent
  BY ConfigurationAssumption
<1>2. Parses(p, content.syntax)
  BY DEF EmptyFile, DefaultFile, Parses
<1>3. Decoded(p, content.says) = Default
  <2>1. Over(content.says, Default) = Default
    <3>1. Default = [f \in DOMAIN Default |-> Default[f]]
      BY DEF Default
    <3>2. content.says = Default \/ DOMAIN content.says = {}
      BY DEF EmptyFile, DefaultFile
    <3> QED
      BY <3>1, <3>2 DEF Over
  <2>2. Over(Default.mounts[1], Slot(p, 1)) = Default.mounts[1]
    BY DEF Over, Slot, Default
  <2>3. Default.mounts = <<Default.mounts[1]>>
    BY DEF Default
  <2>4. [i \in DOMAIN Default.mounts |-> Over(Default.mounts[i], Slot(p, i))] = Default.mounts
    BY <2>2, <2>3
  <2> QED
    BY <2>1, <2>4 DEF Decoded, Default
<1>4. Valid(Default)
  BY DefaultIsValid
<1>5. Expanded(env, Default) = Default
  BY DefaultIsExpanded
<1> QED
  BY <1>1, <1>2, <1>3, <1>4, <1>5 DEF LoadFrom

LEMMA IdleIsGood == \A f, st, fl : Good(Idle, f, st, fl)
BY DEF Idle, Good, Shaped, Knowing, Slots, Creating

LEMMA HeadIs ==
    ASSUME NEW e, Shaped(e), e.stage # "idle"
    PROVE  Head(e.left) \in Paths
BY DEF Shaped

LEMMA InitIInv == Init => IInv
<1> SUFFICES ASSUME Init PROVE IInv
  OBVIOUS
<1>1. file \in [Paths -> Contents] /\ OwnTexts(file, strange) /\ faults \in Nat
  BY DEF Init, Contents, OwnTexts
<1>2. DOMAIN command = Commands /\ \A c \in Commands : command[c] = Idle
  BY DEF Init
<1>3. Settled(command, file, strange)
  <2>1. \A p \in Paths : file[p] = Absent
    BY DEF Init
  <2> QED
    BY <2>1 DEF Settled, SettledAt
<1> QED
  BY <1>1, <1>2, <1>3, IdleIsGood DEF IInv

LEMMA WritersAre ==
    \A p \in Paths : Writers(p) = {c \in Commands : WritesAt(command[c], p)}
BY DEF Writers, WritesAt, At, Looking

\* Nothing changes at p, and nobody stops or begins to write there.
LEMMA StaysSettled ==
    ASSUME IInv, NEW cmd, NEW f, NEW st, NEW p \in Paths, f[p] = file[p], strange \subseteq st,
           \A d \in Commands :
              /\ WritesAt(cmd[d], p) <=> WritesAt(command[d], p)
              /\ WritesAt(command[d], p) => (cmd[d].mixed <=> command[d].mixed)
    PROVE  SettledAt(cmd, f, st, p)
BY DEF IInv, Settled, SettledAt

(***************************************************************************)
(* A command does not mind that another has put something at q, nor what   *)
(* becomes of q when its text is not finspect's any more.                  *)
(***************************************************************************)
LEMMA TouchedIsGood ==
    ASSUME IInv, NEW d \in Commands, NEW q \in Paths, NEW t \in {Touched(d, q), Disturbed(d, q)},
           NEW f, NEW st, NEW fl,
           \A p \in Paths \ {q} : f[p] = file[p],
           f[q] # Absent \/ f[q] = file[q] \/ q \in st,
           strange \subseteq st, fl = 0 => faults = 0
    PROVE  /\ Good(t, f, st, fl) /\ DOMAIN t = Slots
           /\ \A slot \in Slots \ {"touched", "mixed", "amid"} : t[slot] = command[d][slot]
           /\ ~WritesAt(command[d], q) => (t.mixed <=> command[d].mixed)
           /\ t = Touched(d, q) => t.mixed = command[d].mixed
<1> DEFINE e == command[d]
           u == Touched(d, q)
<1>1. Good(e, file, strange, faults) /\ DOMAIN e = Slots
  BY DEF IInv, Good, Shaped
<1>a. /\ DOMAIN u = Slots
      /\ \A slot \in Slots \ {"touched"} : u[slot] = e[slot]
  BY <1>1 DEF Touched, Slots
<1>b. /\ ~u.touched => ~e.touched
      /\ e.op \in Creating /\ e.stage # "look" /\ Head(e.left) = q => u.touched
  BY <1>1 DEF Touched, Slots, Creating, At, Looking
<1>c. u.mixed = e.mixed /\ u.amid = e.amid
  BY <1>a DEF Slots
<1> HIDE DEF u
<1> DEFINE v == [u EXCEPT !.mixed = @ \/ d \in Writers(q),
                          !.amid = @ \/ (At(d, "open") /\ Looking(d) = q)]
<1>d. /\ DOMAIN v = Slots /\ \A slot \in Slots \ {"mixed", "amid"} : v[slot] = u[slot]
      /\ v.mixed = (u.mixed \/ d \in Writers(q))
      /\ v.amid = (u.amid \/ (At(d, "open") /\ Looking(d) = q))
  BY <1>a DEF Slots
<1>e. t = u \/ t = v
  BY DEF Disturbed, u
<1>f. d \in Writers(q) <=> WritesAt(e, q)
  BY WritersAre
<1> HIDE DEF v
<1>2. /\ DOMAIN t = Slots
      /\ \A slot \in Slots \ {"touched", "mixed", "amid"} : t[slot] = e[slot]
      /\ t.mixed = e.mixed \/ (t.mixed <=> e.mixed \/ WritesAt(e, q))
      /\ ~t.amid => ~e.amid
      /\ t.touched = u.touched
  <2>1. CASE t = u
    BY <1>a, <1>c, <2>1 DEF Slots
  <2>2. CASE t = v
    BY <1>a, <1>c, <1>d, <1>f, <2>2 DEF Slots
  <2> QED
    BY <1>e, <2>1, <2>2
<1>3. t = u => t.mixed = e.mixed
  BY <1>c
<1>4. /\ t.op = e.op /\ t.stage = e.stage /\ t.left = e.left /\ t.force = e.force /\ t.ok = e.ok
      /\ t.cfg = e.cfg /\ t.missed = e.missed
  BY <1>2 DEF Slots
<1>5. Shaped(t)
  BY <1>1, <1>2, <1>4 DEF Good, Shaped, WritesAt
<1>6. e.stage # "idle" => Head(e.left) \in Paths
  BY <1>1, HeadIs DEF Good
<1>7. Knowing(t, f, st, fl)
  BY <1>1, <1>2, <1>b, <1>4, <1>6 DEF Good, Knowing, Shaped
<1> QED
  BY <1>2, <1>3, <1>5, <1>7 DEF Good, u

LEMMA DisturbedIs ==
    ASSUME IInv, NEW d \in Commands, NEW q \in Paths, NEW t \in {Touched(d, q), Disturbed(d, q)}
    PROVE  /\ DOMAIN t = Slots
           /\ \A slot \in Slots \ {"touched", "mixed", "amid"} : t[slot] = command[d][slot]
           /\ ~WritesAt(command[d], q) => (t.mixed <=> command[d].mixed)
           /\ t = Touched(d, q) => t.mixed = command[d].mixed
<1>1. /\ Good(t, file, strange, faults) /\ DOMAIN t = Slots
      /\ \A slot \in Slots \ {"touched", "mixed", "amid"} : t[slot] = command[d][slot]
      /\ ~WritesAt(command[d], q) => (t.mixed <=> command[d].mixed)
      /\ t = Touched(d, q) => t.mixed = command[d].mixed
  BY TouchedIsGood
<1> QED
  BY <1>1

\* A step of c, who is not writing, that leaves the files alone.
LEMMA OneStep ==
    ASSUME IInv, NEW c \in Commands, NEW e, command' = [command EXCEPT ![c] = e],
           UNCHANGED <<file, strange>>, faults' \in Nat, faults' = 0 => faults = 0,
           Good(e, file, strange, faults'),
           {command[c].stage, e.stage} \cap {"write", "rest"} = {}
    PROVE  IInv'
<1>1. DOMAIN command' = Commands
  BY DEF IInv
<1>3. Settled(command', file, strange)
  <2>1. \A d \in Commands : command'[d] = IF d = c THEN e ELSE command[d]
    BY DEF IInv
  <2>2. ASSUME NEW p \in Paths PROVE SettledAt(command', file, strange, p)
    <3>1. ~WritesAt(e, p) /\ ~WritesAt(command[c], p)
      BY DEF WritesAt
    <3> QED
      BY <2>1, <3>1, StaysSettled
  <2> QED
    BY <2>2 DEF Settled
<1>2. ASSUME NEW d \in Commands PROVE Good(command'[d], file, strange, faults')
  <2>1. CASE d = c
    BY <2>1 DEF IInv
  <2>2. CASE d # c
    <3>1. command'[d] = command[d] /\ Good(command[d], file, strange, faults)
      BY <2>2 DEF IInv
    <3> QED
      BY <3>1 DEF Good, Knowing
  <2> QED
    BY <2>1, <2>2
<1> QED
  BY <1>1, <1>2, <1>3 DEF IInv

\* A step of c that puts x at q, where the others may be looking.
LEMMA OneText ==
    ASSUME IInv, NEW c \in Commands, NEW e, NEW q \in Paths, NEW x \in Contents,
           DOMAIN command' = Commands, command'[c] = e,
           \A d \in Commands \ {c} : command'[d] \in {Touched(d, q), Disturbed(d, q)},
           Head(command[c].left) = q, Head(e.left) = q, SettledAt(command', file', strange', q),
           file' = [file EXCEPT ![q] = x], x # Absent \/ x = file[q],
           strange' \in {strange, strange \cup {q}},
           q \in strange' \/ x \in {Absent, EmptyFile, DefaultFile(q)} \cup Pieces,
           faults' \in Nat, faults' = 0 => faults = 0,
           Good(e, file', strange', faults')
    PROVE  IInv'
<1>1. DOMAIN command' = Commands
  OBVIOUS
<1>5. Settled(command', file', strange')
  <2>1. ASSUME NEW p \in Paths \ {q} PROVE SettledAt(command', file', strange', p)
    <3>1. ASSUME NEW d \in Commands
          PROVE  /\ WritesAt(command'[d], p) <=> WritesAt(command[d], p)
                 /\ WritesAt(command[d], p) => (command'[d].mixed <=> command[d].mixed)
      <4>1. CASE d = c
        BY <4>1 DEF WritesAt
      <4>2. CASE d # c
        <5>1. /\ \A slot \in Slots \ {"touched", "mixed", "amid"} : command'[d][slot] = command[d][slot]
              /\ ~WritesAt(command[d], q) => (command'[d].mixed <=> command[d].mixed)
          BY <4>2, DisturbedIs
        <5> QED
          BY <5>1 DEF WritesAt, Slots
      <4> QED
        BY <4>1, <4>2
    <3>2. file'[p] = file[p]
      BY DEF IInv
    <3> QED
      BY <3>1, <3>2, StaysSettled
  <2> QED
    BY <2>1 DEF Settled
<1>2. /\ file' \in [Paths -> Contents] /\ file'[q] = x
      /\ \A p \in Paths \ {q} : file'[p] = file[p]
  BY DEF IInv
<1>3. OwnTexts(file', strange')
  BY <1>2 DEF IInv, OwnTexts
<1>4. ASSUME NEW d \in Commands PROVE Good(command'[d], file', strange', faults')
  <2>1. CASE d = c
    BY <2>1
  <2>2. CASE d # c
    <3>1. command'[d] \in {Touched(d, q), Disturbed(d, q)}
      BY <2>2
    <3>2. /\ \A p \in Paths \ {q} : file'[p] = file[p]
          /\ file'[q] # Absent \/ file'[q] = file[q] \/ q \in strange'
          /\ strange \subseteq strange'
      BY <1>2
    <3>3. Good(Touched(d, q), file', strange', faults')
      BY <3>2, TouchedIsGood
    <3>4. Good(Disturbed(d, q), file', strange', faults')
      BY <3>2, TouchedIsGood
    <3> QED
      BY <3>1, <3>3, <3>4
  <2> QED
    BY <2>1, <2>2
<1> QED
  BY <1>1, <1>2, <1>3, <1>4, <1>5 DEF IInv

LEMMA FaultIs == IInv /\ Fault => faults' \in Nat /\ faults' # 0
BY DEF IInv, Fault

\* What IInv says of a command in progress.
LEMMA Known ==
    ASSUME IInv, NEW c \in Commands, command[c].stage # "idle"
    PROVE  /\ Good(command[c], file, strange, faults) /\ DOMAIN command[c] = Slots
           /\ Looking(c) = Head(command[c].left) /\ Looking(c) \in Paths
           /\ command[c].left \in Seq(Paths) /\ command[c].left # <<>>
BY HeadIs DEF IInv, Good, Shaped, Looking

LEMMA EndsIs ==
    ASSUME IInv, NEW c \in Commands, command[c].stage # "idle", NEW ok \in BOOLEAN, Ends(c, ok)
    PROVE  \E e : /\ command' = [command EXCEPT ![c] = e]
                 /\ DOMAIN e = Slots /\ e.stage = "done" /\ e.ok = ok
                 /\ e.op = command[c].op /\ e.left = command[c].left /\ e.mixed = command[c].mixed
<1> DEFINE e == [command[c] EXCEPT !.stage = "done", !.ok = ok]
<1>1. /\ DOMAIN e = Slots /\ e.stage = "done" /\ e.ok = ok
      /\ e.op = command[c].op /\ e.left = command[c].left /\ e.mixed = command[c].mixed
  BY Known DEF Slots
<1>2. command' = [command EXCEPT ![c] = e]
  BY DEF Ends
<1> QED
  BY <1>1, <1>2

LEMMA GotoIs ==
    ASSUME IInv, NEW c \in Commands, command[c].stage # "idle", NEW stage, Goto(c, stage)
    PROVE  \E e : /\ command' = [command EXCEPT ![c] = e]
                 /\ DOMAIN e = Slots /\ e.stage = stage /\ e.force = command[c].force
                 /\ e.op = command[c].op /\ e.left = command[c].left /\ e.mixed = command[c].mixed
<1> DEFINE e == [command[c] EXCEPT !.stage = stage]
<1>1. /\ DOMAIN e = Slots /\ e.stage = stage /\ e.force = command[c].force
      /\ e.op = command[c].op /\ e.left = command[c].left /\ e.mixed = command[c].mixed
  BY Known DEF Slots
<1>2. command' = [command EXCEPT ![c] = e]
  BY DEF Goto
<1> QED
  BY <1>1, <1>2

-----------------------------------------------------------------------------
LEMMA FoundIInv ==
    ASSUME IInv, NEW c \in Commands, At(c, "look"), file[Looking(c)] # Absent, Found(c),
           UNCHANGED <<file, strange, faults>>
    PROVE  IInv'
<1> USE DEF Good, Shaped, Knowing
<1>1. command[c].stage = "look"
  BY DEF At
<1>2. CASE command[c].op = "init" /\ command[c].force
  <2>0. Goto(c, "create")
    BY <1>2 DEF Found
  <2>1. PICK e : /\ command' = [command EXCEPT ![c] = e]
                 /\ DOMAIN e = Slots /\ e.stage = "create" /\ e.force = command[c].force
                 /\ e.op = command[c].op /\ e.left = command[c].left /\ e.mixed = command[c].mixed
    BY <1>1, <2>0, GotoIs
  <2>2. Good(e, file, strange, faults')
    BY <1>1, <1>2, <2>1, Known DEF Creating
  <2> QED
    BY <1>1, <2>1, <2>2, OneStep DEF IInv
<1>3. CASE command[c].op = "init" /\ ~command[c].force
  <2>0. Ends(c, FALSE)
    BY <1>3 DEF Found
  <2>1. PICK e : /\ command' = [command EXCEPT ![c] = e]
                 /\ DOMAIN e = Slots /\ e.stage = "done"
                 /\ e.op = command[c].op /\ e.left = command[c].left /\ e.mixed = command[c].mixed
    BY <1>1, <2>0, EndsIs
  <2>2. Good(e, file, strange, faults')
    BY <1>1, <1>3, <2>1, Known DEF Creating
  <2> QED
    BY <1>1, <2>1, <2>2, OneStep DEF IInv
<1>4. CASE command[c].op = "path"
  <2> DEFINE e == [command[c] EXCEPT !.stage = "done", !.ok = TRUE, !.from = Looking(c)]
  <2>1. /\ DOMAIN e = Slots /\ e.stage = "done"
        /\ e.op = command[c].op /\ e.left = command[c].left /\ e.mixed = command[c].mixed
    BY <1>1, Known DEF Slots
  <2>2. command' = [command EXCEPT ![c] = e]
    BY <1>4 DEF Found
  <2> HIDE DEF e
  <2>3. Good(e, file, strange, faults')
    BY <1>1, <1>4, <2>1, Known DEF Creating
  <2> QED
    BY <1>1, <2>1, <2>2, <2>3, OneStep DEF IInv
<1>5. CASE command[c].op \notin {"init", "path"}
  <2>0. Goto(c, "open")
    BY <1>5 DEF Found
  <2>1. PICK e : /\ command' = [command EXCEPT ![c] = e]
                 /\ DOMAIN e = Slots /\ e.stage = "open" /\ e.force = command[c].force
                 /\ e.op = command[c].op /\ e.left = command[c].left /\ e.mixed = command[c].mixed
    BY <1>1, <2>0, GotoIs
  <2>2. Good(e, file, strange, faults')
    BY <1>1, <1>5, <2>1, Known DEF Creating
  <2> QED
    BY <1>1, <2>1, <2>2, OneStep DEF IInv
<1> QED
  BY <1>2, <1>3, <1>4, <1>5

LEMMA TailIs ==
    ASSUME NEW l \in Seq(Paths), l # <<>>, Len(l) > 1
    PROVE  Len(l) # 1 /\ Tail(l) \in Seq(Paths) /\ Tail(l) # <<>>
<1>1. Len(l) \in Nat
  OBVIOUS
<1>2. Tail(l) \in Seq(Paths) /\ Len(Tail(l)) = Len(l) - 1
  BY HeadTailProperties
<1>3. \A n \in Nat : n > 1 => n # 1 /\ n - 1 # 0
  OBVIOUS
<1>4. Len(<<>>) = 0
  OBVIOUS
<1> QED
  BY <1>1, <1>2, <1>3, <1>4

LEMMA NotFoundIInv ==
    ASSUME IInv, NEW c \in Commands, At(c, "look"), NEW missed \in BOOLEAN, NotFound(c, missed),
           file[Looking(c)] = Absent \/ missed, faults' \in Nat, faults' = 0 => faults = 0,
           UNCHANGED <<file, strange>>
    PROVE  IInv'
<1> DEFINE e == [command[c] EXCEPT !.missed = @ \/ missed]
<1>1. /\ DOMAIN e = Slots /\ e.missed = (command[c].missed \/ missed)
      /\ \A slot \in Slots \ {"missed"} : e[slot] = command[c][slot]
  BY Known DEF At, Slots
<1>2. /\ e.op = command[c].op /\ e.stage = "look" /\ e.left = command[c].left
      /\ e.mixed = command[c].mixed /\ command[c].stage = "look"
  BY <1>1 DEF At, Slots
<1>3. command' = [command EXCEPT ![c] =
        IF Len(e.left) > 1 THEN [e EXCEPT !.left = Tail(e.left)]
        ELSE CASE e.op \in {"init", "create"} -> [e EXCEPT !.stage = "create"]
               [] e.op \in {"show", "validate"} /\ e.named -> [e EXCEPT !.stage = "done"]
               [] e.op \in {"show", "validate"} /\ ~e.named ->
                     [e EXCEPT !.stage = "report", !.cfg = Default]
               [] OTHER -> [e EXCEPT !.stage = "done", !.ok = TRUE]]
  BY DEF NotFound
<1> HIDE DEF e
<1>4. /\ Good(command[c], file, strange, faults)
      /\ e.left \in Seq(Paths) /\ e.left # <<>>
  BY <1>2, Known DEF At
<1>5. e.op \in Creating => Len(e.left) = 1
  BY <1>2, <1>4 DEF Good, Shaped
<1>6. CASE Len(e.left) > 1
  <2> DEFINE d == [e EXCEPT !.left = Tail(e.left)]
  <2>1. /\ DOMAIN d = Slots /\ d.left = Tail(e.left) /\ d.op = e.op /\ d.stage = "look"
        /\ d.mixed = e.mixed
    BY <1>1, <1>2 DEF Slots
  <2>2. Tail(e.left) \in Seq(Paths) /\ Tail(e.left) # <<>>
    BY <1>4, <1>6, TailIs
  <2>3. command' = [command EXCEPT ![c] = d]
    BY <1>3, <1>6
  <2> HIDE DEF d
  <2>4. Good(d, file, strange, faults')
    <3>1. e.op \notin Creating
      BY <1>4, <1>5, <1>6, TailIs
    <3> QED
      BY <1>2, <1>4, <2>1, <2>2, <3>1 DEF Good, Shaped, Knowing, Creating, At
  <2> QED
    BY <1>2, <2>1, <2>3, <2>4, OneStep
<1>7. CASE ~(Len(e.left) > 1) /\ e.op \in Creating
  <2> DEFINE d == [e EXCEPT !.stage = "create"]
  <2>1. /\ DOMAIN d = Slots /\ d.left = e.left /\ d.op = e.op /\ d.stage = "create"
        /\ d.mixed = e.mixed /\ d.missed = e.missed
    BY <1>1, <1>2 DEF Slots
  <2>2. command' = [command EXCEPT ![c] = d]
    BY <1>3, <1>7 DEF Creating
  <2> HIDE DEF d
  <2>3. ~d.missed => file[Head(d.left)] = Absent
    BY <1>1, <1>2, <2>1 DEF Looking
  <2>4. Good(d, file, strange, faults')
    BY <1>2, <1>4, <1>5, <1>7, <2>1, <2>3 DEF Good, Shaped, Knowing, Creating
  <2> QED
    BY <1>2, <2>1, <2>2, <2>4, OneStep
<1>8. CASE ~(Len(e.left) > 1) /\ e.op \notin Creating
  <2>1. PICK d : /\ command' = [command EXCEPT ![c] = d]
                 /\ DOMAIN d = Slots /\ d.left = e.left /\ d.op = e.op
                 /\ d.stage \in {"done", "report"} /\ d.mixed = e.mixed
    <3> DEFINE unnamed == [e EXCEPT !.stage = "done"]
               default == [e EXCEPT !.stage = "report", !.cfg = Default]
               nothing == [e EXCEPT !.stage = "done", !.ok = TRUE]
    <3>1. \A d \in {unnamed, default, nothing} :
             /\ DOMAIN d = Slots /\ d.left = e.left /\ d.op = e.op
             /\ d.stage \in {"done", "report"} /\ d.mixed = e.mixed
      BY <1>1 DEF Slots
    <3>2. \E d \in {unnamed, default, nothing} : command' = [command EXCEPT ![c] = d]
      BY <1>3, <1>8 DEF Creating
    <3> QED
      BY <3>1, <3>2
  <2>2. Good(d, file, strange, faults')
    BY <1>2, <1>4, <1>8, <2>1 DEF Good, Shaped, Knowing, Creating
  <2> QED
    BY <1>2, <2>1, <2>2, OneStep
<1> QED
  BY <1>6, <1>7, <1>8

LEMMA LookIInv == \A c \in Commands : IInv /\ Look(c) => IInv'
<1> SUFFICES ASSUME NEW c \in Commands, IInv, Look(c) PROVE IInv'
  OBVIOUS
<1>1. CASE file[Looking(c)] # Absent /\ Found(c) /\ UNCHANGED faults
  BY <1>1, FoundIInv DEF Look
<1>2. CASE file[Looking(c)] = Absent /\ NotFound(c, FALSE) /\ UNCHANGED faults
  BY <1>2, NotFoundIInv DEF Look, IInv
<1>3. CASE Fault /\ NotFound(c, TRUE)
  BY <1>3, NotFoundIInv, FaultIs DEF Look
<1> QED
  BY <1>1, <1>2, <1>3 DEF Look

LEMMA OpenIInv == \A c \in Commands : IInv /\ Open(c) => IInv'
<1> SUFFICES ASSUME NEW c \in Commands, IInv, Open(c) PROVE IInv'
  OBVIOUS
<1> DEFINE q == Looking(c)
<1>1. PICK cfg : /\ command' = [command EXCEPT ![c] = Opened(c, cfg)]
                 /\ \/ /\ faults' = faults
                       /\ command[c].amid \/ cfg = LoadsText(c, file[q])
                    \/ Fault
  BY DEF Open
<1>2. faults' \in Nat /\ (faults' = 0 => faults = 0 /\ (command[c].amid \/ cfg = LoadsText(c, file[q])))
  BY <1>1, FaultIs DEF IInv
<1>3. command[c].stage = "open" /\ Good(command[c], file, strange, faults) /\ q \in Paths
  BY Known DEF Open, At
<1> DEFINE e == Opened(c, cfg)
<1>4. /\ DOMAIN e = Slots /\ e.op = command[c].op /\ e.left = command[c].left
      /\ e.mixed = command[c].mixed /\ e.stage \in {"done", "report"} /\ e.cfg = cfg
      /\ e.op = "create" => e.stage = "done"
      /\ e.op = "create" /\ cfg # NoConfig => e.ok
      /\ e.amid = Amid(c)
  BY <1>3, Known DEF Opened, Slots
<1> HIDE DEF e
<1>5. ASSUME e.op = "create", q \notin strange \cup Json, faults' = 0, ~e.amid
      PROVE  cfg = Default
  <2>1. ~command[c].amid /\ (Writers(q) = {} \/ file[q] = EmptyFile)
    BY <1>4, <1>5 DEF Amid
  <2>2. file[q] \in {EmptyFile, DefaultFile(q)} \cup Pieces
    BY <1>3, <1>4, <1>5, Known DEF Good, Knowing, Creating, Looking, IInv, OwnTexts
  <2>3. CASE Writers(q) = {}
    <3>1. \A d \in Commands : ~WritesAt(command[d], q)
      BY <1>3, <2>3, WritersAre
    <3>2. file[q] \in Pieces => file[q] \in {Absent, DefaultFile(q)}
      BY <1>3, <1>5, <3>1 DEF IInv, Settled, SettledAt
    <3>3. Absent \notin Pieces
      BY ConfigurationAssumption
    <3>4. file[q] \in {EmptyFile, DefaultFile(q)} /\ q \in Paths \ Json
      BY <1>3, <1>5, <2>2, <3>2, <3>3
    <3> QED
      BY <1>2, <1>5, <2>1, <3>4, DefaultsLoad DEF LoadsText
  <2>4. CASE file[q] = EmptyFile
    BY <1>2, <1>3, <1>5, <2>1, <2>4, DefaultsLoad DEF LoadsText
  <2> QED
    BY <2>1, <2>3, <2>4
<1>6. NoConfig # Default
  BY ConfigurationAssumption
<1>7. Good(e, file, strange, faults')
  BY <1>3, <1>4, <1>5, <1>6 DEF Good, Shaped, Knowing, Creating, Looking
<1> QED
  BY <1>1, <1>2, <1>3, <1>4, <1>7, OneStep DEF Open, e

LEMMA ValidIsBoolean == ASSUME NEW cfg PROVE Valid(cfg) \in BOOLEAN
<1>1. MountsValid(cfg.mounts) \in BOOLEAN
  BY DEF MountsValid
<1> QED
  BY <1>1 DEF Valid

LEMMA ReportIInv == \A c \in Commands : IInv /\ Report(c) => IInv'
<1> SUFFICES ASSUME NEW c \in Commands, IInv, Report(c) PROVE IInv'
  OBVIOUS
<1>1. command[c].stage = "report" /\ Good(command[c], file, strange, faults)
  BY Known DEF Report, Reports, At
<1>2. PICK e : /\ command' = [command EXCEPT ![c] = e]
               /\ DOMAIN e = Slots /\ e.stage = "done" /\ e.op = command[c].op
               /\ e.left = command[c].left /\ e.mixed = command[c].mixed
  <2>1. CASE command[c].op = "show"
    <3> DEFINE e == [command[c] EXCEPT !.stage = "done", !.ok = TRUE,
                            !.cfg = MergeEnvironment(command[c].env, command[c].cfg)]
    <3>1. /\ DOMAIN e = Slots /\ e.stage = "done" /\ e.op = command[c].op
          /\ e.left = command[c].left /\ e.mixed = command[c].mixed
      BY <1>1, Known DEF Slots
    <3>2. command' = [command EXCEPT ![c] = e]
      BY <2>1 DEF Report, Reports
    <3> QED
      BY <3>1, <3>2
  <2>2. CASE command[c].op # "show"
    <3>1. Ends(c, Valid(command[c].cfg))
      BY <2>2 DEF Report, Reports
    <3>2. Valid(command[c].cfg) \in BOOLEAN
      BY ValidIsBoolean
    <3> QED
      BY <1>1, <3>1, <3>2, EndsIs
  <2> QED
    BY <2>1, <2>2
<1>3. Good(e, file, strange, faults')
  BY <1>1, <1>2 DEF Good, Shaped, Knowing, Creating
<1> QED
  BY <1>1, <1>2, <1>3, OneStep DEF Report, Reports, IInv

-----------------------------------------------------------------------------
LEMMA CreateIInv == \A c \in Commands : IInv /\ Create(c) => IInv'
<1> SUFFICES ASSUME NEW c \in Commands, IInv, Create(c) PROVE IInv'
  OBVIOUS
<1> DEFINE q == Looking(c)
<1>1. command[c].stage = "create" /\ Good(command[c], file, strange, faults) /\ q \in Paths
  BY Known DEF Create, At
<1>2. CASE Fault /\ Ends(c, FALSE) /\ file' = file
  <2>1. PICK e : /\ command' = [command EXCEPT ![c] = e]
                 /\ DOMAIN e = Slots /\ e.stage = "done"
                 /\ e.op = command[c].op /\ e.left = command[c].left /\ e.mixed = command[c].mixed
    BY <1>1, <1>2, EndsIs
  <2>2. faults' \in Nat /\ faults' # 0
    BY <1>2, FaultIs
  <2>3. Good(e, file, strange, faults')
    BY <1>1, <2>1, <2>2 DEF Good, Shaped, Knowing, Creating
  <2> QED
    BY <1>1, <1>2, <2>1, <2>2, <2>3, OneStep DEF Create
<1> DEFINE e == [command[c] EXCEPT !.stage = "write"]
<1>3. CASE /\ file' = [file EXCEPT ![q] = EmptyFile]
           /\ command' = [d \in Commands |-> IF d = c THEN e ELSE Disturbed(d, q)]
           /\ UNCHANGED faults
  <2>1. /\ DOMAIN e = Slots /\ e.stage = "write"
        /\ e.op = command[c].op /\ e.left = command[c].left /\ e.mixed = command[c].mixed
    BY <1>1, Known DEF Slots
  <2> HIDE DEF e
  <2>2. EmptyFile \in Contents /\ EmptyFile # Absent
    BY ConfigurationAssumption DEF Contents
  <2>3. Head(command[c].left) = q /\ Head(e.left) = q /\ file'[q] = EmptyFile /\ ~e.mixed
    BY <1>1, <1>3, <2>1 DEF IInv, Looking, Good, Shaped
  <2>4. Good(e, file', strange, faults')
    BY <1>1, <2>1, <2>2, <2>3 DEF Good, Shaped, Knowing, Creating
  <2>5. strange' = strange /\ faults' = faults /\ faults \in Nat
    BY <1>3 DEF Create, IInv
  <2>6. /\ DOMAIN command' = Commands /\ command'[c] = e
        /\ \A d \in Commands \ {c} : command'[d] = Disturbed(d, q)
    BY <1>3
  <2>7. SettledAt(command', file', strange', q)
    BY <2>1, <2>3, <2>6 DEF SettledAt, WritesAt
  <2> QED
    BY <1>1, <1>3, <2>2, <2>3, <2>4, <2>5, <2>6, <2>7, OneText
<1> QED
  BY <1>2, <1>3 DEF Create

(***************************************************************************)
(* A step of writing that leaves x.  Where the text of c goes into another *)
(* that is not finished, the last who emptied the file goes on.            *)
(***************************************************************************)
LEMMA WritesIInv ==
    ASSUME IInv, NEW c \in Commands, command[c].stage \in {"write", "rest"}, NEW x, NEW e,
           Writes(c, x), Told(c, e), DOMAIN e = Slots, e.stage \in {"rest", "done"},
           e.op = command[c].op, e.left = command[c].left, e.mixed = command[c].mixed,
           e.stage = "done" /\ faults' = 0 => e.ok /\ e.cfg = Default,
           x \in {file[Looking(c)], DefaultFile(Looking(c))} \cup Pieces,
           strange' \in {strange, strange \cup {Looking(c)}},
           \/ Looking(c) \in strange'
           \/ x = DefaultFile(Looking(c))
           \/ command[c].mixed /\ x \in Mixed(Looking(c))
           \/ ~command[c].mixed /\ e.stage = "rest",
           faults' \in Nat, faults' = 0 => faults = 0
    PROVE  IInv'
<1> DEFINE q == Looking(c)
<1>1. /\ Good(command[c], file, strange, faults) /\ q \in Paths /\ q = Head(command[c].left)
      /\ file[q] \in Contents
  BY Known DEF IInv
<1>2. /\ file' = [file EXCEPT ![q] = x] /\ DOMAIN command' = Commands /\ command'[c] = e
      /\ \A d \in Commands \ {c} : command'[d] = Touched(d, q)
  BY DEF Writes, Told
<1>3. x \in Contents /\ (x # Absent \/ x = file[q])
  BY <1>1, ConfigurationAssumption DEF Contents
<1>4. q \in strange' \/ x \in {Absent, EmptyFile, DefaultFile(q)} \cup Pieces
  BY <1>1, <1>3 DEF IInv, OwnTexts
<1>5. Good(e, file', strange', faults')
  <2>1. strange \subseteq strange' /\ file'[q] = x
    BY <1>1, <1>2 DEF IInv
  <2> QED
    BY <1>1, <1>3, <2>1 DEF Good, Shaped, Knowing, Creating
<1>6. SettledAt(command', file', strange', q)
  <2>1. file'[q] = x /\ WritesAt(command[c], q)
    BY <1>1, <1>2 DEF IInv, WritesAt
  <2>2. CASE q \in strange' \/ x = DefaultFile(q)
    BY <2>1, <2>2 DEF SettledAt
  <2>3. CASE ~command[c].mixed /\ e.stage = "rest"
    BY <1>1, <1>2, <2>3 DEF SettledAt, WritesAt
  <2>4. CASE command[c].mixed /\ x \in Mixed(q) /\ q \notin strange'
    <3>1. CASE file[q] \in {Absent, DefaultFile(q)}
      BY <2>1, <2>4, <3>1 DEF Mixed, SettledAt
    <3>2. CASE file[q] \notin {Absent, DefaultFile(q)}
      <4>1. PICK d \in Commands : WritesAt(command[d], q) /\ ~command[d].mixed
        BY <1>1, <2>1, <2>4, <3>2 DEF IInv, Settled, SettledAt
      <4>2. d # c /\ command'[d] = Touched(d, q)
        BY <1>2, <2>4, <4>1
      <4>3. /\ \A slot \in Slots \ {"touched", "mixed", "amid"} :
                  Touched(d, q)[slot] = command[d][slot]
            /\ Touched(d, q).mixed = command[d].mixed
        BY <1>1, DisturbedIs
      <4>4. WritesAt(command'[d], q) /\ ~command'[d].mixed
        BY <4>1, <4>2, <4>3 DEF WritesAt, Slots
      <4> QED
        BY <4>4 DEF SettledAt
    <3> QED
      BY <3>1, <3>2
  <2> QED
    BY <2>2, <2>3, <2>4
<1> QED
  BY <1>1, <1>2, <1>3, <1>4, <1>5, <1>6, OneText

LEMMA WriteIInv == \A c \in Commands : IInv /\ Write(c) => IInv'
<1> SUFFICES ASSUME NEW c \in Commands, IInv, Write(c) PROVE IInv'
  OBVIOUS
<1> DEFINE q == Looking(c)
           b == command[c]
<1>1. b.stage \in {"write", "rest"}
  BY DEF Write, WritePiece, WriteRest, WriteFails, At
<1>2. DOMAIN b = Slots /\ faults \in Nat
  BY <1>1, Known DEF IInv
<1>3. Mixed(q) \subseteq {file[q], DefaultFile(q)} \cup Pieces
  BY DEF Mixed
<1>4. CASE WritePiece(c)
  <2> DEFINE e == [b EXCEPT !.stage = "rest"]
  <2>1. /\ DOMAIN e = Slots /\ e.stage = "rest" /\ e.op = b.op /\ e.left = b.left
        /\ e.mixed = b.mixed
    BY <1>2 DEF Slots
  <2>2. /\ Told(c, e) /\ strange' = strange /\ faults' = faults
        /\ \E x \in IF b.mixed THEN Mixed(q) ELSE Pieces \cup {DefaultFile(q)} : Writes(c, x)
    BY <1>4 DEF WritePiece
  <2> HIDE DEF e
  <2>3. PICK x : /\ Writes(c, x) /\ x \in {file[q], DefaultFile(q)} \cup Pieces
                 /\ b.mixed => x \in Mixed(q)
    BY <1>3, <2>2
  <2> HIDE DEF b, q
  <2> QED
    BY <1>1, <1>2, <2>1, <2>2, <2>3, WritesIInv DEF b, q
<1>5. CASE WriteRest(c)
  <2> DEFINE e == [b EXCEPT !.stage = "done", !.ok = TRUE, !.cfg = Default]
  <2>1. /\ DOMAIN e = Slots /\ e.stage = "done" /\ e.op = b.op /\ e.left = b.left
        /\ e.mixed = b.mixed /\ e.ok = TRUE /\ e.cfg = Default
    BY <1>2 DEF Slots
  <2>2. /\ Told(c, e) /\ strange' = strange /\ faults' = faults
        /\ \E x \in IF b.mixed THEN Mixed(q) ELSE {DefaultFile(q)} : Writes(c, x)
    BY <1>5 DEF WriteRest
  <2> HIDE DEF e
  <2>3. PICK x : /\ Writes(c, x) /\ x \in {file[q], DefaultFile(q)} \cup Pieces
                 /\ x = DefaultFile(q) \/ (b.mixed /\ x \in Mixed(q))
    BY <1>3, <2>2
  <2> HIDE DEF b, q
  <2> QED
    BY <1>1, <1>2, <2>1, <2>2, <2>3, WritesIInv DEF b, q
<1>6. CASE WriteFails(c)
  <2> DEFINE e == [b EXCEPT !.stage = "done", !.cfg = NoConfig]
  <2>1. /\ DOMAIN e = Slots /\ e.stage = "done" /\ e.op = b.op /\ e.left = b.left
        /\ e.mixed = b.mixed
    BY <1>2 DEF Slots
  <2>2. /\ Told(c, e) /\ strange' = strange \cup {q} /\ Fault
        /\ \E x \in {file[q]} \cup (IF file[q] = Absent THEN {} ELSE Pieces) : Writes(c, x)
    BY <1>6 DEF WriteFails
  <2> HIDE DEF e
  <2>3. PICK x : Writes(c, x) /\ x \in {file[q], DefaultFile(q)} \cup Pieces
    BY <2>2
  <2>4. faults' \in Nat /\ faults' # 0
    BY <2>2, FaultIs
  <2> HIDE DEF b, q
  <2> QED
    BY <1>1, <1>2, <2>1, <2>2, <2>3, <2>4, WritesIInv DEF b, q
<1> QED
  BY <1>4, <1>5, <1>6 DEF Write

LEMMA ReturnIInv == \A c \in Commands : IInv /\ Return(c) => IInv'
<1> SUFFICES ASSUME NEW c \in Commands, IInv, Return(c) PROVE IInv'
  OBVIOUS
<1>1. command[c].stage = "done" /\ Idle.stage = "idle"
  BY DEF Return, At, Idle
<1> QED
  BY <1>1, OneStep, IdleIsGood DEF Return, IInv

LEMMA CrashIInv == \A c \in Commands : IInv /\ Crash(c) => IInv'
<1> SUFFICES ASSUME NEW c \in Commands, IInv, Crash(c) PROVE IInv'
  OBVIOUS
<1>1. /\ command' = [command EXCEPT ![c] = Idle] /\ UNCHANGED <<file, faults>>
      /\ strange \subseteq strange'
      /\ \A p \in Paths \ strange' : WritesAt(command[c], p) => Writers(p) = {c} /\ file[p] = EmptyFile
  BY WritersAre DEF Crash
<1>2. \A d \in Commands : command'[d] = IF d = c THEN Idle ELSE command[d]
  BY <1>1 DEF IInv
<1>3. \A d \in Commands : Good(command'[d], file', strange', faults')
  <2>1. ASSUME NEW d \in Commands \ {c} PROVE Good(command[d], file, strange', faults)
    BY <1>1 DEF IInv, Good, Knowing
  <2> QED
    BY <1>1, <1>2, <2>1, IdleIsGood
<1>4. ASSUME NEW p \in Paths PROVE SettledAt(command', file', strange', p)
  <2>1. ~WritesAt(Idle, p)
    BY DEF WritesAt, Idle
  <2>2. CASE WritesAt(command[c], p)
    <3> SUFFICES ASSUME p \notin strange' PROVE SettledAt(command', file', strange', p)
      BY DEF SettledAt
    <3>1. file'[p] = EmptyFile /\ \A d \in Commands : WritesAt(command[d], p) => d = c
      BY <1>1, <2>2, WritersAre
    <3>2. \A d \in Commands : ~WritesAt(command'[d], p)
      BY <1>2, <2>1, <3>1
    <3>3. EmptyFile \notin Pieces
      BY DEF EmptyFile, Pieces, CutFile, ShortFile
    <3> QED
      BY <3>1, <3>2, <3>3 DEF SettledAt
  <2>3. CASE ~WritesAt(command[c], p)
    BY <1>1, <1>2, <2>1, <2>3, StaysSettled
  <2> QED
    BY <2>2, <2>3
<1>5. OwnTexts(file', strange')
  BY <1>1 DEF IInv, OwnTexts
<1>6. DOMAIN command' = Commands
  BY <1>1 DEF IInv
<1> QED
  BY <1>1, <1>3, <1>4, <1>5, <1>6 DEF IInv, Settled

LEMMA CallIInv ==
    ASSUME IInv, NEW c \in Commands, NEW op, NEW list \in Seq(Paths), NEW force, NEW env,
           list # <<>>, op \in Creating => Len(list) = 1, Call(c, op, list, force, env)
    PROVE  IInv'
<1> DEFINE e == [Idle EXCEPT !.op = op, !.stage = "look", !.left = list,
                             !.named = list # Search, !.force = force, !.env = env,
                             !.stayed = {p \in Paths : list = Search /\ file[p] # Absent}]
<1>1. command' = [command EXCEPT ![c] = e]
  BY DEF Call
<1>2. /\ DOMAIN e = Slots /\ e.op = op /\ e.stage = "look" /\ e.left = list /\ e.mixed = FALSE
  BY DEF Idle, Slots
<1> HIDE DEF e
<1>3. Good(e, file, strange, faults')
  BY <1>2 DEF Good, Shaped, Knowing
<1>4. /\ UNCHANGED <<file, strange>> /\ faults' \in Nat /\ (faults' = 0 => faults = 0)
      /\ {command[c].stage, e.stage} \cap {"write", "rest"} = {}
  BY <1>2 DEF Call, At, IInv
<1> QED
  BY <1>1, <1>3, <1>4, OneStep

LEMMA EditIInv ==
    ASSUME IInv, NEW p \in Paths, NEW content \in Documents \cup {Absent, EmptyFile},
           Edit(p, content)
    PROVE  IInv'
<1> DEFINE e(d) == [Disturbed(d, p) EXCEPT !.stayed = IF content = Absent THEN @ \ {p} ELSE @]
<1>1. command' = [d \in Commands |-> e(d)]
  BY DEF Edit
<1>2. /\ file' \in [Paths -> Contents] /\ strange' = strange \cup {p} /\ faults' = faults
      /\ file' = [file EXCEPT ![p] = content]
      /\ \A q \in Paths \ {p} : file'[q] = file[q]
  BY DEF Edit, IInv, Contents
<1>3. OwnTexts(file', strange')
  BY <1>2 DEF IInv, OwnTexts
<1>4. ASSUME NEW d \in Commands
      PROVE  /\ Good(e(d), file', strange', faults')
             /\ e(d).stage = command[d].stage /\ e(d).left = command[d].left
             /\ ~WritesAt(command[d], p) => (e(d).mixed <=> command[d].mixed)
  <2> DEFINE t == Disturbed(d, p)
  <2>1. /\ Good(t, file', strange', faults') /\ DOMAIN t = Slots
        /\ \A slot \in Slots \ {"touched", "mixed", "amid"} : t[slot] = command[d][slot]
        /\ ~WritesAt(command[d], p) => (t.mixed <=> command[d].mixed)
    <3>1. /\ \A q \in Paths \ {p} : file'[q] = file[q]
          /\ p \in strange' /\ strange \subseteq strange' /\ (faults' = 0 => faults = 0)
      BY <1>2
    <3>2. t \in {Touched(d, p), Disturbed(d, p)}
      OBVIOUS
    <3> HIDE DEF t
    <3> QED
      BY <3>1, <3>2, TouchedIsGood
  <2> HIDE DEF t
  <2> DEFINE n == [t EXCEPT !.stayed = IF content = Absent THEN @ \ {p} ELSE @]
  <2>2. /\ DOMAIN n = Slots /\ n.op = t.op /\ n.stage = t.stage /\ n.left = t.left
        /\ n.force = t.force /\ n.touched = t.touched /\ n.missed = t.missed
        /\ n.ok = t.ok /\ n.cfg = t.cfg /\ n.mixed = t.mixed /\ n.amid = t.amid
    BY <2>1 DEF Slots
  <2>3. e(d) = n
    BY DEF t
  <2> HIDE DEF n, e
  <2>4. Good(n, file', strange', faults')
    BY <2>1, <2>2 DEF Good, Shaped, Knowing
  <2> QED
    BY <2>1, <2>2, <2>3, <2>4 DEF Slots
<1> HIDE DEF e
<1>5. ASSUME NEW q \in Paths PROVE SettledAt(command', file', strange', q)
  <2>1. CASE q = p
    BY <1>2, <2>1 DEF SettledAt
  <2>2. CASE q # p
    <3>1. \A d \in Commands : WritesAt(command[d], q) => ~WritesAt(command[d], p)
      BY <2>2 DEF WritesAt
    <3>2. \A d \in Commands : /\ WritesAt(command'[d], q) <=> WritesAt(command[d], q)
                              /\ WritesAt(command[d], q) => (command'[d].mixed <=> command[d].mixed)
      BY <1>1, <1>4, <3>1 DEF WritesAt
    <3> QED
      BY <1>2, <2>2, <3>2, StaysSettled
  <2> QED
    BY <2>1, <2>2
<1> QED
  BY <1>1, <1>2, <1>3, <1>4, <1>5 DEF IInv, Settled

LEMMA NextIInv == IInv /\ [Next]_vars => IInv'
<1> SUFFICES ASSUME IInv, [Next]_vars PROVE IInv'
  OBVIOUS
<1>0. Len(<<>>) = 0
  OBVIOUS
<1>1. /\ Search \in Seq(Paths) /\ Search # <<>>
      /\ \A p \in Paths : <<p>> \in Seq(Paths) /\ <<p>> # <<>> /\ Len(<<p>>) = 1
  BY <1>0, ConfigurationAssumption
<1>2. ASSUME NEW c \in Commands, NEW env \in Environments, NEW op \in {"show", "validate"},
             NEW list \in {Search} \cup {<<p>> : p \in Paths}, Call(c, op, list, FALSE, env)
      PROVE  IInv'
  BY <1>1, <1>2, CallIInv DEF Creating
<1>3. ASSUME NEW c \in Commands, NEW env \in Environments, NEW p \in Paths,
             Call(c, "create", <<p>>, FALSE, env)
      PROVE  IInv'
  BY <1>1, <1>3, CallIInv
<1>4. ASSUME NEW c \in Commands, NEW p \in Paths, NEW force \in BOOLEAN,
             Call(c, "init", <<p>>, force, Idle.env)
      PROVE  IInv'
  BY <1>1, <1>4, CallIInv
<1>5. ASSUME NEW c \in Commands, Call(c, "path", Search, FALSE, Idle.env) PROVE IInv'
  BY <1>1, <1>5, CallIInv DEF Creating
<1>6. ASSUME NEW c \in Commands, Runs(c) \/ Crash(c) PROVE IInv'
  BY <1>6, LookIInv, OpenIInv, ReportIInv, CreateIInv, WriteIInv, ReturnIInv, CrashIInv DEF Runs
<1>7. CASE UNCHANGED vars
  BY <1>7 DEF vars, IInv
<1> QED
  BY <1>2, <1>3, <1>4, <1>5, <1>6, <1>7, EditIInv DEF Next

LEMMA Invariance == Spec => []IInv
BY InitIInv, NextIInv, PTL DEF Spec

-----------------------------------------------------------------------------
LEMMA StepKeeps == IInv => Keeps
BY Known DEF Keeps, At, Good, Knowing

(***************************************************************************)
(* config init without --force and LoadOrCreate empty no file that was     *)
(* there when they looked (cmd/finspect/config.go, pkg/config/loader.go),  *)
(* for any number of commands and users.                                   *)
(***************************************************************************)
THEOREM ConfigurationKeeps == Spec => KeepsWhatIsThere
BY Invariance, StepKeeps, PTL DEF Spec, KeepsWhatIsThere

LEMMA IInvCreates == IInv => CreatesTogether
<1>1. ASSUME IInv, NEW p \in Paths \ strange, Writers(p) = {}
      PROVE  file[p] \in {Absent, EmptyFile, DefaultFile(p)}
  <2>1. \A c \in Commands : ~WritesAt(command[c], p)
    BY <1>1, WritersAre
  <2> QED
    BY <1>1, <2>1 DEF IInv, OwnTexts, Settled, SettledAt
<1>2. ASSUME IInv, NEW c \in Commands, At(c, "done"), command[c].op = "create",
             Looking(c) \notin strange \cup Json, ~command[c].amid, faults = 0
      PROVE  command[c].ok /\ command[c].cfg = Default
  BY <1>2, Known DEF At, Good, Knowing
<1> QED
  BY <1>1, <1>2 DEF CreatesTogether

(***************************************************************************)
(* A file that only finspect has written, however many at once, is whole   *)
(* when nobody is writing it (pkg/config/config.go:339), and LoadOrCreate  *)
(* of it (pkg/config/loader.go:109) gives the defaults unless it read a    *)
(* part.                                                                   *)
(***************************************************************************)
THEOREM ConfigurationCreates == Spec => []CreatesTogether
BY Invariance, IInvCreates, PTL

-----------------------------------------------------------------------------
(***************************************************************************)
(* What a command that searches has passed by, and what a configuration    *)
(* it reports on comes from.                                               *)
(***************************************************************************)
Passed(e) == Len(Search) - Len(e.left)

Searching(e, f) ==
    /\ e.op \in Creating => e.named
    /\ \A p \in e.stayed : p \in Paths /\ f[p] # Absent
    /\ e.stage # "idle" /\ ~e.named =>
          /\ Passed(e) \in 0 .. Len(Search) - 1
          /\ \A i \in DOMAIN e.left : e.left[i] = Search[Passed(e) + i]
          /\ ~e.missed => \A i \in 1 .. Passed(e) : Search[i] \notin e.stayed
          /\ e.stage \in {"report", "done"} /\ ~e.missed =>
                e.from = Head(e.left) \/ \A i \in DOMAIN Search : Search[i] \notin e.stayed

\* The defaults, and what files say over them; Expanded(env, d) is read of those that
\* are valid.
Sources == {Default} \cup {Decoded(p, content.says) : p \in Paths, content \in Contents \ {Absent}}
ValidSources == {d \in Sources : Valid(d)}

Reporting(e) ==
    /\ e.op = "show" => e.env \in Environments
    /\ e.cfg = NoConfig \/ DOMAIN e.cfg.mounts \subseteq Nat
    /\ e.stage # "done" => ~e.ok
    /\ e.stage = "report" => \E d \in ValidSources : e.cfg = Expanded(e.env, d)
    /\ e.stage = "done" /\ e.ok /\ e.op = "validate" => Valid(e.cfg)
    /\ e.stage = "done" /\ e.ok /\ e.op = "show" =>
          \E d \in ValidSources : e.cfg = MergeEnvironment(e.env, Expanded(e.env, d))

Telling(e, f) == Searching(e, f) /\ Reporting(e)
TInv == \A c \in Commands : Telling(command[c], file)

LEMMA SourceIs ==
    ASSUME NEW d \in Sources
    PROVE  /\ DOMAIN d = DOMAIN Default
           /\ DOMAIN d.mounts \subseteq Nat
           /\ \A i \in DOMAIN d.mounts : DOMAIN d.mounts[i] = {"path", "type"}
<1>1. CASE d = Default
  <2>1. DOMAIN Default.mounts = {1} /\ DOMAIN Default.mounts[1] = {"path", "type"}
    BY DEF Default
  <2> QED
    BY <1>1, <2>1
<1>2. ASSUME NEW p \in Paths, NEW content \in Contents \ {Absent}, d = Decoded(p, content.says)
      PROVE  /\ DOMAIN d = DOMAIN Default
             /\ DOMAIN d.mounts \subseteq Nat
             /\ \A i \in DOMAIN d.mounts : DOMAIN d.mounts[i] = {"path", "type"}
  <2> DEFINE cfg == Over(content.says, Default)
  <2>1. DOMAIN cfg = DOMAIN Default /\ "mounts" \in DOMAIN Default
    BY DEF Over, Default
  <2>2. DOMAIN Default.mounts \subseteq Nat
    BY DEF Default
  <2>3. "mounts" \in DOMAIN content.says => DOMAIN content.says.mounts \subseteq Nat
    <3>1. CASE content \in Documents
      BY <3>1, ConfigurationAssumption
    <3>2. CASE content \in Pieces \cup {EmptyFile}
      BY <3>2 DEF Pieces, EmptyFile, CutFile, ShortFile
    <3>3. CASE content \in {DefaultFile(q) : q \in Paths}
      BY <2>2, <3>3 DEF DefaultFile
    <3> QED
      BY <3>1, <3>2, <3>3 DEF Contents
  <2>4. DOMAIN cfg.mounts \subseteq Nat
    BY <2>1, <2>2, <2>3 DEF Over
  <2>5. \A i : DOMAIN Over(cfg.mounts[i], Slot(p, i)) = {"path", "type"}
    BY DEF Over, Slot, Default
  <2>6. d = [cfg EXCEPT !.mounts = [i \in DOMAIN cfg.mounts |-> Over(cfg.mounts[i], Slot(p, i))]]
    BY <1>2 DEF Decoded
  <2> HIDE DEF cfg
  <2> QED
    BY <2>1, <2>4, <2>5, <2>6
<1> QED
  BY <1>1, <1>2 DEF Sources

\* Expanding changes the paths of mounts only where there was a variable.
LEMMA ExpandedIs ==
    ASSUME NEW d \in Sources, NEW env
    PROVE  LET cfg == Expanded(env, d) IN
           /\ DOMAIN cfg = DOMAIN Default
           /\ DOMAIN cfg.mounts = DOMAIN d.mounts
           /\ \A i \in DOMAIN d.mounts : /\ cfg.mounts[i].path = Expand(env, d.mounts[i].path)
                                         /\ cfg.mounts[i].type = d.mounts[i].type
           /\ cfg.concurrency = d.concurrency /\ cfg.level = d.level
           /\ cfg.enabled = d.enabled /\ cfg.port = d.port
<1> DEFINE cfg == Expanded(env, d)
           mounts == [i \in DOMAIN d.mounts |->
                         [d.mounts[i] EXCEPT !.path = Expand(env, d.mounts[i].path)]]
<1>1. cfg = [d EXCEPT !.workdir = Expand(env, d.workdir), !.mounts = mounts]
  BY DEF Expanded
<1>2. /\ DOMAIN mounts = DOMAIN d.mounts
      /\ \A i \in DOMAIN d.mounts : /\ mounts[i].path = Expand(env, d.mounts[i].path)
                                    /\ mounts[i].type = d.mounts[i].type
  BY SourceIs
<1>3. DOMAIN d = {"workdir", "concurrency", "enabled", "port", "level", "mounts"}
  BY SourceIs DEF Default
<1> HIDE DEF mounts
<1>4. /\ DOMAIN cfg = DOMAIN d /\ cfg.mounts = mounts
      /\ cfg.concurrency = d.concurrency /\ cfg.level = d.level
      /\ cfg.enabled = d.enabled /\ cfg.port = d.port
  BY <1>1, <1>3
<1> QED
  BY <1>2, <1>4, SourceIs

\* What Load returns when it goes well.
LEMMA LoadedIs ==
    ASSUME NEW p \in Paths, NEW env, NEW content \in Contents, LoadFrom(p, env, content) # NoConfig
    PROVE  \E d \in ValidSources : LoadFrom(p, env, content) = Expanded(env, d)
<1>1. /\ content # Absent /\ Valid(Decoded(p, content.says))
      /\ LoadFrom(p, env, content) = Expanded(env, Decoded(p, content.says))
  BY DEF LoadFrom
<1> QED
  BY <1>1 DEF ValidSources, Sources

LEMMA MergedIs ==
    ASSUME NEW env \in Environments, NEW d \in Sources
    PROVE  LET cfg == Expanded(env, d)  merged == MergeEnvironment(env, cfg) IN
           /\ merged.mounts = cfg.mounts
           /\ \A f \in DOMAIN Default \ DOMAIN env.settings : merged[f] = cfg[f]
<1> DEFINE cfg == Expanded(env, d)  merged == MergeEnvironment(env, cfg)
<1>1. DOMAIN cfg = DOMAIN Default
  BY ExpandedIs
<1> HIDE DEF cfg
<1>2. \A f \in DOMAIN Default \ DOMAIN env.settings : merged[f] = cfg[f]
  BY <1>1 DEF MergeEnvironment, Over
<1>3. "mounts" \in DOMAIN Default \ DOMAIN env.settings
  BY ConfigurationAssumption DEF Default
<1> QED
  BY <1>2, <1>3 DEF cfg

\* A record that differs from e only in what nothing is told by.
Alike(t, e) ==
    /\ t.op = e.op /\ t.stage = e.stage /\ t.left = e.left /\ t.named = e.named
    /\ t.env = e.env /\ t.from = e.from /\ t.cfg = e.cfg /\ t.ok = e.ok
    /\ t.missed = e.missed

LEMMA SameTells ==
    ASSUME NEW e, NEW t, NEW f, NEW g, Telling(e, f), Alike(t, e),
           t.stayed \subseteq e.stayed, \A p \in t.stayed : f[p] # Absent => g[p] # Absent
    PROVE  Telling(t, g)
<1>1. Searching(t, g)
  BY DEF Telling, Searching, Passed, Alike
<1>2. Reporting(t)
  BY DEF Telling, Reporting, Alike
<1> QED
  BY <1>1, <1>2 DEF Telling

\* A step of c that leaves the files alone.
LEMMA TOneStep ==
    ASSUME IInv, TInv, NEW c \in Commands, NEW e, command' = [command EXCEPT ![c] = e],
           UNCHANGED file, Telling(e, file)
    PROVE  TInv'
<1>1. \A d \in Commands : Telling(command'[d], file)
  BY DEF TInv, IInv
<1> QED
  BY <1>1 DEF TInv

\* A step of c that puts x at q, where there was something or where there is now.
LEMMA TOneText ==
    ASSUME IInv, TInv, NEW c \in Commands, NEW e, NEW q \in Paths, NEW x,
           command'[c] = e,
           \A d \in Commands \ {c} : command'[d] \in {Touched(d, q), Disturbed(d, q)},
           file' = [file EXCEPT ![q] = x], x # Absent \/ x = file[q],
           Telling(e, file')
    PROVE  TInv'
<1>1. \A p \in Paths : file[p] # Absent => file'[p] # Absent
  BY DEF IInv
<1>2. ASSUME NEW d \in Commands \ {c} PROVE Telling(command'[d], file')
  <2> DEFINE t == command'[d]
  <2>1. Telling(command[d], file)
    BY DEF TInv
  <2>2. \A slot \in Slots \ {"touched", "mixed", "amid"} : t[slot] = command[d][slot]
    BY DisturbedIs
  <2> HIDE DEF t
  <2>3. Alike(t, command[d]) /\ t.stayed = command[d].stayed
    BY <2>2 DEF Slots, Alike
  <2>4. \A p \in t.stayed : file[p] # Absent => file'[p] # Absent
    BY <1>1, <2>1, <2>3 DEF Telling, Searching
  <2>5. Telling(t, file')
    <3>1. t.stayed \subseteq command[d].stayed
      BY <2>3
    <3> QED
      BY <2>1, <2>3, <2>4, <3>1, SameTells
  <2> QED
    BY <2>5 DEF t
<1>3. ASSUME NEW d \in Commands PROVE Telling(command'[d], file')
  BY <1>2
<1> QED
  BY <1>3 DEF TInv

\* The fields of c's record after a step that sets some of them.
LEMMA TellsIs ==
    ASSUME IInv, TInv, NEW c \in Commands, command[c].stage # "idle"
    PROVE  /\ Searching(command[c], file) /\ Reporting(command[c]) /\ DOMAIN command[c] = Slots
           /\ command[c].left \in Seq(Paths) /\ command[c].left # <<>>
           /\ Head(command[c].left) \in Paths /\ DOMAIN command = Commands
BY Known DEF TInv, Telling, IInv

LEMMA CountIs ==
    /\ Search \in Seq(Paths) /\ Len(Search) \in Nat /\ Len(Search) > 1
    /\ DOMAIN Search = 1 .. Len(Search)
BY ConfigurationAssumption

\* A command that was given its path, as init and LoadOrCreate are, has no search.
LEMMA NamedSearches ==
    ASSUME NEW e, NEW f, e.named, \A p \in e.stayed : p \in Paths /\ f[p] # Absent
    PROVE  Searching(e, f)
BY DEF Searching

LEMMA FoundTells ==
    ASSUME IInv, TInv, NEW c \in Commands, At(c, "look"), Found(c), UNCHANGED file
    PROVE  TInv'
<1> DEFINE e == command[c]
<1>1. e.stage = "look" /\ Searching(e, file) /\ Reporting(e) /\ DOMAIN e = Slots
  BY TellsIs DEF At
<1>2. CASE e.op = "init"
  <2>1. e.named
    BY <1>1, <1>2 DEF Searching, Creating
  <2>2. PICK stage \in {"create", "done"}, ok \in {FALSE, e.ok} :
            command' = [command EXCEPT ![c] = [e EXCEPT !.stage = stage, !.ok = ok]]
    <3>1. CASE e.force
      <4>1. command' = [command EXCEPT ![c] = [e EXCEPT !.stage = "create"]]
        BY <1>2, <3>1 DEF Found, Goto
      <4>2. [e EXCEPT !.stage = "create"] = [e EXCEPT !.stage = "create", !.ok = e.ok]
        BY <1>1 DEF Slots
      <4> QED
        BY <4>1, <4>2
    <3>2. CASE ~e.force
      BY <1>2, <3>2 DEF Found, Ends
    <3> QED
      BY <3>1, <3>2
  <2> DEFINE n == [e EXCEPT !.stage = stage, !.ok = ok]
  <2>3. /\ n.op = e.op /\ n.stage = stage /\ n.ok = ok /\ n.named = e.named /\ n.stayed = e.stayed
        /\ n.env = e.env /\ n.cfg = e.cfg
    BY <1>1 DEF Slots
  <2> HIDE DEF n
  <2>4. Searching(n, file)
    BY <1>1, <2>1, <2>3, NamedSearches DEF Searching
  <2>5. Reporting(n)
    BY <1>1, <1>2, <2>3 DEF Reporting
  <2> QED
    BY <2>2, <2>4, <2>5, TOneStep DEF Telling, n
<1>3. CASE e.op = "path"
  <2> DEFINE n == [e EXCEPT !.stage = "done", !.ok = TRUE, !.from = Looking(c)]
  <2>1. command' = [command EXCEPT ![c] = n]
    BY <1>3 DEF Found
  <2>2. /\ n.op = e.op /\ n.stage = "done" /\ n.named = e.named /\ n.stayed = e.stayed
        /\ n.env = e.env /\ n.cfg = e.cfg /\ n.left = e.left /\ n.missed = e.missed
        /\ n.from = Head(e.left)
    BY <1>1 DEF Slots, Looking
  <2> HIDE DEF n
  <2>3. Searching(n, file)
    BY <1>1, <2>2 DEF Searching, Passed
  <2>4. Reporting(n)
    BY <1>1, <1>3, <2>2 DEF Reporting
  <2> QED
    BY <2>1, <2>3, <2>4, TOneStep DEF Telling
<1>4. CASE e.op \notin {"init", "path"}
  <2> DEFINE n == [e EXCEPT !.stage = "open"]
  <2>1. command' = [command EXCEPT ![c] = n]
    BY <1>4 DEF Found, Goto
  <2>2. /\ n.op = e.op /\ n.stage = "open" /\ n.named = e.named /\ n.stayed = e.stayed
        /\ n.env = e.env /\ n.cfg = e.cfg /\ n.left = e.left /\ n.missed = e.missed
        /\ n.from = e.from /\ n.ok = e.ok
    BY <1>1 DEF Slots
  <2> HIDE DEF n
  <2>3. Searching(n, file)
    BY <1>1, <2>2 DEF Searching, Passed
  <2>4. Reporting(n)
    BY <1>1, <2>2 DEF Reporting
  <2> QED
    BY <2>1, <2>3, <2>4, TOneStep DEF Telling
<1> QED
  BY <1>2, <1>3, <1>4

LEMMA DefaultIsSource ==
    ASSUME NEW env
    PROVE  Default \in ValidSources /\ Expanded(env, Default) = Default
           /\ DOMAIN Default.mounts \subseteq Nat
<1>1. Default \in ValidSources /\ DOMAIN Default.mounts \subseteq Nat
  BY DefaultIsValid DEF ValidSources, Sources, Default
<1> QED
  BY <1>1, DefaultIsExpanded

LEMMA NotFoundTells ==
    ASSUME IInv, TInv, NEW c \in Commands, At(c, "look"), NEW missed \in BOOLEAN,
           NotFound(c, missed), file[Looking(c)] = Absent \/ missed, UNCHANGED file
    PROVE  TInv'
<1> DEFINE e == [command[c] EXCEPT !.missed = @ \/ missed]
           b == command[c]
           n == Passed(b)
<1>1. /\ b.stage = "look" /\ Searching(b, file) /\ Reporting(b) /\ DOMAIN b = Slots
      /\ b.left \in Seq(Paths) /\ b.left # <<>> /\ Looking(c) = Head(b.left)
  BY TellsIs DEF At, Looking
<1>2. /\ DOMAIN e = Slots /\ e.missed = (b.missed \/ missed)
      /\ e.op = b.op /\ e.stage = "look" /\ e.left = b.left /\ e.named = b.named
      /\ e.stayed = b.stayed /\ e.env = b.env /\ e.cfg = b.cfg /\ e.ok = b.ok /\ e.from = b.from
  BY <1>1 DEF Slots
<1>3. command' = [command EXCEPT ![c] =
        IF Len(e.left) > 1 THEN [e EXCEPT !.left = Tail(e.left)]
        ELSE CASE e.op \in {"init", "create"} -> [e EXCEPT !.stage = "create"]
               [] e.op \in {"show", "validate"} /\ e.named -> [e EXCEPT !.stage = "done"]
               [] e.op \in {"show", "validate"} /\ ~e.named ->
                     [e EXCEPT !.stage = "report", !.cfg = Default]
               [] OTHER -> [e EXCEPT !.stage = "done", !.ok = TRUE]]
  BY DEF NotFound
<1>4. /\ Len(b.left) \in Nat /\ Len(b.left) > 0 /\ DOMAIN b.left = 1 .. Len(b.left)
      /\ Head(b.left) = b.left[1]
  BY <1>1
<1>5. ~e.named => n \in 0 .. Len(Search) - 1 /\ n = Len(Search) - Len(b.left)
                  /\ \A i \in 1 .. Len(b.left) : b.left[i] = Search[n + i]
  BY <1>1, <1>2, <1>4 DEF Searching, Passed
<1>6. ~e.named /\ ~e.missed => \A i \in 1 .. n + 1 : Search[i] \notin e.stayed
  <2> SUFFICES ASSUME ~e.named, ~e.missed, NEW i \in 1 .. n + 1 PROVE Search[i] \notin e.stayed
    OBVIOUS
  <2>1. CASE i = n + 1
    <3>1. Search[i] = Looking(c) /\ file[Looking(c)] = Absent
      BY <1>1, <1>2, <1>4, <1>5, <2>1
    <3> QED
      BY <1>1, <1>2, <3>1 DEF Searching
  <2>2. CASE i # n + 1
    <3>1. i \in 1 .. n
      BY <1>5, <2>2, CountIs
    <3> QED
      BY <1>1, <1>2, <3>1 DEF Searching
  <2> QED
    BY <2>1, <2>2
<1> HIDE DEF e
<1>7. CASE Len(e.left) > 1
  <2> DEFINE d == [e EXCEPT !.left = Tail(e.left)]
  <2>1. command' = [command EXCEPT ![c] = d]
    BY <1>3, <1>7
  <2>2. /\ d.left = Tail(b.left) /\ d.op = e.op /\ d.stage = "look" /\ d.named = e.named
        /\ d.stayed = e.stayed /\ d.env = e.env /\ d.cfg = e.cfg /\ d.ok = e.ok
        /\ d.missed = e.missed
    BY <1>2 DEF Slots
  <2>3. /\ Len(Tail(b.left)) = Len(b.left) - 1 /\ Tail(b.left) \in Seq(Paths)
        /\ \A i \in 1 .. Len(b.left) - 1 : Tail(b.left)[i] = b.left[i + 1]
    BY <1>1, HeadTailProperties
  <2> HIDE DEF d, n, b
  <2>4. DOMAIN d.left = 1 .. Len(b.left) - 1
    BY <2>2, <2>3
  <2>5. Passed(d) = Len(Search) - (Len(b.left) - 1)
    BY <2>2, <2>3 DEF Passed
  <2>6. ~d.named =>
           /\ Passed(d) = n + 1 /\ Passed(d) \in 0 .. Len(Search) - 1
           /\ \A i \in DOMAIN d.left : d.left[i] = Search[Passed(d) + i]
    <3> SUFFICES ASSUME ~d.named
                 PROVE  /\ Passed(d) = n + 1 /\ Passed(d) \in 0 .. Len(Search) - 1
                        /\ \A i \in DOMAIN d.left : d.left[i] = Search[Passed(d) + i]
      OBVIOUS
    <3>1. Passed(d) = n + 1 /\ Passed(d) \in 0 .. Len(Search) - 1
      <4>1. n \in 0 .. Len(Search) - 1 /\ n = Len(Search) - Len(b.left)
        BY <1>5, <2>2
      <4>2. Len(b.left) \in Nat /\ Len(b.left) > 1
        BY <1>2, <1>4, <1>7
      <4>3. ASSUME NEW k \in Nat, NEW l \in Nat, l > 1, k - l \in 0 .. k - 1
            PROVE  k - (l - 1) = (k - l) + 1 /\ k - (l - 1) \in 0 .. k - 1
        BY <4>3
      <4> QED
        BY <2>5, <4>1, <4>2, <4>3, CountIs
    <3>2. ASSUME NEW i \in DOMAIN d.left PROVE d.left[i] = Search[Passed(d) + i]
      <4>1. i \in Nat /\ i + 1 \in 1 .. Len(b.left) /\ d.left[i] = b.left[i + 1]
        BY <1>4, <2>2, <2>3, <2>4, <3>2
      <4>2. b.left[i + 1] = Search[n + (i + 1)]
        BY <1>2, <1>5, <2>2, <4>1
      <4>3. n \in Nat
        BY <1>5, <2>2, CountIs
      <4>4. n + (i + 1) = Passed(d) + i
        BY <3>1, <4>1, <4>3
      <4> QED
        BY <4>1, <4>2, <4>4
    <3> QED
      BY <3>1, <3>2
  <2>7. Searching(d, file)
    BY <1>1, <1>2, <1>6, <2>2, <2>6 DEF Searching
  <2>8. Reporting(d)
    BY <1>1, <1>2, <2>2 DEF Reporting
  <2> QED
    BY <2>1, <2>7, <2>8, TOneStep DEF Telling
<1>8. CASE ~(Len(e.left) > 1)
  <2>1. ~e.named /\ ~e.missed => \A i \in DOMAIN Search : Search[i] \notin e.stayed
    BY <1>2, <1>4, <1>5, <1>6, <1>8, CountIs
  <2> DEFINE create == [e EXCEPT !.stage = "create"]
             unnamed == [e EXCEPT !.stage = "done"]
             default == [e EXCEPT !.stage = "report", !.cfg = Default]
             nothing == [e EXCEPT !.stage = "done", !.ok = TRUE]
  <2>2. PICK d : /\ command' = [command EXCEPT ![c] = d]
                 /\ d.left = b.left /\ d.op = e.op /\ d.named = e.named /\ d.stayed = e.stayed
                 /\ d.env = e.env /\ d.missed = e.missed
                 /\ \/ d.stage = "create" /\ d.ok = e.ok /\ d.cfg = e.cfg
                    \/ d.stage = "done" /\ d.ok = e.ok /\ d.cfg = e.cfg
                    \/ d.stage = "report" /\ d.ok = e.ok /\ d.cfg = Default
                    \/ d.stage = "done" /\ d.op \notin {"show", "validate"} /\ d.cfg = e.cfg
    <3>1. \A d \in {create, unnamed, default, nothing} :
             /\ d.left = b.left /\ d.op = e.op /\ d.named = e.named /\ d.stayed = e.stayed
             /\ d.env = e.env /\ d.missed = e.missed
      BY <1>2 DEF Slots
    <3>2. /\ create.stage = "create" /\ create.ok = e.ok /\ create.cfg = e.cfg
          /\ unnamed.stage = "done" /\ unnamed.ok = e.ok /\ unnamed.cfg = e.cfg
          /\ default.stage = "report" /\ default.ok = e.ok /\ default.cfg = Default
          /\ nothing.stage = "done" /\ nothing.op = e.op /\ nothing.cfg = e.cfg
      BY <1>2 DEF Slots
    <3> HIDE DEF create, unnamed, default, nothing
    <3>3. \/ command' = [command EXCEPT ![c] = create]
          \/ command' = [command EXCEPT ![c] = unnamed]
          \/ command' = [command EXCEPT ![c] = default]
          \/ command' = [command EXCEPT ![c] = nothing] /\ e.op \notin {"show", "validate"}
      BY <1>3, <1>8 DEF create, unnamed, default, nothing
    <3> QED
      BY <3>1, <3>2, <3>3
  <2> HIDE DEF b, create, unnamed, default, nothing
  <2>3. Searching(d, file)
    BY <1>1, <1>2, <1>4, <2>1, <2>2 DEF Searching, Passed
  <2>4. Reporting(d)
    BY <1>1, <1>2, <2>2, DefaultIsSource DEF Reporting
  <2> QED
    BY <2>2, <2>3, <2>4, TOneStep DEF Telling
<1> QED
  BY <1>7, <1>8

LEMMA LookTells == \A c \in Commands : IInv /\ TInv /\ Look(c) => TInv'
<1> SUFFICES ASSUME NEW c \in Commands, IInv, TInv, Look(c) PROVE TInv'
  OBVIOUS
<1>1. CASE Found(c)
  BY <1>1, FoundTells DEF Look
<1>2. CASE file[Looking(c)] = Absent /\ NotFound(c, FALSE)
  BY <1>2, NotFoundTells DEF Look
<1>3. CASE NotFound(c, TRUE)
  BY <1>3, NotFoundTells DEF Look
<1> QED
  BY <1>1, <1>2, <1>3 DEF Look

LEMMA OpenTells == \A c \in Commands : IInv /\ TInv /\ Open(c) => TInv'
<1> SUFFICES ASSUME NEW c \in Commands, IInv, TInv, Open(c) PROVE TInv'
  OBVIOUS
<1> DEFINE b == command[c]
<1>1. PICK cfg : /\ command' = [command EXCEPT ![c] = Opened(c, cfg)]
                 /\ \/ cfg = NoConfig
                    \/ \E text \in {file[Looking(c)]} \cup Pieces : cfg = LoadsText(c, text)
  BY DEF Open
<1>2. b.stage = "open" /\ Searching(b, file) /\ Reporting(b) /\ DOMAIN b = Slots
      /\ Head(b.left) \in Paths
  BY TellsIs DEF Open, At
<1> DEFINE e == Opened(c, cfg)
<1>3. /\ e.op = b.op /\ e.left = b.left /\ e.named = b.named /\ e.stayed = b.stayed
      /\ e.missed = b.missed /\ e.env = b.env /\ e.from = Head(b.left) /\ e.cfg = cfg
      /\ e.stage \in {"done", "report"} /\ (e.stage = "report" => cfg # NoConfig)
      /\ e.ok => e.op = "create"
  BY <1>2 DEF Opened, Slots, Looking
<1> HIDE DEF e
<1>4. cfg # NoConfig => \E d \in ValidSources : cfg = Expanded(b.env, d)
  <2> SUFFICES ASSUME cfg # NoConfig PROVE \E d \in ValidSources : cfg = Expanded(b.env, d)
    OBVIOUS
  <2>1. PICK text \in {file[Head(b.left)]} \cup Pieces : cfg = LoadFrom(Head(b.left), b.env, text)
    BY <1>1 DEF LoadsText, Looking
  <2>2. text \in Contents
    BY <1>2 DEF IInv, Contents
  <2> QED
    BY <1>2, <2>1, <2>2, LoadedIs
<1>5. cfg # NoConfig => DOMAIN cfg.mounts \subseteq Nat
  BY <1>4, ExpandedIs, SourceIs DEF ValidSources
<1>6. Searching(e, file)
  BY <1>2, <1>3 DEF Searching, Passed
<1>7. Reporting(e)
  <2>1. e.stage # "done" => ~e.ok
    <3>1. e.stage = "report" => command[c].op # "create"
      BY <1>2 DEF e, Opened, Slots
    <3> QED
      BY <1>3, <3>1
  <2> HIDE DEF b
  <2> QED
    BY <1>2, <1>3, <1>4, <1>5, <2>1 DEF Reporting
<1> QED
  BY <1>1, <1>6, <1>7, TOneStep DEF Open, e, Telling

LEMMA ReportTells == \A c \in Commands : IInv /\ TInv /\ Report(c) => TInv'
<1> SUFFICES ASSUME NEW c \in Commands, IInv, TInv, Report(c) PROVE TInv'
  OBVIOUS
<1> DEFINE b == command[c]
<1>1. b.stage = "report" /\ Searching(b, file) /\ Reporting(b) /\ DOMAIN b = Slots
  BY TellsIs DEF Report, Reports, At
<1>2. PICK d \in ValidSources : b.cfg = Expanded(b.env, d)
  BY <1>1 DEF Reporting
<1>3. CASE b.op = "show"
  <2> DEFINE e == [b EXCEPT !.stage = "done", !.ok = TRUE,
                            !.cfg = MergeEnvironment(b.env, b.cfg)]
  <2>1. command' = [command EXCEPT ![c] = e]
    BY <1>3 DEF Report, Reports
  <2>2. /\ e.op = b.op /\ e.left = b.left /\ e.named = b.named /\ e.stayed = b.stayed
        /\ e.missed = b.missed /\ e.env = b.env /\ e.from = b.from /\ e.stage = "done"
        /\ e.cfg = MergeEnvironment(b.env, b.cfg)
    BY <1>1 DEF Slots
  <2> HIDE DEF e
  <2>3. DOMAIN e.cfg.mounts \subseteq Nat
    <3>1. b.env \in Environments /\ d \in Sources
      BY <1>1, <1>3 DEF Reporting, ValidSources
    <3>2. e.cfg.mounts = b.cfg.mounts
      BY <1>2, <2>2, <3>1, MergedIs
    <3> QED
      BY <1>2, <3>1, <3>2, ExpandedIs, SourceIs
  <2>4. Searching(e, file)
    BY <1>1, <2>2 DEF Searching, Passed
  <2>5. Reporting(e)
    BY <1>1, <1>2, <1>3, <2>2, <2>3 DEF Reporting
  <2> QED
    BY <2>1, <2>4, <2>5, TOneStep DEF Report, Reports, Telling
<1>4. CASE b.op # "show"
  <2> DEFINE e == [b EXCEPT !.stage = "done", !.ok = Valid(b.cfg)]
  <2>1. command' = [command EXCEPT ![c] = e]
    BY <1>4 DEF Report, Reports, Ends
  <2>2. /\ e.op = b.op /\ e.left = b.left /\ e.named = b.named /\ e.stayed = b.stayed
        /\ e.missed = b.missed /\ e.env = b.env /\ e.from = b.from /\ e.stage = "done"
        /\ e.cfg = b.cfg /\ e.ok = Valid(b.cfg)
    BY <1>1 DEF Slots
  <2> HIDE DEF e
  <2>3. Searching(e, file)
    BY <1>1, <2>2 DEF Searching, Passed
  <2>4. Reporting(e)
    BY <1>1, <1>4, <2>2 DEF Reporting
  <2> QED
    BY <2>1, <2>3, <2>4, TOneStep DEF Report, Reports, Telling
<1> QED
  BY <1>3, <1>4

\* What init and LoadOrCreate do when they create: no search, and nothing reported.
LEMMA CreatorTells ==
    ASSUME IInv, TInv, NEW c \in Commands, command[c].stage # "idle", command[c].op \in Creating,
           NEW e, e.op = command[c].op, e.named = command[c].named, e.stayed = command[c].stayed,
           e.cfg \in {command[c].cfg, Default, NoConfig}, e.stage \in {"write", "rest", "done"},
           e.stage # "done" => ~e.ok,
           NEW f, \A p \in Paths : file[p] # Absent => f[p] # Absent
    PROVE  Telling(e, f)
<1>1. Searching(command[c], file) /\ Reporting(command[c])
  BY TellsIs
<1>2. Searching(e, f)
  BY <1>1 DEF Searching
<1>3. Reporting(e)
  BY <1>1, DefaultIsSource DEF Reporting, Creating
<1> QED
  BY <1>2, <1>3 DEF Telling

LEMMA CreateTells == \A c \in Commands : IInv /\ TInv /\ Create(c) => TInv'
<1> SUFFICES ASSUME NEW c \in Commands, IInv, TInv, Create(c) PROVE TInv'
  OBVIOUS
<1> DEFINE q == Looking(c)
<1>1. /\ command[c].stage = "create" /\ q \in Paths /\ DOMAIN command[c] = Slots
      /\ command[c].op \in Creating /\ ~command[c].ok
  BY Known, TellsIs DEF Create, At, Good, Shaped, Reporting
<1>2. CASE Ends(c, FALSE) /\ file' = file
  <2> DEFINE e == [command[c] EXCEPT !.stage = "done", !.ok = FALSE]
  <2>1. command' = [command EXCEPT ![c] = e]
    BY <1>2 DEF Ends
  <2>2. /\ e.op = command[c].op /\ e.named = command[c].named /\ e.stayed = command[c].stayed
        /\ e.cfg = command[c].cfg /\ e.stage = "done"
    BY <1>1 DEF Slots
  <2> HIDE DEF e
  <2>3. Telling(e, file)
    BY <1>1, <2>2, CreatorTells
  <2> QED
    BY <1>2, <2>1, <2>3, TOneStep
<1> DEFINE e == [command[c] EXCEPT !.stage = "write"]
<1>3. CASE /\ file' = [file EXCEPT ![q] = EmptyFile]
           /\ command' = [d \in Commands |-> IF d = c THEN e ELSE Disturbed(d, q)]
  <2>1. /\ e.op = command[c].op /\ e.named = command[c].named /\ e.stayed = command[c].stayed
        /\ e.cfg = command[c].cfg /\ e.stage = "write" /\ ~e.ok
    BY <1>1 DEF Slots
  <2> HIDE DEF e
  <2>2. EmptyFile # Absent
    BY ConfigurationAssumption
  <2>3. \A p \in Paths : file[p] # Absent => file'[p] # Absent
    BY <1>1, <1>3, <2>2 DEF IInv
  <2>4. Telling(e, file')
    BY <1>1, <2>1, <2>3, CreatorTells
  <2> QED
    BY <1>1, <1>3, <2>2, <2>4, TOneText
<1> QED
  BY <1>2, <1>3 DEF Create

LEMMA WriteTells == \A c \in Commands : IInv /\ TInv /\ Write(c) => TInv'
<1> SUFFICES ASSUME NEW c \in Commands, IInv, TInv, Write(c) PROVE TInv'
  OBVIOUS
<1> DEFINE q == Looking(c)
           b == command[c]
<1>1. b.stage \in {"write", "rest"}
  BY DEF Write, WritePiece, WriteRest, WriteFails, At
<1>2. /\ q \in Paths /\ DOMAIN b = Slots /\ b.op \in Creating /\ ~b.ok
  BY <1>1, Known, TellsIs DEF Good, Shaped, Reporting
<1>3. PICK x, e : /\ Writes(c, x) /\ Told(c, e) /\ x \in {file[q], DefaultFile(q)} \cup Pieces
                  /\ e.op = b.op /\ e.named = b.named /\ e.stayed = b.stayed
                  /\ e.cfg \in {b.cfg, Default, NoConfig} /\ e.stage \in {"rest", "done"}
                  /\ e.stage = "rest" => ~e.ok
  <2> DEFINE rest == [b EXCEPT !.stage = "rest"]
             done == [b EXCEPT !.stage = "done", !.ok = TRUE, !.cfg = Default]
             failed == [b EXCEPT !.stage = "done", !.cfg = NoConfig]
  <2>1. \A e \in {rest, done, failed} :
           /\ e.op = b.op /\ e.named = b.named /\ e.stayed = b.stayed
           /\ e.cfg \in {b.cfg, Default, NoConfig} /\ e.stage \in {"rest", "done"}
           /\ e.stage = "rest" => ~e.ok
    BY <1>2 DEF Slots
  <2>2. \E e \in {rest, done, failed} : Told(c, e)
    BY DEF Write, WritePiece, WriteRest, WriteFails
  <2>3. \E x \in {file[q], DefaultFile(q)} \cup Pieces : Writes(c, x)
    BY DEF Write, WritePiece, WriteRest, WriteFails, Mixed
  <2> HIDE DEF rest, done, failed
  <2> QED
    BY <2>1, <2>2, <2>3
<1>4. /\ file' = [file EXCEPT ![q] = x] /\ command'[c] = e
      /\ \A d \in Commands \ {c} : command'[d] = Touched(d, q)
  BY <1>3 DEF Writes, Told
<1>5. x # Absent \/ x = file[q]
  BY <1>2, <1>3, ConfigurationAssumption
<1>6. \A p \in Paths : file[p] # Absent => file'[p] # Absent
  BY <1>2, <1>4, <1>5 DEF IInv
<1>7. Telling(e, file')
  BY <1>1, <1>2, <1>3, <1>6, CreatorTells
<1> QED
  BY <1>2, <1>4, <1>5, <1>7, TOneText

LEMMA IdleTells == \A f : Telling(Idle, f)
BY DEF Idle, Telling, Searching, Reporting, Creating

LEMMA EndTells == \A c \in Commands : IInv /\ TInv /\ (Return(c) \/ Crash(c)) => TInv'
BY TOneStep, IdleTells DEF Return, Crash

LEMMA CallTells ==
    ASSUME IInv, TInv, NEW c \in Commands, NEW op, NEW list \in Seq(Paths), NEW force, NEW env,
           list # <<>>, op \in Creating => Len(list) = 1, op = "show" => env \in Environments,
           Call(c, op, list, force, env)
    PROVE  TInv'
<1> DEFINE e == [Idle EXCEPT !.op = op, !.stage = "look", !.left = list,
                             !.named = list # Search, !.force = force, !.env = env,
                             !.stayed = {p \in Paths : list = Search /\ file[p] # Absent}]
<1>1. command' = [command EXCEPT ![c] = e] /\ file' = file
  BY DEF Call
<1>2. /\ e.op = op /\ e.stage = "look" /\ e.left = list /\ (e.named <=> list # Search)
      /\ e.env = env /\ e.stayed = {p \in Paths : list = Search /\ file[p] # Absent}
      /\ e.cfg = NoConfig /\ e.ok = FALSE /\ e.missed = FALSE
  BY DEF Idle
<1> HIDE DEF e
<1>3. e.op \in Creating => e.named
  <2>1. Len(Search) # 1
    BY CountIs
  <2>2. op \in Creating => list # Search
    BY <2>1
  <2> QED
    BY <1>2, <2>2
<1>4. ~e.named => e.left = Search /\ Passed(e) = 0
  <2>1. Len(Search) - Len(Search) = 0
    BY CountIs
  <2> QED
    BY <1>2, <2>1 DEF Passed
<1>5. Searching(e, file)
  BY <1>2, <1>3, <1>4, CountIs DEF Searching
<1>6. Reporting(e)
  BY <1>2 DEF Reporting
<1> QED
  BY <1>1, <1>5, <1>6, TOneStep DEF Telling

LEMMA EditTells ==
    ASSUME IInv, TInv, NEW p \in Paths, NEW content \in Documents \cup {Absent, EmptyFile},
           Edit(p, content)
    PROVE  TInv'
<1> DEFINE e(d) == [Disturbed(d, p) EXCEPT !.stayed = IF content = Absent THEN @ \ {p} ELSE @]
<1>1. command' = [d \in Commands |-> e(d)]
  BY DEF Edit
<1>2. file' = [file EXCEPT ![p] = content] /\ DOMAIN file = Paths
  BY DEF Edit, IInv
<1>3. ASSUME NEW d \in Commands PROVE Telling(e(d), file')
  <2> DEFINE t == Disturbed(d, p)
  <2>1. Telling(command[d], file)
    BY DEF TInv
  <2>2. /\ DOMAIN t = Slots
        /\ \A slot \in Slots \ {"touched", "mixed", "amid"} : t[slot] = command[d][slot]
    BY DisturbedIs
  <2> HIDE DEF t
  <2> DEFINE n == [t EXCEPT !.stayed = IF content = Absent THEN @ \ {p} ELSE @]
  <2>3. \A slot \in Slots \ {"stayed"} : n[slot] = t[slot]
    BY <2>2 DEF Slots
  <2>4. n.stayed = IF content = Absent THEN t.stayed \ {p} ELSE t.stayed
    BY <2>2 DEF Slots
  <2>5. e(d) = n
    BY DEF t
  <2> HIDE DEF n, e
  <2>6. Alike(n, command[d]) /\ t.stayed = command[d].stayed
    BY <2>2, <2>3 DEF Slots, Alike
  <2>7. n.stayed \subseteq command[d].stayed
    BY <2>4, <2>6
  <2>8. \A q \in n.stayed : file[q] # Absent => file'[q] # Absent
    BY <1>2, <2>4
  <2>9. Telling(n, file')
    BY <2>1, <2>6, <2>7, <2>8, SameTells
  <2> QED
    BY <2>5, <2>9
<1> HIDE DEF e
<1> QED
  BY <1>1, <1>3 DEF TInv

LEMMA NextTInv == IInv /\ TInv /\ [Next]_vars => TInv'
<1> SUFFICES ASSUME IInv, TInv, [Next]_vars PROVE TInv'
  OBVIOUS
<1>0. Len(<<>>) = 0
  OBVIOUS
<1>1. /\ Search \in Seq(Paths) /\ Search # <<>>
      /\ \A p \in Paths : <<p>> \in Seq(Paths) /\ <<p>> # <<>> /\ Len(<<p>>) = 1
  BY <1>0, ConfigurationAssumption
<1>2. ASSUME NEW c \in Commands, NEW env \in Environments, NEW op \in {"show", "validate"},
             NEW list \in {Search} \cup {<<p>> : p \in Paths}, Call(c, op, list, FALSE, env)
      PROVE  TInv'
  BY <1>1, <1>2, CallTells DEF Creating
<1>3. ASSUME NEW c \in Commands, NEW env \in Environments, NEW p \in Paths,
             Call(c, "create", <<p>>, FALSE, env)
      PROVE  TInv'
  BY <1>1, <1>3, CallTells
<1>4. ASSUME NEW c \in Commands, NEW p \in Paths, NEW force \in BOOLEAN,
             Call(c, "init", <<p>>, force, Idle.env)
      PROVE  TInv'
  BY <1>1, <1>4, CallTells
<1>5. ASSUME NEW c \in Commands, Call(c, "path", Search, FALSE, Idle.env) PROVE TInv'
  BY <1>1, <1>5, CallTells DEF Creating
<1>6. ASSUME NEW c \in Commands, Runs(c) \/ Crash(c) PROVE TInv'
  BY <1>6, LookTells, OpenTells, ReportTells, CreateTells, WriteTells, EndTells DEF Runs
<1>7. CASE UNCHANGED vars
  BY <1>7 DEF vars, TInv
<1> QED
  BY <1>2, <1>3, <1>4, <1>5, <1>6, <1>7, EditTells DEF Next

LEMMA InitTInv == Init => TInv
BY IdleTells DEF Init, TInv

LEMMA TellingAlways == Spec => []TInv
<1>1. Init => TInv
  BY InitTInv
<1>2. IInv /\ TInv /\ [Next]_vars => TInv'
  BY NextTInv
<1> QED
  BY <1>1, <1>2, Invariance, PTL DEF Spec

-----------------------------------------------------------------------------
\* Expanding leaves valid mounts valid, or one of them had a variable.
LEMMA ExpandedMounts ==
    ASSUME NEW d \in ValidSources, NEW env
    PROVE  LET mounts == Expanded(env, d).mounts IN
           MountsValid(mounts) \/ \E i \in DOMAIN mounts : mounts[i].path \in {env.value, Blank}
<1> DEFINE mounts == Expanded(env, d).mounts
<1>1. SUFFICES ASSUME \A i \in DOMAIN mounts : mounts[i].path \notin {env.value, Blank}
               PROVE  MountsValid(mounts)
  OBVIOUS
<1>2. d \in Sources /\ MountsValid(d.mounts)
  BY DEF ValidSources, Valid
<1>3. /\ DOMAIN mounts = DOMAIN d.mounts
      /\ \A i \in DOMAIN d.mounts : /\ mounts[i].path = Expand(env, d.mounts[i].path)
                                    /\ mounts[i].type = d.mounts[i].type
  BY <1>2, ExpandedIs
<1> HIDE DEF mounts
<1>4. \A i \in DOMAIN mounts : mounts[i].path = d.mounts[i].path
  BY <1>1, <1>3 DEF Expand
<1> QED
  BY <1>2, <1>3, <1>4 DEF MountsValid

LEMMA TInvSaysValid == TInv => SaysValidOnlyOfValid
<1> SUFFICES ASSUME TInv, NEW c \in Commands, At(c, "done"), command[c].ok
             PROVE  LET e == command[c]
                        set == DOMAIN e.env.settings
                    IN
                    /\ e.op = "validate" => Valid(e.cfg)
                    /\ e.op = "show" =>
                          /\ \/ MountsValid(e.cfg.mounts)
                             \/ \E i \in DOMAIN e.cfg.mounts :
                                   e.cfg.mounts[i].path \in {e.env.value, Blank}
                          /\ e.cfg.concurrency >= 1 \/ "concurrency" \in set
                          /\ e.cfg.level \in Levels \/ "level" \in set
                          /\ e.cfg.enabled => \/ e.cfg.port \in Ports
                                              \/ {"enabled", "port"} \cap set # {}
  BY DEF SaysValidOnlyOfValid
<1> DEFINE e == command[c]
           set == DOMAIN e.env.settings
<1>1. Reporting(e) /\ e.stage = "done" /\ e.ok
  BY DEF TInv, Telling, At
<1>2. e.op = "validate" => Valid(e.cfg)
  BY <1>1 DEF Reporting
<1>3. ASSUME e.op = "show"
      PROVE  /\ \/ MountsValid(e.cfg.mounts)
                \/ \E i \in DOMAIN e.cfg.mounts : e.cfg.mounts[i].path \in {e.env.value, Blank}
             /\ e.cfg.concurrency >= 1 \/ "concurrency" \in set
             /\ e.cfg.level \in Levels \/ "level" \in set
             /\ e.cfg.enabled => \/ e.cfg.port \in Ports
                                 \/ {"enabled", "port"} \cap set # {}
  <2>1. /\ e.env \in Environments
        /\ \E d \in ValidSources : e.cfg = MergeEnvironment(e.env, Expanded(e.env, d))
    BY <1>1, <1>3 DEF Reporting
  <2>2. PICK d \in ValidSources : e.cfg = MergeEnvironment(e.env, Expanded(e.env, d))
    BY <2>1
  <2>3. d \in Sources /\ Valid(d)
    BY DEF ValidSources
  <2> DEFINE cfg == Expanded(e.env, d)
  <2>4. /\ e.cfg.mounts = cfg.mounts
        /\ \A f \in DOMAIN Default \ set : e.cfg[f] = cfg[f]
    BY <2>1, <2>2, <2>3, MergedIs
  <2>5. /\ cfg.concurrency = d.concurrency /\ cfg.level = d.level
        /\ cfg.enabled = d.enabled /\ cfg.port = d.port
    BY <2>3, ExpandedIs
  <2>6. /\ {"concurrency", "level", "enabled", "port"} \subseteq DOMAIN Default
    BY DEF Default
  <2>7. /\ d.concurrency >= 1 /\ d.level \in Levels
        /\ d.enabled => d.port \in Ports
    BY <2>3 DEF Valid
  <2>8. \/ MountsValid(cfg.mounts)
        \/ \E i \in DOMAIN cfg.mounts : cfg.mounts[i].path \in {e.env.value, Blank}
    BY ExpandedMounts
  <2> HIDE DEF cfg, e, set
  <2>9. "concurrency" \in set \/ e.cfg.concurrency = d.concurrency
    BY <2>4, <2>5, <2>6
  <2>10. "level" \in set \/ e.cfg.level = d.level
    BY <2>4, <2>5, <2>6
  <2>11. {"enabled", "port"} \cap set # {} \/ (e.cfg.enabled = d.enabled /\ e.cfg.port = d.port)
    BY <2>4, <2>5, <2>6
  <2> QED
    BY <2>4, <2>7, <2>8, <2>9, <2>10, <2>11
<1> QED
  BY <1>2, <1>3

(***************************************************************************)
(* What validate calls valid is valid with its variables expanded          *)
(* (cmd/finspect/config.go:206), and what show displays is, but for        *)
(* expanded mount paths and what the environment has set.                  *)
(***************************************************************************)
THEOREM ConfigurationSaysValid == Spec => []SaysValidOnlyOfValid
BY TellingAlways, TInvSaysValid, PTL

LEMMA TInvFirst == IInv /\ TInv => FirstOfTheSearch
<1> SUFFICES ASSUME IInv, TInv, NEW c \in Commands, At(c, "done"),
                    ~command[c].named, ~command[c].missed,
                    NEW i \in DOMAIN Search,
                    \A j \in DOMAIN Search : Search[j] = command[c].from => i < j
             PROVE  Search[i] \notin command[c].stayed
  BY DEF FirstOfTheSearch
<1> DEFINE e == command[c]
<1>1. e.stage = "done" /\ Searching(e, file) /\ e.left \in Seq(Paths) /\ e.left # <<>>
  BY TellsIs DEF At
<1>2. /\ Passed(e) \in 0 .. Len(Search) - 1
      /\ \A k \in DOMAIN e.left : e.left[k] = Search[Passed(e) + k]
      /\ \A k \in 1 .. Passed(e) : Search[k] \notin e.stayed
      /\ e.from = Head(e.left) \/ \A k \in DOMAIN Search : Search[k] \notin e.stayed
  BY <1>1 DEF Searching
<1>3. CASE e.from = Head(e.left)
  <2>1. Head(e.left) = e.left[1] /\ 1 \in DOMAIN e.left
    BY <1>1
  <2> HIDE DEF e
  <2>2. Search[Passed(e) + 1] = e.from
    BY <1>2, <1>3, <2>1
  <2>3. Passed(e) + 1 \in DOMAIN Search
    BY <1>2, CountIs
  <2>4. i < Passed(e) + 1
    BY <2>2, <2>3 DEF e
  <2>5. i \in 1 .. Passed(e)
    BY <1>2, <2>4, CountIs
  <2> QED
    BY <1>2, <2>5 DEF e
<1> QED
  BY <1>2, <1>3

(***************************************************************************)
(* A search passes by no file that is there all the time                   *)
(* (pkg/config/loader.go:81), and ends without one only if none was.       *)
(***************************************************************************)
THEOREM ConfigurationFirst == Spec => []FirstOfTheSearch
BY Invariance, TellingAlways, TInvFirst, PTL

-----------------------------------------------------------------------------
LEMMA LeastOf ==
    ASSUME NEW S, S \subseteq Nat, S # {}
    PROVE  \E n \in S : \A m \in S : n <= m
<1> DEFINE less == {pair \in Nat \X Nat : pair[1] < pair[2]}
<1>1. IsWellFoundedOn(less, Nat)
  BY NatLessThanWellFounded, Zenon DEF OpToRel
<1>2. \E n \in S : \A m \in S : <<m, n>> \notin less
  <2> HIDE DEF less
  <2> QED
    BY <1>1, WFMin, Zenon
<1>3. ASSUME NEW m \in Nat, NEW n \in Nat, <<m, n>> \notin less PROVE n <= m
  BY <1>3
<1> HIDE DEF less
<1> QED
  BY <1>2, <1>3

LEMMA FirstIs == ASSUME NEW S, S \subseteq Nat, S # {} PROVE First(S) \in S
BY LeastOf DEF First

\* Of some things whose sizes have a bound, one is the largest.
LEMMA LargestOf ==
    ASSUME NEW S, S # {}, NEW size \in [S -> Nat], NEW bound \in Nat,
           \A i \in S : size[i] <= bound
    PROVE  \E i \in S : \A j \in S : size[j] <= size[i]
<1> DEFINE room == {bound - size[i] : i \in S}
<1>1. room \subseteq Nat /\ room # {}
  OBVIOUS
<1>2. PICK n \in room : \A m \in room : n <= m
  <2> HIDE DEF room
  <2> QED
    BY <1>1, LeastOf
<1>3. PICK i \in S : n = bound - size[i]
  OBVIOUS
<1>4. ASSUME NEW j \in S PROVE size[j] <= size[i]
  <2>1. n <= bound - size[j]
    BY <1>2
  <2> QED
    BY <1>3, <2>1
<1> QED
  BY <1>4

\* If what path starts with is what it is below, GetMount finds the nearest mount.
LEMMA LongestOwns ==
    ASSUME NEW mounts, DOMAIN mounts \subseteq Nat, NEW path \in Texts,
           \A i \in DOMAIN mounts :
              <<path, mounts[i].path>> \in StartsWith <=> <<path, mounts[i].path>> \in Above
    PROVE  LET owning == {i \in DOMAIN mounts : <<path, mounts[i].path>> \in Above} IN
           IF owning = {} THEN GetMount(mounts, path) = 0
           ELSE /\ GetMount(mounts, path) \in owning
                /\ \A j \in owning : <<mounts[GetMount(mounts, path)].path, mounts[j].path>> \in Above
<1> DEFINE owning == {i \in DOMAIN mounts : <<path, mounts[i].path>> \in Above}
           size == [i \in owning |-> Length[mounts[i].path]]
           longest == {i \in owning : \A j \in owning : size[j] <= size[i]}
<1>1. Matches(mounts, path) = owning
  BY DEF Matches
<1>2. GetMount(mounts, path) = First(longest)
  BY <1>1 DEF GetMount
<1>3. CASE owning = {}
  <2>1. longest = {}
    BY <1>3
  <2> QED
    BY <1>2, <1>3, <2>1 DEF First
<1>4. CASE owning # {}
  <2>1. \A i \in owning : mounts[i].path \in Texts
    BY AboveAssumption
  <2>2. size \in [owning -> Nat] /\ Length[path] \in Nat
    BY <2>1, ConfigurationAssumption
  <2>3. \A i \in owning : size[i] <= Length[path]
    BY <2>1, AboveAssumption, ConfigurationAssumption
  <2>4. longest \subseteq Nat /\ longest # {}
    <3>1. owning \subseteq Nat
      OBVIOUS
    <3> HIDE DEF owning, size
    <3> QED
      BY <1>4, <2>2, <2>3, <3>1, LargestOf
  <2> DEFINE g == GetMount(mounts, path)
  <2>5. g \in longest
    <3> HIDE DEF longest
    <3> QED
      BY <1>2, <2>4, FirstIs
  <2> HIDE DEF g
  <2>6. ASSUME NEW j \in owning PROVE <<mounts[g].path, mounts[j].path>> \in Above
    <3> DEFINE t == mounts[g].path
               u == mounts[j].path
    <3>1. /\ t \in Texts /\ u \in Texts /\ <<path, t>> \in Above /\ <<path, u>> \in Above
          /\ Length[u] <= Length[t]
      BY <2>1, <2>5
    <3>2. Length[t] \in Nat /\ Length[u] \in Nat
      BY <3>1, ConfigurationAssumption
    <3> HIDE DEF t, u
    <3>3. <<t, u>> \in Above \/ <<u, t>> \in Above
      BY <3>1, AboveAssumption
    <3>4. <<u, t>> \in Above => t = u
      BY <3>1, <3>2, AboveAssumption
    <3>5. <<t, u>> \in Above
      BY <3>3, <3>4
    <3> QED
      BY <3>5 DEF t, u
  <2> QED
    BY <1>4, <2>5, <2>6 DEF g
<1> QED
  BY <1>3, <1>4

LEMMA TInvMounts == TInv => GetMountAgrees
<1> SUFFICES ASSUME TInv, NEW c \in Commands, command[c].cfg # NoConfig,
                    NEW path \in {pair[1] : pair \in Above},
                    \A i \in DOMAIN command[c].cfg.mounts :
                       <<path, command[c].cfg.mounts[i].path>> \in StartsWith
                          <=> <<path, command[c].cfg.mounts[i].path>> \in Above
             PROVE  LET mounts == command[c].cfg.mounts
                        owning == {i \in DOMAIN mounts : <<path, mounts[i].path>> \in Above}
                        owners == {i \in owning : \A j \in owning :
                                      <<mounts[i].path, mounts[j].path>> \in Above}
                    IN
                    IF owners = {} THEN GetMount(mounts, path) = 0
                    ELSE GetMount(mounts, path) \in owners
  BY DEF GetMountAgrees
<1> DEFINE mounts == command[c].cfg.mounts
<1>1. DOMAIN mounts \subseteq Nat
  BY DEF TInv, Telling, Reporting
<1>2. path \in Texts
  BY AboveAssumption
<1> HIDE DEF mounts
<1> DEFINE owning == {i \in DOMAIN mounts : <<path, mounts[i].path>> \in Above}
           owners == {i \in owning : \A j \in owning :
                         <<mounts[i].path, mounts[j].path>> \in Above}
<1>3. IF owning = {} THEN GetMount(mounts, path) = 0
      ELSE /\ GetMount(mounts, path) \in owning
           /\ \A j \in owning : <<mounts[GetMount(mounts, path)].path, mounts[j].path>> \in Above
  BY <1>1, <1>2, LongestOwns DEF mounts
<1>4. IF owners = {} THEN GetMount(mounts, path) = 0 ELSE GetMount(mounts, path) \in owners
  BY <1>3
<1> QED
  BY <1>4 DEF mounts

(***************************************************************************)
(* The longest mount path that a path starts with (GetMount,               *)
(* pkg/config/config.go:459) is that of the mount the router takes, if     *)
(* what starts with a mount path is below it.                              *)
(***************************************************************************)
THEOREM ConfigurationMounts == Spec => []GetMountAgrees
BY TellingAlways, TInvMounts, PTL
=============================================================================
