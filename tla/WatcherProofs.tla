----------------------------- MODULE WatcherProofs -----------------------------
(***************************************************************************)
(* Proofs about watching, for any tree, any watched paths, queues and      *)
(* channels of any length and any changes of the tree.                     *)
(***************************************************************************)
EXTENDS WatcherProps, SequenceTheorems, FiniteSetTheorems, TLAPS

Events == [op : {"none", "error", "Create", "Remove"}, at : Nodes \cup {NoNode}]
Steps == [do : {"visit", "add"}, at : Nodes]
Stages == {"none", "setup", "idle", "send", "stat", "expand", "exited"}

Watchers == [stage : Stages, recursive : BOOLEAN, marks : SUBSET Nodes, queue : Seq(Events),
             event : Events, todo : Seq(Steps), stop : BOOLEAN, lost : BOOLEAN,
             missed : SUBSET Nodes]

Calls == [stage : {"rest", "walk", "register", "wait", "next"},
          op : {"none", "Watch", "Unwatch", "Disconnect"}, at : Nodes \cup {NoNode}]

\* A node's directory is there when the node is.
TreeHolds ==
    /\ exists \subseteq Nodes
    /\ \A n \in exists \ {Base} : Parent[n] \in exists

Typed ==
    /\ TreeHolds
    /\ connected \in BOOLEAN
    /\ watches \subseteq Watchable
    /\ watcher \in [Watchable -> Watchers]
    /\ caller \in Calls

\* The call in progress, and what it has to do with the map of watches.
CallerFits ==
    /\ caller.stage = "rest" => caller = AtRest
    /\ caller.stage # "rest" \/ watches # {} => connected
    /\ caller.stage \in {"walk", "register", "wait"} => caller.at \in Watchable
    /\ caller.stage \in {"walk", "register"} => caller.at \notin watches
    /\ caller.stage = "wait" => caller.at \in watches

Called(p, stage) == caller.stage = stage /\ caller.at = p

\* The watcher of p, and what it has to do with the call in progress.
Placed(p) ==
    /\ Stage(p) = "setup" <=> Called(p, "walk")
    /\ p \in watches \/ Called(p, "register") <=> Alive(p) \/ Stage(p) = "exited"
    /\ Stage(p) = "exited" => watcher[p].stop
    /\ watcher[p].stop <=> Called(p, "wait")
    /\ watcher[p].todo # <<>> => Stage(p) \in {"setup", "expand"}

\* A directory is due when the one it is in was added, or is about to be with its
\* names already read, and was not skipped itself.  When it is due and is neither
\* marked nor missed, it is still to be visited or added, or an event announces it.
Created(m) == [op |-> "Create", at |-> m]

Due(w, m) ==
    /\ Parent[m] \in w.marks \/ Add(Parent[m]) \in Range(w.todo)
    /\ Parent[m] \notin w.missed

Awaited(w, m) ==
    \/ {Visit(m), Add(m), Visit(Parent[m])} \cap Range(w.todo) # {}
    \/ Created(m) \in Range(w.queue)
    \/ w.stage \in {"send", "stat"} /\ w.event = Created(m)

Covers(w) ==
    \A m \in (Dirs \cap exists) \ {Base} :
        Due(w, m) => m \in w.marks \cup w.missed \/ Awaited(w, m)

Watching(w) == w.stage \notin {"none", "exited"} /\ w.recursive /\ ~w.lost

IInv ==
    /\ Typed
    /\ CallerFits
    /\ \A p \in Watchable : Placed(p)
    /\ \A p \in Watchable : Watching(watcher[p]) => Covers(watcher[p])
-----------------------------------------------------------------------------
\* What is in a sequence.
LEMMA AppendRange ==
    ASSUME NEW S, NEW s \in Seq(S), NEW x \in S
    PROVE  Append(s, x) \in Seq(S) /\ Range(Append(s, x)) = Range(s) \cup {x}
<1>1. /\ Append(s, x) \in Seq(S) /\ Len(Append(s, x)) = Len(s) + 1 /\ Len(s) \in Nat
      /\ \A i \in 1..Len(s) : Append(s, x)[i] = s[i]
      /\ Append(s, x)[Len(s) + 1] = x
  BY AppendProperties, LenProperties
<1>2. DOMAIN s = 1..Len(s) /\ DOMAIN Append(s, x) = 1..(Len(s) + 1)
  BY <1>1, LenProperties
<1>3. \A i \in 1..(Len(s) + 1) : i \in 1..Len(s) \/ i = Len(s) + 1
  BY <1>1
<1>4. Len(s) + 1 \in 1..(Len(s) + 1) /\ \A i \in 1..Len(s) : i \in 1..(Len(s) + 1)
  BY <1>1
<1> QED
  BY <1>1, <1>2, <1>3, <1>4 DEF Range

LEMMA TailRange ==
    ASSUME NEW S, NEW s \in Seq(S), s # <<>>
    PROVE  /\ Head(s) \in S /\ Tail(s) \in Seq(S)
           /\ Range(s) = {Head(s)} \cup Range(Tail(s))
<1>1. /\ Head(s) \in S /\ Tail(s) \in Seq(S) /\ Len(Tail(s)) = Len(s) - 1
      /\ \A i \in 1..Len(Tail(s)) : Tail(s)[i] = s[i + 1]
      /\ Len(s) \in Nat /\ Len(s) >= 1 /\ Head(s) = s[1]
  BY HeadTailProperties, LenProperties, EmptySeq
<1>2. DOMAIN s = 1..Len(s) /\ DOMAIN Tail(s) = 1..(Len(s) - 1)
  BY <1>1, LenProperties
<1>3. \A i \in 1..Len(s) : i = 1 \/ i - 1 \in 1..(Len(s) - 1)
  BY <1>1
<1>4. \A i \in 1..(Len(s) - 1) : i + 1 \in 1..Len(s)
  BY <1>1
<1>5. \A i \in 1..Len(s) : i = 1 \/ s[i] = Tail(s)[i - 1]
  BY <1>1, <1>3
<1>6. Range(s) \subseteq {Head(s)} \cup Range(Tail(s))
  <2> SUFFICES ASSUME NEW i \in 1..Len(s) PROVE s[i] = s[1] \/ s[i] \in Range(Tail(s))
    BY <1>1, <1>2 DEF Range
  <2>1. i = 1 \/ (i - 1 \in DOMAIN Tail(s) /\ s[i] = Tail(s)[i - 1])
    BY <1>2, <1>3, <1>5
  <2> QED
    BY <2>1 DEF Range
<1>7. Head(s) \in Range(s)
  BY <1>1, <1>2 DEF Range
<1>8. Range(Tail(s)) \subseteq Range(s)
  BY <1>1, <1>2, <1>4 DEF Range
<1> QED
  BY <1>1, <1>6, <1>7, <1>8

LEMMA FirstRange ==
    ASSUME NEW S, NEW s \in Seq(S), NEW x \in S
    PROVE  <<x>> \o s \in Seq(S) /\ Range(<<x>> \o s) = {x} \cup Range(s)
<1>1. <<x>> \in Seq(S) /\ Range(<<x>>) = {x}
  BY DEF Range
<1>2. <<x>> \o s \in Seq(S)
  BY <1>1, ConcatProperties
<1>3. Range(<<x>> \o s) = Range(<<x>>) \cup Range(s)
  BY <1>1, RangeConcatenation
<1> QED
  BY <1>1, <1>2, <1>3

\* Visits lists what it is given.
LEMMA VisitsAre ==
    ASSUME NEW S \in SUBSET Nodes
    PROVE  Visits(S) \in Seq(Steps) /\ Range(Visits(S)) = {Visit(m) : m \in S}
<1> DEFINE n == Cardinality(S)
           f == SetToSeq(S)
<1>1. IsFiniteSet(S) /\ n \in Nat /\ ExistsBijection(1..n, S)
  BY WatcherAssumption, FS_Subset, FS_CardinalityType
<1>2. f \in [1..n -> S] /\ IsInjective(f)
  <2>1. \E g \in [1..n -> S] : IsInjective(g)
    BY <1>1 DEF ExistsBijection, Bijection, Injection
  <2> QED
    BY <2>1 DEF SetToSeq
<1>3. \A m \in S : \E i \in 1..n : f[i] = m
  <2>1. Cardinality(1..n) = n
    BY <1>1, FS_Interval
  <2>2. f \in Injection(1..n, S)
    BY <1>2 DEF Injection
  <2>3. f \in Surjection(1..n, S)
    BY <1>1, <2>1, <2>2, FS_Injection
  <2> QED
    BY <2>3 DEF Surjection
<1> HIDE DEF f, n
<1>4. Visits(S) = [i \in 1..n |-> Visit(f[i])]
  BY DEF Visits, f, n
<1>5. \A i \in 1..n : Visit(f[i]) \in Steps
  BY <1>2 DEF Visit, Steps
<1>6. Visits(S) \in Seq(Steps) /\ DOMAIN Visits(S) = 1..n
  BY <1>1, <1>4, <1>5, SeqDef
<1> QED
  BY <1>2, <1>3, <1>4, <1>6 DEF Range
-----------------------------------------------------------------------------
\* What a step of addRecursive makes of a watcher w.
Walked(w, v) ==
    /\ v \in Watchers
    /\ v.stage = w.stage /\ v.recursive = w.recursive /\ v.lost = w.lost /\ v.stop = w.stop
    /\ Covers(w) => Covers(v)

\* Dropping a step of what is not there, or was skipped, leaves nothing behind.
LEMMA DroppedIs ==
    ASSUME TreeHolds, NEW w \in Watchers, w.todo # <<>>,
           NEW missed \in SUBSET Nodes, w.missed \subseteq missed,
           Head(w.todo).at \in exists => Head(w.todo).at \in missed
    PROVE  Walked(w, [w EXCEPT !.todo = Tail(@), !.missed = missed])
<1> DEFINE step == Head(w.todo)
           v == [w EXCEPT !.todo = Tail(@), !.missed = missed]
<1>1. /\ w.todo \in Seq(Steps) /\ step \in Steps /\ Tail(w.todo) \in Seq(Steps)
      /\ Range(w.todo) = {step} \cup Range(Tail(w.todo))
  <2>1. w.todo \in Seq(Steps)
    BY DEF Watchers
  <2> QED
    BY <2>1, TailRange
<1>2. /\ v \in Watchers /\ v.marks = w.marks /\ v.missed = missed /\ v.todo = Tail(w.todo)
      /\ v.stage = w.stage /\ v.queue = w.queue /\ v.event = w.event
      /\ v.recursive = w.recursive /\ v.lost = w.lost /\ v.stop = w.stop
  BY <1>1 DEF Watchers
<1> HIDE DEF v, step
<1>3. ASSUME Covers(w), NEW m \in (Dirs \cap exists) \ {Base}, Due(v, m)
      PROVE  m \in v.marks \cup v.missed \/ Awaited(v, m)
  <2>1. m \in Nodes /\ Parent[m] \in exists
    BY DEF TreeHolds
  <2>2. Due(w, m)
    BY <1>1, <1>2, <1>3 DEF Due
  <2>3. m \in w.marks \cup w.missed \/ Awaited(w, m)
    BY <1>3, <2>2 DEF Covers
  <2>4. step \in {Visit(m), Add(m)} => m \in missed
    BY <2>1 DEF Visit, Add, step
  <2>5. step # Visit(Parent[m])
    BY <1>2, <1>3, <2>1 DEF Visit, Due, step
  <2> QED
    BY <1>1, <1>2, <2>3, <2>4, <2>5 DEF Awaited
<1> QED
  BY <1>2, <1>3 DEF Walked, Covers, v

\* Reading the names of a directory leaves it to be added and them to be visited.
LEMMA VisitedIs ==
    ASSUME TreeHolds, NEW w \in Watchers, w.todo # <<>>, NEW n \in exists,
           Head(w.todo) = Visit(n)
    PROVE  Walked(w, [w EXCEPT !.todo = <<Add(n)>> \o (Visits(SubDirs(n)) \o Tail(@))])
<1> DEFINE rest == Tail(w.todo)
           below == Visits(SubDirs(n))
           v == [w EXCEPT !.todo = <<Add(n)>> \o (below \o Tail(@))]
<1>1. /\ w.todo \in Seq(Steps) /\ rest \in Seq(Steps)
      /\ Range(w.todo) = {Visit(n)} \cup Range(rest)
  <2>1. w.todo \in Seq(Steps)
    BY DEF Watchers
  <2> QED
    BY <2>1, TailRange
<1>2. /\ SubDirs(n) \in SUBSET Nodes
      /\ \A m \in (Dirs \cap exists) \ {Base} : Parent[m] = n => m \in SubDirs(n)
  BY DEF SubDirs, TreeHolds
<1>3. below \in Seq(Steps) /\ Range(below) = {Visit(m) : m \in SubDirs(n)}
  BY <1>2, VisitsAre
<1>4. n \in Nodes /\ Add(n) \in Steps
  BY DEF TreeHolds, Add, Steps
<1> HIDE DEF rest, below
<1>5. /\ below \o rest \in Seq(Steps)
      /\ Range(below \o rest) = Range(below) \cup Range(rest)
  <2>1. below \o rest \in Seq(Steps)
    BY <1>1, <1>3, ConcatProperties
  <2>2. Range(below \o rest) = Range(below) \cup Range(rest)
    BY <1>1, <1>3, RangeConcatenation
  <2> QED
    BY <2>1, <2>2
<1>6. /\ <<Add(n)>> \o (below \o rest) \in Seq(Steps)
      /\ Range(<<Add(n)>> \o (below \o rest)) = {Add(n)} \cup Range(below) \cup Range(rest)
  <2> DEFINE s == below \o rest
             x == Add(n)
  <2>1. s \in Seq(Steps) /\ x \in Steps
    BY <1>4, <1>5
  <2>2. Range(s) = Range(below) \cup Range(rest)
    BY <1>5
  <2> HIDE DEF s, x
  <2>3. <<x>> \o s \in Seq(Steps) /\ Range(<<x>> \o s) = {x} \cup Range(s)
    BY <2>1, FirstRange
  <2> QED
    BY <2>2, <2>3 DEF s, x
<1>7. v = [w EXCEPT !.todo = <<Add(n)>> \o (below \o rest)]
  BY DEF rest
<1>8. /\ v \in Watchers /\ v.marks = w.marks /\ v.missed = w.missed
      /\ Range(v.todo) = {Add(n)} \cup Range(below) \cup Range(rest)
      /\ v.stage = w.stage /\ v.queue = w.queue /\ v.event = w.event
      /\ v.recursive = w.recursive /\ v.lost = w.lost /\ v.stop = w.stop
  BY <1>6, <1>7 DEF Watchers
<1> HIDE DEF v
<1>9. ASSUME Covers(w), NEW m \in (Dirs \cap exists) \ {Base}, Due(v, m)
      PROVE  m \in v.marks \cup v.missed \/ Awaited(v, m)
  <2>1. CASE Parent[m] = n
    <3>1. Visit(m) \in Range(v.todo)
      BY <1>2, <1>3, <1>8, <2>1
    <3> QED
      BY <3>1 DEF Awaited
  <2>2. CASE Parent[m] # n
    <3>1. Add(Parent[m]) # Add(n) /\ Visit(Parent[m]) # Visit(n)
      BY <2>2 DEF Add, Visit
    <3>2. Add(Parent[m]) \notin Range(below)
      BY <1>3 DEF Add, Visit
    <3>3. Due(w, m)
      BY <1>1, <1>8, <1>9, <3>1, <3>2 DEF Due
    <3>4. m \in w.marks \cup w.missed \/ Awaited(w, m)
      BY <1>9, <3>3 DEF Covers
    <3>5. Visit(m) = Visit(n) => Add(m) \in Range(v.todo)
      BY <1>8 DEF Add, Visit
    <3>6. Add(m) # Visit(n)
      BY DEF Add, Visit
    <3> QED
      BY <1>1, <1>8, <3>1, <3>4, <3>5, <3>6 DEF Awaited
  <2> QED
    BY <2>1, <2>2
<1>10. v = [w EXCEPT !.todo = <<Add(n)>> \o (Visits(SubDirs(n)) \o Tail(@))]
  BY DEF v, below
<1> QED
  BY <1>8, <1>9, <1>10 DEF Walked, Covers

\* Adding a directory: what is in it was due already.
LEMMA AddedIs ==
    ASSUME TreeHolds, NEW w \in Watchers, w.todo # <<>>, NEW n \in exists,
           Head(w.todo) = Add(n)
    PROVE  Walked(w, [w EXCEPT !.todo = Tail(@), !.marks = @ \cup {n}])
<1> DEFINE rest == Tail(w.todo)
           v == [w EXCEPT !.todo = Tail(@), !.marks = @ \cup {n}]
<1>1. /\ w.todo \in Seq(Steps) /\ rest \in Seq(Steps)
      /\ Range(w.todo) = {Add(n)} \cup Range(rest)
  <2>1. w.todo \in Seq(Steps)
    BY DEF Watchers
  <2> QED
    BY <2>1, TailRange
<1>2. w.marks \cup {n} \in SUBSET Nodes
  BY DEF TreeHolds, Watchers
<1>3. /\ v \in Watchers /\ v.marks = w.marks \cup {n} /\ v.missed = w.missed /\ v.todo = rest
      /\ v.stage = w.stage /\ v.queue = w.queue /\ v.event = w.event
      /\ v.recursive = w.recursive /\ v.lost = w.lost /\ v.stop = w.stop
  BY <1>1, <1>2 DEF Watchers
<1> HIDE DEF v, rest
<1>4. ASSUME Covers(w), NEW m \in (Dirs \cap exists) \ {Base}, Due(v, m)
      PROVE  m \in v.marks \cup v.missed \/ Awaited(v, m)
  <2>1. Due(w, m)
    BY <1>1, <1>3, <1>4 DEF Due
  <2>2. m \in w.marks \cup w.missed \/ Awaited(w, m)
    BY <1>4, <2>1 DEF Covers
  <2>3. Add(m) = Add(n) => m = n
    BY DEF Add
  <2>4. Visit(m) # Add(n) /\ Visit(Parent[m]) # Add(n)
    BY DEF Visit, Add
  <2> QED
    BY <1>1, <1>3, <2>2, <2>3, <2>4 DEF Awaited
<1> QED
  BY <1>3, <1>4 DEF Walked, Covers, v

\* Skipping n notes it.
LEMMA SkipsIs ==
    ASSUME Typed, NEW p \in Watchable, NEW w \in Watchers, NEW n, Skips(p, w, n)
    PROVE  /\ n \in exists /\ [w EXCEPT !.missed = @ \cup {n}] \in Watchers
           /\ watcher' = [watcher EXCEPT ![p] = [w EXCEPT !.missed = @ \cup {n}]]
BY DEF Skips, Typed, TreeHolds, Watchers

\* A step of addRecursive leaves no directory behind that it does not note.
LEMMA WalkOnIs ==
    ASSUME Typed, NEW p \in Watchable, WalkOn(p)
    PROVE  /\ watcher[p].todo # <<>>
           /\ \E v \in Watchers : Walked(watcher[p], v) /\ watcher' = [watcher EXCEPT ![p] = v]
<1> DEFINE u == watcher[p]
           n == Head(u.todo).at
           w == [u EXCEPT !.todo = Tail(@)]
<1>1. TreeHolds /\ u \in Watchers /\ u.todo # <<>>
  BY DEF WalkOn, Typed
<1>2. u.todo \in Seq(Steps) /\ Head(u.todo) \in Steps /\ Tail(u.todo) \in Seq(Steps)
  <2>1. u.todo \in Seq(Steps)
    BY <1>1 DEF Watchers
  <2> QED
    BY <1>1, <2>1, TailRange
<1>3. u.missed \in SUBSET Nodes /\ w \in Watchers /\ w.missed = u.missed
  BY <1>1, <1>2 DEF Watchers
<1>4. CASE n \notin exists /\ watcher' = [watcher EXCEPT ![p] = w]
  <2>1. w = [u EXCEPT !.todo = Tail(@), !.missed = u.missed]
    BY <1>1 DEF Watchers
  <2>2. Walked(u, w)
    BY <1>1, <1>3, <1>4, <2>1, DroppedIs
  <2> QED
    BY <1>1, <1>3, <1>4, <2>2
<1>5. CASE Skips(p, w, n)
  <2> DEFINE v == [w EXCEPT !.missed = @ \cup {n}]
  <2>1. /\ n \in exists /\ v \in Watchers /\ watcher' = [watcher EXCEPT ![p] = v]
    <3> HIDE DEF n, w
    <3> QED
      BY <1>3, <1>5, SkipsIs
  <2>2. u.missed \cup {n} \in SUBSET Nodes
    BY <1>1, <1>3, <2>1 DEF TreeHolds
  <2>3. v = [u EXCEPT !.todo = Tail(@), !.missed = u.missed \cup {n}]
    BY <1>1 DEF Watchers
  <2>4. Walked(u, v)
    BY <1>1, <2>2, <2>3, DroppedIs
  <2> QED
    BY <1>1, <2>1, <2>4
<1>6. CASE /\ n \in exists /\ Head(u.todo).do = "visit"
           /\ watcher' = [watcher EXCEPT ![p] =
                             [w EXCEPT !.todo = <<Add(n)>> \o (Visits(SubDirs(n)) \o @)]]
  <2> DEFINE v == [u EXCEPT !.todo = <<Add(n)>> \o (Visits(SubDirs(n)) \o Tail(@))]
  <2>1. Head(u.todo) = Visit(n)
    BY <1>2, <1>6 DEF Steps, Visit
  <2>2. Walked(u, v)
    BY <1>1, <1>6, <2>1, VisitedIs
  <2>3. watcher' = [watcher EXCEPT ![p] = v]
    BY <1>1, <1>6 DEF Watchers
  <2> QED
    BY <1>1, <2>2, <2>3 DEF Walked
<1>7. CASE /\ n \in exists /\ Head(u.todo).do = "add"
           /\ watcher' = [watcher EXCEPT ![p] = [w EXCEPT !.marks = @ \cup {n}]]
  <2> DEFINE v == [u EXCEPT !.todo = Tail(@), !.marks = @ \cup {n}]
  <2>1. Head(u.todo) = Add(n)
    BY <1>2, <1>7 DEF Steps, Add
  <2>2. Walked(u, v)
    BY <1>1, <1>7, <2>1, AddedIs
  <2>3. watcher' = [watcher EXCEPT ![p] = v]
    BY <1>1, <1>7 DEF Watchers
  <2> QED
    BY <1>1, <2>2, <2>3 DEF Walked
<1> QED
  BY <1>4, <1>5, <1>6, <1>7 DEF WalkOn

(***************************************************************************)
(* An event that is queued, or lost with a note that it was.               *)
(***************************************************************************)
LEMMA QueuedIs ==
    ASSUME NEW w \in Watchers, NEW e \in Events
    PROVE  /\ Queued(w, e) \in Watchers
           /\ \A slot \in DOMAIN w \ {"queue", "lost"} : Queued(w, e)[slot] = w[slot]
           /\ \/ Queued(w, e).lost
              \/ /\ Queued(w, e).lost = w.lost
                 /\ Range(Queued(w, e).queue) = Range(w.queue) \cup {e}
<1>1. w.queue \in Seq(Events) /\ Overflow \in Events
  BY DEF Watchers, Events, Overflow
<1>2. /\ Append(w.queue, e) \in Seq(Events) /\ Range(Append(w.queue, e)) = Range(w.queue) \cup {e}
      /\ Append(w.queue, Overflow) \in Seq(Events)
  BY <1>1, AppendRange
<1> QED
  BY <1>1, <1>2 DEF Queued, Watchers
-----------------------------------------------------------------------------
LEMMA NoWatcherIs == /\ NoWatcher \in Watchers /\ NoWatcher.stage = "none"
                     /\ ~NoWatcher.stop /\ NoWatcher.todo = <<>>
BY EmptySeq DEF NoWatcher, Watchers, Stages, Events, NoEvent

LEMMA InitIInv == Init => IInv
<1> SUFFICES ASSUME Init PROVE IInv
  OBVIOUS
<1>1. Typed
  BY NoWatcherIs DEF Init, Typed, TreeHolds, Calls, AtRest
<1>2. \A p \in Watchable : watcher[p] = NoWatcher
  BY DEF Init
<1>3. \A p \in Watchable : Placed(p)
  BY <1>2, NoWatcherIs DEF Init, Placed, Stage, Called, AtRest, Alive
<1> QED
  BY <1>1, <1>2, <1>3, NoWatcherIs DEF Init, IInv, CallerFits, AtRest, Watching

\* A step of the goroutine of p, which leaves the callers and the tree alone.
LEMMA RunFrame ==
    ASSUME IInv, NEW p \in Watchable, Alive(p), NEW w \in Watchers,
           watcher' = [watcher EXCEPT ![p] = w],
           UNCHANGED <<exists, connected, watches, caller>>,
           w.stage \in {"idle", "send", "stat", "expand"} \/ (w.stage = "exited" /\ w.stop),
           w.stop = watcher[p].stop,
           w.todo # <<>> => w.stage = "expand",
           Watching(w) => Covers(w)
    PROVE  IInv'
<1>1. /\ Typed' /\ watcher'[p] = w
      /\ \A q \in Watchable \ {p} : watcher'[q] = watcher[q]
  BY DEF IInv, Typed, TreeHolds
<1>2. CallerFits'
  BY DEF IInv, CallerFits
<1>3. \A q \in Watchable : Placed(q)'
  BY <1>1 DEF IInv, Placed, Called, Alive, Stage
<1>4. \A q \in Watchable : (Watching(watcher[q]) => Covers(watcher[q]))'
  BY <1>1 DEF IInv, Watching, Covers, Due, Awaited
<1> QED
  BY <1>1, <1>2, <1>3, <1>4 DEF IInv

LEMMA RunIInv == \A p \in Watchable : IInv /\ Run(p) => IInv'
<1> SUFFICES ASSUME NEW p \in Watchable, IInv, Run(p) PROVE IInv'
  OBVIOUS
<1> DEFINE u == watcher[p]
<1>0. /\ u \in Watchers /\ TreeHolds
      /\ Watching(u) => Covers(u)
      /\ u.todo # <<>> => u.stage \in {"setup", "expand"}
  BY DEF IInv, Typed, Placed, Stage
<1>1. CASE Exit(p)
  <2> DEFINE w == [u EXCEPT !.stage = "exited"]
  <2>1. /\ watcher' = [watcher EXCEPT ![p] = w] /\ u.stage \in {"idle", "send"} /\ u.stop
        /\ UNCHANGED <<exists, connected, watches, caller>>
    BY <1>1, <1>0 DEF Exit, Stage, treeVars
  <2>2. w \in Watchers /\ w.stage = "exited" /\ w.stop = u.stop /\ w.todo = u.todo
    BY <1>0 DEF Watchers, Stages
  <2> HIDE DEF w
  <2> QED
    BY <1>0, <2>1, <2>2, RunFrame DEF Alive, Stage, Watching
<1>2. CASE TakeEvent(p)
  <2> DEFINE w == [u EXCEPT !.stage = "send", !.event = Head(u.queue), !.queue = Tail(u.queue)]
  <2>1. /\ watcher' = [watcher EXCEPT ![p] = w] /\ u.stage = "idle" /\ u.queue # <<>>
        /\ UNCHANGED <<exists, connected, watches, caller>>
    BY <1>2, <1>0 DEF TakeEvent, Stage, treeVars
  <2>2. /\ Head(u.queue) \in Events /\ Tail(u.queue) \in Seq(Events)
        /\ Range(u.queue) = {Head(u.queue)} \cup Range(Tail(u.queue))
    <3>1. u.queue \in Seq(Events)
      BY <1>0 DEF Watchers
    <3> QED
      BY <2>1, <3>1, TailRange
  <2>3. /\ w \in Watchers /\ w.stage = "send" /\ w.stop = u.stop /\ w.todo = u.todo
        /\ w.marks = u.marks /\ w.missed = u.missed /\ w.recursive = u.recursive /\ w.lost = u.lost
        /\ Range(u.queue) = {w.event} \cup Range(w.queue)
    BY <1>0, <2>2 DEF Watchers, Stages
  <2> HIDE DEF w
  <2>4. Watching(w) => Covers(w)
    BY <1>0, <2>1, <2>3 DEF Watching, Covers, Due, Awaited
  <2> QED
    BY <1>0, <2>1, <2>3, <2>4, RunFrame DEF Alive, Stage
<1>3. CASE SendEvent(p)
  <2> DEFINE w == [u EXCEPT !.stage = IF u.recursive /\ u.event.op = "Create"
                                      THEN "stat" ELSE "idle"]
  <2>1. /\ watcher' = [watcher EXCEPT ![p] = w] /\ u.stage = "send"
        /\ UNCHANGED <<exists, connected, watches, caller>>
    BY <1>3, <1>0 DEF SendEvent, Stage, treeVars
  <2>2. /\ w \in Watchers /\ w.stop = u.stop /\ w.todo = u.todo /\ w.event = u.event
        /\ w.marks = u.marks /\ w.missed = u.missed /\ w.recursive = u.recursive /\ w.lost = u.lost /\ w.queue = u.queue
        /\ w.stage = IF u.recursive /\ u.event.op = "Create" THEN "stat" ELSE "idle"
    BY <1>0 DEF Watchers, Stages
  <2> HIDE DEF w
  <2>3. \A m : Created(m).op = "Create"
    BY DEF Created
  <2>4. Watching(w) => Covers(w)
    BY <1>0, <2>1, <2>2, <2>3 DEF Watching, Covers, Due, Awaited
  <2> QED
    BY <1>0, <2>1, <2>2, <2>4, RunFrame DEF Alive, Stage
<1>4. CASE StatCreated(p)
  <2> DEFINE n == u.event.at
             there == n \in exists \cap Dirs
             w == [u EXCEPT !.stage = "idle"]
  <2>1. u.stage = "stat" /\ connected
    BY <1>4 DEF StatCreated, IInv, CallerFits, Placed, Called, Alive, Stage
  <2>2. UNCHANGED <<exists, connected, watches, caller>>
    BY <1>4 DEF StatCreated
  <2>3. u.todo = <<>> /\ Range(u.todo) = {}
    BY <1>0, <2>1 DEF Range
  <2>4. /\ w \in Watchers /\ w.stop = u.stop /\ w.todo = <<>> /\ w.stage = "idle"
        /\ w.marks = u.marks /\ w.missed = u.missed /\ w.recursive = u.recursive
        /\ w.lost = u.lost /\ w.queue = u.queue
    BY <1>0, <2>3 DEF Watchers, Stages
  <2>5. \A m : Created(m).at = m
    BY DEF Created
  \* What becomes of the goroutine: v is w with more to do or more missed.
  <2>6. ASSUME NEW v \in Watchers, watcher' = [watcher EXCEPT ![p] = v],
               v.stop = u.stop, v.marks = u.marks, v.recursive = u.recursive,
               v.lost = u.lost, v.queue = u.queue, u.missed \subseteq v.missed,
               v.stage = "expand" \/ (v.stage = "idle" /\ v.todo = <<>>),
               \A m : Add(m) \notin Range(v.todo),
               there => Visit(n) \in Range(v.todo) \/ n \in v.missed
        PROVE  IInv'
    <3>1. Watching(v) => Covers(v)
      <4> SUFFICES ASSUME Watching(v), NEW m \in (Dirs \cap exists) \ {Base}, Due(v, m)
                   PROVE  m \in v.marks \cup v.missed \/ Awaited(v, m)
        BY DEF Covers
      <4>1. Due(u, m)
        BY <2>6 DEF Due
      <4>2. m \in u.marks \cup u.missed \/ Awaited(u, m)
        BY <1>0, <2>1, <2>6, <4>1 DEF Watching, Covers
      <4> QED
        BY <2>3, <2>5, <2>6, <4>2 DEF Awaited
    <3> QED
      BY <1>0, <2>1, <2>2, <2>6, <3>1, RunFrame DEF Alive, Stage
  <2>7. CASE there /\ watcher' = [watcher EXCEPT ![p] =
                                    [w EXCEPT !.stage = "expand", !.todo = <<Visit(n)>>]]
    <3> DEFINE v == [w EXCEPT !.stage = "expand", !.todo = <<Visit(n)>>]
    <3>1. Visit(n) \in Steps
      BY <1>0, <2>7 DEF Visit, Steps, TreeHolds
    <3>2. <<Visit(n)>> \in Seq(Steps) /\ Range(<<Visit(n)>>) = {Visit(n)}
      BY <3>1 DEF Range
    <3>3. /\ v \in Watchers /\ v.stop = u.stop /\ v.todo = <<Visit(n)>> /\ v.stage = "expand"
          /\ v.marks = u.marks /\ v.missed = u.missed /\ v.recursive = u.recursive
          /\ v.lost = u.lost /\ v.queue = u.queue
      BY <2>4, <3>2 DEF Watchers, Stages
    <3>4. \A m : Add(m) # Visit(n)
      BY DEF Add, Visit
    <3>5. watcher' = [watcher EXCEPT ![p] = v]
      BY <2>7
    <3>6. Visit(n) \in Range(v.todo) /\ \A m : Add(m) \notin Range(v.todo)
      BY <3>2, <3>3, <3>4
    <3> HIDE DEF v, w
    <3> QED
      BY <2>6, <3>3, <3>5, <3>6
  <2>8. CASE ~there /\ watcher' = [watcher EXCEPT ![p] = w]
    <3> HIDE DEF w
    <3> QED
      BY <2>3, <2>4, <2>6, <2>8
  <2>9. CASE Skips(p, w, n)
    <3> DEFINE v == [w EXCEPT !.missed = @ \cup {n}]
    <3>1. v \in Watchers /\ watcher' = [watcher EXCEPT ![p] = v]
      <4>1. Typed /\ w \in Watchers
        BY <2>4 DEF IInv
      <4> HIDE DEF n, w
      <4> QED
        BY <2>9, <4>1, SkipsIs
    <3>3. v.missed = w.missed \cup {n}
      BY <2>4 DEF Watchers
    <3>2. /\ v.stop = u.stop /\ v.todo = <<>> /\ v.stage = "idle"
          /\ v.marks = u.marks /\ v.recursive = u.recursive
          /\ v.lost = u.lost /\ v.queue = u.queue
      BY <2>4 DEF Watchers
    <3> HIDE DEF v, w
    <3> QED
      BY <2>3, <2>4, <2>6, <3>1, <3>2, <3>3
  <2> QED
    BY <1>4, <2>1, <2>7, <2>8, <2>9 DEF StatCreated
<1>5. CASE Expand(p)
  <2>1. /\ u.stage = "expand" /\ UNCHANGED <<exists, connected, watches, caller>>
    BY <1>5 DEF Expand, Stage
  <2>2. CASE u.todo = <<>> /\ watcher' = [watcher EXCEPT ![p].stage = "idle"]
    <3> DEFINE w == [u EXCEPT !.stage = "idle"]
    <3>1. /\ w \in Watchers /\ w.stop = u.stop /\ w.stage = "idle" /\ w.todo = <<>>
          /\ w.marks = u.marks /\ w.missed = u.missed /\ w.recursive = u.recursive
          /\ w.lost = u.lost /\ w.queue = u.queue /\ w.event = u.event
          /\ watcher' = [watcher EXCEPT ![p] = w]
      BY <1>0, <2>2 DEF Watchers, Stages
    <3> HIDE DEF w
    <3>2. Watching(w) => Covers(w)
      BY <1>0, <2>1, <2>2, <3>1 DEF Watching, Covers, Due, Awaited
    <3> QED
      BY <1>0, <2>1, <3>1, <3>2, RunFrame DEF Alive, Stage
  <2>3. CASE WalkOn(p)
    <3>1. PICK w \in Watchers : Walked(u, w) /\ watcher' = [watcher EXCEPT ![p] = w]
      BY <2>3, WalkOnIs DEF IInv
    <3> QED
      BY <1>0, <2>1, <3>1, RunFrame DEF Alive, Stage, Watching, Walked
  <2> QED
    BY <1>5, <2>2, <2>3 DEF Expand
<1> QED
  BY <1>1, <1>2, <1>3, <1>4, <1>5 DEF Run
-----------------------------------------------------------------------------
\* A step of a method, which may change the watcher of p and leaves the tree alone.
LEMMA CallFrame ==
    ASSUME IInv, NEW p \in Watchable, NEW w \in Watchers,
           watcher' = [watcher EXCEPT ![p] = w], exists' = exists,
           connected' \in BOOLEAN, watches' \subseteq Watchable, caller' \in Calls,
           CallerFits', \A q \in Watchable : Placed(q)',
           Watching(w) => Covers(w)
    PROVE  IInv'
<1>1. /\ Typed' /\ watcher'[p] = w
      /\ \A q \in Watchable \ {p} : watcher'[q] = watcher[q]
  BY DEF IInv, Typed, TreeHolds
<1>2. \A q \in Watchable : (Watching(watcher[q]) => Covers(watcher[q]))'
  BY <1>1 DEF IInv, Watching, Covers, Due, Awaited
<1> QED
  BY <1>1, <1>2 DEF IInv

\* A step that leaves the watchers and the tree alone.
LEMMA StillCovers ==
    ASSUME IInv, UNCHANGED <<exists, watcher>>,
           connected' \in BOOLEAN, watches' \subseteq Watchable, caller' \in Calls,
           CallerFits', \A q \in Watchable : Placed(q)'
    PROVE  IInv'
<1>1. \A q \in Watchable : (Watching(watcher[q]) => Covers(watcher[q]))'
  BY DEF IInv, Watching, Covers, Due, Awaited
<1> QED
  BY <1>1 DEF IInv, Typed, TreeHolds

LEMMA ConnectIInv == IInv /\ (Connect \/ DisconnectBegins) => IInv'
<1> SUFFICES ASSUME IInv, Connect \/ DisconnectBegins PROVE IInv'
  OBVIOUS
<1>1. /\ UNCHANGED <<exists, watches, watcher>> /\ connected' = TRUE
      /\ caller = AtRest
      /\ caller' = AtRest \/ caller' = [stage |-> "next", op |-> "Disconnect", at |-> NoNode]
  BY DEF Connect, DisconnectBegins, treeVars, IInv, Typed
<1>2. caller' \in Calls /\ CallerFits'
  BY <1>1 DEF CallerFits, AtRest, Calls
<1>3. \A q \in Watchable : Placed(q)'
  BY <1>1 DEF IInv, Placed, Called, Alive, Stage, AtRest
<1> QED
  BY <1>1, <1>2, <1>3, StillCovers DEF IInv, Typed

LEMMA BeginsIInv ==
    \A p \in Watchable, recursive \in BOOLEAN : IInv /\ WatchBegins(p, recursive) => IInv'
<1> SUFFICES ASSUME NEW p \in Watchable, NEW recursive \in BOOLEAN, IInv, WatchBegins(p, recursive)
             PROVE  IInv'
  OBVIOUS
<1> DEFINE todo == IF recursive THEN <<Visit(p)>> ELSE <<>>
           w == [NoWatcher EXCEPT !.stage = "setup", !.recursive = recursive,
                                  !.marks = {p}, !.todo = todo]
<1>1. /\ watcher' = [watcher EXCEPT ![p] = w] /\ caller = AtRest /\ p \notin watches
      /\ caller' = [stage |-> "walk", op |-> "Watch", at |-> p] /\ connected
      /\ UNCHANGED <<exists, connected, watches>>
  BY DEF WatchBegins, treeVars
<1>2. p \in Nodes /\ todo \in Seq(Steps)
  <2>1. p \in Nodes /\ Visit(p) \in Steps
    BY WatcherAssumption DEF Visit, Steps
  <2> QED
    BY <2>1
<1>3. /\ w \in Watchers /\ w.stage = "setup" /\ ~w.stop /\ w.recursive = recursive
      /\ w.marks = {p} /\ w.todo = todo
  BY <1>2, NoWatcherIs DEF Watchers, Stages
<1> HIDE DEF w
<1>4. Watching(w) => Covers(w)
  BY <1>3 DEF Watching, Covers, Due, Awaited, Range, Visit, Add
<1>5. caller' \in Calls /\ CallerFits'
  BY <1>1, <1>2 DEF Calls, CallerFits
<1>6. \A q \in Watchable : Placed(q)'
  BY <1>1, <1>3 DEF IInv, Typed, Placed, Called, Alive, Stage, AtRest
<1> QED
  BY <1>1, <1>3, <1>4, <1>5, <1>6, CallFrame DEF IInv, Typed

LEMMA AddsIInv == IInv /\ WatchAdds => IInv'
<1> SUFFICES ASSUME IInv, WatchAdds PROVE IInv'
  OBVIOUS
<1> DEFINE p == caller.at
           u == watcher[p]
<1>1. /\ p \in Watchable /\ u \in Watchers /\ u.stage = "setup"
      /\ Watching(u) => Covers(u)
      /\ WalkOn(p) /\ UNCHANGED <<exists, connected, watches, caller>>
  BY DEF WatchAdds, IInv, Typed, CallerFits, Placed, Called, Stage
<1>2. PICK w \in Watchers : Walked(u, w) /\ watcher' = [watcher EXCEPT ![p] = w]
  BY <1>1, WalkOnIs DEF IInv
<1>3. CallerFits'
  BY <1>1 DEF IInv, CallerFits
<1>4. \A q \in Watchable : Placed(q)'
  BY <1>1, <1>2 DEF IInv, Typed, Placed, Called, Alive, Stage, Walked
<1> QED
  BY <1>1, <1>2, <1>3, <1>4, CallFrame DEF IInv, Typed, Watching, Walked

LEMMA GoesIInv == IInv /\ WatchGoes => IInv'
<1> SUFFICES ASSUME IInv, WatchGoes PROVE IInv'
  OBVIOUS
<1> DEFINE p == caller.at
           u == watcher[p]
           w == [u EXCEPT !.stage = "idle"]
<1>1. /\ p \in Watchable /\ u \in Watchers /\ u.todo = <<>> /\ u.stage = "setup"
      /\ caller.stage = "walk"
      /\ Watching(u) => Covers(u)
      /\ watcher' = [watcher EXCEPT ![p] = w]
      /\ caller' = [caller EXCEPT !.stage = "register"]
      /\ UNCHANGED <<exists, connected, watches>>
  BY DEF WatchGoes, treeVars, IInv, Typed, CallerFits, Placed, Called, Stage
<1>2. /\ w \in Watchers /\ w.stage = "idle" /\ w.stop = u.stop /\ w.todo = <<>>
      /\ w.marks = u.marks /\ w.missed = u.missed /\ w.recursive = u.recursive /\ w.lost = u.lost
      /\ w.queue = u.queue /\ w.event = u.event
  BY <1>1 DEF Watchers, Stages
<1> HIDE DEF w
<1>3. Watching(w) => Covers(w)
  BY <1>1, <1>2 DEF Watching, Covers, Due, Awaited
<1>4. caller' \in Calls /\ caller'.stage = "register" /\ caller'.at = p
  BY <1>1 DEF IInv, Typed, Calls
<1>5. CallerFits'
  BY <1>1, <1>4 DEF IInv, CallerFits
<1>6. \A q \in Watchable : Placed(q)'
  BY <1>1, <1>2, <1>4 DEF IInv, Typed, Placed, Called, Alive, Stage
<1> QED
  BY <1>1, <1>2, <1>3, <1>4, <1>5, <1>6, CallFrame DEF IInv, Typed

LEMMA RegistersIInv == IInv /\ WatchRegisters => IInv'
<1> SUFFICES ASSUME IInv, WatchRegisters PROVE IInv'
  OBVIOUS
<1>1. /\ caller.stage = "register" /\ caller.at \in Watchable /\ connected
      /\ watches' = watches \cup {caller.at} /\ caller' = AtRest
      /\ UNCHANGED <<exists, connected, watcher>>
  BY DEF WatchRegisters, treeVars, IInv, CallerFits
<1>2. caller' \in Calls /\ CallerFits'
  BY <1>1 DEF CallerFits, AtRest, Calls
<1>3. \A q \in Watchable : Placed(q)'
  BY <1>1 DEF IInv, Placed, Called, Alive, Stage, AtRest
<1> QED
  BY <1>1, <1>2, <1>3, StillCovers DEF IInv, Typed

LEMMA StopBeginsIInv ==
    ASSUME IInv, NEW p \in watches, NEW op \in {"Unwatch", "Disconnect"},
           caller.stage \in {"rest", "next"},
           StopBegins(op, p), UNCHANGED <<exists, connected, watches>>
    PROVE  IInv'
<1> DEFINE u == watcher[p]
           w == [u EXCEPT !.stop = TRUE]
<1>1. /\ p \in Watchable /\ p \in Nodes /\ u \in Watchers
      /\ Watching(u) => Covers(u)
      /\ watcher' = [watcher EXCEPT ![p] = w]
      /\ caller' = [stage |-> "wait", op |-> op, at |-> p]
  BY WatcherAssumption DEF StopBegins, IInv, Typed
<1>2. /\ w \in Watchers /\ w.stage = u.stage /\ w.stop /\ w.todo = u.todo
      /\ w.marks = u.marks /\ w.missed = u.missed /\ w.recursive = u.recursive /\ w.lost = u.lost
      /\ w.queue = u.queue /\ w.event = u.event
  BY <1>1 DEF Watchers
<1> HIDE DEF w
<1>3. Watching(w) => Covers(w)
  BY <1>1, <1>2 DEF Watching, Covers, Due, Awaited
<1>4. caller' \in Calls /\ CallerFits'
  BY <1>1 DEF IInv, Typed, CallerFits, Calls
<1>5. \A q \in Watchable : Placed(q)'
  BY <1>1, <1>2 DEF IInv, Typed, Placed, Called, Alive, Stage, CallerFits
<1> QED
  BY <1>1, <1>2, <1>3, <1>4, <1>5, CallFrame DEF IInv, Typed

LEMMA UnwatchIInv == \A p \in Watchable : IInv /\ UnwatchBegins(p) => IInv'
BY StopBeginsIInv DEF UnwatchBegins, treeVars, AtRest

LEMMA StopEndsIInv == IInv /\ StopEnds => IInv'
<1> SUFFICES ASSUME IInv, StopEnds PROVE IInv'
  OBVIOUS
<1> DEFINE p == caller.at
<1>1. /\ caller.stage = "wait" /\ p \in Watchable /\ connected
      /\ watcher' = [watcher EXCEPT ![p] = NoWatcher] /\ watches' = watches \ {p}
      /\ caller' = AtRest \/ caller' = [caller EXCEPT !.stage = "next"]
      /\ UNCHANGED <<exists, connected>>
  BY DEF StopEnds, treeVars, IInv, CallerFits
<1>2. /\ caller' \in Calls /\ caller'.stage \in {"rest", "next"}
      /\ caller'.stage = "rest" => caller' = AtRest
  BY <1>1 DEF IInv, Typed, Calls, AtRest
<1>3. CallerFits'
  BY <1>1, <1>2 DEF CallerFits
<1>4. \A q \in Watchable : Placed(q)'
  BY <1>1, <1>2, NoWatcherIs DEF IInv, Typed, Placed, Called, Alive, Stage
<1> QED
  BY <1>1, <1>2, <1>3, <1>4, NoWatcherIs, CallFrame DEF IInv, Typed, Watching

LEMMA DisconnectIInv == IInv /\ DisconnectNext => IInv'
<1> SUFFICES ASSUME IInv, DisconnectNext PROVE IInv'
  OBVIOUS
<1>1. CASE \E p \in watches : StopBegins("Disconnect", p) /\ UNCHANGED connected
  BY <1>1, StopBeginsIInv DEF DisconnectNext, treeVars
<1>2. CASE watches = {} /\ connected' = FALSE /\ caller' = AtRest /\ UNCHANGED watcher
  <2>1. UNCHANGED <<exists, watches>> /\ caller.stage = "next"
    BY DEF DisconnectNext, treeVars
  <2>2. caller' \in Calls /\ CallerFits'
    BY <1>2, <2>1 DEF CallerFits, AtRest, Calls
  <2>3. \A q \in Watchable : Placed(q)'
    BY <1>2, <2>1 DEF IInv, Placed, Called, Alive, Stage, AtRest
  <2> QED
    BY <1>2, <2>1, <2>2, <2>3, StillCovers DEF IInv, Typed
<1> QED
  BY <1>1, <1>2 DEF DisconnectNext
-----------------------------------------------------------------------------
\* What a change at n leaves of a watcher.
Notified(w, v, e) ==
    /\ v \in Watchers
    /\ v.stage = w.stage /\ v.recursive = w.recursive /\ v.event = w.event
    /\ v.todo = w.todo /\ v.stop = w.stop
    /\ v.marks = IF e.op = "Remove" THEN w.marks \ {e.at} ELSE w.marks
    /\ v.missed \cup {e.at} = w.missed \cup {e.at}
    /\ e.op # "Remove" /\ Add(Parent[e.at]) \in Range(w.todo) =>
          Parent[e.at] \in w.marks \/ e.at \in v.missed
    /\ e.op # "Remove" => w.missed \subseteq v.missed
    /\ \/ v.lost
       \/ /\ v.lost = w.lost
          /\ Range(w.queue) \subseteq Range(v.queue)
          /\ w.marks \cap {e.at, Parent[e.at]} # {} => e \in Range(v.queue)

LEMMA NotifyIs ==
    ASSUME Typed, NEW e \in Events, e.at \in Nodes, Notify(e)
    PROVE  /\ watcher' \in [Watchable -> Watchers]
           /\ \A p \in Watchable : Notified(watcher[p], watcher'[p], e)
<1> DEFINE late(w) == Add(Parent[e.at]) \in Range(w.todo) /\ Parent[e.at] \notin w.marks
           unmarked(w) == IF e.op = "Remove"
                          THEN [w EXCEPT !.marks = @ \ {e.at}, !.missed = @ \ {e.at}]
                          ELSE [w EXCEPT !.missed = IF late(w) THEN @ \cup {e.at} ELSE @]
           change(w) == IF w.marks \cap {e.at, Parent[e.at]} # {}
                        THEN Queued(unmarked(w), e) ELSE unmarked(w)
<1>1. watcher' = [p \in Watchable |-> change(watcher[p])]
  BY DEF Notify
<1>2. \A w \in Watchers : Notified(w, change(w), e)
  <2> SUFFICES ASSUME NEW w \in Watchers PROVE Notified(w, change(w), e)
    OBVIOUS
  <2> DEFINE u == unmarked(w)
  <2>0. e.at \in Nodes
    OBVIOUS
  <2>1. /\ u \in Watchers /\ u.stage = w.stage /\ u.recursive = w.recursive
        /\ u.event = w.event /\ u.todo = w.todo /\ u.stop = w.stop /\ u.lost = w.lost
        /\ u.queue = w.queue
        /\ u.marks = IF e.op = "Remove" THEN w.marks \ {e.at} ELSE w.marks
        /\ u.missed = IF e.op = "Remove" THEN w.missed \ {e.at}
                      ELSE IF late(w) THEN w.missed \cup {e.at} ELSE w.missed
    <3>1. e.op # "Remove" /\ late(w) => e.at \in Nodes
      BY <2>0
    <3> HIDE DEF late
    <3> QED
      BY <3>1 DEF Watchers
  <2>9. /\ u.missed \cup {e.at} = w.missed \cup {e.at}
        /\ e.op # "Remove" /\ Add(Parent[e.at]) \in Range(w.todo) =>
              Parent[e.at] \in w.marks \/ e.at \in u.missed
        /\ e.op # "Remove" => w.missed \subseteq u.missed
    BY <2>1
  <2> HIDE DEF u
  <2>2. CASE w.marks \cap {e.at, Parent[e.at]} # {}
    <3> DEFINE v == Queued(u, e)
    <3>1. /\ v \in Watchers
          /\ \A slot \in DOMAIN u \ {"queue", "lost"} : v[slot] = u[slot]
          /\ v.lost \/ (v.lost = u.lost /\ Range(v.queue) = Range(u.queue) \cup {e})
      BY <2>1, QueuedIs
    <3>2. DOMAIN u = {"stage", "recursive", "marks", "queue", "event", "todo", "stop", "lost",
                      "missed"}
      BY <2>1 DEF Watchers
    <3>3. change(w) = v
      BY <2>2 DEF u
    <3> HIDE DEF v, change
    <3>4. /\ v.stage = u.stage /\ v.recursive = u.recursive /\ v.marks = u.marks
          /\ v.event = u.event /\ v.todo = u.todo /\ v.stop = u.stop
          /\ v.missed = u.missed
      BY <3>1, <3>2
    <3> QED
      BY <2>1, <2>9, <3>1, <3>3, <3>4 DEF Notified
  <2>3. CASE w.marks \cap {e.at, Parent[e.at]} = {}
    <3>1. change(w) = u
      BY <2>3 DEF u
    <3> HIDE DEF change
    <3> QED
      BY <2>1, <2>9, <2>3, <3>1 DEF Notified
  <2> QED
    BY <2>2, <2>3
<1> HIDE DEF change
<1>3. \A p \in Watchable : watcher[p] \in Watchers
  BY DEF Typed
<1> QED
  BY <1>1, <1>2, <1>3 DEF Notified

\* A change of the tree leaves the calls alone.
LEMMA ChangeFrame ==
    ASSUME IInv, NEW n \in Nodes \ {Base}, NEW op \in {"Create", "Remove"},
           Notify([op |-> op, at |-> n]), UNCHANGED <<connected, watches, caller>>,
           TreeHolds', exists' \subseteq exists \cup {n},
           op = "Remove" => n \notin exists' /\ \A m \in exists \ {Base} : Parent[m] # n,
           op = "Create" => n \notin exists
    PROVE  IInv'
<1> DEFINE e == [op |-> op, at |-> n]
<1>1. e \in Events /\ e.at \in Nodes
  BY DEF Events
<1>2. /\ watcher' \in [Watchable -> Watchers]
      /\ \A p \in Watchable : Notified(watcher[p], watcher'[p], e)
  BY <1>1, NotifyIs DEF IInv
<1>3. Typed' /\ CallerFits'
  BY <1>2 DEF IInv, Typed, CallerFits
<1>4. \A p \in Watchable : Placed(p)'
  <2> SUFFICES ASSUME NEW p \in Watchable PROVE Placed(p)'
    OBVIOUS
  <2>1. /\ watcher'[p].stage = watcher[p].stage /\ watcher'[p].stop = watcher[p].stop
        /\ watcher'[p].todo = watcher[p].todo
    BY <1>2 DEF Notified
  <2>2. Placed(p)
    BY DEF IInv
  <2> QED
    BY <2>1, <2>2 DEF Placed, Called, Alive, Stage
<1>5. ASSUME NEW p \in Watchable, Watching(watcher'[p]) PROVE Covers(watcher[p])'
  <2> DEFINE w == watcher[p]
             v == watcher'[p]
  <2>1. Notified(w, v, e) /\ w \in Watchers
    BY <1>2 DEF IInv, Typed
  <2>2. Watching(w)
    BY <1>5, <2>1 DEF Watching, Notified, Watchers
  <2>3. Covers(w)
    BY <2>2 DEF IInv
  <2>4. SUFFICES ASSUME NEW m \in (Dirs \cap exists') \ {Base}, Due(v, m)
                 PROVE  m \in v.marks \cup v.missed \/ Awaited(v, m)
    BY DEF Covers, Due, Awaited
  <2>5. ~v.lost
    BY <1>5 DEF Watching
  <2>6. CASE m = n
    <3>1. op = "Create" /\ e = Created(m)
      BY <2>4, <2>6 DEF Created
    <3>2. Parent[m] \in w.marks \/ Add(Parent[m]) \in Range(w.todo)
      BY <2>1, <2>4, <3>1 DEF Notified, Due
    <3>3. CASE Parent[m] \in w.marks
      <4>1. Created(m) \in Range(v.queue)
        BY <2>1, <2>5, <2>6, <3>1, <3>3 DEF Notified
      <4> QED
        BY <4>1 DEF Awaited
    <3>4. CASE Parent[m] \notin w.marks
      BY <2>1, <2>6, <3>1, <3>2, <3>4 DEF Notified
    <3> QED
      BY <3>3, <3>4
  <2>7. CASE m # n
    <3>1. m \in (Dirs \cap exists) \ {Base}
      BY <2>7
    <3>2. op = "Remove" => Parent[m] # n
      BY <3>1
    <3>3. Due(w, m)
      BY <2>1, <2>4, <3>2 DEF Notified, Due
    <3>4. m \in w.marks \cup w.missed \/ Awaited(w, m)
      BY <2>3, <3>1, <3>3 DEF Covers
    <3>5. m \in w.marks \cup w.missed => m \in v.marks \cup v.missed
      BY <2>1, <2>7 DEF Notified
    <3>6. Awaited(w, m) => Awaited(v, m)
      BY <2>1, <2>5 DEF Awaited, Notified
    <3> QED
      BY <3>4, <3>5, <3>6
  <2> QED
    BY <2>6, <2>7
<1> QED
  BY <1>3, <1>4, <1>5 DEF IInv, Watching

LEMMA TreeIInv == \A n \in Nodes \ {Base} : IInv /\ (CreateNode(n) \/ RemoveNode(n)) => IInv'
<1> SUFFICES ASSUME NEW n \in Nodes \ {Base}, IInv, CreateNode(n) \/ RemoveNode(n)
             PROVE  IInv'
  OBVIOUS
<1>1. CASE CreateNode(n)
  <2>1. /\ Notify([op |-> "Create", at |-> n]) /\ UNCHANGED <<connected, watches, caller>>
        /\ n \notin exists /\ Parent[n] \in exists /\ exists' = exists \cup {n}
    BY <1>1 DEF CreateNode
  <2>2. TreeHolds'
    BY <2>1 DEF IInv, Typed, TreeHolds
  <2> QED
    BY <2>1, <2>2, ChangeFrame
<1>2. CASE RemoveNode(n)
  <2>1. /\ Notify([op |-> "Remove", at |-> n]) /\ UNCHANGED <<connected, watches, caller>>
        /\ n \in exists /\ \A m \in exists \ {Base} : Parent[m] # n
        /\ exists' = exists \ {n}
    BY <1>2 DEF RemoveNode
  <2>2. TreeHolds'
    BY <2>1 DEF IInv, Typed, TreeHolds
  <2> QED
    BY <2>1, <2>2, ChangeFrame
<1> QED
  BY <1>1, <1>2

LEMMA NextIInv == IInv /\ [Next]_vars => IInv'
<1> SUFFICES ASSUME IInv, [Next]_vars PROVE IInv'
  OBVIOUS
<1>1. CASE Connect \/ DisconnectBegins
  BY <1>1, ConnectIInv
<1>2. ASSUME NEW p \in Watchable, \E recursive \in BOOLEAN : WatchBegins(p, recursive)
      PROVE  IInv'
  BY <1>2, BeginsIInv
<1>3. ASSUME NEW p \in Watchable, UnwatchBegins(p) \/ Run(p) PROVE IInv'
  BY <1>3, UnwatchIInv, RunIInv
<1>4. CASE CallerGoesOn
  BY <1>4, AddsIInv, GoesIInv, RegistersIInv, StopEndsIInv, DisconnectIInv DEF CallerGoesOn
<1>5. CASE \E n \in Nodes \ {Base} : CreateNode(n) \/ RemoveNode(n)
  BY <1>5, TreeIInv
<1>6. CASE Receive \/ UNCHANGED vars
  <2>1. UNCHANGED <<exists, connected, watches, watcher, caller>>
    BY <1>6 DEF Receive, vars, treeVars
  <2>2. CallerFits' /\ \A p \in Watchable : Placed(p)'
    BY <2>1 DEF IInv, CallerFits, Placed, Called, Alive, Stage
  <2> QED
    BY <2>1, <2>2, StillCovers DEF IInv, Typed
<1> QED
  BY <1>1, <1>2, <1>3, <1>4, <1>5, <1>6 DEF Next

LEMMA Invariance == Spec => []IInv
BY InitIInv, NextIInv, PTL DEF Spec

-----------------------------------------------------------------------------
(***************************************************************************)
(* No goroutine outlives its watch: it runs only while the adaptor is      *)
(* connected and lists the watch, or is about to.                          *)
(***************************************************************************)
THEOREM WatcherAliveIsListed == Spec => []AliveIsListed
<1>1. IInv => AliveIsListed
  BY DEF IInv, CallerFits, Placed, Called, AliveIsListed
<1> QED
  BY <1>1, Invariance, PTL

(***************************************************************************)
(* A recursive watcher at rest watches the whole tree of its path, however *)
(* deep it is and in whatever order directories came and went.             *)
(***************************************************************************)
THEOREM WatcherCovers == Spec => []CoveredWhenQuiet
<1>1. ASSUME IInv PROVE CoveredWhenQuiet
  <2> SUFFICES ASSUME NEW p \in Watchable, Stage(p) = "idle", watcher[p].recursive,
                      watcher[p].queue = <<>>, ~watcher[p].lost, p \in watcher[p].marks
               PROVE  Below(p) \cap Dirs \cap exists \subseteq
                          watcher[p].marks \cup UNION {Below(n) : n \in watcher[p].missed}
    BY DEF CoveredWhenQuiet, Stage
  <2> DEFINE w == watcher[p]
             skipped == UNION {Below(n) : n \in w.missed}
             S == {m \in Nodes : m \in Dirs \cap exists => m \in w.marks \cup skipped}
  <2>1. Covers(w) /\ w.stage = "idle" /\ w.todo = <<>> /\ w.queue = <<>>
    BY <1>1 DEF IInv, Watching, Placed, Stage
  <2>2. \A m \in (Dirs \cap exists) \ {Base} :
            Parent[m] \in w.marks \ w.missed => m \in w.marks \cup w.missed
    BY <2>1 DEF Covers, Due, Awaited, Range
  <2>6. w.missed \subseteq skipped
    <3> SUFFICES ASSUME NEW n \in w.missed PROVE n \in Below(n)
      OBVIOUS
    <3>1. n \in Nodes
      BY <1>1 DEF IInv, Typed, Watchers
    <3> QED
      BY <3>1 DEF Below
  <2>7. \A k \in Nodes \ {Base} : Parent[k] \in skipped => k \in skipped
    BY DEF Below
  <2>3. p \in S
    BY WatcherAssumption
  <2>4. \A k \in Nodes \ {Base} : Parent[k] \in S => k \in S
    <3> SUFFICES ASSUME NEW k \in Nodes \ {Base}, Parent[k] \in S, k \in Dirs \cap exists
                 PROVE  k \in w.marks \cup skipped
      OBVIOUS
    <3>1. Parent[k] \in Dirs \cap exists
      BY <1>1, WatcherAssumption DEF IInv, Typed, TreeHolds
    <3>2. Parent[k] \in w.marks \cup skipped
      BY <3>1
    <3> HIDE DEF skipped
    <3> QED
      BY <2>2, <2>6, <2>7, <3>2
  <2>5. Below(p) \subseteq S
    BY <2>3, <2>4 DEF Below
  <2> QED
    BY <2>5
<1> QED
  BY <1>1, Invariance, PTL

(***************************************************************************)
(* The caller that waits for a goroutine to stop is not forgotten: that    *)
(* goroutine has been told to stop and runs, or has already exited.  The   *)
(* Wait of Unwatch and Disconnect is never left without a goroutine        *)
(* that will answer it.  It is the safety half of StopReturns.             *)
(***************************************************************************)
StopHeard ==
    caller.stage = "wait" =>
        \/ Stage(caller.at) = "exited"
        \/ Alive(caller.at) /\ watcher[caller.at].stop

\* Unwatch and Disconnect never wait for a goroutine that was not told to stop, or never ran.
THEOREM WatcherStopHeard == Spec => []StopHeard
<1>1. IInv => StopHeard
  BY DEF IInv, CallerFits, Placed, Called, StopHeard
<1> QED
  BY <1>1, Invariance, PTL
=============================================================================
