---------------------------- MODULE RouterProofs ----------------------------
(***************************************************************************)
(* Proofs about the router, for every set of mount points, adaptors,       *)
(* names and clients that satisfies RouterAssumption.                      *)
(***************************************************************************)
EXTENDS RouterProps, SequenceTheorems, TLAPS

-----------------------------------------------------------------------------
(***************************************************************************)
(* Facts about paths and lists.                                            *)
(***************************************************************************)

\* Of two prefixes of one path, the one that is not longer is a prefix of the
\* other.
LEMMA PrefixesNest ==
    ASSUME NEW S, NEW p \in Seq(S), NEW q \in Seq(S), NEW s \in Seq(S),
           Covers(p, s), Covers(q, s), Len(p) <= Len(q)
    PROVE  Covers(p, q)
  <1>1. \A i \in 1..Len(p) : p[i] = s[i]
    <2> SUFFICES ASSUME NEW i \in 1..Len(p) PROVE p[i] = s[i]
      OBVIOUS
    <2>1. SubSeq(p, 1, Len(p))[i] = SubSeq(s, 1, Len(p))[i]
      BY DEF Covers, IsPrefix
    <2> QED BY <2>1 DEF Covers, IsPrefix
  <1>2. \A i \in 1..Len(q) : q[i] = s[i]
    <2> SUFFICES ASSUME NEW i \in 1..Len(q) PROVE q[i] = s[i]
      OBVIOUS
    <2>1. SubSeq(q, 1, Len(q))[i] = SubSeq(s, 1, Len(q))[i]
      BY DEF Covers, IsPrefix
    <2> QED BY <2>1 DEF Covers, IsPrefix
  <1>3. \A i \in 1..Len(p) : p[i] = q[i]
    BY <1>1, <1>2
  <1>4. SubSeq(p, 1, Len(p)) = SubSeq(q, 1, Len(p))
    BY <1>3
  <1> QED BY <1>4 DEF Covers, IsPrefix

\* Rearranging a list keeps its elements, and keeps them distinct.
LEMMA RearrangedKeeps ==
    ASSUME NEW S, NEW s \in Seq(S), NEW t \in Rearranged(s)
    PROVE  /\ t \in Seq(S)
           /\ ToSet(t) = ToSet(s)
           /\ IsInjective(s) => IsInjective(t)
  <1>1. PICK f \in Bijection(DOMAIN s, DOMAIN s) : t = [i \in DOMAIN s |-> s[f[i]]]
    BY DEF Rearranged
  <1>2. /\ f \in [DOMAIN s -> DOMAIN s]
        /\ \A a, b \in DOMAIN s : f[a] = f[b] => a = b
        /\ \A i \in DOMAIN s : \E j \in DOMAIN s : f[j] = i
    BY <1>1 DEF Bijection, Injection, Surjection, IsInjective
  <1>3. DOMAIN s = 1..Len(s) /\ Len(s) \in Nat
    OBVIOUS
  <1>4. t \in [1..Len(s) -> S]
    BY <1>1, <1>2, <1>3
  <1>5. t \in Seq(S)
    BY <1>3, <1>4
  <1>6. ToSet(t) = ToSet(s)
    BY <1>1, <1>2 DEF ToSet
  <1>7. IsInjective(s) => IsInjective(t)
    BY <1>1, <1>2 DEF IsInjective
  <1> QED BY <1>5, <1>6, <1>7

\* Removing the one occurrence of e keeps the rest, in order.
LEMMA RemoveFirstKeeps ==
    ASSUME NEW S, NEW s \in Seq(S), IsInjective(s), NEW e \in ToSet(s)
    PROVE  /\ RemoveFirst(s, e) \in Seq(S)
           /\ ToSet(RemoveFirst(s, e)) = ToSet(s) \ {e}
           /\ IsInjective(RemoveFirst(s, e))
           /\ LongestFirst(s) => LongestFirst(RemoveFirst(s, e))
  <1>1. PICK k \in 1..Len(s) : s[k] = e
    BY DEF ToSet
  <1>2. {i \in 1..Len(s) : s[i] = e} = {k}
    BY <1>1 DEF IsInjective
  <1>3. SelectInSeq(s, LAMBDA v : v = e) = k
    <2>1. SelectInSeq(s, LAMBDA v : v = e) = Min({k})
      BY <1>2 DEF SelectInSeq
    <2>2. Min({k}) = k
      BY DEF Min
    <2> QED BY <2>1, <2>2
  <1>4. RemoveFirst(s, e) = RemoveAt(s, k)
    BY <1>1, <1>3 DEF RemoveFirst
  <1> DEFINE t == RemoveAt(s, k)
  <1>5. /\ t \in Seq(S)
        /\ Len(t) = Len(s) - 1
        /\ \A i \in 1..Len(t) : t[i] = s[IF i < k THEN i ELSE i + 1]
    <2> DEFINE before == SubSeq(s, 1, k - 1)
               after == SubSeq(s, k + 1, Len(s))
    <2>1. /\ before \in Seq(S) /\ Len(before) = k - 1
          /\ \A i \in 1..(k - 1) : before[i] = s[i]
      BY <1>1
    <2>2. /\ after \in Seq(S) /\ Len(after) = Len(s) - k
          /\ \A i \in 1..(Len(s) - k) : after[i] = s[k + i]
      BY <1>1
    <2>3. t = before \o after
      BY DEF RemoveAt
    <2> HIDE DEF before, after, t
    <2>4. /\ t \in Seq(S)
          /\ Len(t) = Len(before) + Len(after)
          /\ \A i \in 1..Len(t) :
                t[i] = IF i <= Len(before) THEN before[i] ELSE after[i - Len(before)]
      <3>1. before \o after \in Seq(S) /\ Len(before \o after) = Len(before) + Len(after)
        BY <2>1, <2>2, ConcatProperties
      <3>2. \A i \in 1..(Len(before) + Len(after)) : (before \o after)[i] =
               IF i <= Len(before) THEN before[i] ELSE after[i - Len(before)]
        BY <2>1, <2>2
      <3> QED BY <3>1, <3>2, <2>3
    <2>5. Len(t) = Len(s) - 1
      BY <2>1, <2>2, <2>4, <1>1
    <2>6. ASSUME NEW i \in 1..Len(t)
          PROVE  t[i] = s[IF i < k THEN i ELSE i + 1]
      <3>1. CASE i < k
        BY <3>1, <2>1, <2>4
      <3>2. CASE i >= k
        <4>1. (i - (k - 1)) \in 1..(Len(s) - k)
          BY <3>2, <2>5, <1>1
        <4>2. after[i - (k - 1)] = s[k + (i - (k - 1))]
          BY <4>1, <2>2
        <4>3. k + (i - (k - 1)) = i + 1
          BY <1>1, <2>4
        <4> QED BY <3>2, <2>1, <2>4, <4>2, <4>3
      <3> QED BY <3>1, <3>2, <1>1
    <2> QED BY <2>4, <2>5, <2>6
  <1> HIDE DEF t
  <1>6. \A i \in 1..Len(s) : i # k => \E j \in 1..Len(t) : t[j] = s[i]
    <2> SUFFICES ASSUME NEW i \in 1..Len(s), i # k
                 PROVE \E j \in 1..Len(t) : t[j] = s[i]
      OBVIOUS
    <2>1. CASE i < k
      <3>1. i \in 1..Len(t) /\ t[i] = s[i]
        BY <2>1, <1>5, <1>1
      <3> QED BY <3>1
    <2>2. CASE i > k
      <3>1. (i - 1) \in 1..Len(t) /\ t[i - 1] = s[i]
        BY <2>2, <1>5, <1>1
      <3> QED BY <3>1
    <2> QED BY <2>1, <2>2, <1>1
  <1>7. \A i \in 1..Len(t) : \E j \in 1..Len(s) : j # k /\ t[i] = s[j]
    BY <1>1, <1>5
  <1>8. ToSet(t) = ToSet(s) \ {e}
    <2>1. \A i \in 1..Len(s) : i # k => s[i] # e
      BY <1>2
    <2>2. DOMAIN t = 1..Len(t) /\ DOMAIN s = 1..Len(s)
      BY <1>5
    <2>3. ASSUME NEW x \in ToSet(t) PROVE x \in ToSet(s) \ {e}
      BY <1>7, <2>1, <2>2 DEF ToSet
    <2>4. ASSUME NEW x \in ToSet(s) \ {e} PROVE x \in ToSet(t)
      BY <1>6, <1>1, <2>2 DEF ToSet
    <2> QED BY <2>3, <2>4
  <1>9. IsInjective(t)
    <2> DEFINE at(i) == IF i < k THEN i ELSE i + 1
    <2>1. \A i \in 1..Len(t) : at(i) \in 1..Len(s) /\ t[i] = s[at(i)]
      BY <1>1, <1>5
    <2>2. \A i, j \in 1..Len(t) : at(i) = at(j) => i = j
      BY <1>1, <1>5
    <2>3. \A i, j \in 1..Len(s) : s[i] = s[j] => i = j
      BY DEF IsInjective
    <2> HIDE DEF at
    <2>4. \A i, j \in 1..Len(t) : t[i] = t[j] => i = j
      BY <2>1, <2>2, <2>3
    <2> QED BY <2>4, <1>5 DEF IsInjective
  <1>10. LongestFirst(s) => LongestFirst(t)
    <2> DEFINE at(i) == IF i < k THEN i ELSE i + 1
    <2>1. \A i \in 1..Len(t) : at(i) \in 1..Len(s) /\ t[i] = s[at(i)]
      BY <1>1, <1>5
    <2>2. \A i, j \in 1..Len(t) : i < j => at(i) < at(j)
      BY <1>1, <1>5
    <2>3. DOMAIN t = 1..Len(t) /\ DOMAIN s = 1..Len(s)
      BY <1>5
    <2> HIDE DEF at
    <2>4. ASSUME LongestFirst(s), NEW i \in 1..Len(t), NEW j \in 1..Len(t), i < j
          PROVE  PathLen[t[i]] >= PathLen[t[j]]
      <3>1. PathLen[s[at(i)]] >= PathLen[s[at(j)]]
        BY <2>1, <2>2, <2>3, <2>4 DEF LongestFirst
      <3>2. t[i] = s[at(i)] /\ t[j] = s[at(j)]
        BY <2>1
      <3> QED BY <3>1, <3>2
    <2> QED BY <2>3, <2>4 DEF LongestFirst
  <1> QED BY <1>4, <1>5, <1>8, <1>9, <1>10 DEF t

-----------------------------------------------------------------------------
(***************************************************************************)
(* The scan of the sorted list finds what the longest-prefix rule says.    *)
(***************************************************************************)

\* Module MountTable reads paths as module Router does.
LEMMA SameCovers == \A p, s : Table!Covers(p, s) <=> Covers(p, s)
  BY DEF Covers, Table!Covers, IsPrefix, Table!IsPrefix

\* The table and the router build the same route from a mount point and a path.
LEMMA SameRoute == \A p, s : Table!RouteTo(p, s) = RouteTo(p, s)
  BY DEF RouteTo, Table!RouteTo, RelPath, Table!RelPath, Root, Table!Root

\* resolve, a scan of the sorted list, finds what the mount table's
\* longest-prefix rule says, for every name.
THEOREM ResolveIsLookup ==
    ASSUME TypeOK, ListAgrees, NEW name \in Names
    PROVE  Resolve(name) \subseteq Table!Lookup(name)
  <1> USE RouterAssumption
  <1> DEFINE s == Clean[name]
  <1>1. CASE closed \/ s = Relative
    BY <1>1 DEF Resolve, Table!Lookup, Refused, Table!Refused
  <1>2. ASSUME ~closed, s # Relative
        PROVE  Resolve(name) \subseteq Table!Lookup(name)
    <2>1. s \in Places /\ s \in Seq(Components)
      BY <1>2
    <2>2. Table!Mounted = Mounted /\ ToSet(paths) = Mounted
      BY DEF Table!Mounted, Mounted, ListAgrees
    <2>3. paths \in Seq(Places) /\ DOMAIN paths = 1..Len(paths) /\ Len(paths) \in Nat
      BY DEF TypeOK
    <2>4. Mounted = {paths[i] : i \in DOMAIN paths}
      BY <2>2 DEF ToSet
    <2>5. CASE \A i \in DOMAIN paths : ~Covers(paths[i], s)
      <3>1. \A p \in Table!Mounted : ~Table!Covers(p, s)
        BY <2>5, <2>2, <2>4, SameCovers
      <3> QED BY <3>1, <2>5, <1>2 DEF Resolve, Table!Lookup, Refused, Table!Refused
    <2>6. ASSUME NEW i \in FirstMatches(s)
          PROVE  Table!Owns(paths[i], s)
      <3>1. /\ i \in DOMAIN paths
            /\ Covers(paths[i], s)
            /\ \A j \in 1..(i - 1) : ~Covers(paths[j], s)
        BY DEF FirstMatches
      <3>2. paths[i] \in Table!Mounted /\ paths[i] \in Places
        BY <3>1, <2>2, <2>3, <2>4
      <3>3. ASSUME NEW p \in Mounted, Covers(p, s)
            PROVE  Covers(p, paths[i])
        <4>1. PICK j \in DOMAIN paths : paths[j] = p
          BY <2>4
        <4>2. j >= i
          <5>1. j \notin 1..(i - 1)
            BY <3>1, <3>3, <4>1
          <5>2. i \in Int /\ j \in Int /\ j >= 1
            BY <3>1, <2>3
          <5> QED BY <5>1, <5>2
        <4>3. PathLen[paths[i]] >= PathLen[p]
          <5>1. CASE j = i
            BY <5>1, <4>1, <3>2
          <5>2. CASE j > i
            BY <5>2, <4>1, <3>1, <2>3 DEF ListAgrees, LongestFirst
          <5> QED BY <4>2, <5>1, <5>2, <3>1, <2>3
        <4>4. p \in Seq(Components) /\ p \in Places /\ paths[i] \in Seq(Components)
          BY <3>2 DEF Mounted
        <4>5. CASE Len(p) <= Len(paths[i])
          BY <4>4, <4>5, <3>1, <3>3, <2>1, PrefixesNest
        <4>6. CASE Len(paths[i]) < Len(p)
          <5>1. Covers(paths[i], p)
            BY <4>4, <4>6, <3>1, <3>3, <2>1, PrefixesNest
          <5>2. IsStrictPrefix(paths[i], p)
            BY <5>1, <4>6, <4>4 DEF IsStrictPrefix, Covers
          <5>3. PathLen[paths[i]] < PathLen[p]
            BY <5>2, <4>4, <3>2
          <5>4. PathLen[p] \in Nat /\ PathLen[paths[i]] \in Nat
            BY <4>4, <3>2
          <5> QED BY <5>3, <5>4, <4>3
        <4>7. Len(p) \in Nat /\ Len(paths[i]) \in Nat
          BY <4>4
        <4> QED BY <4>5, <4>6, <4>7
      <3> QED BY <3>1, <3>2, <3>3, <2>2, SameCovers DEF Table!Owns
    <2>7. CASE ~ \A i \in DOMAIN paths : ~Covers(paths[i], s)
      <3>1. Resolve(name) = {RouteTo(paths[i], s) : i \in FirstMatches(s)}
        BY <2>7, <1>2 DEF Resolve
      <3>2. Table!Lookup(name) =
               {Table!RouteTo(p, s) : p \in {q \in Table!Mounted : Table!Owns(q, s)}}
        <4>1. ~ \A p \in Table!Mounted : ~Table!Covers(p, s)
          BY <2>7, <2>2, <2>4, SameCovers
        <4> QED BY <4>1, <1>2 DEF Table!Lookup
      <3>3. \A p : RouteTo(p, s) = Table!RouteTo(p, s)
        BY SameRoute
      <3>4. \A i \in FirstMatches(s) : paths[i] \in {q \in Table!Mounted : Table!Owns(q, s)}
        BY <2>6 DEF Table!Owns
      <3> HIDE DEF s
      <3> QED BY <3>1, <3>2, <3>3, <3>4
    <2> QED BY <2>5, <2>7
  <1> QED BY <1>1, <1>2

-----------------------------------------------------------------------------
(***************************************************************************)
(* Types of results and answers.                                           *)
(***************************************************************************)
TableTyped == mounts \in [Places -> Adaptors \cup {NoAdaptor}]

LookedUp == {Refused(err) : err \in Errors}
            \cup {<<"route", a, rel>> : a \in Adaptors, rel \in RelPaths}

\* A result that is a route names an adaptor and a relative path.
LEMMA RouteShape ==
    ASSUME NEW r \in Results, IsRoute(r)
    PROVE  r[2] \in Adaptors /\ r[3] \in RelPaths
  BY DEF Results, IsRoute, Nothing, Refused

\* What the table answers to a lookup has the type of a lookup result.
LEMMA LookupType ==
    ASSUME TableTyped, NEW name \in Names
    PROVE  Table!Lookup(name) \subseteq LookedUp
  <1> USE RouterAssumption
  <1>1. ASSUME NEW p \in Table!Mounted, Clean[name] # Relative
        PROVE  Table!RouteTo(p, Clean[name]) \in LookedUp
    <2>1. p \in Places /\ mounts[p] \in Adaptors /\ Clean[name] \in Places
      BY <1>1 DEF Table!Mounted, TableTyped
    <2>2. RelPath(p, Clean[name]) \in RelPaths
      BY <2>1 DEF RelPaths
    <2>3. RouteTo(p, Clean[name]) \in LookedUp
      BY <2>1, <2>2 DEF LookedUp, RouteTo
    <2> QED BY <2>3, SameRoute
  <1>2. \A err \in {"ErrClosed", "ErrInvalidPath", "ErrNotMounted"} :
           Table!Refused(err) \in LookedUp
    BY DEF LookedUp, Table!Refused, Refused, Errors
  <1> QED BY <1>1, <1>2 DEF Table!Lookup

\* What is kept of a lookup is a lookup result.
LEMMA LookedUpIsResult == LookedUp \subseteq Results
  BY DEF LookedUp, Results

\* A lookup result a client keeps is a refusal or a route.
LEMMA LookedUpShape ==
    ASSUME NEW r \in LookedUp, ~IsRoute(r)
    PROVE  r \in Answers /\ r[1] = "refused"
  BY DEF LookedUp, Answers, IsRoute, Refused

\* What an operation on one path answers is an answer.
LEMMA AnswerOneType ==
    ASSUME NEW r \in LookedUp, NEW op \in OneLookOps
    PROVE  AnswerOne(op, r) \in Answers
  <1>1. CASE IsRoute(r)
    <2>1. r[2] \in Adaptors /\ r[3] \in RelPaths
      BY <1>1, RouteShape, LookedUpIsResult
    <2>2. Reach(r) \in Answers
      BY <2>1 DEF Reach, Answers
    <2>3. Refused(Denial(op)) \in Answers
      BY DEF Answers, Denial, Errors
    <2> QED BY <1>1, <2>2, <2>3 DEF AnswerOne
  <1>2. CASE ~IsRoute(r)
    BY <1>2, LookedUpShape DEF AnswerOne
  <1> QED BY <1>1, <1>2

\* What reaches an adaptor is an answer.
LEMMA ReachType ==
    ASSUME NEW r \in LookedUp
    PROVE  (IF IsRoute(r) THEN Reach(r) ELSE r) \in Answers
  <1>1. CASE IsRoute(r)
    BY <1>1, RouteShape, LookedUpIsResult DEF Reach, Answers
  <1>2. CASE ~IsRoute(r)
    BY <1>2, LookedUpShape
  <1> QED BY <1>1, <1>2

\* What Rename answers is an answer.
LEMMA AnswerRenameType ==
    ASSUME NEW r1 \in LookedUp, IsRoute(r1), NEW r2 \in LookedUp
    PROVE  AnswerRename(r1, r2) \in Answers
  <1>1. r1[2] \in Adaptors /\ r1[3] \in RelPaths
    BY RouteShape, LookedUpIsResult
  <1>2. CASE IsRoute(r2)
    <2>1. r2[3] \in RelPaths
      BY <1>2, RouteShape, LookedUpIsResult
    <2>2. Move(r1, r2) \in Answers
      BY <1>1, <2>1 DEF Move, Answers
    <2>3. \A err \in {"ErrCrossDevice", "ErrNotSupported"} : Refused(err) \in Answers
      BY DEF Answers, Errors
    <2> QED BY <1>2, <2>2, <2>3 DEF AnswerRename
  <1>3. CASE ~IsRoute(r2)
    BY <1>3, LookedUpShape DEF AnswerRename
  <1> QED BY <1>2, <1>3

\* The root listing is an answer: it names first components of mount points.
LEMMA ListingType ==
    ASSUME TableTyped
    PROVE  Listing(RootEntries) \in Answers
  <1>1. \A p \in Mounted \ {Root} : p[1] \in Components
    <2> SUFFICES ASSUME NEW p \in Mounted \ {Root} PROVE p[1] \in Components
      OBVIOUS
    <2>1. p \in Seq(Components) /\ p # <<>>
      BY RouterAssumption DEF Mounted, Root
    <2> QED BY <2>1
  <1>2. RootEntries \in SUBSET Components
    BY <1>1 DEF RootEntries
  <1> QED BY <1>2 DEF Answers

\* The reference answers are answers.
LEMMA ExpectedType ==
    ASSUME TableTyped, NEW op \in OneLookOps \cup {"Rename", "ReadDir"},
           NEW name \in Names, NEW to \in Names
    PROVE  Expected(op, name, to) \subseteq Answers
  <1>1. Table!Lookup(name) \subseteq LookedUp /\ Table!Lookup(to) \subseteq LookedUp
    BY LookupType
  <1>2. CASE op = "Rename"
    <2>1. \A r1 \in Table!Lookup(name) :
             (IF IsRoute(r1) THEN {AnswerRename(r1, r2) : r2 \in Table!Lookup(to)}
              ELSE {r1}) \subseteq Answers
      BY <1>1, AnswerRenameType, LookedUpShape
    <2> QED BY <1>2, <2>1 DEF Expected
  <1>3. CASE op = "ReadDir"
    <2>1. \A r \in Table!Lookup(name) : (IF IsRoute(r) THEN Reach(r) ELSE r) \in Answers
      BY <1>1, ReachType
    <2> QED BY <1>3, <2>1, ListingType DEF Expected
  <1>4. CASE op \notin {"Rename", "ReadDir"}
    <2>1. \A r \in Table!Lookup(name) : AnswerOne(op, r) \in Answers
      BY <1>1, <1>4, AnswerOneType
    <2> QED BY <1>4, <2>1 DEF Expected
  <1> QED BY <1>2, <1>3, <1>4

\* The same of the state after a step.
LEMMA ExpectedTypeNext ==
    (TableTyped => \A op \in OneLookOps \cup {"Rename", "ReadDir"}, name, to \in Names :
                      Expected(op, name, to) \subseteq Answers)'
  <1>1. TableTyped => \A op \in OneLookOps \cup {"Rename", "ReadDir"}, name, to \in Names :
                         Expected(op, name, to) \subseteq Answers
    BY ExpectedType
  <1> QED BY <1>1, PTL

-----------------------------------------------------------------------------
(***************************************************************************)
(* The mount table and its list.                                           *)
(***************************************************************************)
TableInv ==
    /\ mounts \in [Places -> Adaptors \cup {NoAdaptor}]
    /\ paths \in Seq(Places)
    /\ closed \in BOOLEAN
    /\ connected \in [Adaptors -> BOOLEAN]
    /\ ListAgrees

\* Mount keeps list and map together.
LEMMA MountKeepsTable ==
    ASSUME TableInv, NEW name \in Names, NEW a \in Adaptors, Mount(name, a)
    PROVE  TableInv'
  <1> USE RouterAssumption
  <1> DEFINE p == Clean[name]
             s == Append(paths, p)
  <1>1. p \in Places /\ p \notin Mounted /\ mounts' = [mounts EXCEPT ![p] = a]
    BY DEF Mount, Mounted
  <1>2. /\ s \in Seq(Places)
        /\ Len(s) = Len(paths) + 1
        /\ \A i \in 1..Len(paths) : s[i] = paths[i]
        /\ s[Len(paths) + 1] = p
        /\ DOMAIN s = 1..(Len(paths) + 1)
        /\ DOMAIN paths = 1..Len(paths) /\ Len(paths) \in Nat
    BY <1>1 DEF TableInv
  <1>3. paths' \in Rearranged(s) /\ LongestFirst(paths')
    BY DEF Mount
  <1> HIDE DEF s, p
  <1>4. ToSet(s) = Mounted \cup {p}
    <2>1. ToSet(s) = ToSet(paths) \cup {p}
      <3>1. ASSUME NEW x \in ToSet(s) PROVE x \in ToSet(paths) \cup {p}
        <4>1. PICK i \in 1..(Len(paths) + 1) : x = s[i]
          BY <1>2 DEF ToSet
        <4>2. CASE i \in 1..Len(paths)
          BY <4>1, <4>2, <1>2 DEF ToSet
        <4>3. CASE i = Len(paths) + 1
          BY <4>1, <4>3, <1>2
        <4> QED BY <4>2, <4>3, <1>2
      <3>2. ASSUME NEW x \in ToSet(paths) \cup {p} PROVE x \in ToSet(s)
        <4>1. CASE x = p
          <5>1. Len(paths) + 1 \in DOMAIN s
            BY <1>2
          <5> QED BY <4>1, <5>1, <1>2 DEF ToSet
        <4>2. CASE x \in ToSet(paths)
          <5>1. PICK i \in 1..Len(paths) : x = paths[i]
            BY <4>2, <1>2 DEF ToSet
          <5>2. i \in DOMAIN s /\ x = s[i]
            BY <5>1, <1>2
          <5> QED BY <5>2 DEF ToSet
        <4> QED BY <4>1, <4>2
      <3> QED BY <3>1, <3>2
    <2> QED BY <2>1 DEF TableInv, ListAgrees
  <1>5. IsInjective(s)
    <2>1. \A i \in 1..Len(paths) : paths[i] # p
      <3>1. \A i \in 1..Len(paths) : paths[i] \in ToSet(paths)
        BY <1>2 DEF ToSet
      <3> QED BY <3>1, <1>1 DEF TableInv, ListAgrees
    <2>2. \A i, j \in 1..Len(paths) : paths[i] = paths[j] => i = j
      BY <1>2 DEF TableInv, ListAgrees, IsInjective
    <2>3. ASSUME NEW i \in 1..(Len(paths) + 1), NEW j \in 1..(Len(paths) + 1), s[i] = s[j]
          PROVE  i = j
      <3>1. CASE i \in 1..Len(paths) /\ j \in 1..Len(paths)
        BY <3>1, <2>2, <2>3, <1>2
      <3>2. CASE i = Len(paths) + 1 /\ j \in 1..Len(paths)
        BY <3>2, <2>1, <2>3, <1>2
      <3>3. CASE i \in 1..Len(paths) /\ j = Len(paths) + 1
        BY <3>3, <2>1, <2>3, <1>2
      <3> QED BY <3>1, <3>2, <3>3, <1>2
    <2> QED BY <2>3, <1>2 DEF IsInjective
  <1>6. Mounted' = Mounted \cup {p}
    BY <1>1 DEF Mounted, TableInv
  <1>7. paths' \in Seq(Places) /\ ToSet(paths') = ToSet(s) /\ IsInjective(paths')
    BY <1>2, <1>3, <1>5, RearrangedKeeps
  <1>8. ListAgrees'
    BY <1>3, <1>4, <1>6, <1>7 DEF ListAgrees
  <1>9. mounts' \in [Places -> Adaptors \cup {NoAdaptor}]
    BY <1>1 DEF TableInv
  <1> QED BY <1>7, <1>8, <1>9 DEF TableInv, Mount

\* Unmount keeps list and map together.
LEMMA UnmountKeepsTable ==
    ASSUME TableInv, NEW name \in Names, Unmount(name)
    PROVE  TableInv'
  <1> USE RouterAssumption
  <1> DEFINE p == Clean[name]
  <1>1. /\ p \in Places /\ p \in Mounted
        /\ mounts' = [mounts EXCEPT ![p] = NoAdaptor]
        /\ paths' = RemoveFirst(paths, p)
    BY DEF Unmount, Mounted
  <1> HIDE DEF p
  <1>2. Mounted' = Mounted \ {p}
    BY <1>1 DEF Mounted, TableInv
  <1>3. paths' \in Seq(Places) /\ ToSet(paths') = Mounted \ {p}
        /\ IsInjective(paths') /\ LongestFirst(paths')
    BY <1>1, RemoveFirstKeeps DEF TableInv, ListAgrees
  <1>4. ListAgrees'
    BY <1>2, <1>3 DEF ListAgrees
  <1>5. mounts' \in [Places -> Adaptors \cup {NoAdaptor}]
    BY <1>1 DEF TableInv
  <1> QED BY <1>3, <1>4, <1>5 DEF TableInv, Unmount

\* Close, the adaptors' owners and the clients' operations leave the list alone.
LEMMA OthersKeepTable ==
    ASSUME TableInv, UNCHANGED <<mounts, paths>>, closed' \in BOOLEAN,
           connected' \in [Adaptors -> BOOLEAN]
    PROVE  TableInv'
  BY DEF TableInv, ListAgrees, Mounted, LongestFirst, ToSet, IsInjective

-----------------------------------------------------------------------------
(***************************************************************************)
(* The calls in progress.  Sound(e, L) says of a call e, for which L are   *)
(* the legal answers: while no table change has fallen between its looks,  *)
(* what it has seen is what the present table says.                        *)
(***************************************************************************)
Sound(e, L) ==
    /\ e.late => closed
    /\ e.stage = "idle" => e.answer = Nothing /\ e.found = Nothing
    /\ e.stage = "old" =>
          /\ e.op = "Rename" /\ e.first \in LookedUp /\ IsRoute(e.first) /\ ~e.late
          /\ e.moves = 0 => e.first \in Table!Lookup(e.name)
    /\ e.stage = "list" =>
          /\ e.op = "ReadDir" /\ e.name = RootName
          /\ e.moves = 0 /\ ~e.late => Root \notin Mounted /\ ~closed
    /\ e.stage = "resolve" =>
          /\ e.op = "ReadDir"
          /\ e.moves = 0 => ~(e.name = RootName /\ Root \notin Mounted)
    /\ e.stage \in {"old", "list", "resolve"} =>
          /\ e.answer = Nothing
          /\ e.moves = 0 => L = Expected(e.op, e.name, e.to)
    /\ /\ e.stage = "answered"
       /\ e.op \in {"Rename", "ReadDir"} => e.moves = 0
       /\ e.late => e.op # "ReadDir"
       => e.answer \in L
    /\ e.late => e.answer[1] \notin {"adaptor", "rename"}

CallsInv ==
    /\ call \in [Clients -> Calls]
    /\ legal \in [Clients -> SUBSET Answers]
    /\ \A c \in Clients : Sound(call[c], legal[c])

IInv == TableInv /\ CallsInv

\* The inductive invariant implies the four invariants of the runs.
LEMMA IInvImplies == IInv => TypeOK /\ ListAgrees /\ AnswerExplained /\ NoReachAfterClose
  BY DEF IInv, TableInv, CallsInv, Sound, TypeOK, AnswerExplained, NoReachAfterClose

\* What a step that leaves the table alone does not change.
LEMMA SameLookup ==
    ASSUME UNCHANGED <<mounts, closed>>, NEW name
    PROVE  Table!Lookup(name)' = Table!Lookup(name)
  <1>1. Table!Mounted' = Table!Mounted
    BY DEF Table!Mounted
  <1>2. \A p, q : Table!Owns(p, q)' <=> Table!Owns(p, q)
    BY <1>1 DEF Table!Owns
  <1>3. \A p, q : Table!RouteTo(p, q)' = Table!RouteTo(p, q)
    BY DEF Table!RouteTo
  <1>4. {q \in Table!Mounted : Table!Owns(q, Clean[name])}'
        = {q \in Table!Mounted : Table!Owns(q, Clean[name])}
    BY <1>1, <1>2
  <1>5. {Table!RouteTo(p, Clean[name]) :
            p \in {q \in Table!Mounted : Table!Owns(q, Clean[name])}}'
        = {Table!RouteTo(p, Clean[name]) :
            p \in {q \in Table!Mounted : Table!Owns(q, Clean[name])}}
    BY <1>3, <1>4
  <1> QED BY <1>1, <1>5 DEF Table!Lookup

\* With the table unchanged the reference answers are unchanged.
LEMMA SameExpected ==
    ASSUME UNCHANGED <<mounts, closed>>, NEW op, NEW name, NEW to
    PROVE  Expected(op, name, to)' = Expected(op, name, to)
  <1>1. /\ Table!Lookup(name)' = Table!Lookup(name)
        /\ Table!Lookup(to)' = Table!Lookup(to)
    BY SameLookup
  <1>2. Mounted' = Mounted /\ RootEntries' = RootEntries
    BY DEF Mounted, RootEntries
  <1> QED BY <1>1, <1>2 DEF Expected

\* With the table unchanged a sound call stays sound.
LEMMA SameSound ==
    ASSUME UNCHANGED <<mounts, closed>>, NEW e, NEW L, Sound(e, L)
    PROVE  Sound(e, L)'
  <1>1. Table!Lookup(e.name)' = Table!Lookup(e.name)
    BY SameLookup
  <1>2. Expected(e.op, e.name, e.to)' = Expected(e.op, e.name, e.to)
    BY SameExpected
  <1>3. Mounted' = Mounted
    BY DEF Mounted
  <1> QED BY <1>1, <1>2, <1>3 DEF Sound

\* One client's step, whose call afterwards is sound, keeps the invariant.
LEMMA OneCallMoves ==
    ASSUME CallsInv, NEW c \in Clients, UNCHANGED <<mounts, closed>>,
           NEW e \in Calls, call' = [call EXCEPT ![c] = e],
           NEW L \in SUBSET Answers, legal' = [legal EXCEPT ![c] = L],
           Sound(e, L)
    PROVE  CallsInv'
  <1>1. call' \in [Clients -> Calls] /\ legal' \in [Clients -> SUBSET Answers]
    BY DEF CallsInv
  <1>2. ASSUME NEW d \in Clients PROVE Sound(call[d], legal[d])'
    <2>1. CASE d = c
      <3>1. call'[d] = e /\ legal'[d] = L
        BY <2>1 DEF CallsInv
      <3>2. Sound(e, L)'
        BY SameSound
      <3> QED BY <3>1, <3>2
    <2>2. CASE d # c
      <3>1. call'[d] = call[d] /\ legal'[d] = legal[d]
        BY <2>2 DEF CallsInv
      <3>2. Sound(call[d], legal[d])
        BY DEF CallsInv
      <3>3. \A x, y : Sound(x, y) => Sound(x, y)'
        BY SameSound
      <3> QED BY <3>1, <3>2, <3>3
    <2> QED BY <2>1, <2>2
  <1> QED BY <1>1, <1>2 DEF CallsInv

\* What a call learns from resolve.
LEMMA ResolveFacts ==
    ASSUME IInv, NEW name \in Names, NEW r \in Resolve(name)
    PROVE  /\ r \in Table!Lookup(name) /\ r \in LookedUp /\ r \in Results
           /\ closed => r = Refused("ErrClosed")
  <1>1. TypeOK /\ ListAgrees /\ TableTyped
    BY IInvImplies DEF IInv, TableInv, TableTyped
  <1>2. r \in Table!Lookup(name)
    BY <1>1, ResolveIsLookup
  <1>3. r \in LookedUp /\ r \in Results
    BY <1>1, <1>2, LookupType, LookedUpIsResult
  <1>4. closed => r = Refused("ErrClosed")
    BY DEF Resolve
  <1> QED BY <1>2, <1>3, <1>4

\* An idle client's record is a call record.
LEMMA IdleIsCall == Idle \in Calls
  BY RouterAssumption DEF Idle, Calls, Results, Answers

\* A call that starts is a call record, and remembers whether it is late.
LEMMA FreshIsCall ==
    ASSUME IInv, NEW op \in OneLookOps \cup {"Rename", "ReadDir"},
           NEW name \in Names, NEW to \in Names
    PROVE  /\ Fresh(op, name, to) \in Calls
           /\ Fresh(op, name, to).stage = "idle"
           /\ Fresh(op, name, to).op = op
           /\ Fresh(op, name, to).name = name
           /\ Fresh(op, name, to).to = to
           /\ Fresh(op, name, to).late = closed
           /\ Fresh(op, name, to).moves = 0
           /\ Fresh(op, name, to).answer = Nothing
           /\ Expected(op, name, to) \in SUBSET Answers
  <1>1. Fresh(op, name, to) \in Calls
    BY IdleIsCall DEF Fresh, Calls, Idle, IInv, TableInv
  <1>2. Expected(op, name, to) \in SUBSET Answers
    BY ExpectedType DEF IInv, TableInv, TableTyped
  <1> QED BY <1>1, <1>2 DEF Fresh, Idle

\* The shape of a call once it is answered.
LEMMA AnsweredIsCall ==
    ASSUME NEW e \in Calls, NEW r \in Results, NEW x \in Answers
    PROVE  /\ Answered(e, r, x) \in Calls
           /\ Answered(e, r, x).stage = "answered"
           /\ Answered(e, r, x).answer = x
           /\ Answered(e, r, x).op = e.op
           /\ Answered(e, r, x).name = e.name
           /\ Answered(e, r, x).to = e.to
           /\ Answered(e, r, x).late = e.late
           /\ Answered(e, r, x).moves = e.moves
  BY DEF Answered, Calls

\* The operations on one path keep the invariant.
LEMMA LookOnceKeeps ==
    ASSUME IInv, NEW c \in Clients, NEW op \in OneLookOps, NEW name \in Names,
           LookOnce(c, op, name)
    PROVE  CallsInv'
  <1>1. PICK r \in Resolve(name) :
           Begin(c, Answered(Fresh(op, name, name), r, AnswerOne(op, r)))
    BY DEF LookOnce
  <1>2. /\ r \in Table!Lookup(name) /\ r \in LookedUp /\ r \in Results
        /\ closed => r = Refused("ErrClosed")
    BY ResolveFacts
  <1>3. AnswerOne(op, r) \in Answers
    BY <1>2, AnswerOneType
  <1> DEFINE f == Fresh(op, name, name)
             e == Answered(f, r, AnswerOne(op, r))
             L == Expected(op, name, name)
  <1>4. /\ f \in Calls /\ f.op = op /\ f.name = name /\ f.to = name
        /\ f.late = closed /\ f.moves = 0 /\ L \in SUBSET Answers
    BY FreshIsCall
  <1>5. /\ e \in Calls /\ e.stage = "answered" /\ e.answer = AnswerOne(op, r)
        /\ e.op = op /\ e.name = name /\ e.to = name /\ e.late = closed
    BY <1>2, <1>3, <1>4, AnsweredIsCall
  <1>6. AnswerOne(op, r) \in L
    BY <1>2 DEF Expected, OneLookOps, Needs
  <1>7. closed => AnswerOne(op, r)[1] = "refused"
    BY <1>2 DEF AnswerOne, IsRoute, Refused
  <1>8. call' = [call EXCEPT ![c] = e] /\ legal' = [legal EXCEPT ![c] = L]
    BY <1>1, <1>5 DEF Begin
  <1>9. UNCHANGED <<mounts, closed>>
    BY DEF LookOnce
  <1> HIDE DEF e, f, L
  <1>10. Sound(e, L)
    BY <1>5, <1>6, <1>7 DEF Sound
  <1> QED BY <1>4, <1>5, <1>8, <1>9, <1>10, OneCallMoves DEF IInv

\* Rename's first look keeps the invariant.
LEMMA RenameOldKeeps ==
    ASSUME IInv, NEW c \in Clients, NEW old \in Names, NEW new \in Names,
           RenameOld(c, old, new)
    PROVE  CallsInv'
  <1> DEFINE f == Fresh("Rename", old, new)
             L == Expected("Rename", old, new)
             e(r) == IF IsRoute(r) THEN [f EXCEPT !.stage = "old", !.first = r, !.found = r]
                     ELSE Answered(f, r, r)
  <1>1. PICK r \in Resolve(old) : Begin(c, e(r))
    BY DEF RenameOld
  <1>2. /\ r \in Table!Lookup(old) /\ r \in LookedUp /\ r \in Results
        /\ closed => r = Refused("ErrClosed")
    BY ResolveFacts
  <1>3. /\ f \in Calls /\ f.op = "Rename" /\ f.name = old /\ f.to = new
        /\ f.late = closed /\ f.moves = 0 /\ f.answer = Nothing
        /\ L \in SUBSET Answers
    BY FreshIsCall
  <1>4. UNCHANGED <<mounts, closed>>
    BY DEF RenameOld
  <1> HIDE DEF f
  <1>5. CASE IsRoute(r)
    <2> DEFINE g == [f EXCEPT !.stage = "old", !.first = r, !.found = r]
    <2>1. ~closed
      BY <1>2, <1>5 DEF IsRoute, Refused
    <2>2. /\ g \in Calls /\ g.stage = "old" /\ g.first = r /\ g.op = "Rename"
          /\ g.name = old /\ g.to = new /\ g.late = closed /\ g.answer = Nothing
          /\ g.moves = 0
      BY <1>2, <1>3 DEF Calls
    <2>3. e(r) = g
      BY <1>5
    <2> HIDE DEF g, e
    <2>4. call' = [call EXCEPT ![c] = g] /\ legal' = [legal EXCEPT ![c] = L]
      BY <1>1, <2>2, <2>3 DEF Begin
    <2> HIDE DEF L
    <2>5. Sound(g, L)
      BY <1>2, <1>5, <2>1, <2>2 DEF Sound, L
    <2> QED BY <1>3, <1>4, <2>2, <2>4, <2>5, OneCallMoves DEF IInv
  <1>6. CASE ~IsRoute(r)
    <2> DEFINE g == Answered(f, r, r)
    <2>1. r \in Answers /\ r[1] = "refused"
      BY <1>2, <1>6, LookedUpShape
    <2>2. /\ g \in Calls /\ g.stage = "answered" /\ g.answer = r /\ g.op = "Rename"
          /\ g.name = old /\ g.to = new /\ g.late = closed
      BY <1>2, <1>3, <2>1, AnsweredIsCall
    <2>3. e(r) = g
      BY <1>6
    <2>4. r \in L
      BY <1>2, <1>6 DEF Expected
    <2> HIDE DEF g, e
    <2>5. call' = [call EXCEPT ![c] = g] /\ legal' = [legal EXCEPT ![c] = L]
      BY <1>1, <2>2, <2>3 DEF Begin
    <2> HIDE DEF L
    <2>6. Sound(g, L)
      BY <2>1, <2>2, <2>4 DEF Sound
    <2> QED BY <1>3, <1>4, <2>2, <2>5, <2>6, OneCallMoves DEF IInv
  <1> QED BY <1>5, <1>6

\* Rename's second look keeps the invariant.
LEMMA RenameNewKeeps ==
    ASSUME IInv, NEW c \in Clients, RenameNew(c)
    PROVE  CallsInv'
  <1> DEFINE f == call[c]
             L == legal[c]
  <1>1. PICK r \in Resolve(f.to) :
           call' = [call EXCEPT ![c] = Answered(f, r, AnswerRename(f.first, r))]
    BY DEF RenameNew, IInv, CallsInv
  <1>2. /\ f \in Calls /\ f.stage = "old" /\ f.name \in Names /\ f.to \in Names
        /\ Sound(f, L) /\ L \in SUBSET Answers
    BY DEF RenameNew, IInv, CallsInv, Calls
  <1>3. /\ r \in Table!Lookup(f.to) /\ r \in LookedUp /\ r \in Results
    BY <1>2, ResolveFacts
  <1>4. /\ f.op = "Rename" /\ f.first \in LookedUp /\ IsRoute(f.first) /\ ~f.late
        /\ f.moves = 0 => f.first \in Table!Lookup(f.name)
        /\ f.moves = 0 => L = Expected("Rename", f.name, f.to)
    BY <1>2 DEF Sound
  <1>5. AnswerRename(f.first, r) \in Answers
    BY <1>3, <1>4, AnswerRenameType
  <1> DEFINE x == AnswerRename(f.first, r)
             e == Answered(f, r, x)
  <1>6. /\ e \in Calls /\ e.stage = "answered" /\ e.answer = x /\ e.op = "Rename"
        /\ ~e.late /\ e.moves = f.moves
    BY <1>2, <1>3, <1>4, <1>5, AnsweredIsCall
  <1>7. f.moves = 0 => x \in L
    <2> SUFFICES ASSUME f.moves = 0 PROVE x \in L
      OBVIOUS
    <2>1. x \in {AnswerRename(f.first, r2) : r2 \in Table!Lookup(f.to)}
      BY <1>3
    <2> QED BY <2>1, <1>4 DEF Expected
  <1>8. call' = [call EXCEPT ![c] = e] /\ legal' = [legal EXCEPT ![c] = L]
        /\ UNCHANGED <<mounts, closed>>
    BY <1>1 DEF RenameNew, IInv, CallsInv
  <1> HIDE DEF e, f, x, L
  <1>9. Sound(e, L)
    BY <1>6, <1>7 DEF Sound
  <1> QED BY <1>2, <1>6, <1>8, <1>9, OneCallMoves DEF IInv

\* ReadDir's look for a root mount keeps the invariant.
LEMMA ReadDirLookKeeps ==
    ASSUME IInv, NEW c \in Clients, NEW name \in Names, ReadDirLook(c, name)
    PROVE  CallsInv'
  <1> DEFINE f == Fresh("ReadDir", name, name)
             L == Expected("ReadDir", name, name)
             atRoot == name = RootName /\ mounts[Root] = NoAdaptor
             e == [f EXCEPT !.stage = IF atRoot THEN "list" ELSE "resolve"]
  <1>1. /\ f \in Calls /\ f.op = "ReadDir" /\ f.name = name /\ f.to = name
        /\ f.late = closed /\ f.moves = 0 /\ f.answer = Nothing
        /\ L \in SUBSET Answers
    <2> DEFINE op == "ReadDir"
    <2>1. op \in OneLookOps \cup {"Rename", "ReadDir"}
      OBVIOUS
    <2> HIDE DEF op
    <2>2. /\ Fresh(op, name, name) \in Calls /\ Fresh(op, name, name).op = op
          /\ Fresh(op, name, name).name = name /\ Fresh(op, name, name).to = name
          /\ Fresh(op, name, name).late = closed /\ Fresh(op, name, name).moves = 0
          /\ Fresh(op, name, name).answer = Nothing
          /\ Expected(op, name, name) \in SUBSET Answers
      BY <2>1, FreshIsCall
    <2> QED BY <2>2 DEF op
  <1>2. Begin(c, e) /\ UNCHANGED <<mounts, closed>>
    BY DEF ReadDirLook
  <1>3. Root \in Mounted <=> mounts[Root] # NoAdaptor
    BY RouterAssumption DEF Mounted
  <1> HIDE DEF f
  <1>4. /\ e \in Calls /\ e.stage = (IF atRoot THEN "list" ELSE "resolve")
        /\ e.op = "ReadDir" /\ e.name = name /\ e.to = name /\ e.late = closed
        /\ e.moves = 0 /\ e.answer = Nothing
    BY <1>1 DEF Calls
  <1> HIDE DEF e
  <1>5. call' = [call EXCEPT ![c] = e] /\ legal' = [legal EXCEPT ![c] = L]
    BY <1>2, <1>4 DEF Begin
  <1> HIDE DEF L
  <1>6. Sound(e, L)
    <2>1. e.stage \in {"list", "resolve"}
      BY <1>4
    <2>2. e.stage = "list" => name = RootName /\ Root \notin Mounted
      BY <1>3, <1>4
    <2>3. e.stage = "resolve" => ~(name = RootName /\ Root \notin Mounted)
      BY <1>3, <1>4
    <2>4. L = Expected(e.op, e.name, e.to)
      BY <1>4 DEF L
    <2>5. e.answer[1] = "nothing"
      BY <1>4 DEF Nothing
    <2> HIDE DEF atRoot
    <2> QED BY <1>4, <2>1, <2>2, <2>3, <2>4, <2>5 DEF Sound
  <1> QED BY <1>1, <1>2, <1>4, <1>5, <1>6, OneCallMoves DEF IInv

\* The listing of the root keeps the invariant.
LEMMA ReadDirListKeeps ==
    ASSUME IInv, NEW c \in Clients, ReadDirList(c)
    PROVE  CallsInv'
  <1> DEFINE f == call[c]
             L == legal[c]
             x == Listing(RootEntries)
             e == Answered(f, f.found, x)
  <1>1. /\ f \in Calls /\ f.stage = "list" /\ f.found \in Results
        /\ Sound(f, L) /\ L \in SUBSET Answers
    BY DEF ReadDirList, IInv, CallsInv, Calls
  <1>2. x \in Answers
    BY ListingType DEF IInv, TableInv, TableTyped
  <1>3. /\ e \in Calls /\ e.stage = "answered" /\ e.answer = x /\ e.op = f.op
        /\ e.late = f.late /\ e.moves = f.moves
    BY <1>1, <1>2, AnsweredIsCall
  <1>4. f.op = "ReadDir" /\ (f.late => closed)
    BY <1>1 DEF Sound
  <1>5. f.moves = 0 /\ ~f.late => x \in L
    BY <1>1 DEF Sound, Expected
  <1>6. x[1] = "mounts"
    BY DEF Listing
  <1>7. call' = [call EXCEPT ![c] = e] /\ legal' = [legal EXCEPT ![c] = L]
        /\ UNCHANGED <<mounts, closed>>
    BY DEF ReadDirList, IInv, CallsInv
  <1> HIDE DEF e, f, x, L
  <1>8. Sound(e, L)
    BY <1>3, <1>4, <1>5, <1>6 DEF Sound
  <1> QED BY <1>1, <1>3, <1>7, <1>8, OneCallMoves DEF IInv

\* ReadDir's resolve keeps the invariant.
LEMMA ReadDirResolveKeeps ==
    ASSUME IInv, NEW c \in Clients, ReadDirResolve(c)
    PROVE  CallsInv'
  <1> DEFINE f == call[c]
             L == legal[c]
             x(r) == IF IsRoute(r) THEN Reach(r) ELSE r
  <1>1. PICK r \in Resolve(f.name) : call' = [call EXCEPT ![c] = Answered(f, r, x(r))]
    BY DEF ReadDirResolve, IInv, CallsInv
  <1>2. /\ f \in Calls /\ f.stage = "resolve" /\ f.name \in Names /\ f.late \in BOOLEAN
        /\ Sound(f, L) /\ L \in SUBSET Answers
    BY DEF ReadDirResolve, IInv, CallsInv, Calls
  <1>3. /\ r \in Table!Lookup(f.name) /\ r \in LookedUp /\ r \in Results
        /\ closed => r = Refused("ErrClosed")
    BY <1>2, ResolveFacts
  <1>4. x(r) \in Answers
    BY <1>3, ReachType
  <1> DEFINE e == Answered(f, r, x(r))
  <1>5. /\ e \in Calls /\ e.stage = "answered" /\ e.answer = x(r) /\ e.op = f.op
        /\ e.late = f.late /\ e.moves = f.moves
    BY <1>2, <1>3, <1>4, AnsweredIsCall
  <1>6. f.op = "ReadDir" /\ (f.late => closed)
    BY <1>2 DEF Sound
  <1>7. f.moves = 0 => x(r) \in L
    <2> SUFFICES ASSUME f.moves = 0 PROVE x(r) \in L
      OBVIOUS
    <2>1. L = Expected("ReadDir", f.name, f.to) /\ ~(f.name = RootName /\ Root \notin Mounted)
      BY <1>2, <1>6 DEF Sound
    <2>2. x(r) \in {IF IsRoute(r1) THEN Reach(r1) ELSE r1 : r1 \in Table!Lookup(f.name)}
      BY <1>3
    <2> QED BY <2>1, <2>2 DEF Expected
  <1>8. closed => x(r)[1] = "refused"
    BY <1>3 DEF IsRoute, Refused
  <1>9. call' = [call EXCEPT ![c] = e] /\ legal' = [legal EXCEPT ![c] = L]
        /\ UNCHANGED <<mounts, closed>>
    BY <1>1 DEF ReadDirResolve, IInv, CallsInv
  <1> HIDE DEF e, f, x, L
  <1>10. Sound(e, L)
    BY <1>5, <1>6, <1>7, <1>8 DEF Sound
  <1> QED BY <1>2, <1>5, <1>9, <1>10, OneCallMoves DEF IInv

\* The return of a call keeps the invariant.
LEMMA ReturnKeeps ==
    ASSUME IInv, NEW c \in Clients, Return(c)
    PROVE  CallsInv'
  <1>1. /\ call' = [call EXCEPT ![c] = Idle] /\ legal' = [legal EXCEPT ![c] = {}]
        /\ UNCHANGED <<mounts, closed>>
    BY DEF Return
  <1>2. Sound(Idle, {})
    BY DEF Sound, Idle, Nothing
  <1> QED BY <1>1, <1>2, IdleIsCall, OneCallMoves DEF IInv

\* A change of the table is counted against the calls between two looks, and
\* leaves what is known of the others alone.
LEMMA DisturbKeeps ==
    ASSUME IInv, TableInv', Disturb, closed => closed'
    PROVE  CallsInv'
  <1>1. ASSUME NEW c \in Clients PROVE call'[c] \in Calls /\ legal'[c] \in SUBSET Answers
    <2>1. call[c] \in Calls /\ legal[c] \in SUBSET Answers
      BY DEF IInv, CallsInv
    <2>2. CASE Looking(c)
      <3>1. call'[c] = [call[c] EXCEPT !.moves = @ + 1]
        BY <2>2 DEF Disturb
      <3>2. call[c].moves \in 0..MaxMoves /\ call[c].moves < MaxMoves
        BY <2>1, <2>2 DEF Disturb, Calls
      <3>3. call[c].moves + 1 \in 0..MaxMoves
        BY <3>2, RouterAssumption
      <3>4. call'[c] \in Calls
        BY <2>1, <3>1, <3>3 DEF Calls
      <3>5. /\ call'[c].op = call[c].op /\ call'[c].name = call[c].name
            /\ call'[c].to = call[c].to
        BY <2>1, <3>1 DEF Calls
      <3>6. /\ call[c].op \in OneLookOps \cup {"Rename", "ReadDir"}
            /\ call[c].name \in Names /\ call[c].to \in Names
        <4>1. call[c].stage \in {"old", "list", "resolve"} /\ Sound(call[c], legal[c])
          BY <2>2 DEF Looking, IInv, CallsInv
        <4> QED BY <2>1, <4>1 DEF Sound, Calls
      <3>7. Expected(call[c].op, call[c].name, call[c].to)' \subseteq Answers
        <4>1. TableTyped'
          BY DEF TableInv, TableTyped
        <4> QED BY <4>1, <3>5, <3>6, ExpectedTypeNext
      <3>8. legal'[c] = legal[c] \cup Expected(call[c].op, call[c].name, call[c].to)'
        BY <2>2 DEF Disturb
      <3> QED BY <2>1, <3>4, <3>7, <3>8
    <2>3. CASE ~Looking(c)
      BY <2>1, <2>3 DEF Disturb
    <2> QED BY <2>2, <2>3
  <1>2. ASSUME NEW c \in Clients PROVE Sound(call[c], legal[c])'
    <2>1. call[c] \in Calls /\ Sound(call[c], legal[c])
      BY DEF IInv, CallsInv
    <2>2. CASE Looking(c)
      <3>1. /\ call'[c] = [call[c] EXCEPT !.moves = @ + 1]
            /\ call[c].moves \in Nat
        BY <2>1, <2>2 DEF Disturb, Calls
      <3>2. /\ call'[c].moves # 0 /\ call'[c].stage = call[c].stage
            /\ call'[c].op = call[c].op /\ call'[c].first = call[c].first
            /\ call'[c].late = call[c].late /\ call'[c].answer = call[c].answer
            /\ call'[c].name = call[c].name
        BY <2>1, <3>1 DEF Calls
      <3>3. call[c].stage \in {"old", "list", "resolve"}
        BY <2>2 DEF Looking
      <3> QED BY <2>1, <3>2, <3>3 DEF Sound
    <2>3. CASE ~Looking(c)
      <3>1. call'[c] = call[c] /\ legal'[c] = legal[c]
        BY <2>3 DEF Disturb
      <3>2. call[c].stage \notin {"old", "list", "resolve"}
        BY <2>3 DEF Looking
      <3> QED BY <2>1, <3>1, <3>2 DEF Sound
    <2> QED BY <2>2, <2>3
  <1>3. call' \in [Clients -> Calls] /\ legal' \in [Clients -> SUBSET Answers]
    BY <1>1 DEF Disturb
  <1> QED BY <1>2, <1>3 DEF CallsInv

-----------------------------------------------------------------------------
(***************************************************************************)
(* The invariant of the specification.                                     *)
(***************************************************************************)
LEMMA InitIInv == Init => IInv
  <1> SUFFICES ASSUME Init PROVE IInv
    OBVIOUS
  <1> USE RouterAssumption
  <1>1. Mounted = {} /\ ToSet(paths) = {}
    BY DEF Init, Mounted, ToSet
  <1>2. ListAgrees
    <2>1. DOMAIN paths = {}
      <3>1. Len(paths) = 0 /\ DOMAIN paths = 1..Len(paths)
        BY DEF Init
      <3> QED BY <3>1
    <2>2. IsInjective(paths)
      BY <2>1 DEF IsInjective
    <2>3. LongestFirst(paths)
      BY <2>1 DEF LongestFirst
    <2> QED BY <1>1, <2>2, <2>3 DEF ListAgrees
  <1>3. TableInv
    <2>1. mounts \in [Places -> Adaptors \cup {NoAdaptor}]
      BY DEF Init
    <2>2. paths \in Seq(Places)
      BY DEF Init
    <2>3. closed \in BOOLEAN /\ connected \in [Adaptors -> BOOLEAN]
      BY DEF Init
    <2> QED BY <1>2, <2>1, <2>2, <2>3 DEF TableInv
  <1>4. Sound(Idle, {})
    BY DEF Sound, Idle, Nothing
  <1>5. CallsInv
    BY <1>4, IdleIsCall DEF Init, CallsInv
  <1> QED BY <1>3, <1>5 DEF IInv

\* Every step keeps the invariant: one case per action.
LEMMA NextIInv == IInv /\ [Next]_vars => IInv'
  <1> SUFFICES ASSUME IInv, [Next]_vars PROVE IInv'
    OBVIOUS
  <1>1. TableInv /\ CallsInv /\ closed \in BOOLEAN /\ connected \in [Adaptors -> BOOLEAN]
    BY DEF IInv, TableInv
  <1>2. ASSUME NEW name \in Names, NEW a \in Adaptors, Mount(name, a) PROVE IInv'
    <2>1. TableInv'
      BY <1>1, <1>2, MountKeepsTable
    <2>2. Disturb /\ (closed => closed')
      BY <1>2 DEF Mount
    <2> QED BY <2>1, <2>2, DisturbKeeps DEF IInv
  <1>3. ASSUME NEW name \in Names, Unmount(name) PROVE IInv'
    <2>1. TableInv'
      BY <1>1, <1>3, UnmountKeepsTable
    <2>2. Disturb /\ (closed => closed')
      BY <1>3 DEF Unmount
    <2> QED BY <2>1, <2>2, DisturbKeeps DEF IInv
  <1>4. CASE Close
    <2>1. TableInv'
      BY <1>1, <1>4, OthersKeepTable DEF Close
    <2>2. Disturb /\ (closed => closed')
      BY <1>4 DEF Close
    <2> QED BY <2>1, <2>2, DisturbKeeps DEF IInv
  <1>5. ASSUME NEW a \in Adaptors, NEW b \in BOOLEAN, SetConnected(a, b) PROVE IInv'
    <2>1. TableInv'
      BY <1>1, <1>5, OthersKeepTable DEF SetConnected
    <2>2. UNCHANGED <<mounts, closed, call, legal>>
      BY <1>5 DEF SetConnected
    <2>3. CallsInv'
      <3>1. \A c \in Clients : Sound(call[c], legal[c])
        BY <1>1 DEF CallsInv
      <3>2. \A e, L : Sound(e, L) => Sound(e, L)'
        BY <2>2, SameSound
      <3> QED BY <1>1, <2>2, <3>1, <3>2 DEF CallsInv
    <2> QED BY <2>1, <2>3 DEF IInv
  <1>6. ASSUME NEW c \in Clients, Operate(c) PROVE IInv'
    <2>1. UNCHANGED <<mounts, paths, closed, connected>>
      BY <1>6 DEF Operate, LookOnce, RenameOld, RenameNew, ReadDirLook, ReadDirList,
                  ReadDirResolve, Return
    <2>2. TableInv'
      BY <1>1, <2>1, OthersKeepTable
    <2>3. CallsInv'
      BY <1>6, LookOnceKeeps, RenameOldKeeps, RenameNewKeeps, ReadDirLookKeeps,
         ReadDirListKeeps, ReadDirResolveKeeps, ReturnKeeps DEF Operate
    <2> QED BY <2>2, <2>3 DEF IInv
  <1>7. CASE UNCHANGED vars
    <2>1. TableInv'
      BY <1>1, <1>7, OthersKeepTable DEF vars
    <2>2. UNCHANGED <<mounts, closed, call, legal>>
      BY <1>7 DEF vars
    <2>3. CallsInv'
      <3>1. \A c \in Clients : Sound(call[c], legal[c])
        BY <1>1 DEF CallsInv
      <3>2. \A e, L : Sound(e, L) => Sound(e, L)'
        BY <2>2, SameSound
      <3> QED BY <1>1, <2>2, <3>1, <3>2 DEF CallsInv
    <2> QED BY <2>1, <2>3 DEF IInv
  <1> QED BY <1>2, <1>3, <1>4, <1>5, <1>6, <1>7 DEF Next

\* The inductive invariant holds in every reachable state.
LEMMA Invariance == Spec => []IInv
  BY InitIInv, NextIInv, PTL DEF Spec

(***************************************************************************)
(* The router's state and the calls in progress are well typed in every    *)
(* reachable state.                                                        *)
(***************************************************************************)
THEOREM RouterTyped == Spec => []TypeOK
  BY Invariance, IInvImplies, PTL

(***************************************************************************)
(* The list that resolve scans is the set of mount points, longest first,  *)
(* whatever was mounted and unmounted in whatever order.                   *)
(***************************************************************************)
THEOREM RouterListAgrees == Spec => []ListAgrees
  BY Invariance, IInvImplies, PTL

(***************************************************************************)
(* Every answer is one that a mount table in force during the call gives.  *)
(***************************************************************************)
THEOREM RouterAnswersExplained == Spec => []AnswerExplained
  BY Invariance, IInvImplies, PTL

(***************************************************************************)
(* No call that starts after Close reaches an adaptor.                     *)
(***************************************************************************)
THEOREM RouterNoReachAfterClose == Spec => []NoReachAfterClose
  BY Invariance, IInvImplies, PTL

-----------------------------------------------------------------------------
(***************************************************************************)
(* Refinement: every step of the router is a step of the mount table or    *)
(* leaves it alone.                                                        *)
(***************************************************************************)
Found == [c \in Clients |-> call[c].found]

\* The router starts as the table does.
LEMMA InitRefines == Init => Table!TableInit
  BY DEF Init, Table!TableInit, Idle, Nothing, Table!Nothing

\* Every step of the router is a step of the table or leaves it alone.
LEMMA NextRefines ==
    IInv /\ [Next]_vars => [Table!TableNext]_(Table!tableVars)
  <1> SUFFICES ASSUME IInv, [Next]_vars
               PROVE  Table!TableNext \/ UNCHANGED Table!tableVars
    OBVIOUS
  <1> USE RouterAssumption
  <1>0. call \in [Clients -> Calls]
    BY DEF IInv, CallsInv
  <1>1. ASSUME Disturb PROVE Found' = Found
    <2>1. \A c \in Clients : call'[c].found = call[c].found
      <3> SUFFICES ASSUME NEW c \in Clients PROVE call'[c].found = call[c].found
        OBVIOUS
      <3>1. call[c] \in Calls
        BY <1>0
      <3>2. CASE Looking(c)
        BY <1>1, <3>1, <3>2 DEF Disturb, Calls
      <3>3. CASE ~Looking(c)
        BY <1>1, <3>3 DEF Disturb
      <3> QED BY <3>2, <3>3
    <2> QED BY <2>1 DEF Found
  <1>2. ASSUME NEW name \in Names, NEW a \in Adaptors, Mount(name, a)
        PROVE  Table!TableNext
    <2>1. Clean[name] \in Places /\ Table!MountAt(Clean[name], a)
      BY <1>1, <1>2 DEF Mount, Table!MountAt, Found
    <2> QED BY <2>1 DEF Table!TableNext
  <1>3. ASSUME NEW name \in Names, Unmount(name) PROVE Table!TableNext
    <2>1. Clean[name] \in Places /\ Table!UnmountAt(Clean[name])
      BY <1>1, <1>3 DEF Unmount, Table!UnmountAt, Found
    <2> QED BY <2>1 DEF Table!TableNext
  <1>4. CASE Close
    <2>1. Table!CloseTable
      BY <1>1, <1>4 DEF Close, Table!CloseTable, Found
    <2> QED BY <2>1 DEF Table!TableNext
  <1>5. ASSUME NEW a \in Adaptors, NEW b \in BOOLEAN, SetConnected(a, b)
        PROVE  UNCHANGED Table!tableVars
    BY <1>5 DEF SetConnected, Table!tableVars
  <1>6. ASSUME NEW c \in Clients, NEW name \in Names, NEW r \in Resolve(name),
               NEW e, e.found = r, call' = [call EXCEPT ![c] = e],
               UNCHANGED <<mounts, closed>>
        PROVE  Table!TableNext
    <2>1. r \in Table!Lookup(name)
      BY ResolveFacts
    <2>2. Found' = [Found EXCEPT ![c] = r]
      BY <1>0, <1>6 DEF Found
    <2>3. Table!Find(c, name)
      BY <2>1, <2>2, <1>6 DEF Table!Find, Found
    <2> QED BY <2>3 DEF Table!TableNext
  <1>7. ASSUME NEW c \in Clients, NEW e, e.found = call[c].found,
               call' = [call EXCEPT ![c] = e], UNCHANGED <<mounts, closed>>
        PROVE  UNCHANGED Table!tableVars
    <2>1. Found' = Found
      BY <1>0, <1>7 DEF Found
    <2> QED BY <2>1, <1>7 DEF Table!tableVars, Found
  <1>8. ASSUME NEW c \in Clients, NEW name \in Names, NEW op \in OneLookOps,
               LookOnce(c, op, name)
        PROVE  Table!TableNext
    <2>1. PICK r \in Resolve(name) :
             Begin(c, Answered(Fresh(op, name, name), r, AnswerOne(op, r)))
      BY <1>8 DEF LookOnce
    <2>2. Answered(Fresh(op, name, name), r, AnswerOne(op, r)).found = r
      BY DEF Answered, Fresh, Idle
    <2> QED BY <1>6, <1>8, <2>1, <2>2 DEF LookOnce, Begin
  <1>9. ASSUME NEW c \in Clients, NEW old \in Names, NEW new \in Names,
               RenameOld(c, old, new)
        PROVE  Table!TableNext
    <2> DEFINE f == Fresh("Rename", old, new)
               e(r) == IF IsRoute(r)
                       THEN [f EXCEPT !.stage = "old", !.first = r, !.found = r]
                       ELSE Answered(f, r, r)
    <2>1. PICK r \in Resolve(old) : Begin(c, e(r))
      BY <1>9 DEF RenameOld
    <2>2. e(r).found = r
      BY DEF Answered, Fresh, Idle
    <2> HIDE DEF e
    <2> QED BY <1>6, <1>9, <2>1, <2>2 DEF RenameOld, Begin
  <1>10. ASSUME NEW c \in Clients, RenameNew(c) PROVE Table!TableNext
    <2>1. PICK r \in Resolve(call[c].to) :
             call' = [call EXCEPT ![c] = Answered(call[c], r, AnswerRename(call[c].first, r))]
      BY <1>10, <1>0 DEF RenameNew
    <2>2. call[c].to \in Names /\ call[c] \in Calls
      BY <1>0 DEF Calls
    <2>3. Answered(call[c], r, AnswerRename(call[c].first, r)).found = r
      BY <2>2 DEF Answered, Calls
    <2> QED BY <1>6, <1>10, <2>1, <2>2, <2>3 DEF RenameNew
  <1>11. ASSUME NEW c \in Clients, NEW name \in Names, ReadDirLook(c, name)
         PROVE  UNCHANGED Table!tableVars
    <2> DEFINE e == [Fresh("ReadDir", name, name) EXCEPT !.stage =
                        IF name = RootName /\ mounts[Root] = NoAdaptor
                        THEN "list" ELSE "resolve"]
    <2>1. call[c].stage = "idle" /\ call' = [call EXCEPT ![c] = e]
      BY <1>11 DEF ReadDirLook, Begin
    <2>2. e.found = Nothing
      BY DEF Fresh, Idle
    <2> HIDE DEF e
    <2>3. call[c].found = Nothing
      BY <2>1 DEF IInv, CallsInv, Sound
    <2> QED BY <1>7, <1>11, <2>1, <2>2, <2>3 DEF ReadDirLook
  <1>12. ASSUME NEW c \in Clients, ReadDirList(c) PROVE UNCHANGED Table!tableVars
    <2> DEFINE e == Answered(call[c], call[c].found, Listing(RootEntries))
    <2>1. call' = [call EXCEPT ![c] = e] /\ call[c] \in Calls
      BY <1>0, <1>12 DEF ReadDirList
    <2>2. e.found = call[c].found
      BY <2>1 DEF Answered, Calls
    <2> HIDE DEF e
    <2> QED BY <1>7, <1>12, <2>1, <2>2 DEF ReadDirList
  <1>13. ASSUME NEW c \in Clients, ReadDirResolve(c) PROVE Table!TableNext
    <2> DEFINE x(r) == IF IsRoute(r) THEN Reach(r) ELSE r
    <2>1. PICK r \in Resolve(call[c].name) :
             call' = [call EXCEPT ![c] = Answered(call[c], r, x(r))]
      BY <1>13, <1>0 DEF ReadDirResolve
    <2>2. call[c].name \in Names /\ call[c] \in Calls
      BY <1>0 DEF Calls
    <2>3. Answered(call[c], r, x(r)).found = r
      BY <2>2 DEF Answered, Calls
    <2> QED BY <1>6, <1>13, <2>1, <2>2, <2>3 DEF ReadDirResolve
  <1>14. ASSUME NEW c \in Clients, Return(c) PROVE Table!TableNext
    <2>1. Found' = [Found EXCEPT ![c] = Nothing]
      BY <1>0, <1>14 DEF Return, Found, Idle
    <2>2. Table!Forget(c)
      BY <1>14, <2>1 DEF Return, Table!Forget, Found, Nothing, Table!Nothing
    <2> QED BY <2>2 DEF Table!TableNext
  <1>15. CASE UNCHANGED vars
    BY <1>15 DEF vars, Table!tableVars
  <1> QED BY <1>2, <1>3, <1>4, <1>5, <1>8, <1>9, <1>10, <1>11, <1>12, <1>13, <1>14, <1>15
          DEF Next, Operate

(***************************************************************************)
(* The router implements the atomic mount table.                           *)
(***************************************************************************)
THEOREM RouterImplementsTable == Spec => ImplementsTable
  BY Invariance, InitRefines, NextRefines, PTL DEF Spec, ImplementsTable, Table!TableSpec
=============================================================================
