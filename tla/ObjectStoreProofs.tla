--------------------------- MODULE ObjectStoreProofs ---------------------------
(***************************************************************************)
(* Proofs about the file system on an object store, for any bucket, pages  *)
(* of any size, any number of clients, failed requests and crashes.        *)
(***************************************************************************)
EXTENDS ObjectStoreProps, SequenceTheorems, FunctionTheorems, FiniteSetTheorems, TLAPS

Objects == Contents \cup {Empty, Absent}
OpNames == {"Stat", "Open", "ReadDir", "RemoveAll", "Write", "Remove", "Rename", "Mkdir"}
Stages == {"idle", "head", "probe", "get", "list", "each", "delete", "put", "copy", "mark", "done"}

Calls == [op : OpNames \cup {"none"}, at : Paths, to : Paths, stage : Stages, token : Nat,
          got : SUBSET Entries, kind : {"none", "file", "dir"}, ok : BOOLEAN, body : Objects,
          was : SUBSET Keys, written : SUBSET Keys, removed : SUBSET Keys]

\* The operations that have a stage.
Fits(e) ==
    /\ e \in Calls
    /\ e.stage = "idle" <=> e.op = "none"
    /\ e.stage \in {"head", "probe", "get"} => e.op \in {"Stat", "Open"}
    /\ e.stage = "list" => e.op \in Listing
    /\ e.stage = "each" => e.op = "RemoveAll"
    /\ e.stage = "delete" => e.op \in {"RemoveAll", "Remove", "Rename"}
    /\ e.stage = "copy" => e.op = "Rename"
    /\ e.stage = "put" => e.op = "Write"
    /\ e.stage = "mark" => e.op = "Mkdir"
    /\ e.op = "Mkdir" => e.at # Root
    /\ e.op = "ReadDir" => e.stage \in {"list", "done"}
    /\ e.op = "RemoveAll" => e.stage \in {"list", "each", "delete", "done"}
    /\ e.op = "Rename" => e.stage \in {"copy", "delete", "done"}

\* What a listing shows of key k.
Shown(e, k) ==
    IF e.op = "ReadDir" THEN Entry(e.at, k) ELSE [key |-> k, isDir |-> FALSE]

\* The keys that a listing must not miss when the objects are f: those that have
\* been there all the time, or, for what is to be removed, that are there now and
\* that nobody else wrote.
Due(e, f) ==
    {k \in Keys :
        /\ Below(e.at, k)
        /\ IF e.op = "ReadDir" THEN k \in e.was \ e.removed
           ELSE f[k] # Absent /\ k \notin e.written}

Lists(e, f) ==
    e.op \in Listing =>
        /\ \A k \in Keys : f[k] # Absent /\ Below(e.at, k) => k \in e.was \cup e.written
        /\ e.op = "ReadDir" => \A k \in Due(e, f) : f[k] # Absent
        /\ e.got \subseteq {Shown(e, k) : k \in {l \in Keys : Below(e.at, l)}}
        /\ e.op = "ReadDir" =>
              e.got \subseteq {Shown(e, k) : k \in {l \in e.was \cup e.written : Below(e.at, l)}}
        /\ e.stage = "list" =>
              \A k \in Due(e, f) : Shown(e, k) \in e.got \/ Rank[Shown(e, k).key] > e.token
        /\ e.stage = "each" \/ (e.op = "ReadDir" /\ e.stage = "done" /\ e.ok) =>
              \A k \in Due(e, f) : Shown(e, k) \in e.got
        /\ e.op = "RemoveAll" /\ (e.stage = "delete" \/ (e.stage = "done" /\ e.ok)) =>
              Due(e, f) = {}
        /\ e.op = "RemoveAll" /\ e.stage = "done" /\ e.ok =>
              /\ e.at # Root
              /\ f[Key(e.at)] # Absent => Key(e.at) \in e.written

Alone(e) == {Key(e.at), Key(e.to)} \cap (e.written \cup e.removed) = {}

\* What S3 copies when asked for the path of e is what has its name, if anything.
Plain(e) == Source[e.at] \in {Key(e.at), NoKey}

\* Where the file is that Rename moves, as long as nobody else changes its names.
Moves(e, f) ==
    e.op = "Rename" /\ e.body # Absent /\ Plain(e) =>
        /\ e.at # Root
        /\ e.stage = "copy" /\ Alone(e) => f[Key(e.at)] = e.body
        /\ e.stage = "delete" => e.to # Root /\ e.to # e.at
        /\ e.stage = "delete" /\ Alone(e) => f[Key(e.to)] = e.body
        /\ e.stage = "done" /\ Alone(e) =>
              IF e.ok THEN e.to # Root /\ f[Key(e.at)] = Absent /\ f[Key(e.to)] = e.body
              ELSE f[Key(e.at)] = e.body \/ (e.to # Root /\ f[Key(e.to)] = e.body)

Good(e, f) == Fits(e) /\ Lists(e, f) /\ Moves(e, f)

IInv ==
    /\ object \in [Keys -> Objects]
    /\ DOMAIN call = Clients
    /\ \A c \in Clients : Good(call[c], object)
    /\ faults \in Nat

-----------------------------------------------------------------------------
(***************************************************************************)
(* Listings: their entries are finitely many keys and prefixes, and a page *)
(* that is not the last one takes those of least rank.                     *)
(***************************************************************************)
LEMMA StoreTypes ==
    /\ IsFiniteSet(Paths) /\ Paths \subseteq Seq(STRING) /\ Root \in Paths
    /\ Rank \in [Keys -> Nat] /\ \A k \in Keys : Rank[k] > 0
    /\ PageSize \in Nat /\ PageSize > 0 /\ MaxFaults \in Nat
    /\ Absent \notin Contents \cup {Empty}
BY StoreAssumption

LEMMA KeysFinite == IsFiniteSet(Keys)
<1> DEFINE P == Paths \ {Root}
           Named(m) == {[at |-> p, marker |-> m] : p \in P}
<1>1. IsFiniteSet(P)
    BY StoreTypes, FS_Subset, P \in SUBSET Paths
<1>2. ASSUME NEW m \in BOOLEAN PROVE IsFiniteSet(Named(m))
    <2> DEFINE g == [p \in P |-> [at |-> p, marker |-> m]]
    <2>1. g \in Surjection(P, Named(m))
        BY Fun_IsSurj
    <2> QED BY <1>1, <2>1, FS_Surjection
<1>3. Keys = Named(TRUE) \cup Named(FALSE)
    <2>1. \A k \in Keys : k.marker \in BOOLEAN /\ k \in Named(k.marker)
        BY DEF Keys
    <2>2. \A m \in BOOLEAN : Named(m) \subseteq Keys
        BY DEF Keys
    <2> HIDE DEF Named
    <2> QED BY <2>1, <2>2
<1> HIDE DEF Named
<1> QED BY <1>2, <1>3, FS_Union

LEMMA EntriesFinite == IsFiniteSet(Entries)
<1> DEFINE Flagged(m) == {[key |-> k, isDir |-> m] : k \in Keys}
<1>1. ASSUME NEW m \in BOOLEAN PROVE IsFiniteSet(Flagged(m))
    <2> DEFINE g == [k \in Keys |-> [key |-> k, isDir |-> m]]
    <2>1. g \in Surjection(Keys, Flagged(m))
        BY Fun_IsSurj
    <2> QED BY KeysFinite, <2>1, FS_Surjection
<1>2. Entries = Flagged(TRUE) \cup Flagged(FALSE)
    <2>1. \A e \in Entries : e.isDir \in BOOLEAN /\ e \in Flagged(e.isDir)
        BY DEF Entries
    <2>2. \A m \in BOOLEAN : Flagged(m) \subseteq Entries
        BY DEF Entries
    <2> HIDE DEF Flagged
    <2> QED BY <2>1, <2>2
<1> HIDE DEF Flagged
<1> QED BY <1>1, <1>2, FS_Union

LEMMA LeastOf ==
    ASSUME NEW T, T \subseteq Nat, T # {}
    PROVE \E n \in T : \A m \in T : n <= m
<1> DEFINE less == {ss \in Nat \X Nat : ss[1] < ss[2]}
<1>1. IsWellFoundedOn(less, Nat)
    BY NatLessThanWellFounded, Zenon DEF OpToRel
<1>2. \E n \in T : \A m \in T : <<m, n>> \notin less
    <2> HIDE DEF less
    <2> QED BY <1>1, WFMin, Zenon
<1>3. ASSUME NEW m \in Nat, NEW n \in Nat, <<m, n>> \notin less PROVE n <= m
    BY <1>3
<1> HIDE DEF less
<1> QED BY <1>2, <1>3

LEMMA GreatestOf ==
    ASSUME NEW T, T \subseteq Nat, T # {}, NEW b \in Nat, \A n \in T : n <= b
    PROVE \E n \in T : \A m \in T : m <= n
<1> DEFINE U == {b - n : n \in T}
<1>1. U \subseteq Nat /\ U # {}
    <2>1. \A n \in T : b - n \in Nat
        OBVIOUS
    <2> QED BY <2>1
<1>2. PICK u \in U : \A v \in U : u <= v
    <2> HIDE DEF U
    <2> QED BY <1>1, LeastOf
<1>3. PICK n \in T : u = b - n
    BY <1>2
<1>4. ASSUME NEW m \in T PROVE m <= n
    <2>1. u <= b - m
        BY <1>2
    <2> QED BY <2>1, <1>3
<1> QED BY <1>4

Before(left, e) == {d \in left : Rank[d.key] < Rank[e.key]}
Page(left) == {e \in left : Cardinality(Before(left, e)) < PageSize}

LEMMA RankIs ==
    ASSUME NEW e \in Entries
    PROVE e.key \in Keys /\ Rank[e.key] \in Nat /\ Rank[e.key] > 0
BY StoreTypes DEF Entries

\* What is in a page comes before what is not.
LEMMA PageIsLower ==
    ASSUME NEW left \in SUBSET Entries, NEW d \in Page(left), NEW e \in left \ Page(left)
    PROVE Rank[d.key] < Rank[e.key]
<1> SUFFICES ASSUME ~(Rank[d.key] < Rank[e.key]) PROVE FALSE
    OBVIOUS
<1>1. d \in left /\ Rank[d.key] \in Nat /\ Rank[e.key] \in Nat
    BY RankIs DEF Page
<1>2. Before(left, e) \subseteq Before(left, d)
    BY <1>1, RankIs DEF Before
<1>3. IsFiniteSet(Before(left, d))
    BY EntriesFinite, FS_Subset, Before(left, d) \in SUBSET Entries DEF Before
<1>4. Cardinality(Before(left, e)) <= Cardinality(Before(left, d))
    BY <1>2, <1>3, FS_Subset
<1>5. Cardinality(Before(left, e)) \in Nat /\ Cardinality(Before(left, d)) \in Nat
    BY <1>2, <1>3, FS_Subset, FS_CardinalityType
<1> QED BY <1>4, <1>5, StoreTypes DEF Page

\* A page before the last one is not empty.
LEMMA PageHolds ==
    ASSUME NEW left \in SUBSET Entries, left # {}
    PROVE Page(left) # {}
<1> DEFINE ranks == {Rank[e.key] : e \in left}
<1>1. ranks \subseteq Nat /\ ranks # {}
    BY RankIs
<1>2. PICK n \in ranks : \A m \in ranks : n <= m
    <2> HIDE DEF ranks
    <2> QED BY <1>1, LeastOf
<1>3. PICK e \in left : n = Rank[e.key]
    BY <1>2
<1>4. Before(left, e) = {}
    BY <1>1, <1>2, <1>3, RankIs DEF Before
<1> QED BY <1>4, FS_EmptySet, StoreTypes DEF Page

\* The rank at which a page ends, as ListPage computes it.
EndOf(page) == CHOOSE n \in {Rank[e.key] : e \in page} : \A e \in page : Rank[e.key] <= n

LEMMA AfterPage ==
    ASSUME NEW left \in SUBSET Entries, Page(left) # left
    PROVE /\ EndOf(Page(left)) \in Nat
          /\ \A e \in left \ Page(left) : Rank[e.key] > EndOf(Page(left))
<1> DEFINE ranks == {Rank[e.key] : e \in Page(left)}
<1>1. PICK z \in left : z \notin Page(left)
    BY DEF Page
<1>2. ranks \subseteq Nat /\ ranks # {}
    BY <1>1, PageHolds, RankIs DEF Page
<1>3. \A n \in ranks : n <= Rank[z.key]
    BY <1>1, <1>2, PageIsLower, RankIs
<1>4. Rank[z.key] \in Nat
    BY RankIs
<1>5. \E n \in ranks : \A m \in ranks : m <= n
    <2> HIDE DEF ranks
    <2> QED BY <1>2, <1>3, <1>4, GreatestOf
<1>6. EndOf(Page(left)) \in ranks
    BY <1>5 DEF EndOf
<1>7. PICK d \in Page(left) : EndOf(Page(left)) = Rank[d.key]
    BY <1>6
<1> QED BY <1>2, <1>6, <1>7, PageIsLower, RankIs DEF Page

\* The entries of a listing, and what they are for a key.
LEMMA EntryIs ==
    ASSUME NEW p \in Paths, NEW k \in Keys, Below(p, k)
    PROVE Entry(p, k) \in Entries
<1>1. CASE k = Marker(p) \/ (k = Key(k.at) /\ Front(k.at) = p)
    BY <1>1 DEF Entry, Entries
<1>2. CASE ~(k = Marker(p) \/ (k = Key(k.at) /\ Front(k.at) = p))
    <2>1. k.at \in Paths /\ k.at # <<>> /\ k.at \in Seq(STRING) /\ p \in Seq(STRING)
        BY StoreTypes DEF Keys, Root
    <2>2. Len(p) \in Nat /\ Len(k.at) \in Nat /\ Len(k.at) > 0
        BY <2>1
    <2>3. Len(p) < Len(k.at)
        <3>1. CASE p = Root
            BY <2>1, <2>2, <3>1 DEF Root
        <3>2. CASE IsStrictPrefix(p, k.at)
            <4>1. Len(p) = Len(k.at) => p = k.at
                BY <2>1, <3>2, SubSeqFull DEF IsStrictPrefix, IsPrefix
            <4> QED BY <2>2, <3>2, <4>1 DEF IsStrictPrefix, IsPrefix
        <3> QED BY <1>2, <3>1, <3>2 DEF Below
    <2>4. SubSeq(k.at, 1, Len(p) + 1) \in Paths
        BY <2>1, <2>2, <2>3, StoreAssumption
    <2>5. Len(SubSeq(k.at, 1, Len(p) + 1)) = Len(p) + 1
        BY <2>1, <2>2, <2>3, SubSeqProperties
    <2>6. Marker(SubSeq(k.at, 1, Len(p) + 1)) \in Keys
        BY <2>2, <2>4, <2>5 DEF Marker, Keys, Root
    <2> QED BY <1>2, <2>6 DEF Entry, Entries
<1> QED BY <1>1, <1>2

LEMMA ShownIs ==
    ASSUME NEW e, e.at \in Paths, NEW k \in Keys, Below(e.at, k)
    PROVE Shown(e, k) \in Entries
BY EntryIs DEF Shown, Entries

-----------------------------------------------------------------------------
(***************************************************************************)
(* Somebody else's change of one key leaves a call as good as it was.      *)
(***************************************************************************)
Watches(e) == e.op \in Listing \cup {"Rename"}
Seen(e, wrote, gone) ==
    [e EXCEPT !.written = @ \cup (wrote \cap Concerns(e.at, e.to)),
              !.removed = @ \cup (gone \cap Concerns(e.at, e.to))]

\* The change: f becomes g by a put of k or by its removal.
Change(f, g, k, wrote, gone) ==
    /\ k \in Keys
    /\ f \in [Keys -> Objects]
    /\ g \in [Keys -> Objects]
    /\ \A l \in Keys \ {k} : g[l] = f[l]
    /\ \/ g[k] # Absent /\ wrote = {k} /\ gone = {}
       \/ g[k] = Absent /\ wrote = {} /\ gone = {k}

LEMMA SeenIs ==
    ASSUME NEW e \in Calls, NEW wrote, NEW gone
    PROVE /\ Seen(e, wrote, gone) \in Calls
          /\ Seen(e, wrote, gone).op = e.op
          /\ Seen(e, wrote, gone).at = e.at
          /\ Seen(e, wrote, gone).to = e.to
          /\ Seen(e, wrote, gone).stage = e.stage
          /\ Seen(e, wrote, gone).token = e.token
          /\ Seen(e, wrote, gone).got = e.got
          /\ Seen(e, wrote, gone).ok = e.ok
          /\ Seen(e, wrote, gone).body = e.body
          /\ Seen(e, wrote, gone).was = e.was
          /\ Seen(e, wrote, gone).written = e.written \cup (wrote \cap Concerns(e.at, e.to))
          /\ Seen(e, wrote, gone).removed = e.removed \cup (gone \cap Concerns(e.at, e.to))
<1>1. Concerns(e.at, e.to) \subseteq Keys
    BY DEF Concerns
<1> QED BY <1>1 DEF Seen, Calls

LEMMA SeenFits ==
    ASSUME NEW e, Fits(e), NEW wrote, NEW gone
    PROVE Fits(Seen(e, wrote, gone))
<1> DEFINE s == Seen(e, wrote, gone)
<1>1. e \in Calls
    BY DEF Fits
<1>2. s \in Calls /\ s.op = e.op /\ s.at = e.at /\ s.stage = e.stage
    BY <1>1, SeenIs
<1> HIDE DEF s
<1>3. Fits(s)
    BY <1>2 DEF Fits
<1> QED BY <1>3 DEF s

LEMMA SeenDue ==
    ASSUME NEW e, Fits(e), NEW f, NEW g, NEW k, NEW wrote, NEW gone,
           Change(f, g, k, wrote, gone)
    PROVE /\ Due(Seen(e, wrote, gone), g) \subseteq Due(e, f)
          /\ \A l \in Keys : Shown(Seen(e, wrote, gone), l) = Shown(e, l)
<1> DEFINE s == Seen(e, wrote, gone)
<1>1. e \in Calls
    BY DEF Fits
<1>2. /\ s.op = e.op /\ s.at = e.at /\ s.was = e.was
      /\ s.written = e.written \cup (wrote \cap Concerns(e.at, e.to))
      /\ e.removed \subseteq s.removed
    BY <1>1, SeenIs
<1> HIDE DEF s
<1>3. ASSUME NEW l \in Keys, l \in Due(s, g) PROVE l \in Due(e, f)
    <2>1. Below(e.at, l)
        BY <1>2, <1>3 DEF Due
    <2>2. CASE e.op = "ReadDir"
        BY <1>2, <1>3, <2>1, <2>2 DEF Due
    <2>3. CASE e.op # "ReadDir"
        <3>1. g[l] # Absent /\ l \notin e.written /\ l \notin wrote \cap Concerns(e.at, e.to)
            BY <1>2, <1>3, <2>3 DEF Due
        <3>2. l # k
            BY <2>1, <3>1 DEF Change, Concerns
        <3> QED BY <2>1, <2>3, <3>1, <3>2 DEF Change, Due
    <2> QED BY <2>2, <2>3
<1> QED BY <1>2, <1>3 DEF Shown, Due, s

LEMMA SeenLists ==
    ASSUME NEW e, Fits(e), NEW f, NEW g, NEW k, NEW wrote, NEW gone,
           Change(f, g, k, wrote, gone), Lists(e, f)
    PROVE Lists(Seen(e, wrote, gone), g)
<1> DEFINE s == Seen(e, wrote, gone)
<1> SUFFICES ASSUME s.op \in Listing PROVE Lists(s, g)
    BY DEF Lists
<1>1. e \in Calls
    BY DEF Fits
<1>2. /\ s.op = e.op /\ s.at = e.at /\ s.was = e.was /\ s.stage = e.stage /\ s.ok = e.ok
      /\ s.got = e.got /\ s.token = e.token
      /\ s.written = e.written \cup (wrote \cap Concerns(e.at, e.to))
      /\ s.removed = e.removed \cup (gone \cap Concerns(e.at, e.to))
    BY <1>1, SeenIs
<1>3. Due(s, g) \subseteq Due(e, f) /\ \A l \in Keys : Shown(s, l) = Shown(e, l)
    BY SeenDue
<1>4. Due(s, g) \subseteq Keys /\ Due(e, f) \subseteq Keys /\ e.was \subseteq Keys
      /\ e.written \subseteq Keys /\ s.written \subseteq Keys
    BY <1>1, <1>2 DEF Due, Calls, Concerns
<1> HIDE DEF s
<1>5. \A l \in Keys : g[l] # Absent /\ Below(s.at, l) => l \in s.was \cup s.written
    <2> SUFFICES ASSUME NEW l \in Keys, g[l] # Absent, Below(s.at, l)
                 PROVE l \in s.was \cup s.written
        OBVIOUS
    <2>1. CASE l = k
        BY <1>2, <2>1 DEF Change, Concerns
    <2>2. CASE l # k
        BY <1>2, <2>2 DEF Change, Lists
    <2> QED BY <2>1, <2>2
<1>6. s.op = "ReadDir" => \A l \in Due(s, g) : g[l] # Absent
    <2> SUFFICES ASSUME s.op = "ReadDir", NEW l \in Due(s, g) PROVE g[l] # Absent
        OBVIOUS
    <2>1. f[l] # Absent
        BY <1>2, <1>3 DEF Lists
    <2>2. l = k => gone = {}
        BY <1>2 DEF Due, Concerns, Change
    <2> QED BY <1>4, <2>1, <2>2 DEF Change
<1>7. s.got \subseteq {Shown(s, l) : l \in {m \in Keys : Below(s.at, m)}}
    BY <1>2, <1>3 DEF Lists
<1>8. s.op = "ReadDir" =>
          s.got \subseteq {Shown(s, l) : l \in {m \in s.was \cup s.written : Below(s.at, m)}}
    <2> SUFFICES ASSUME e.op = "ReadDir", NEW d \in e.got
                 PROVE d \in {Shown(s, l) : l \in {m \in s.was \cup s.written : Below(s.at, m)}}
        BY <1>2
    <2>1. PICK l \in e.was \cup e.written : Below(e.at, l) /\ d = Shown(e, l)
        BY <1>2 DEF Lists
    <2> QED BY <1>2, <1>3, <1>4, <2>1
<1>9. s.stage = "list" =>
          \A l \in Due(s, g) : Shown(s, l) \in s.got \/ Rank[Shown(s, l).key] > s.token
    BY <1>2, <1>3, <1>4 DEF Lists
<1>10. s.stage = "each" \/ (s.op = "ReadDir" /\ s.stage = "done" /\ s.ok) =>
          \A l \in Due(s, g) : Shown(s, l) \in s.got
    BY <1>2, <1>3, <1>4 DEF Lists
<1>11. s.op = "RemoveAll" /\ (s.stage = "delete" \/ (s.stage = "done" /\ s.ok)) => Due(s, g) = {}
    BY <1>2, <1>3 DEF Lists
<1>12. s.op = "RemoveAll" /\ s.stage = "done" /\ s.ok =>
          /\ s.at # Root
          /\ g[Key(s.at)] # Absent => Key(s.at) \in s.written
    <2> SUFFICES ASSUME s.op = "RemoveAll", s.stage = "done", s.ok
                 PROVE /\ s.at # Root
                       /\ g[Key(s.at)] # Absent => Key(s.at) \in s.written
        OBVIOUS
    <2>1. e.at # Root /\ (f[Key(e.at)] # Absent => Key(e.at) \in e.written)
        BY <1>2 DEF Lists
    <2>2. Key(e.at) \in Keys /\ Key(e.at).at = e.at
        BY <1>1, <2>1 DEF Key, Keys, Calls
    <2>3. CASE Key(e.at) = k
        BY <1>2, <2>1, <2>2, <2>3 DEF Change, Concerns
    <2>4. CASE Key(e.at) # k
        BY <1>2, <2>1, <2>2, <2>4 DEF Change
    <2> QED BY <1>2, <2>1, <2>3, <2>4
<1> QED BY <1>5, <1>6, <1>7, <1>8, <1>9, <1>10, <1>11, <1>12 DEF Lists

LEMMA KeyIs ==
    ASSUME NEW p \in Paths, p # Root
    PROVE Key(p) \in Keys /\ Key(p).at = p /\ Marker(p) \in Keys
BY DEF Key, Marker, Keys

LEMMA SeenMoves ==
    ASSUME NEW e, Fits(e), NEW f, NEW g, NEW k, NEW wrote, NEW gone,
           Change(f, g, k, wrote, gone), Moves(e, f)
    PROVE Moves(Seen(e, wrote, gone), g)
<1> DEFINE s == Seen(e, wrote, gone)
<1> SUFFICES ASSUME s.op = "Rename", s.body # Absent, Plain(s) PROVE Moves(s, g)
    BY DEF Moves
<1>1. e \in Calls /\ e.at \in Paths /\ e.to \in Paths
    BY DEF Fits, Calls
<1>2. /\ s.op = e.op /\ s.at = e.at /\ s.to = e.to /\ s.stage = e.stage /\ s.ok = e.ok
      /\ s.body = e.body
      /\ s.written = e.written \cup (wrote \cap Concerns(e.at, e.to))
      /\ s.removed = e.removed \cup (gone \cap Concerns(e.at, e.to))
    BY <1>1, SeenIs
<1> HIDE DEF s
<1>3. e.at # Root /\ Plain(e)
    BY <1>2 DEF Moves, Plain
<1>4. Alone(s) => Alone(e) /\ g[Key(e.at)] = f[Key(e.at)]
    BY <1>1, <1>2, <1>3, KeyIs DEF Alone, Change, Concerns
<1>5. Alone(s) /\ e.to # Root => g[Key(e.to)] = f[Key(e.to)]
    BY <1>1, <1>2, KeyIs DEF Alone, Change, Concerns
<1> QED BY <1>2, <1>3, <1>4, <1>5 DEF Moves

-----------------------------------------------------------------------------
(***************************************************************************)
(* The steps of a call: those that leave the bucket alone, and those that  *)
(* change a key of it, which the other calls see.                          *)
(***************************************************************************)
LEMMA OwnStep ==
    ASSUME IInv, NEW c \in Clients, UNCHANGED object, faults' \in Nat,
           DOMAIN call' = Clients, \A d \in Clients \ {c} : call'[d] = call[d],
           Good(call'[c], object)
    PROVE IInv'
<1>1. \A d \in Clients : Good(call'[d], object)
    BY DEF IInv
<1>2. \A d \in Clients : Good(call'[d], object')
    BY <1>1
<1> QED BY <1>2 DEF IInv

LEMMA ChangeStep ==
    ASSUME IInv, NEW c \in Clients, NEW calls, NEW k, NEW wrote, NEW gone,
           call' = Noted(calls, c, wrote, gone), faults' \in Nat,
           \A d \in Clients \ {c} : calls[d] = call[d],
           Change(object, object', k, wrote, gone),
           Good(calls[c], object')
    PROVE IInv'
<1>1. DOMAIN call' = Clients /\ object' \in [Keys -> Objects]
    BY DEF Noted, Change
<1>2. call'[c] = calls[c]
    BY DEF Noted
<1>3. ASSUME NEW d \in Clients \ {c} PROVE Good(call'[d], object')
    <2>1. Good(call[d], object)
        BY DEF IInv
    <2>2. CASE call[d].op \notin Listing \cup {"Rename"}
        <3>1. call'[d] = call[d]
            BY <2>2 DEF Noted
        <3> QED BY <2>1, <2>2, <3>1 DEF Good, Lists, Moves
    <2>3. CASE call[d].op \in Listing \cup {"Rename"}
        <3>1. call'[d] = Seen(call[d], wrote, gone)
            BY <2>3 DEF Noted, Seen
        <3>2. Good(Seen(call[d], wrote, gone), object')
            BY <2>1, SeenFits, SeenLists, SeenMoves DEF Good
        <3> QED BY <3>1, <3>2
    <2> QED BY <2>2, <2>3
<1>4. \A d \in Clients : Good(call'[d], object')
    BY <1>2, <1>3
<1> QED BY <1>1, <1>4 DEF IInv

LEMMA GoodIs ==
    ASSUME IInv, NEW c \in Clients
    PROVE Good(call[c], object) /\ Fits(call[c]) /\ call[c] \in Calls /\ DOMAIN call = Clients
          /\ object \in [Keys -> Objects] /\ faults \in Nat
BY DEF IInv, Good, Fits

\* A call that fails leaves what it promised so far.
LEMMA FailsWell ==
    ASSUME NEW e, NEW f, Good(e, f), e.stage # "idle"
    PROVE Good([e EXCEPT !.stage = "done", !.ok = FALSE], f)
<1> DEFINE s == [e EXCEPT !.stage = "done", !.ok = FALSE]
<1>1. e \in Calls
    BY DEF Good, Fits
<1>2. /\ s \in Calls /\ s.op = e.op /\ s.at = e.at /\ s.to = e.to /\ s.stage = "done" /\ s.ok = FALSE
      /\ s.got = e.got /\ s.was = e.was /\ s.written = e.written /\ s.removed = e.removed
      /\ s.body = e.body
    BY <1>1 DEF Calls, Stages
<1> HIDE DEF s
<1>3. Fits(s)
    BY <1>2 DEF Good, Fits, Listing
<1>4. Lists(s, f)
    BY <1>2 DEF Good, Lists, Due, Shown
<1>5. e.op = "Rename" => e.stage \in {"copy", "delete", "done"}
    BY DEF Good, Fits
<1>6. Moves(s, f)
    BY <1>2, <1>5 DEF Good, Moves, Alone, Plain
<1> QED BY <1>3, <1>4, <1>6 DEF Good, s

LEMMA FailsKeeps ==
    ASSUME IInv, NEW c \in Clients, Fails(c), call[c].stage # "idle"
    PROVE IInv'
<1>1. call'[c] = [call[c] EXCEPT !.stage = "done", !.ok = FALSE]
      /\ DOMAIN call' = Clients /\ \A d \in Clients \ {c} : call'[d] = call[d]
    BY GoodIs DEF Fails, Done
<1>2. UNCHANGED object /\ faults' \in Nat
    BY GoodIs DEF Fails, Fault
<1>3. Good([call[c] EXCEPT !.stage = "done", !.ok = FALSE], object)
    <2>1. Good(call[c], object)
        BY GoodIs
    <2> QED BY <2>1, FailsWell
<1>4. Good(call'[c], object)
    BY <1>1, <1>3
<1> QED BY <1>1, <1>2, <1>4, OwnStep

\* Calls that neither list nor move promise nothing about the bucket.
LEMMA PlainIsGood ==
    ASSUME NEW e, NEW f, Fits(e), e.op \notin Listing \cup {"Rename"}
    PROVE Good(e, f)
BY DEF Good, Lists, Moves

LEMMA HeadObjectKeeps ==
    ASSUME IInv, NEW c \in Clients, HeadObject(c)
    PROVE IInv'
<1> DEFINE e == call[c]  s == call'[c]
<1>1. Fits(e) /\ e.stage = "head" /\ e.op \in {"Stat", "Open"} /\ e \in Calls /\ faults \in Nat
    BY GoodIs DEF HeadObject, At, Fits
<1>2. UNCHANGED object /\ faults' \in Nat /\ DOMAIN call' = Clients
      /\ \A d \in Clients \ {c} : call'[d] = call[d]
    BY <1>1, GoodIs DEF HeadObject, Goto, Fault
<1>3. \/ s = [e EXCEPT !.kind = "file", !.ok = TRUE,
                       !.stage = IF e.op = "Open" THEN "get" ELSE "done"]
      \/ s = [e EXCEPT !.stage = "probe"]
    BY GoodIs DEF HeadObject, Goto
<1>4. s \in Calls /\ s.op = e.op /\ s.at = e.at /\ s.stage \in {"get", "done", "probe"}
    BY <1>1, <1>3 DEF Calls, Stages
<1>5. Good(s, object)
    <2> HIDE DEF s, e
    <2>1. Fits(s)
        BY <1>1, <1>4 DEF Fits, Listing
    <2> QED BY <1>1, <1>4, <2>1, PlainIsGood DEF Listing
<1> QED BY <1>2, <1>5, OwnStep

LEMMA ProbeKeeps ==
    ASSUME IInv, NEW c \in Clients, Probe(c)
    PROVE IInv'
<1> DEFINE e == call[c]  s == call'[c]
           isDir == call[c].at # Root /\ \E k \in Present : Below(call[c].at, k)
<1>1. Fits(e) /\ e.stage = "probe" /\ e.op \in {"Stat", "Open"} /\ e \in Calls /\ faults \in Nat
    BY GoodIs DEF Probe, At, Fits
<1>2. CASE Fails(c)
    BY <1>1, <1>2, FailsKeeps
<1>3. CASE /\ call' = [Done(c, isDir) EXCEPT ![c].kind = IF isDir THEN "dir" ELSE "none"]
           /\ UNCHANGED <<object, faults>>
    <2>1. isDir \in BOOLEAN
        OBVIOUS
    <2> HIDE DEF isDir
    <2>2. s = [e EXCEPT !.stage = "done", !.ok = isDir, !.kind = IF isDir THEN "dir" ELSE "none"]
          /\ DOMAIN call' = Clients /\ \A d \in Clients \ {c} : call'[d] = call[d]
        BY <1>3, GoodIs DEF Done
    <2>3. s \in Calls /\ s.op = e.op /\ s.at = e.at /\ s.stage = "done"
        BY <1>1, <2>1, <2>2 DEF Calls, Stages
    <2>4. Good(s, object)
        <3> HIDE DEF s, e
        <3>1. Fits(s)
            BY <1>1, <2>3 DEF Fits, Listing
        <3> QED BY <1>1, <2>3, <3>1, PlainIsGood DEF Listing
    <2> QED BY <1>1, <1>3, <2>2, <2>4, OwnStep
<1> QED BY <1>2, <1>3 DEF Probe

LEMMA GetObjectKeeps ==
    ASSUME IInv, NEW c \in Clients, GetObject(c)
    PROVE IInv'
<1> DEFINE e == call[c]  s == call'[c]
<1>1. Fits(e) /\ e.stage = "get" /\ e.op \in {"Stat", "Open"} /\ e \in Calls /\ faults \in Nat
    BY GoodIs DEF GetObject, At, Fits
<1>2. CASE Fails(c)
    BY <1>1, <1>2, FailsKeeps
<1>3. CASE call' = Done(c, IsFile(call[c].at)) /\ UNCHANGED <<object, faults>>
    <2>1. s = [e EXCEPT !.stage = "done", !.ok = IsFile(e.at)]
          /\ DOMAIN call' = Clients /\ \A d \in Clients \ {c} : call'[d] = call[d]
        BY <1>3, GoodIs DEF Done
    <2>2. IsFile(e.at) \in BOOLEAN
        BY DEF IsFile
    <2>3. s \in Calls /\ s.op = e.op /\ s.at = e.at /\ s.stage = "done"
        BY <1>1, <2>1, <2>2 DEF Calls, Stages
    <2>4. Good(s, object)
        <3> HIDE DEF s, e
        <3>1. Fits(s)
            BY <1>1, <2>3 DEF Fits, Listing
        <3> QED BY <1>1, <2>3, <3>1, PlainIsGood DEF Listing
    <2> QED BY <1>1, <1>3, <2>1, <2>4, OwnStep
<1> QED BY <1>2, <1>3 DEF GetObject

LEMMA ReturnKeeps ==
    ASSUME IInv, NEW c \in Clients, Return(c) \/ Crash(c)
    PROVE IInv'
<1>1. call'[c] = Idle /\ UNCHANGED <<object, faults>>
      /\ DOMAIN call' = Clients /\ \A d \in Clients \ {c} : call'[d] = call[d]
    BY GoodIs DEF Return, Crash
<1>2. Idle \in Calls
    BY StoreTypes DEF Idle, Calls, Stages, Objects
<1>3. Good(Idle, object)
    BY <1>2, PlainIsGood DEF Idle, Fits, Listing
<1> QED BY <1>1, <1>3, GoodIs, OwnStep

\* A listing begins with all the keys it must not miss ahead of it.
LEMMA BeginListing ==
    ASSUME NEW f \in [Keys -> Objects], NEW op \in Listing, NEW p \in Paths, NEW was,
           was = {k \in Keys : f[k] # Absent} \cap Concerns(p, p),
           NEW e \in Calls, e.op = op, e.at = p, e.stage = "list", e.token = 0, e.got = {},
           e.was = was, e.written = {}, e.removed = {}
    PROVE Good(e, f)
<1>1. Fits(e)
    BY DEF Fits, Listing
<1>2. Moves(e, f)
    BY DEF Moves, Listing
<1>3. \A k \in Keys : f[k] # Absent /\ Below(p, k) => k \in was
    BY DEF Concerns
<1>4. ASSUME NEW k \in Due(e, f)
      PROVE /\ f[k] # Absent
            /\ Rank[Shown(e, k).key] > e.token
    <2>1. k \in Keys /\ Below(e.at, k)
        BY <1>4 DEF Due
    <2>2. f[k] # Absent
        BY <1>4 DEF Due
    <2> QED BY <2>1, <2>2, ShownIs, RankIs
<1>5. Lists(e, f)
    BY <1>3, <1>4 DEF Lists
<1> QED BY <1>1, <1>2, <1>5 DEF Good

LEMMA BeginKeeps ==
    ASSUME IInv, NEW c \in Clients, NEW op \in OpNames, NEW p \in Paths, NEW q \in Paths,
           op = "Mkdir" => p # Root, op # "Rename" => q = p, Begin(c, op, p, q)
    PROVE IInv'
<1> DEFINE s == call'[c]
           was == IF op \in Listing THEN Present \cap Concerns(p, q) ELSE {}
           body == IF op = "Rename" /\ p # Root THEN object[Key(p)] ELSE Absent
<1>1. op \in OpNames
    OBVIOUS
<1>2. s = [Idle EXCEPT !.op = op, !.at = p, !.to = q, !.stage = FirstStage[op],
                       !.was = was, !.body = body]
      /\ UNCHANGED <<object, faults>>
      /\ DOMAIN call' = Clients /\ \A d \in Clients \ {c} : call'[d] = call[d]
    BY GoodIs DEF Begin
<1>3. was \in SUBSET Keys /\ body \in Objects
    BY KeyIs, GoodIs DEF Present, Objects
<1> HIDE DEF was, body
<1>4. /\ s \in Calls /\ s.op = op /\ s.at = p /\ s.to = q /\ s.stage = FirstStage[op]
      /\ s.token = 0 /\ s.got = {} /\ s.was = was /\ s.body = body
      /\ s.written = {} /\ s.removed = {} /\ s.ok = FALSE
    <2>1. FirstStage[op] \in Stages
        BY <1>1 DEF FirstStage, Stages, OpNames
    <2> HIDE DEF s
    <2> QED BY <1>1, <1>2, <1>3, <2>1, StoreTypes DEF Idle, Calls
<1>5. Good(s, object)
    <2> HIDE DEF s
    <2>1. Fits(s)
        BY <1>1, <1>4 DEF Fits, FirstStage, OpNames, Listing
    <2>2. CASE op \in Listing
        <3>1. s.stage = "list"
            BY <1>4, <2>2 DEF FirstStage, Listing
        <3>2. was = {k \in Keys : object[k] # Absent} \cap Concerns(p, p)
            BY <2>2 DEF was, Listing, Present
        <3> QED BY <1>4, <2>2, <3>1, <3>2, BeginListing, GoodIs
    <2>3. CASE op = "Rename"
        <3>1. s.stage = "copy"
            BY <1>4, <2>3 DEF FirstStage
        <3>2. body # Absent => p # Root /\ object[Key(p)] = body
            BY <2>3 DEF body
        <3>3. Moves(s, object)
            BY <1>4, <2>3, <3>1, <3>2 DEF Moves
        <3> QED BY <1>4, <2>1, <2>3, <3>3 DEF Good, Lists, Listing
    <2>4. CASE op \notin Listing \cup {"Rename"}
        BY <1>4, <2>1, <2>4, PlainIsGood
    <2> QED BY <2>2, <2>3, <2>4
<1> QED BY <1>2, <1>5, GoodIs, OwnStep

\* The next page: what the listing must not miss is in the pages so far or ahead.
LEMMA PageAdds ==
    ASSUME NEW f \in [Keys -> Objects], NEW e, Good(e, f), e.stage = "list",
           NEW listed, listed = {Shown(e, k) : k \in {l \in Keys : f[l] # Absent /\ Below(e.at, l)}},
           NEW left, left = {d \in listed : Rank[d.key] > e.token},
           NEW s \in Calls, s.op = e.op, s.at = e.at, s.was = e.was, s.written = e.written,
           s.removed = e.removed, s.got = e.got \cup Page(left),
           IF Page(left) = left
           THEN s.stage = IF e.op = "ReadDir" THEN "done" ELSE "each"
           ELSE s.stage = "list" /\ s.token = EndOf(Page(left))
    PROVE Good(s, f)
<1>1. e \in Calls /\ e.op \in Listing /\ Fits(e) /\ Lists(e, f) /\ e.at \in Paths /\ e.token \in Nat
    BY DEF Good, Fits, Calls
<1>2. Due(s, f) = Due(e, f) /\ \A k \in Keys : Shown(s, k) = Shown(e, k)
    BY DEF Due, Shown
<1>3. left \in SUBSET Entries
    <2>1. listed \subseteq Entries
        BY <1>1, ShownIs
    <2> QED BY <2>1
<1>4. ASSUME NEW k \in Due(e, f)
      PROVE k \in Keys /\ (Shown(e, k) \in e.got \/ Shown(e, k) \in left)
    <2>1. k \in Keys /\ Below(e.at, k)
        BY <1>4 DEF Due
    <2>2. f[k] # Absent
        BY <1>1, <1>4 DEF Due, Lists
    <2>3. Shown(e, k) \in listed
        BY <2>1, <2>2
    <2>4. Shown(e, k) \in e.got \/ Rank[Shown(e, k).key] > e.token
        BY <1>1, <1>4 DEF Lists
    <2> QED BY <2>1, <2>3, <2>4
<1>5. s.stage = "list" =>
          \A k \in Due(e, f) : Shown(e, k) \in s.got \/ Rank[Shown(e, k).key] > s.token
    <2> SUFFICES ASSUME s.stage = "list", NEW k \in Due(e, f), Shown(e, k) \notin s.got
                 PROVE Rank[Shown(e, k).key] > s.token
        OBVIOUS
    <2>1. Page(left) # left /\ s.token = EndOf(Page(left))
        BY <1>1
    <2>2. Shown(e, k) \in left \ Page(left)
        BY <1>4
    <2> QED BY <1>3, <2>1, <2>2, AfterPage
<1>6. s.stage # "list" => \A k \in Due(e, f) : Shown(e, k) \in s.got
    BY <1>4
<1>7. \A d \in Page(left) :
          \E k \in Keys : f[k] # Absent /\ Below(e.at, k) /\ d = Shown(e, k)
    BY DEF Page
<1>8. s.got \subseteq {Shown(e, k) : k \in {l \in Keys : Below(e.at, l)}}
    BY <1>1, <1>7 DEF Lists
<1>9. e.op = "ReadDir" =>
          s.got \subseteq {Shown(e, k) : k \in {l \in e.was \cup e.written : Below(e.at, l)}}
    <2> SUFFICES ASSUME e.op = "ReadDir", NEW d \in s.got
                 PROVE \E k \in e.was \cup e.written : Below(e.at, k) /\ d = Shown(e, k)
        OBVIOUS
    <2>1. CASE d \in e.got
        BY <1>1, <2>1 DEF Lists
    <2>2. CASE d \in Page(left)
        BY <1>1, <1>7, <2>2 DEF Lists
    <2> QED BY <2>1, <2>2
<1>10. s.stage \in {"list", "each", "done"} /\ (s.op = "RemoveAll" => s.stage \in {"list", "each"})
       /\ (s.stage = "each" => s.op = "RemoveAll")
    BY <1>1 DEF Listing
<1>11. Lists(s, f)
    <2>1. /\ \A k \in Keys : f[k] # Absent /\ Below(s.at, k) => k \in s.was \cup s.written
          /\ s.op = "ReadDir" => \A k \in Due(s, f) : f[k] # Absent
        BY <1>1, <1>2 DEF Lists
    <2>2. /\ s.got \subseteq {Shown(s, k) : k \in {l \in Keys : Below(s.at, l)}}
          /\ s.op = "ReadDir" =>
                s.got \subseteq {Shown(s, k) : k \in {l \in s.was \cup s.written : Below(s.at, l)}}
        BY <1>8, <1>9, <1>1, <1>2 DEF Shown
    <2>3. /\ s.stage = "list" =>
                \A k \in Due(s, f) : Shown(s, k) \in s.got \/ Rank[Shown(s, k).key] > s.token
          /\ s.stage # "list" => \A k \in Due(s, f) : Shown(s, k) \in s.got
        BY <1>2, <1>4, <1>5, <1>6
    <2> QED BY <1>10, <2>1, <2>2, <2>3 DEF Lists
<1>12. Fits(s)
    BY <1>1, <1>10 DEF Fits, Listing
<1>13. Moves(s, f)
    BY <1>1 DEF Moves, Listing
<1> QED BY <1>11, <1>12, <1>13 DEF Good

LEMMA ListPageKeeps ==
    ASSUME IInv, NEW c \in Clients, ListPage(c)
    PROVE IInv'
<1> DEFINE e == call[c]  s == call'[c]
           listed == Listed(e.at, e.op = "RemoveAll")
           left == {d \in listed : Rank[d.key] > e.token}
           last == IF Page(left) = left THEN 0 ELSE EndOf(Page(left))
<1>1. /\ Good(e, object) /\ Fits(e) /\ e \in Calls /\ faults \in Nat /\ object \in [Keys -> Objects]
      /\ e.stage = "list" /\ e.op \in Listing /\ e.at \in Paths
    BY GoodIs DEF ListPage, At, Fits, Calls
<1>2. CASE Fails(c)
    BY <1>1, <1>2, FailsKeeps
<1>3. CASE /\ call' = [call EXCEPT
                   ![c].got = @ \cup Page(left), ![c].token = last,
                   ![c].ok = Page(left) = left /\ call[c].op = "ReadDir",
                   ![c].stage = IF Page(left) # left THEN "list"
                                ELSE IF call[c].op = "ReadDir" THEN "done" ELSE "each"]
           /\ UNCHANGED <<object, faults>>
    <2>1. listed = {Shown(e, k) : k \in {l \in Keys : object[l] # Absent /\ Below(e.at, l)}}
        BY <1>1 DEF Listed, Shown, Listing, Present
    <2>2. left \in SUBSET Entries
        <3>1. \A d \in listed : d \in Entries
            BY <1>1, <2>1, ShownIs
        <3> QED BY <3>1
    <2>3. last \in Nat
        BY <2>2, AfterPage
    <2>4. Page(left) \in SUBSET Entries
        BY <2>2 DEF Page
    <2> HIDE DEF left, listed, last
    <2>5. s = [e EXCEPT !.got = @ \cup Page(left), !.token = last,
                        !.ok = Page(left) = left /\ e.op = "ReadDir",
                        !.stage = IF Page(left) # left THEN "list"
                                  ELSE IF e.op = "ReadDir" THEN "done" ELSE "each"]
          /\ DOMAIN call' = Clients /\ \A d \in Clients \ {c} : call'[d] = call[d]
        BY <1>3, GoodIs
    <2>6. /\ s \in Calls /\ s.op = e.op /\ s.at = e.at /\ s.was = e.was /\ s.written = e.written
          /\ s.removed = e.removed /\ s.got = e.got \cup Page(left) /\ s.token = last
          /\ s.stage = IF Page(left) # left THEN "list"
                       ELSE IF e.op = "ReadDir" THEN "done" ELSE "each"
        <3> HIDE DEF s, e
        <3> QED BY <1>1, <2>3, <2>4, <2>5 DEF Calls, Stages
    <2>7. Good(s, object)
        <3>1. left = {d \in listed : Rank[d.key] > e.token}
            BY DEF left
        <3>2. IF Page(left) = left
              THEN s.stage = IF e.op = "ReadDir" THEN "done" ELSE "each"
              ELSE s.stage = "list" /\ s.token = EndOf(Page(left))
            BY <2>6 DEF last
        <3> HIDE DEF s, e
        <3> QED BY <1>1, <2>1, <2>6, <3>1, <3>2, PageAdds
    <2> QED BY <1>1, <1>3, <2>5, <2>7, OwnStep
<1> QED BY <1>2, <1>3 DEF ListPage, Page, Before, EndOf

\* RemoveAll goes on to its path when everything it listed is gone.
LEMMA EachDone ==
    ASSUME NEW e, NEW f, Good(e, f), e.stage = "each", e.got = {}
    PROVE Good([e EXCEPT !.stage = "delete"], f)
<1> DEFINE s == [e EXCEPT !.stage = "delete"]
<1>1. e \in Calls /\ e.op = "RemoveAll" /\ Lists(e, f) /\ Fits(e)
    BY DEF Good, Fits
<1>2. /\ s \in Calls /\ s.op = e.op /\ s.at = e.at /\ s.stage = "delete" /\ s.got = e.got
      /\ s.was = e.was /\ s.written = e.written /\ s.removed = e.removed
    BY <1>1 DEF Calls, Stages
<1> HIDE DEF s
<1>3. Due(s, f) = {}
    BY <1>1, <1>2 DEF Lists, Due, Listing
<1>4. Fits(s)
    BY <1>1, <1>2 DEF Fits, Listing
<1>5. Lists(s, f)
    BY <1>1, <1>2, <1>3 DEF Lists
<1>6. Moves(s, f)
    BY <1>1, <1>2 DEF Moves
<1> QED BY <1>4, <1>5, <1>6 DEF Good, s

\* Of what RemoveAll listed, what it has deleted is not there any more.
LEMMA EachDeletes ==
    ASSUME NEW e, NEW f \in [Keys -> Objects], NEW g \in [Keys -> Objects], Good(e, f),
           e.stage = "each", NEW x \in e.got, g = [f EXCEPT ![x.key] = Absent]
    PROVE Good([e EXCEPT !.got = @ \ {x}], g)
<1> DEFINE s == [e EXCEPT !.got = @ \ {x}]
<1>1. e \in Calls /\ e.op = "RemoveAll" /\ Lists(e, f) /\ Fits(e) /\ x \in Entries /\ x.key \in Keys
    BY DEF Good, Fits, Calls, Entries
<1>2. /\ s \in Calls /\ s.op = e.op /\ s.at = e.at /\ s.stage = e.stage /\ s.got = e.got \ {x}
      /\ s.was = e.was /\ s.written = e.written /\ s.removed = e.removed
    BY <1>1 DEF Calls
<1> HIDE DEF s
<1>3. \A k \in Keys : g[k] # Absent => f[k] # Absent /\ k # x.key
    BY <1>1
<1>4. ASSUME NEW k \in Due(s, g) PROVE Shown(s, k) \in s.got
    <2>1. k \in Keys /\ g[k] # Absent
        BY <1>1, <1>2, <1>4 DEF Due
    <2>2. k \in Due(e, f)
        BY <1>1, <1>2, <1>3, <1>4, <2>1 DEF Due
    <2>3. Shown(e, k) \in e.got
        BY <1>1, <2>2 DEF Lists, Listing
    <2>4. Shown(e, k).key = k /\ Shown(s, k) = Shown(e, k)
        BY <1>1, <1>2 DEF Shown
    <2> QED BY <1>2, <1>3, <2>1, <2>3, <2>4
<1>5. Fits(s)
    BY <1>1, <1>2 DEF Fits
<1>6. \A k \in Keys : Shown(s, k) = Shown(e, k)
    BY <1>1, <1>2 DEF Shown
<1>7. s.got \subseteq {Shown(s, k) : k \in {l \in Keys : Below(s.at, l)}}
    BY <1>1, <1>2, <1>6 DEF Lists, Listing
<1>8. \A k \in Keys : g[k] # Absent /\ Below(s.at, k) => k \in s.was \cup s.written
    BY <1>1, <1>2, <1>3 DEF Lists, Listing
<1>9. Lists(s, g)
    BY <1>1, <1>2, <1>4, <1>7, <1>8 DEF Lists
<1>10. Moves(s, g)
    BY <1>1, <1>2 DEF Moves
<1> QED BY <1>5, <1>9, <1>10 DEF Good, s

LEMMA DeleteEachKeeps ==
    ASSUME IInv, NEW c \in Clients, DeleteEach(c)
    PROVE IInv'
<1> DEFINE e == call[c]
<1>1. /\ Good(e, object) /\ Fits(e) /\ e \in Calls /\ faults \in Nat /\ object \in [Keys -> Objects]
      /\ e.stage = "each"
    BY GoodIs DEF DeleteEach, At
<1>2. CASE Fails(c)
    BY <1>1, <1>2, FailsKeeps
<1>3. CASE e.got = {} /\ Goto(c, "delete") /\ UNCHANGED <<object, faults>>
    <2>1. call'[c] = [e EXCEPT !.stage = "delete"]
          /\ DOMAIN call' = Clients /\ \A d \in Clients \ {c} : call'[d] = call[d]
        BY <1>3, GoodIs DEF Goto
    <2>2. Good([e EXCEPT !.stage = "delete"], object)
        <3> HIDE DEF e
        <3> QED BY <1>1, <1>3, EachDone
    <2>3. Good(call'[c], object)
        BY <2>1, <2>2
    <2> QED BY <1>1, <1>3, <2>1, <2>3, OwnStep
<1>4. ASSUME NEW x \in e.got, UNCHANGED faults,
             DropObject(c, x.key, [call EXCEPT ![c].got = @ \ {x}])
      PROVE IInv'
    <2> DEFINE calls == [call EXCEPT ![c].got = @ \ {x}]
    <2>1. x.key \in Keys
        BY <1>1 DEF Calls, Entries
    <2>2. object' = [object EXCEPT ![x.key] = Absent] /\ call' = Noted(calls, c, {}, {x.key})
        BY <1>4 DEF DropObject
    <2>3. Change(object, object', x.key, {}, {x.key})
        BY <1>1, <2>1, <2>2 DEF Change, Objects
    <2>4. calls[c] = [e EXCEPT !.got = @ \ {x}] /\ \A d \in Clients \ {c} : calls[d] = call[d]
        BY GoodIs
    <2>5. Good([e EXCEPT !.got = @ \ {x}], object')
        <3>1. object' \in [Keys -> Objects]
            BY <2>3 DEF Change
        <3> HIDE DEF e
        <3> QED BY <1>1, <2>2, <3>1, EachDeletes
    <2>6. Good(calls[c], object')
        BY <2>4, <2>5
    <2> HIDE DEF calls
    <2> QED BY <1>1, <1>4, <2>2, <2>3, <2>4, <2>6, ChangeStep
<1> QED BY <1>2, <1>3, <1>4 DEF DeleteEach

\* RemoveAll, Remove and Rename end with the path itself.
LEMMA PathDeletes ==
    ASSUME NEW e, NEW f \in [Keys -> Objects], NEW g \in [Keys -> Objects], Good(e, f),
           e.stage = "delete", e.at # Root, g = [f EXCEPT ![Key(e.at)] = Absent]
    PROVE Good([e EXCEPT !.stage = "done", !.ok = TRUE], g)
<1> DEFINE s == [e EXCEPT !.stage = "done", !.ok = TRUE]
<1>1. e \in Calls /\ Lists(e, f) /\ Moves(e, f) /\ Fits(e) /\ e.at \in Paths /\ e.to \in Paths
      /\ e.op \in {"RemoveAll", "Remove", "Rename"}
    BY DEF Good, Fits, Calls
<1>2. /\ s \in Calls /\ s.op = e.op /\ s.at = e.at /\ s.to = e.to /\ s.stage = "done" /\ s.ok
      /\ s.got = e.got /\ s.body = e.body
      /\ s.was = e.was /\ s.written = e.written /\ s.removed = e.removed
    BY <1>1 DEF Calls, Stages
<1> HIDE DEF s
<1>3. Key(e.at) \in Keys /\ g[Key(e.at)] = Absent
    BY <1>1, KeyIs
<1>4. \A k \in Keys : g[k] # Absent => f[k] # Absent
    BY <1>3
<1>5. Fits(s)
    BY <1>1, <1>2 DEF Fits, Listing
<1>6. CASE e.op = "RemoveAll"
    <2>1. Due(s, g) = {}
        BY <1>1, <1>2, <1>4, <1>6 DEF Lists, Due, Listing
    <2>2. \A k \in Keys : Shown(s, k) = Shown(e, k)
        BY <1>2 DEF Shown
    <2>3. /\ \A k \in Keys : g[k] # Absent /\ Below(s.at, k) => k \in s.was \cup s.written
          /\ s.got \subseteq {Shown(s, k) : k \in {l \in Keys : Below(s.at, l)}}
        BY <1>1, <1>2, <1>4, <1>6, <2>2 DEF Lists, Listing
    <2>4. Lists(s, g)
        BY <1>2, <1>3, <1>6, <2>1, <2>3 DEF Lists
    <2>5. Moves(s, g)
        BY <1>2, <1>6 DEF Moves
    <2> QED BY <1>5, <2>4, <2>5 DEF Good, s
<1>7. CASE e.op = "Rename"
    <2>1. Lists(s, g)
        BY <1>2, <1>7 DEF Lists, Listing
    <2>2. e.body # Absent /\ Plain(e) => e.to # Root /\ e.to # e.at /\ (Alone(e) => f[Key(e.to)] = e.body)
        BY <1>1, <1>7 DEF Moves
    <2>3. e.to # Root /\ e.to # e.at => g[Key(e.to)] = f[Key(e.to)]
        <3> SUFFICES ASSUME e.to # Root, e.to # e.at PROVE g[Key(e.to)] = f[Key(e.to)]
            OBVIOUS
        <3>1. Key(e.to) \in Keys /\ Key(e.to) # Key(e.at)
            BY <1>1, KeyIs
        <3> QED BY <3>1
    <2>4. Moves(s, g)
        BY <1>2, <1>3, <1>7, <2>2, <2>3 DEF Moves, Alone, Plain
    <2> QED BY <1>5, <2>1, <2>4 DEF Good, s
<1>8. CASE e.op = "Remove"
    BY <1>2, <1>5, <1>8, PlainIsGood DEF s, Listing
<1> QED BY <1>1, <1>6, <1>7, <1>8

LEMMA DeletePathKeeps ==
    ASSUME IInv, NEW c \in Clients, DeletePath(c)
    PROVE IInv'
<1> DEFINE e == call[c]
<1>1. /\ Good(e, object) /\ Fits(e) /\ e \in Calls /\ faults \in Nat /\ object \in [Keys -> Objects]
      /\ e.stage = "delete" /\ e.at \in Paths
    BY GoodIs DEF DeletePath, At, Calls
<1>2. CASE Fails(c)
    BY <1>1, <1>2, FailsKeeps
<1>3. CASE e.at = Root /\ call' = Done(c, FALSE) /\ UNCHANGED <<object, faults>>
    <2>1. call'[c] = [e EXCEPT !.stage = "done", !.ok = FALSE]
          /\ DOMAIN call' = Clients /\ \A d \in Clients \ {c} : call'[d] = call[d]
        BY <1>3, GoodIs DEF Done
    <2>2. Good([e EXCEPT !.stage = "done", !.ok = FALSE], object)
        <3> HIDE DEF e
        <3> QED BY <1>1, FailsWell
    <2>3. Good(call'[c], object)
        BY <2>1, <2>2
    <2> QED BY <1>1, <1>3, <2>1, <2>3, OwnStep
<1>4. CASE e.at # Root /\ DropObject(c, Key(e.at), Done(c, TRUE)) /\ UNCHANGED faults
    <2> DEFINE calls == Done(c, TRUE)  k == Key(e.at)
    <2>1. k \in Keys
        BY <1>1, <1>4, KeyIs
    <2>2. object' = [object EXCEPT ![k] = Absent] /\ call' = Noted(calls, c, {}, {k})
        BY <1>4 DEF DropObject
    <2>3. Change(object, object', k, {}, {k})
        BY <1>1, <2>1, <2>2 DEF Change, Objects
    <2>4. calls[c] = [e EXCEPT !.stage = "done", !.ok = TRUE]
          /\ \A d \in Clients \ {c} : calls[d] = call[d]
        BY GoodIs DEF Done
    <2>5. Good([e EXCEPT !.stage = "done", !.ok = TRUE], object')
        <3>1. object' \in [Keys -> Objects]
            BY <2>3 DEF Change
        <3> HIDE DEF e
        <3> QED BY <1>1, <1>4, <2>2, <3>1, PathDeletes
    <2>6. Good(calls[c], object')
        BY <2>4, <2>5
    <2> HIDE DEF calls, k
    <2> QED BY <1>1, <1>4, <2>2, <2>3, <2>4, <2>6, ChangeStep
<1> QED BY <1>2, <1>3, <1>4 DEF DeletePath

LEMMA UploadKeeps ==
    ASSUME IInv, NEW c \in Clients, Upload(c)
    PROVE IInv'
<1> DEFINE e == call[c]
<1>1. /\ Fits(e) /\ e \in Calls /\ faults \in Nat /\ object \in [Keys -> Objects]
      /\ e.stage = "put" /\ e.op = "Write" /\ e.at \in Paths /\ Good(e, object)
    BY GoodIs DEF Upload, At, Calls, Fits
<1>2. CASE Fails(c)
    BY <1>1, <1>2, FailsKeeps
<1>3. CASE e.at = Root /\ call' = Done(c, FALSE) /\ UNCHANGED <<object, faults>>
    <2>1. call'[c] = [e EXCEPT !.stage = "done", !.ok = FALSE]
          /\ DOMAIN call' = Clients /\ \A d \in Clients \ {c} : call'[d] = call[d]
        BY <1>3, GoodIs DEF Done
    <2>2. Good([e EXCEPT !.stage = "done", !.ok = FALSE], object)
        <3> HIDE DEF e
        <3> QED BY <1>1, FailsWell
    <2>3. Good(call'[c], object)
        BY <2>1, <2>2
    <2> QED BY <1>1, <1>3, <2>1, <2>3, OwnStep
<1>4. ASSUME e.at # Root, NEW x \in Contents, PutObject(c, Key(e.at), x, Done(c, TRUE)),
             UNCHANGED faults
      PROVE IInv'
    <2> DEFINE calls == Done(c, TRUE)  k == Key(e.at)
    <2>1. k \in Keys /\ x # Absent /\ x \in Objects
        BY <1>1, <1>4, KeyIs, StoreTypes DEF Objects
    <2>2. object' = [object EXCEPT ![k] = x] /\ call' = Noted(calls, c, {k}, {})
        BY <1>4 DEF PutObject
    <2>3. Change(object, object', k, {k}, {})
        BY <1>1, <2>1, <2>2 DEF Change
    <2>4. calls[c] = [e EXCEPT !.stage = "done", !.ok = TRUE]
          /\ \A d \in Clients \ {c} : calls[d] = call[d]
        BY GoodIs DEF Done
    <2>5. Good([e EXCEPT !.stage = "done", !.ok = TRUE], object')
        <3> HIDE DEF e
        <3>1. [e EXCEPT !.stage = "done", !.ok = TRUE] \in Calls
            BY <1>1 DEF Calls, Stages
        <3>2. Fits([e EXCEPT !.stage = "done", !.ok = TRUE])
            BY <1>1, <3>1 DEF Fits, Calls, Listing
        <3> QED BY <1>1, <3>2, PlainIsGood DEF Calls, Listing
    <2>6. Good(calls[c], object')
        BY <2>4, <2>5
    <2> HIDE DEF calls, k
    <2> QED BY <1>1, <1>4, <2>2, <2>3, <2>4, <2>6, ChangeStep
<1> QED BY <1>2, <1>3, <1>4 DEF Upload

LEMMA PutMarkerKeeps ==
    ASSUME IInv, NEW c \in Clients, PutMarker(c)
    PROVE IInv'
<1> DEFINE e == call[c]
<1>1. /\ Fits(e) /\ e \in Calls /\ faults \in Nat /\ object \in [Keys -> Objects]
      /\ e.stage = "mark" /\ e.op = "Mkdir" /\ e.at \in Paths /\ e.at # Root /\ Good(e, object)
    BY GoodIs DEF PutMarker, At, Calls, Fits
<1>2. CASE Fails(c)
    BY <1>1, <1>2, FailsKeeps
<1>3. CASE PutObject(c, Marker(e.at), Empty, Done(c, TRUE)) /\ UNCHANGED faults
    <2> DEFINE calls == Done(c, TRUE)  k == Marker(e.at)
    <2>1. k \in Keys /\ Empty # Absent /\ Empty \in Objects
        BY <1>1, KeyIs, StoreTypes DEF Objects
    <2>2. object' = [object EXCEPT ![k] = Empty] /\ call' = Noted(calls, c, {k}, {})
        BY <1>3 DEF PutObject
    <2>3. Change(object, object', k, {k}, {})
        BY <1>1, <2>1, <2>2 DEF Change
    <2>4. calls[c] = [e EXCEPT !.stage = "done", !.ok = TRUE]
          /\ \A d \in Clients \ {c} : calls[d] = call[d]
        BY GoodIs DEF Done
    <2>5. Good([e EXCEPT !.stage = "done", !.ok = TRUE], object')
        <3> HIDE DEF e
        <3>1. [e EXCEPT !.stage = "done", !.ok = TRUE] \in Calls
            BY <1>1 DEF Calls, Stages
        <3>2. Fits([e EXCEPT !.stage = "done", !.ok = TRUE])
            BY <1>1, <3>1 DEF Fits, Calls, Listing
        <3> QED BY <1>1, <3>2, PlainIsGood DEF Calls, Listing
    <2>6. Good(calls[c], object')
        BY <2>4, <2>5
    <2> HIDE DEF calls, k
    <2> QED BY <1>1, <1>3, <2>2, <2>3, <2>4, <2>6, ChangeStep
<1> QED BY <1>2, <1>3 DEF PutMarker

LEMMA CopyObjectKeeps ==
    ASSUME IInv, NEW c \in Clients, CopyObject(c)
    PROVE IInv'
<1> DEFINE e == call[c]
<1>1. /\ Fits(e) /\ e \in Calls /\ faults \in Nat /\ object \in [Keys -> Objects]
      /\ e.stage = "copy" /\ e.op = "Rename" /\ e.at \in Paths /\ e.to \in Paths
      /\ Good(e, object)
    BY GoodIs DEF CopyObject, At, Calls, Fits
<1>2. CASE Fails(c)
    BY <1>1, <1>2, FailsKeeps
<1>3. CASE call' = Done(c, FALSE) /\ UNCHANGED <<object, faults>>
    <2>1. call'[c] = [e EXCEPT !.stage = "done", !.ok = FALSE]
          /\ DOMAIN call' = Clients /\ \A d \in Clients \ {c} : call'[d] = call[d]
        BY <1>3, GoodIs DEF Done
    <2>2. Good([e EXCEPT !.stage = "done", !.ok = FALSE], object)
        <3> HIDE DEF e
        <3> QED BY <1>1, FailsWell
    <2>3. Good(call'[c], object)
        BY <2>1, <2>2
    <2> QED BY <1>1, <1>3, <2>1, <2>3, OwnStep
<1>4. CASE /\ Copies(e.at, e.to)
           /\ PutObject(c, Key(e.to), object[Source[e.at]], [call EXCEPT ![c].stage = "delete"])
           /\ UNCHANGED faults
    <2> DEFINE calls == [call EXCEPT ![c].stage = "delete"]  k == Key(e.to)
               x == object[Source[e.at]]
    <2>1. k \in Keys /\ x # Absent /\ x \in Objects /\ e.at # Root /\ e.to # Root
        BY <1>1, <1>4, KeyIs DEF Copies, Present
    <2>8. Plain(e) => e.to # e.at /\ x = object[Key(e.at)]
        BY <1>1, <1>4, StoreAssumption DEF Copies, Present, Plain
    <2>2. object' = [object EXCEPT ![k] = x] /\ call' = Noted(calls, c, {k}, {})
        BY <1>4 DEF PutObject
    <2>3. Change(object, object', k, {k}, {})
        BY <1>1, <2>1, <2>2 DEF Change
    <2>4. calls[c] = [e EXCEPT !.stage = "delete"]
          /\ \A d \in Clients \ {c} : calls[d] = call[d]
        BY GoodIs
    <2>5. object'[k] = x
        BY <1>1, <2>1, <2>2
    <2>6. Good([e EXCEPT !.stage = "delete"], object')
        <3> DEFINE s == [e EXCEPT !.stage = "delete"]
        <3> HIDE DEF e
        <3>1. /\ s \in Calls /\ s.op = e.op /\ s.at = e.at /\ s.to = e.to /\ s.stage = "delete"
              /\ s.body = e.body /\ s.written = e.written /\ s.removed = e.removed
            BY <1>1 DEF Calls, Stages
        <3> HIDE DEF s
        <3>2. Fits(s)
            BY <1>1, <3>1 DEF Fits, Listing
        <3>3. Lists(s, object')
            BY <1>1, <3>1 DEF Lists, Listing
        <3>4. e.body # Absent /\ Plain(e) /\ Alone(e) => x = e.body
            BY <1>1, <2>8 DEF Good, Moves
        <3>5. Moves(s, object')
            BY <1>1, <2>1, <2>5, <2>8, <3>1, <3>4 DEF Moves, Alone, Plain
        <3> QED BY <3>2, <3>3, <3>5 DEF Good, s
    <2>7. Good(calls[c], object')
        BY <2>4, <2>6
    <2> HIDE DEF calls, k
    <2> QED BY <1>1, <1>4, <2>2, <2>3, <2>4, <2>7, ChangeStep
<1> QED BY <1>2, <1>3, <1>4 DEF CopyObject

-----------------------------------------------------------------------------
LEMMA InitIsGood == Init => IInv
<1> SUFFICES ASSUME Init PROVE IInv
    OBVIOUS
<1>1. object \in [Keys -> Objects] /\ DOMAIN call = Clients /\ faults \in Nat
    BY DEF Init, Objects
<1>2. Idle \in Calls
    BY StoreTypes DEF Idle, Calls, Stages, Objects
<1>3. Good(Idle, object)
    BY <1>2, PlainIsGood DEF Idle, Fits, Listing
<1>4. \A c \in Clients : call[c] = Idle
    BY DEF Init
<1> QED BY <1>1, <1>3, <1>4 DEF IInv

LEMMA StepIsGood == IInv /\ [Next]_vars => IInv'
<1> SUFFICES ASSUME IInv, [Next]_vars PROVE IInv'
    OBVIOUS
<1>1. CASE UNCHANGED vars
    BY <1>1 DEF vars, IInv
<1>2. ASSUME NEW c \in Clients, NEW use \in Ops[c], Begin(c, use[1], use[2], use[3])
      PROVE IInv'
    <2>1. /\ use[1] \in OpNames /\ use[2] \in Paths /\ use[3] \in Paths
          /\ use[1] # "Rename" => use[3] = use[2]
          /\ use[1] = "Mkdir" => use[2] # Root
        <3>1. use \in OpNames \X Paths \X Paths
            BY StoreAssumption DEF OpNames
        <3> QED BY <3>1, StoreAssumption
    <2> QED BY <1>2, <2>1, BeginKeeps
<1>3. ASSUME NEW c \in Clients, Working(c) PROVE IInv'
    BY <1>3, HeadObjectKeeps, ProbeKeeps, GetObjectKeeps, ListPageKeeps, DeleteEachKeeps,
       DeletePathKeeps, UploadKeeps, CopyObjectKeeps, PutMarkerKeeps DEF Working
<1>4. ASSUME NEW c \in Clients, Return(c) \/ Crash(c) PROVE IInv'
    BY <1>4, ReturnKeeps
<1> QED BY <1>1, <1>2, <1>3, <1>4 DEF Next

LEMMA GoodAlways == Spec => []IInv
BY InitIsGood, StepIsGood, PTL DEF Spec

(***************************************************************************)
(* Rename copies the object before it deletes it and only when the copy    *)
(* succeeded: at no request of it, whatever fails and wherever the program *)
(* ends, is the file lost, unless another client changed one of its keys   *)
(* or S3 reads its name as that of another object.                         *)
(***************************************************************************)
THEOREM ObjectStoreMoves == Spec => []MoveKeeps
<1>1. IInv => MoveKeeps
    <2> SUFFICES ASSUME IInv, NEW c \in Clients, call[c].op = "Rename", call[c].body # Absent,
                        Plain(call[c]), Alone(call[c])
                 PROVE /\ ~At(c, "done") \/ ~call[c].ok =>
                             Holds(call[c].at, call[c].body) \/ Holds(call[c].to, call[c].body)
                       /\ At(c, "done") /\ call[c].ok =>
                             ~IsFile(call[c].at) /\ Holds(call[c].to, call[c].body)
        BY DEF MoveKeeps, Alone, Plain
    <2>1. Fits(call[c]) /\ Moves(call[c], object)
        BY GoodIs DEF Good
    <2>2. call[c].stage \in {"copy", "delete", "done"}
        BY <2>1 DEF Fits
    <2> QED BY <2>1, <2>2 DEF Moves, Holds, At, IsFile, Present
<1> QED BY <1>1, GoodAlways, PTL

(***************************************************************************)
(* RemoveAll deletes each key of every page of its listing: when it has    *)
(* answered well, only what others wrote since it began is left.           *)
(***************************************************************************)
THEOREM ObjectStoreRemovesAll == Spec => []RemoveAllClears
<1>1. IInv => RemoveAllClears
    <2> SUFFICES ASSUME IInv, NEW c \in Clients, At(c, "done"), call[c].op = "RemoveAll",
                        call[c].ok, NEW k \in Present,
                        Below(call[c].at, k) \/ k = Key(call[c].at)
                 PROVE k \in call[c].written
        BY DEF RemoveAllClears
    <2>1. Lists(call[c], object)
        BY GoodIs DEF Good
    <2>2. Due(call[c], object) = {} /\ (object[Key(call[c].at)] # Absent => Key(call[c].at) \in call[c].written)
        BY <2>1 DEF Lists, At, Listing
    <2> QED BY <2>2 DEF Due, Present
<1> QED BY <1>1, GoodAlways, PTL

(***************************************************************************)
(* A page begins where the one before it ended, in the order of the keys:  *)
(* whatever other clients do between two pages, a listing has everything   *)
(* that was there all along and nothing that never was.                    *)
(***************************************************************************)
THEOREM ObjectStoreListsAll == Spec => []ListsWhatStays
<1>1. IInv => ListsWhatStays
    <2> SUFFICES ASSUME IInv, NEW c \in Clients, At(c, "done"), call[c].op = "ReadDir", call[c].ok
                 PROVE LET e == call[c]
                           below == {k \in e.was \cup e.written : Below(e.at, k)}
                       IN  /\ {Entry(e.at, k) : k \in below \ (e.removed \cup (e.written \ e.was))}
                                 \subseteq e.got
                           /\ e.got \subseteq {Entry(e.at, k) : k \in below}
        BY DEF ListsWhatStays
    <2> DEFINE e == call[c]
               below == {k \in e.was \cup e.written : Below(e.at, k)}
    <2>1. Lists(e, object) /\ e.was \subseteq Keys /\ e.op = "ReadDir" /\ e.stage = "done" /\ e.ok
        BY GoodIs DEF Good, Calls, At
    <2> HIDE DEF e
    <2>2. \A k \in Keys : Shown(e, k) = Entry(e.at, k)
        BY <2>1 DEF Shown
    <2>3. ASSUME NEW k \in below \ (e.removed \cup (e.written \ e.was))
          PROVE Entry(e.at, k) \in e.got
        <3>1. k \in e.was \ e.removed /\ Below(e.at, k) /\ k \in Keys
            BY <2>1
        <3>2. k \in Due(e, object)
            BY <2>1, <3>1 DEF Due
        <3> QED BY <2>1, <2>2, <3>1, <3>2 DEF Lists, Listing
    <2>4. e.got \subseteq {Entry(e.at, k) : k \in below}
        BY <2>1 DEF Lists, Listing, Shown
    <2> QED BY <2>3, <2>4 DEF e
<1> QED BY <1>1, GoodAlways, PTL
================================================================================
