-------------------------- MODULE SavedMountsProofs --------------------------
(***************************************************************************)
(* Proofs about saved mounts, for any sessions, mount points and sources.  *)
(***************************************************************************)
EXTENDS SavedMountsProps, TLAPS

Stages == {"off", "load", "mount", "save", "write", "done"}

Session == [stage : Stages, point : Points, source : Sources \cup {NoEntry},
            settings : [Keys -> Entries], todo : SUBSET Keys,
            table : [Mountpoints -> Sources \cup {NoEntry}],
            down : SUBSET Sources, stale : SUBSET Keys, blind : BOOLEAN, overlaid : BOOLEAN]

Typed ==
    /\ file \in [Keys -> Entries]
    /\ saved \in [Keys -> Sources \cup {NoEntry}]
    /\ reachable \subseteq Sources
    /\ spoiled \subseteq Keys
    /\ session \in [Sessions -> Session]

\* What a session e has to do is what is in its settings; what is not down is there.
Works(e, there) ==
    /\ e.todo \subseteq EntriesOf(e.settings)
    /\ e.stage # "load" => e.todo = {}
    /\ e.stage \in {"mount", "save", "write"} => e.source \in Sources
    /\ e.stage \in {"save", "write"} /\ e.point \in Plain => e.settings[KeyOf[e.point]] = e.source
    /\ e.stage # "off" => Sources \ e.down \subseteq there

\* LoadsWhatItRead of the entries that are done, while there are others to do.
Loads(e) ==
    e.stage \in {"load", "mount"} \/ (e.stage = "done" /\ e.source = NoEntry) =>
        /\ \A k \in Keys \ e.todo :
              e.settings[k] \in Sources \ e.down /\ Clean[k] # Relative =>
                  e.table[Clean[k]] # NoEntry
        /\ \A p \in Mountpoints :
              e.table[p] # NoEntry =>
                  \E k \in Keys : Clean[k] = p /\ e.settings[k] = e.table[p]

\* A session that is not blind knows what was saved, but for news and its own key.
Knows(e, sv, sp) ==
    e.stage \in {"load", "mount", "save", "write"} /\ ~e.blind =>
        \A k \in Keys \ (sp \cup e.stale) :
            \/ e.settings[k] = sv[k]
            \/ sv[k] = NoEntry /\ e.settings[k] = Unusable
            \/ e.stage \in {"save", "write"} /\ e.point \in Plain \cup Spoiling /\ k = KeyOf[e.point]

\* What it is about to replace could not be mounted.
Frees(e, sv, sp) ==
    LET k == KeyOf[e.point] IN
    /\ e.stage \in {"save", "write"} /\ ~e.blind /\ e.point \in Plain
    /\ k \notin sp \cup e.stale /\ sv[k] # NoEntry /\ Clean[e.point] = Clean[k]
    => sv[k] \in e.down

Good(e, sv, sp, there) == Works(e, there) /\ Loads(e) /\ Knows(e, sv, sp) /\ Frees(e, sv, sp)

IInv ==
    /\ Typed
    /\ SavedStays
    /\ \A c \in Sessions : Good(session[c], saved, spoiled, reachable)

-----------------------------------------------------------------------------
LEMMA OffIsGood ==
    /\ Off \in Session
    /\ \A sv, sp, there : Good(Off, sv, sp, there)
<1>1. (CHOOSE m \in Points : TRUE) \in Points
  BY MountsAssumption
<1>2. Nothing \in [Keys -> Entries]
  BY DEF Nothing, Entries
<1>3. Off \in Session
  BY <1>1, <1>2 DEF Off, Session, Stages
<1>4. \A sv, sp, there : Good(Off, sv, sp, there)
  BY DEF Off, Good, Works, Loads, Knows, Frees, Nothing, EntriesOf
<1> QED
  BY <1>3, <1>4

LEMMA InitIInv == Init => IInv
<1> SUFFICES ASSUME Init PROVE IInv
  OBVIOUS
<1>1. Typed
  BY OffIsGood DEF Init, Typed, Nothing, Entries
<1>2. SavedStays
  BY DEF Init, SavedStays, Kept
<1>3. \A c \in Sessions : session[c] = Off
  BY DEF Init
<1> QED
  BY <1>1, <1>2, <1>3, OffIsGood DEF IInv

(***************************************************************************)
(* A step of one session that leaves the file and what others saved alone. *)
(***************************************************************************)
LEMMA OneSession ==
    ASSUME IInv, NEW c \in Sessions, NEW e \in Session,
           session' = [session EXCEPT ![c] = e],
           UNCHANGED <<fileVars, reachable>>,
           e.stage = "write" \/ session[c].stage # "write",
           Good(e, saved, spoiled, reachable)
    PROVE  IInv'
<1>1. Typed'
  BY DEF IInv, Typed, fileVars
<1>2. \A d \in Sessions : session'[d] = IF d = c THEN e ELSE session[d]
  BY DEF IInv, Typed
<1>3. \A d \in Sessions : Good(session[d], saved, spoiled, reachable)'
  BY <1>2 DEF IInv, fileVars
<1>4. SavedStays'
  <2>1. Writing' = {} => Writing = {}
    BY <1>2 DEF Writing, At
  <2> QED
    BY <2>1 DEF IInv, SavedStays, Kept, fileVars
<1> QED
  BY <1>1, <1>3, <1>4 DEF IInv

-----------------------------------------------------------------------------
(* One lemma per action. *)

LEMMA StartIInv ==
    ASSUME IInv, NEW c \in Sessions, NEW point \in Points, NEW source \in Sources \cup {NoEntry},
           Start(c, point, source)
    PROVE  IInv'
<1>1. PICK settings \in {file, Elsewhere} : Reads(c, settings, point, source)
  BY DEF Start
<1> DEFINE e == [Off EXCEPT !.stage = "load", !.point = point, !.source = source,
                           !.settings = settings, !.todo = EntriesOf(settings),
                           !.down = Sources \ reachable,
                           !.blind = settings # file \/ Writing # {}]
<1>2. settings \in [Keys -> Entries]
  BY MountsAssumption DEF IInv, Typed
<1>3. EntriesOf(settings) \subseteq Keys
  BY DEF EntriesOf
<1>4. e \in Session
  BY <1>2, <1>3, OffIsGood DEF Session, Stages
<1>5. /\ e.stage = "load" /\ e.settings = settings /\ e.todo = EntriesOf(settings)
      /\ e.down = Sources \ reachable /\ e.blind = (settings # file \/ Writing # {})
      /\ e.table = [p \in Mountpoints |-> NoEntry] /\ e.source = source
  BY DEF Off
<1>6. Works(e, reachable)
  BY <1>5 DEF Works, IInv, Typed
<1>7. Loads(e)
  BY <1>2, <1>5, MountsAssumption DEF Loads, EntriesOf
<1>8. Knows(e, saved, spoiled)
  BY <1>5 DEF Knows, IInv, SavedStays, Kept
<1>9. Frees(e, saved, spoiled)
  BY <1>5 DEF Frees
<1>10. session' = [session EXCEPT ![c] = e] /\ session[c].stage = "off"
  BY <1>1 DEF Reads, Start, At
<1> HIDE DEF e
<1>11. Good(e, saved, spoiled, reachable)
  BY <1>6, <1>7, <1>8, <1>9 DEF Good
<1>12. UNCHANGED <<fileVars, reachable>>
  BY DEF Start
<1> QED
  BY <1>4, <1>10, <1>11, <1>12, OneSession

LEMMA LoadIInv ==
    ASSUME IInv, NEW c \in Sessions, Load(c)
    PROVE  IInv'
<1> DEFINE d == session[c]
<1>1. d \in Session /\ Good(d, saved, spoiled, reachable) /\ d.stage = "load"
  BY DEF IInv, Typed, Load, At
<1>2. PICK k \in d.todo :
          LET s == d.settings[k]
              mounted == s \in reachable /\ Clean[k] # Relative /\ d.table[Clean[k]] = NoEntry
          IN  session' = IF mounted
                         THEN [session EXCEPT ![c].todo = @ \ {k}, ![c].table[Clean[k]] = s]
                         ELSE [session EXCEPT ![c].todo = @ \ {k}]
  BY DEF Load
<1>3. k \in Keys /\ d.settings[k] \in Entries
  BY <1>1 DEF Session
<1>4. UNCHANGED <<fileVars, reachable>>
  BY DEF Load
<1>5. CASE d.settings[k] \in reachable /\ Clean[k] # Relative /\ d.table[Clean[k]] = NoEntry
  <2> DEFINE e == [d EXCEPT !.todo = @ \ {k}, !.table[Clean[k]] = d.settings[k]]
  <2>1. session' = [session EXCEPT ![c] = e]
    BY <1>2, <1>5 DEF IInv, Typed
  <2>2. d.settings[k] \in Sources /\ Clean[k] \in Mountpoints
    BY <1>3, <1>5 DEF IInv, Typed, Mountpoints
  <2>3. e \in Session
    BY <1>1, <2>2 DEF Session
  <2>4. /\ e.stage = d.stage /\ e.point = d.point /\ e.source = d.source /\ e.blind = d.blind
        /\ e.settings = d.settings /\ e.todo = d.todo \ {k} /\ e.down = d.down
        /\ e.stale = d.stale
        /\ \A p \in Mountpoints : e.table[p] = IF p = Clean[k] THEN d.settings[k] ELSE d.table[p]
    BY <1>1, <2>2 DEF Session
  <2>5. Works(e, reachable)
    BY <1>1, <2>4 DEF Good, Works
  <2>6. Loads(e)
    <3>1. ASSUME NEW j \in Keys \ e.todo,
                 e.settings[j] \in Sources \ e.down /\ Clean[j] # Relative
          PROVE  e.table[Clean[j]] # NoEntry
      <4>1. Clean[j] \in Mountpoints
        BY <3>1 DEF Mountpoints
      <4> QED
        BY <1>1, <2>2, <2>4, <3>1, <4>1, MountsAssumption DEF Good, Loads
    <3>2. ASSUME NEW p \in Mountpoints, e.table[p] # NoEntry
          PROVE  \E j \in Keys : Clean[j] = p /\ e.settings[j] = e.table[p]
      BY <1>1, <1>3, <2>4, <3>2 DEF Good, Loads
    <3> QED
      BY <3>1, <3>2 DEF Loads
  <2>7. Knows(e, saved, spoiled) /\ Frees(e, saved, spoiled)
    BY <1>1, <2>4 DEF Good, Knows, Frees
  <2> HIDE DEF e
  <2>8. Good(e, saved, spoiled, reachable)
    BY <2>5, <2>6, <2>7 DEF Good
  <2> QED
    BY <1>1, <1>4, <2>1, <2>3, <2>8, OneSession
<1>6. CASE ~(d.settings[k] \in reachable /\ Clean[k] # Relative /\ d.table[Clean[k]] = NoEntry)
  <2> DEFINE e == [d EXCEPT !.todo = @ \ {k}]
  <2>1. session' = [session EXCEPT ![c] = e]
    BY <1>2, <1>6 DEF IInv, Typed
  <2>2. e \in Session
    BY <1>1 DEF Session
  <2>3. /\ e.stage = d.stage /\ e.point = d.point /\ e.source = d.source /\ e.blind = d.blind
        /\ e.settings = d.settings /\ e.todo = d.todo \ {k} /\ e.down = d.down
        /\ e.stale = d.stale /\ e.table = d.table
    BY <1>1 DEF Session
  <2>4. Works(e, reachable) /\ Knows(e, saved, spoiled) /\ Frees(e, saved, spoiled)
    BY <1>1, <2>3 DEF Good, Works, Knows, Frees
  <2>5. Loads(e)
    <3>1. d.settings[k] \in Sources \ d.down => d.settings[k] \in reachable
      BY <1>1 DEF Good, Works
    <3> QED
      BY <1>1, <1>6, <2>3, <3>1 DEF Good, Loads
  <2> HIDE DEF e
  <2>6. Good(e, saved, spoiled, reachable)
    BY <2>4, <2>5 DEF Good
  <2> QED
    BY <1>1, <1>4, <2>1, <2>2, <2>6, OneSession
<1> QED
  BY <1>5, <1>6

LEMMA LoadedIInv ==
    ASSUME IInv, NEW c \in Sessions, Loaded(c)
    PROVE  IInv'
<1> DEFINE d == session[c]
           stage == IF d.source = NoEntry THEN "done" ELSE "mount"
           e == [d EXCEPT !.stage = stage]
<1>1. d \in Session /\ Good(d, saved, spoiled, reachable) /\ d.stage = "load" /\ d.todo = {}
  BY DEF IInv, Typed, Loaded, At
<1>2. session' = [session EXCEPT ![c] = e] /\ UNCHANGED <<fileVars, reachable>>
  BY DEF Loaded, Goto, IInv, Typed
<1>3. /\ e.stage = stage /\ e.point = d.point /\ e.source = d.source /\ e.blind = d.blind
      /\ e.settings = d.settings /\ e.todo = {} /\ e.down = d.down
      /\ e.stale = d.stale /\ e.table = d.table
  BY <1>1 DEF Session
<1>4. e \in Session
  BY <1>1 DEF Session, Stages
<1>5. Good(e, saved, spoiled, reachable)
  BY <1>1, <1>3 DEF Good, Works, Loads, Knows, Frees, Session
<1> HIDE DEF e
<1> QED
  BY <1>1, <1>2, <1>4, <1>5, OneSession

\* What Set does to the settings of a session that is about to save.
LEMMA WithEntryOf ==
    ASSUME NEW d \in Session, d.source \in Sources
    PROVE  /\ WithEntry(d) \in [Keys -> Entries]
           /\ KeyOf[d.point] \in Keys
           /\ d.point \in Plain => WithEntry(d)[KeyOf[d.point]] = d.source
           /\ \A k \in Keys :
                 \/ WithEntry(d)[k] = d.settings[k]
                 \/ k = KeyOf[d.point] /\ d.point \in Plain \cup Spoiling
                 \/ d.settings[k] = NoEntry /\ WithEntry(d)[k] = Unusable
<1>1. KeyOf[d.point] \in Keys /\ d.settings \in [Keys -> Entries]
  BY MountsAssumption DEF Session
<1>2. CASE d.point \in Plain
  BY <1>1, <1>2 DEF WithEntry, Entries
<1>3. CASE d.point \notin Plain
  BY <1>1, <1>3 DEF WithEntry, Entries
<1> QED
  BY <1>1, <1>2, <1>3

LEMMA EndsIInv ==
    ASSUME IInv, NEW c \in Sessions, session[c].stage # "write", Ends(c),
           UNCHANGED <<fileVars, reachable>>
    PROVE  IInv'
BY OffIsGood, OneSession DEF Ends

LEMMA MountIInv ==
    ASSUME IInv, NEW c \in Sessions, Mount(c)
    PROVE  IInv'
<1> DEFINE d == session[c]
           p == Clean[d.point]
           k == KeyOf[d.point]
           e == [d EXCEPT !.stage = "save", !.table[p] = d.source, !.settings = WithEntry(d)]
<1>1. d \in Session /\ Good(d, saved, spoiled, reachable) /\ d.stage = "mount"
  BY DEF IInv, Typed, Mount, At
<1>2. UNCHANGED <<fileVars, reachable>>
  BY DEF Mount
<1>3. CASE Ends(c)
  BY <1>1, <1>2, <1>3, EndsIInv
<1>4. CASE ~Ends(c)
  <2>1. d.source \in reachable /\ p # Relative /\ d.table[p] = NoEntry /\ session' = [session EXCEPT ![c] = e]
    BY <1>4 DEF Mount, IInv, Typed
  <2>2. d.source \in Sources /\ p \in Mountpoints
    BY <1>1, <2>1 DEF IInv, Typed, Session, Mountpoints
  <2>3. /\ e.stage = "save" /\ e.point = d.point /\ e.source = d.source /\ e.blind = d.blind
        /\ e.settings = WithEntry(d) /\ e.todo = d.todo /\ e.down = d.down /\ e.stale = d.stale
    BY <1>1 DEF Session
  <2>4. e \in Session
    BY <1>1, <2>2, WithEntryOf DEF Session, Stages
  <2>5. Works(e, reachable) /\ Loads(e)
    BY <1>1, <2>2, <2>3, WithEntryOf DEF Good, Works, Loads
  <2>6. Knows(e, saved, spoiled)
    <3> SUFFICES ASSUME ~d.blind, NEW j \in Keys \ (spoiled \cup d.stale),
                        ~(d.point \in Plain \cup Spoiling /\ j = k)
                 PROVE  WithEntry(d)[j] = saved[j] \/ (saved[j] = NoEntry /\ WithEntry(d)[j] = Unusable)
      BY <2>3 DEF Knows
    <3>1. d.settings[j] = saved[j] \/ (saved[j] = NoEntry /\ d.settings[j] = Unusable)
      BY <1>1 DEF Good, Knows
    <3>2. WithEntry(d)[j] = d.settings[j] \/ (d.settings[j] = NoEntry /\ WithEntry(d)[j] = Unusable)
      BY <1>1, <2>2, WithEntryOf
    <3> QED
      BY <3>1, <3>2, MountsAssumption
  <2>7. Frees(e, saved, spoiled)
    <3> SUFFICES ASSUME ~d.blind, d.point \in Plain, k \notin spoiled \cup d.stale,
                        saved[k] # NoEntry, p = Clean[k]
                 PROVE  saved[k] \in d.down
      BY <2>3 DEF Frees
    <3>1. k \in Keys
      BY <1>1, <2>2, WithEntryOf
    <3>2. d.settings[k] = saved[k]
      BY <1>1, <3>1 DEF Good, Knows
    <3>3. saved[k] \in Sources
      BY <3>1 DEF IInv, Typed
    <3>4. d.settings[k] \notin Sources \ d.down
      BY <1>1, <2>1, <3>1 DEF Good, Loads, Works
    <3> QED
      BY <3>2, <3>3, <3>4
  <2> HIDE DEF e
  <2>8. Good(e, saved, spoiled, reachable)
    BY <2>5, <2>6, <2>7 DEF Good
  <2> QED
    BY <1>1, <1>2, <2>1, <2>3, <2>4, <2>8, OneSession
<1> QED
  BY <1>3, <1>4

\* What a session knows does not depend on how far it has come with saving.
LEMMA StageIsGood ==
    ASSUME NEW d \in Session, d.stage = "save", NEW stage \in {"write", "done"},
           Good(d, saved, spoiled, reachable)
    PROVE  LET e == [d EXCEPT !.stage = stage]
           IN  e \in Session /\ e.stage = stage /\ Good(e, saved, spoiled, reachable)
<1> DEFINE e == [d EXCEPT !.stage = stage]
<1>1. /\ e.stage = stage /\ e.point = d.point /\ e.source = d.source
      /\ e.blind = d.blind /\ e.settings = d.settings /\ e.todo = d.todo
      /\ e.down = d.down /\ e.stale = d.stale /\ e.table = d.table
  BY DEF Session
<1>2. e \in Session
  BY DEF Session, Stages
<1> QED
  BY <1>1, <1>2, MountsAssumption DEF Good, Works, Loads, Knows, Frees

LEMMA TruncateIInv ==
    ASSUME IInv, NEW c \in Sessions, Truncate(c)
    PROVE  IInv'
<1> DEFINE d == session[c]
<1>1. d \in Session /\ Good(d, saved, spoiled, reachable) /\ d.stage = "save"
  BY DEF IInv, Typed, Truncate, At
<1>2. CASE Goto(c, "done") /\ UNCHANGED file
  <2> DEFINE e == [d EXCEPT !.stage = "done"]
  <2>1. session' = [session EXCEPT ![c] = e]
    BY <1>2 DEF Goto, IInv, Typed
  <2>2. e \in Session /\ Good(e, saved, spoiled, reachable)
    BY <1>1, StageIsGood
  <2> HIDE DEF e
  <2> QED
    BY <1>1, <1>2, <2>1, <2>2, OneSession DEF Truncate, fileVars
<1>3. CASE Goto(c, "write") /\ file' = Nothing
  <2> DEFINE e == [d EXCEPT !.stage = "write"]
  <2>1. session' = [session EXCEPT ![c] = e]
    BY <1>3 DEF Goto, IInv, Typed
  <2>2. e \in Session /\ e.stage = "write" /\ Good(e, saved, spoiled, reachable)
    BY <1>1, StageIsGood
  <2> HIDE DEF e
  <2>3. \A b \in Sessions : session'[b] = IF b = c THEN e ELSE session[b]
    BY <2>1 DEF IInv, Typed
  <2>4. UNCHANGED <<saved, spoiled, reachable>>
    BY DEF Truncate
  <2>5. Typed'
    BY <1>3, <2>1, <2>2, <2>4 DEF IInv, Typed, Nothing, Entries
  <2>6. (Writing # {})'
    BY <2>2, <2>3 DEF Writing, At
  <2>7. \A b \in Sessions : Good(session[b], saved, spoiled, reachable)'
    BY <2>2, <2>3, <2>4 DEF IInv
  <2> QED
    BY <2>5, <2>6, <2>7 DEF IInv, SavedStays
<1> QED
  BY <1>2, <1>3 DEF Truncate

\* A step of one session that may have damaged the file, and that is noted.
LEMMA AllSpoiled ==
    ASSUME IInv, NEW c \in Sessions, NEW e \in Session,
           session' = [session EXCEPT ![c] = e],
           spoiled' = Keys, UNCHANGED <<file, saved, reachable>>,
           \A sv, sp : Good(e, sv, sp, reachable)
    PROVE  IInv'
<1>1. Typed'
  BY DEF IInv, Typed
<1>2. \A d \in Sessions : session'[d] = IF d = c THEN e ELSE session[d]
  BY DEF IInv, Typed
<1>3. ASSUME NEW d \in Sessions PROVE Good(session'[d], saved, Keys, reachable)
  <2>1. CASE d # c
    <3>1. session[d] \in Session /\ Good(session[d], saved, spoiled, reachable)
      BY DEF IInv, Typed
    <3>2. KeyOf[session[d].point] \in Keys
      BY <3>1, MountsAssumption DEF Session
    <3>3. Good(session[d], saved, Keys, reachable)
      BY <3>1, <3>2 DEF Good, Knows, Frees
    <3> QED
      BY <1>2, <2>1, <3>3
  <2> QED
    BY <1>2, <2>1
<1> QED
  BY <1>1, <1>3 DEF IInv, SavedStays

\* What another session has saved under the key k is news to d.
LEMMA NewsIsGood ==
    ASSUME NEW d \in Session, Good(d, saved, spoiled, reachable),
           NEW k \in Keys, NEW b \in BOOLEAN, NEW sv, NEW sp,
           \A j \in Keys \ {k} : sv[j] = saved[j],
           spoiled \subseteq sp \cup {k}
    PROVE  LET e == [d EXCEPT !.stale = @ \cup {k}, !.overlaid = b]
           IN  e \in Session /\ e.stage = d.stage /\ Good(e, sv, sp, reachable)
<1> DEFINE e == [d EXCEPT !.stale = @ \cup {k}, !.overlaid = b]
<1>1. /\ e.stage = d.stage /\ e.point = d.point /\ e.source = d.source
      /\ e.blind = d.blind /\ e.settings = d.settings /\ e.todo = d.todo
      /\ e.down = d.down /\ e.stale = d.stale \cup {k} /\ e.table = d.table
  BY DEF Session
<1>2. e \in Session
  BY DEF Session
<1>3. Works(e, reachable) /\ Loads(e)
  BY <1>1 DEF Good, Works, Loads
<1>4. Knows(e, sv, sp)
  BY <1>1 DEF Good, Knows
<1>5. Frees(e, sv, sp)
  <2>1. KeyOf[d.point] \in Keys
    BY MountsAssumption DEF Session
  <2> QED
    BY <1>1, <2>1 DEF Good, Frees
<1> QED
  BY <1>1, <1>2, <1>3, <1>4, <1>5 DEF Good

\* A session that has saved is of no interest to anybody.
LEMMA DoneIsGood ==
    ASSUME NEW d \in Session, d.stage = "write", Good(d, saved, spoiled, reachable)
    PROVE  LET e == [d EXCEPT !.stage = "done"]
           IN  e \in Session /\ e.stage = "done" /\ \A sv, sp : Good(e, sv, sp, reachable)
<1> DEFINE e == [d EXCEPT !.stage = "done"]
<1>1. /\ e.stage = "done" /\ e.point = d.point /\ e.source = d.source
      /\ e.settings = d.settings /\ e.todo = d.todo /\ e.down = d.down
  BY DEF Session
<1>2. e \in Session
  BY DEF Session, Stages
<1> QED
  BY <1>1, <1>2, MountsAssumption DEF Good, Works, Loads, Knows, Frees

\* The sessions after c has written, whatever is in the file then.
LEMMA ToldIsGood ==
    ASSUME IInv, NEW c \in Sessions, At(c, "write"), session' = Told(c, "done"),
           UNCHANGED reachable,
           \A j \in Keys \ {KeyOf[session[c].point]} : saved'[j] = saved[j],
           spoiled \subseteq spoiled' \cup {KeyOf[session[c].point]}
    PROVE  /\ session' \in [Sessions -> Session]
           /\ \A d \in Sessions : Good(session[d], saved, spoiled, reachable)'
<1> DEFINE k == KeyOf[session[c].point]
<1>1. k \in Keys /\ session \in [Sessions -> Session]
  BY MountsAssumption DEF IInv, Typed, Session
<1>2. ASSUME NEW d \in Sessions
      PROVE  /\ session'[d] \in Session
             /\ Good(session'[d], saved', spoiled', reachable)
  <2>1. CASE d = c
    <3>1. session'[c] = [session[c] EXCEPT !.stage = "done"]
      BY DEF Told
    <3>2. session[c].stage = "write" /\ Good(session[c], saved, spoiled, reachable)
      BY DEF At, IInv
    <3> QED
      BY <1>1, <2>1, <3>1, <3>2, DoneIsGood
  <2>2. CASE d # c
    <3> DEFINE b == session[d].overlaid \/ At(d, "write")
               e == [session[d] EXCEPT !.stale = @ \cup {k}, !.overlaid = b]
    <3>1. session'[d] = e
      BY <2>2 DEF Told
    <3>2. b \in BOOLEAN
      OBVIOUS
    <3>3. session[d] \in Session /\ Good(session[d], saved, spoiled, reachable)
      BY <1>1 DEF IInv
    <3> HIDE DEF b
    <3>4. e \in Session /\ Good(e, saved', spoiled', reachable)
      BY <1>1, <3>2, <3>3, NewsIsGood
    <3> QED
      BY <3>1, <3>4
  <2> QED
    BY <2>1, <2>2
<1>3. session' \in [Sessions -> Session]
  BY <1>2 DEF Told
<1> QED
  BY <1>2, <1>3

LEMMA WriteIInv ==
    ASSUME IInv, NEW c \in Sessions, Write(c)
    PROVE  IInv'
<1> DEFINE d == session[c]
           k == KeyOf[d.point]
<1>1. d \in Session /\ Good(d, saved, spoiled, reachable) /\ d.stage = "write" /\ At(c, "write")
  BY DEF IInv, Typed, Write, At
<1>2. k \in Keys /\ d.source \in Sources /\ d.settings \in [Keys -> Entries] /\ d.stale \subseteq Keys
  BY <1>1, MountsAssumption DEF Good, Works, Session
<1>3. UNCHANGED reachable
  BY DEF Write
<1>4. CASE /\ file' = d.settings
           /\ saved' = [j \in Keys |-> IF j \in Own(d) THEN d.source ELSE saved[j]]
           /\ spoiled' = ((IF d.blind THEN Keys ELSE spoiled \cup d.stale) \ Own(d)) \cup Spoils(d)
           /\ session' = Told(c, "done")
  <2>1. /\ \A j \in Keys \ {k} : saved'[j] = saved[j]
        /\ spoiled \subseteq spoiled' \cup {k}
    BY <1>4 DEF IInv, Typed, Own
  <2>2. /\ session' \in [Sessions -> Session]
        /\ \A b \in Sessions : Good(session[b], saved, spoiled, reachable)'
    BY <1>1, <1>3, <1>4, <2>1, ToldIsGood
  <2>3. Typed'
    BY <1>2, <1>3, <1>4, <2>2 DEF IInv, Typed, Spoils
  <2>4. \A j \in Keys \ spoiled' : file'[j] = saved'[j] \/ (saved'[j] = NoEntry /\ file'[j] = Unusable)
    <3> SUFFICES ASSUME NEW j \in Keys \ spoiled'
                 PROVE  file'[j] = saved'[j] \/ (saved'[j] = NoEntry /\ file'[j] = Unusable)
      OBVIOUS
    <3>1. CASE j \in Own(d)
      BY <1>1, <1>4, <3>1 DEF Good, Works, Own
    <3>2. CASE j \notin Own(d)
      <4>1. ~d.blind /\ j \notin spoiled \cup d.stale /\ saved'[j] = saved[j]
        BY <1>4, <3>2
      <4>2. ~(d.point \in Plain \cup Spoiling /\ j = k)
        BY <1>4, <3>2 DEF Own, Spoils
      <4> QED
        BY <1>1, <1>4, <4>1, <4>2 DEF Good, Knows
    <3> QED
      BY <3>1, <3>2
  <2> QED
    BY <2>2, <2>3, <2>4 DEF IInv, SavedStays, Kept
<1>5. CASE file' \in {Nothing} \cup Mixed(file, d.settings) /\ spoiled' = Keys /\ session' = Told(c, "done") /\ UNCHANGED saved
  <2>1. /\ \A j \in Keys \ {k} : saved'[j] = saved[j]
        /\ spoiled \subseteq spoiled' \cup {k}
    BY <1>5 DEF IInv, Typed
  <2>2. /\ session' \in [Sessions -> Session]
        /\ \A b \in Sessions : Good(session[b], saved, spoiled, reachable)'
    BY <1>1, <1>3, <1>5, <2>1, ToldIsGood
  <2>3. Typed'
    <3>1. Nothing \in [Keys -> Entries] /\ Mixed(file, d.settings) \subseteq [Keys -> Entries]
      BY DEF Nothing, Entries, Mixed
    <3> QED
      BY <1>3, <1>5, <2>2, <3>1 DEF IInv, Typed
  <2> QED
    BY <1>5, <2>2, <2>3 DEF IInv, SavedStays
<1>6. CASE spoiled' = Keys /\ Goto(c, "done") /\ UNCHANGED <<file, saved>>
  <2> DEFINE e == [d EXCEPT !.stage = "done"]
  <2>1. session' = [session EXCEPT ![c] = e]
    BY <1>6 DEF Goto, IInv, Typed
  <2>2. e \in Session /\ \A sv, sp : Good(e, sv, sp, reachable)
    BY <1>1, DoneIsGood
  <2> HIDE DEF e
  <2> QED
    BY <1>3, <1>6, <2>1, <2>2, AllSpoiled
<1> QED
  BY <1>4, <1>5, <1>6 DEF Write

LEMMA ReturnIInv ==
    ASSUME IInv, NEW c \in Sessions, Return(c)
    PROVE  IInv'
BY EndsIInv DEF Return, At

LEMMA CrashIInv ==
    ASSUME IInv, NEW c \in Sessions, Crash(c)
    PROVE  IInv'
<1>1. CASE session[c].stage = "write"
  BY <1>1, OffIsGood, AllSpoiled DEF Crash, Ends, At
<1>2. CASE session[c].stage # "write"
  BY <1>2, EndsIInv DEF Crash, At, fileVars
<1> QED
  BY <1>1, <1>2

LEMMA OutageIInv ==
    ASSUME IInv, NEW s \in Sources, Outage(s)
    PROVE  IInv'
<1>1. /\ session' = [c \in Sessions |-> [session[c] EXCEPT !.down = @ \cup {s}]]
      /\ reachable' \in {reachable \ {s}, reachable \cup {s}}
      /\ UNCHANGED <<file, saved, spoiled>>
  BY DEF Outage, fileVars
<1>2. ASSUME NEW c \in Sessions
      PROVE  /\ session'[c] \in Session /\ session'[c].stage = session[c].stage
             /\ Good(session'[c], saved, spoiled, reachable')
  <2> DEFINE d == session[c]
             e == [d EXCEPT !.down = @ \cup {s}]
  <2>1. d \in Session /\ Good(d, saved, spoiled, reachable)
    BY DEF IInv, Typed
  <2>2. /\ e.stage = d.stage /\ e.point = d.point /\ e.source = d.source
        /\ e.blind = d.blind /\ e.settings = d.settings /\ e.todo = d.todo
        /\ e.down = d.down \cup {s} /\ e.stale = d.stale /\ e.table = d.table
    BY <2>1 DEF Session
  <2>3. e \in Session
    BY <2>1 DEF Session
  <2>4. Works(e, reachable') /\ Loads(e) /\ Knows(e, saved, spoiled) /\ Frees(e, saved, spoiled)
    BY <1>1, <2>1, <2>2 DEF Good, Works, Loads, Knows, Frees
  <2> QED
    BY <1>1, <2>2, <2>3, <2>4 DEF Good
<1>3. Typed'
  BY <1>1, <1>2 DEF IInv, Typed
<1>4. Writing' = Writing
  BY <1>2 DEF Writing, At
<1>5. SavedStays'
  BY <1>1, <1>4 DEF IInv, SavedStays, Kept
<1> QED
  BY <1>1, <1>2, <1>3, <1>5 DEF IInv

LEMMA UnchangedIInv ==
    ASSUME IInv, UNCHANGED vars
    PROVE  IInv'
<1> USE DEF vars
<1>1. Typed' /\ Writing' = Writing
  BY DEF IInv, Typed, Writing, At
<1>2. SavedStays'
  BY <1>1 DEF IInv, SavedStays, Kept
<1> QED
  BY <1>1, <1>2 DEF IInv

LEMMA NextIInv == IInv /\ [Next]_vars => IInv'
<1> SUFFICES ASSUME IInv, [Next]_vars PROVE IInv'
  OBVIOUS
<1>1. ASSUME NEW c \in Sessions, Start(c, Off.point, NoEntry) PROVE IInv'
  <2>1. Off.point \in Points
    BY OffIsGood DEF Session
  <2> HIDE DEF Off
  <2> QED
    BY <1>1, <2>1, StartIInv
<1>2. ASSUME NEW c \in Sessions, NEW m \in Points, NEW s \in Sources, Start(c, m, s) PROVE IInv'
  BY <1>2, StartIInv
<1>3. ASSUME NEW c \in Sessions, Running(c) PROVE IInv'
  BY <1>3, LoadIInv, LoadedIInv, MountIInv, TruncateIInv, WriteIInv, ReturnIInv DEF Running
<1>4. ASSUME NEW c \in Sessions, Crash(c) PROVE IInv'
  BY <1>4, CrashIInv
<1>5. ASSUME NEW s \in Sources, Outage(s) PROVE IInv'
  BY <1>5, OutageIInv
<1>6. CASE UNCHANGED vars
  BY <1>6, UnchangedIInv
<1> QED
  BY <1>1, <1>2, <1>3, <1>4, <1>5, <1>6 DEF Next

LEMMA Invariance == Spec => []IInv
  BY InitIInv, NextIInv, PTL DEF Spec

LEMMA IInvImplies == IInv => TypeOK /\ SavedStays /\ LoadsWhatItRead
<1> SUFFICES ASSUME IInv PROVE TypeOK /\ LoadsWhatItRead
  BY DEF IInv
<1>1. {file, saved} \subseteq [Keys -> Entries]
  BY DEF IInv, Typed, Entries
<1>2. ASSUME NEW c \in Sessions
      PROVE  session[c] \in Session /\ Good(session[c], saved, spoiled, reachable)
  BY DEF IInv, Typed
<1>3. TypeOK
  BY <1>1, <1>2 DEF IInv, Typed, TypeOK, Session, Stages, Good, Works
<1>4. LoadsWhatItRead
  BY <1>2 DEF LoadsWhatItRead, At, Good, Works, Loads
<1> QED
  BY <1>3, <1>4

LEMMA ReplacesStep == IInv /\ [Next]_vars => [FreesWhatItReplaces]_vars
<1> SUFFICES ASSUME IInv, [Next]_vars,
                    NEW k \in Keys \ spoiled, saved'[k] # saved[k], saved[k] # NoEntry
             PROVE  \E c \in Writing :
                        LET e == session[c] IN
                        /\ KeyOf[e.point] = k
                        /\ \/ saved[k] \in e.down
                           \/ Clean[e.point] # Clean[k]
                           \/ e.blind \/ k \in e.stale
  BY DEF FreesWhatItReplaces
<1>1. PICK c \in Sessions : Write(c) /\ saved' # saved
  BY DEF Next, Running, Start, Load, Loaded, Mount, Truncate, Return, Crash, Outage, fileVars, vars
<1>2. session[c] \in Session /\ Good(session[c], saved, spoiled, reachable) /\ c \in Writing
  BY <1>1 DEF IInv, Typed, Write, Writing
<1>3. session[c].point \in Plain /\ k = KeyOf[session[c].point]
  BY <1>1 DEF Write, Own, IInv, Typed
<1> QED
  BY <1>2, <1>3 DEF Good, Frees, Writing, At

-----------------------------------------------------------------------------
(***************************************************************************)
(* The type invariant, for every instance.                                 *)
(***************************************************************************)
THEOREM SavedMountsTyped == Spec => []TypeOK
  BY Invariance, IInvImplies, PTL

(***************************************************************************)
(* What was saved is in the file whenever nobody is writing, whatever      *)
(* sessions ran at the same time, were killed or failed to mount.          *)
(***************************************************************************)
THEOREM SavedMountsStay == Spec => []SavedStays
  BY Invariance, IInvImplies, PTL

(***************************************************************************)
(* loadMounts mounts what it has read, in whatever order and whatever      *)
(* directories are away.                                                   *)
(***************************************************************************)
THEOREM SavedMountsLoad == Spec => []LoadsWhatItRead
  BY Invariance, IInvImplies, PTL

(***************************************************************************)
(* A saved mount is replaced only by a session that could not know it or   *)
(* could not mount it.                                                     *)
(***************************************************************************)
THEOREM SavedMountsReplace == Spec => ReplacesOnlyUnmounted
  BY Invariance, ReplacesStep, PTL DEF Spec, ReplacesOnlyUnmounted
=============================================================================
