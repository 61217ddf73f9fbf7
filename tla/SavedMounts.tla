----------------------------- MODULE SavedMounts -----------------------------
(***************************************************************************)
(* Mounts that outlive the process: initConfig of cmd/finspect/main.go,    *)
(* loadMounts and saveMountConfig of vfs.go, and the mount command.  Every *)
(* run of finspect is a session of its own.  It reads the configuration    *)
(* file when it starts and mounts what is in it; the mount command adds an *)
(* entry to what it has read and writes the file again, all of it.         *)
(***************************************************************************)
EXTENDS Integers, FiniteSets

CONSTANTS Sessions,
          Points,     \* mount points as they are given
          Keys,       \* mount points as viper keeps them, in lower case
          KeyOf,      \* KeyOf[m]: where viper keeps the entry of m
          Plain,      \* points without a dot, at which viper would split the key
          Spoiling,   \* points with .type or .path: viper keeps them in the setting itself
          Clean,      \* Clean[m]: the path of m, a point or a key, or Relative
          Relative,
          Sources,    \* local directories
          Elsewhere,  \* entries of another configuration file, for --config
          NoEntry, Unusable,
          MaxMounts,  \* bound: mount commands given
          MaxOutages, \* bound: directories that come or go
          MaxFaults   \* bound: system calls that fail

Entries == Sources \cup {NoEntry, Unusable}
Nothing == [k \in Keys |-> NoEntry]
Mountpoints == {Clean[m] : m \in Points \cup Keys} \ {Relative}

ASSUME MountsAssumption ==
    /\ Points # {}
    /\ KeyOf \in [Points -> Keys]
    /\ Plain \subseteq Points /\ Spoiling \subseteq Points \ Plain
    /\ Points \cup Keys \subseteq DOMAIN Clean
    /\ Elsewhere \in [Keys -> Entries]
    /\ {NoEntry, Unusable} \cap Sources = {} /\ NoEntry # Unusable
    /\ MaxMounts \in Nat /\ MaxOutages \in Nat /\ MaxFaults \in Nat

VARIABLES file,      \* the entries in ~/.finspect/config.yaml
          reachable, \* the sources that are there
          session,   \* session[c]; down, stale and blind are history
          saved,     \* history: what the last mount of a key that was saved said
          spoiled,   \* history: keys that were lost in a way the properties allow
          mounts, outages, faults

vars == <<file, reachable, session, saved, spoiled, mounts, outages, faults>>
fileVars == <<file, saved, spoiled>>

Off == [stage |-> "off", point |-> CHOOSE m \in Points : TRUE, source |-> NoEntry,
        settings |-> Nothing,  \* what viper has in memory
        todo |-> {},           \* entries not loaded yet
        table |-> [p \in Mountpoints |-> NoEntry],
        down |-> {},           \* sources that were away since it began
        stale |-> {},          \* keys other sessions saved since it read them
        blind |-> FALSE,       \* it did not read what was saved
        overlaid |-> FALSE]    \* another wrote after it had truncated

Init ==
    /\ file = Nothing
    /\ reachable = Sources
    /\ session = [c \in Sessions |-> Off]
    /\ saved = Nothing
    /\ spoiled = {}
    /\ mounts = 0 /\ outages = 0 /\ faults = 0

At(c, stage) == session[c].stage = stage
Goto(c, stage) == session' = [session EXCEPT ![c].stage = stage]
Ends(c) == session' = [session EXCEPT ![c] = Off]
Fault == faults < MaxFaults /\ faults' = faults + 1
EntriesOf(settings) == {k \in Keys : settings[k] # NoEntry}
Writing == {c \in Sessions : At(c, "write")}

-----------------------------------------------------------------------------
(***************************************************************************)
(* initConfig: an error of ReadInConfig is no error.  A file that is being *)
(* written is empty.  source is NoEntry in commands that mount nothing.    *)
(***************************************************************************)
Reads(c, settings, point, source) ==
    session' = [session EXCEPT ![c] =
                   [Off EXCEPT !.stage = "load", !.point = point, !.source = source,
                               !.settings = settings, !.todo = EntriesOf(settings),
                               !.down = Sources \ reachable,
                               !.blind = settings # file \/ Writing # {}]]

Start(c, point, source) ==
    /\ At(c, "off")
    /\ IF source = NoEntry THEN UNCHANGED mounts
       ELSE mounts < MaxMounts /\ mounts' = mounts + 1
    /\ \E settings \in {file, Elsewhere} : Reads(c, settings, point, source)
    /\ UNCHANGED <<fileVars, reachable, outages, faults>>

\* Fault of Load: the first entry that cannot be mounted ends the loop.
LoadUntilError(c) ==
    /\ At(c, "load")
    /\ \E k \in session[c].todo :
          LET s == session[c].settings[k]
              mounted == /\ s \in reachable
                         /\ Clean[k] # Relative
                         /\ session[c].table[Clean[k]] = NoEntry
          IN
          session' = IF mounted
                     THEN [session EXCEPT ![c].todo = @ \ {k}, ![c].table[Clean[k]] = s]
                     ELSE [session EXCEPT ![c].todo = {}]
    /\ UNCHANGED <<fileVars, reachable, mounts, outages, faults>>

\* loadMounts, in the order of a Go map.  What cannot be mounted is passed over.
Load(c) ==
    /\ At(c, "load")
    /\ \E k \in session[c].todo :
          LET s == session[c].settings[k]
              mounted == /\ s \in reachable
                         /\ Clean[k] # Relative
                         /\ session[c].table[Clean[k]] = NoEntry
          IN
          session' = IF mounted
                     THEN [session EXCEPT ![c].todo = @ \ {k}, ![c].table[Clean[k]] = s]
                     ELSE [session EXCEPT ![c].todo = @ \ {k}]
    /\ UNCHANGED <<fileVars, reachable, mounts, outages, faults>>

Loaded(c) ==
    /\ At(c, "load")
    /\ session[c].todo = {}
    /\ Goto(c, IF session[c].source = NoEntry THEN "done" ELSE "mount")
    /\ UNCHANGED <<fileVars, reachable, mounts, outages, faults>>

(***************************************************************************)
(* What Set makes of the settings.  A point with a dot ends up in another  *)
(* entry, which stays as good as it was, unless what is after the dot is   *)
(* its type or path: that is a map then, and loadMounts skips the entry.   *)
(***************************************************************************)
WithEntry(e) ==
    LET k == KeyOf[e.point] IN
    IF e.point \in Plain THEN [e.settings EXCEPT ![k] = e.source]
    ELSE IF e.point \in Spoiling \/ e.settings[k] = NoEntry THEN [e.settings EXCEPT ![k] = Unusable]
    ELSE e.settings

\* Fault of Mount: the router is not asked whether the mount point is taken.
MountOver(c) ==
    LET e == session[c]
        p == Clean[e.point]
    IN
    /\ At(c, "mount")
    /\ IF e.source \in reachable /\ p # Relative
       THEN session' = [session EXCEPT ![c].stage = "save", ![c].table[p] = e.source,
                                       ![c].settings = WithEntry(e)]
       ELSE Ends(c)
    /\ UNCHANGED <<fileVars, reachable, mounts, outages, faults>>

\* Connect and Mount end the command when they fail.
Mount(c) ==
    LET e == session[c]
        p == Clean[e.point]
    IN
    /\ At(c, "mount")
    /\ IF e.source \in reachable /\ p # Relative /\ e.table[p] = NoEntry
       THEN session' = [session EXCEPT ![c].stage = "save", ![c].table[p] = e.source,
                                       ![c].settings = WithEntry(e)]
       ELSE Ends(c)
    /\ UNCHANGED <<fileVars, reachable, mounts, outages, faults>>

-----------------------------------------------------------------------------
(***************************************************************************)
(* saveMountConfig: WriteConfigAs truncates the file of the home directory *)
(* and writes everything in memory to it.  An error is only logged.        *)
(***************************************************************************)
Truncate(c) ==
    /\ At(c, "save")
    /\ \/ file' = Nothing /\ Goto(c, "write") /\ UNCHANGED faults
       \/ Fault /\ Goto(c, "done") /\ UNCHANGED file
    /\ UNCHANGED <<reachable, saved, spoiled, mounts, outages>>

\* The key that c saves is news to every session that has read the file.
Told(c, stage) ==
    [d \in Sessions |->
        IF d = c THEN [session[d] EXCEPT !.stage = stage]
        ELSE [session[d] EXCEPT !.stale = @ \cup {KeyOf[session[c].point]},
                                !.overlaid = @ \/ At(d, "write")]]

\* The keys that the mount of c is saved at, and those it makes unusable.
Own(e) == IF e.point \in Plain THEN {KeyOf[e.point]} ELSE {}
Spoils(e) == IF e.point \in Spoiling THEN {KeyOf[e.point]} ELSE {}

\* Fault of Write: what is written is what is mounted.
WriteMounted(c) ==
    LET e == session[c] IN
    /\ At(c, "write")
    /\ file' = [j \in Keys |-> IF Clean[j] # Relative /\ e.table[Clean[j]] = e.settings[j]
                              THEN e.settings[j] ELSE NoEntry]
    /\ saved' = [j \in Keys |-> IF j \in Own(e) THEN e.source ELSE saved[j]]
    /\ spoiled' = ((IF e.blind THEN Keys ELSE spoiled \cup e.stale) \ Own(e)) \cup Spoils(e)
    /\ session' = Told(c, "done")
    /\ UNCHANGED <<reachable, mounts, outages, faults>>

(***************************************************************************)
(* When another session wrote after c had truncated, the end of that text  *)
(* may stay behind the text of c.  The file is not YAML any more, or some  *)
(* entries of the other follow those of c; YAML has no entry twice.        *)
(***************************************************************************)
Mixed(f, g) == {h \in [Keys -> Entries] :
                   \A k \in Keys : h[k] = IF g[k] = NoEntry /\ h[k] # NoEntry THEN f[k] ELSE g[k]}

Write(c) ==
    LET e == session[c] IN
    /\ At(c, "write")
    /\ \/ /\ file' = e.settings
          /\ saved' = [j \in Keys |-> IF j \in Own(e) THEN e.source ELSE saved[j]]
          /\ spoiled' = ((IF e.blind THEN Keys ELSE spoiled \cup e.stale) \ Own(e)) \cup Spoils(e)
          /\ session' = Told(c, "done")
          /\ UNCHANGED faults
       \/ /\ e.overlaid
          /\ file' \in {Nothing} \cup Mixed(file, e.settings)
          /\ spoiled' = Keys
          /\ session' = Told(c, "done")
          /\ UNCHANGED <<saved, faults>>
       \/ /\ Fault
          /\ spoiled' = Keys
          /\ Goto(c, "done")
          /\ UNCHANGED <<file, saved>>
    /\ UNCHANGED <<reachable, mounts, outages>>

Return(c) ==
    /\ At(c, "done")
    /\ Ends(c)
    /\ UNCHANGED <<fileVars, reachable, mounts, outages, faults>>

-----------------------------------------------------------------------------
\* The process dies.
Crash(c) ==
    /\ ~At(c, "off")
    /\ Ends(c)
    /\ spoiled' = IF At(c, "write") THEN Keys ELSE spoiled
    /\ UNCHANGED <<file, reachable, saved, mounts, outages, faults>>

\* A directory goes, or comes back.
Outage(s) ==
    /\ outages < MaxOutages
    /\ outages' = outages + 1
    /\ reachable' = IF s \in reachable THEN reachable \ {s} ELSE reachable \cup {s}
    /\ session' = [c \in Sessions |-> [session[c] EXCEPT !.down = @ \cup {s}]]
    /\ UNCHANGED <<fileVars, mounts, faults>>

Running(c) == Load(c) \/ Loaded(c) \/ Mount(c) \/ Truncate(c) \/ Write(c) \/ Return(c)

Next ==
    \/ \E c \in Sessions :
          \/ Start(c, Off.point, NoEntry)
          \/ \E m \in Points, s \in Sources : Start(c, m, s)
          \/ Running(c)
          \/ Crash(c)
    \/ \E s \in Sources : Outage(s)

Spec == Init /\ [][Next]_vars
=============================================================================
