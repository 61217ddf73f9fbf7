---------------------------- MODULE Configuration ----------------------------
(***************************************************************************)
(* Configuration files: pkg/config and the config commands of              *)
(* cmd/finspect/config.go.  A command looks for a file, reads it over the  *)
(* default configuration, validates what it has read, expands variables    *)
(* and merges the environment, in this order; or writes the defaults.      *)
(* Other commands and users change the files between two of its steps.     *)
(***************************************************************************)
EXTENDS Integers, Sequences, FiniteSets

CONSTANTS Commands,
          Ops,          \* Ops[c]: what c may be
          Paths,
          Search,       \* the paths that are tried, in order
          Json,         \* those that end in .json; the others end in .yaml or .yml
          Texts,        \* paths of mounts, and directories
          StartsWith,   \* pairs <<t, u>> of texts such that t starts with u
          Length,       \* Length[t]: of the string
          Variable,     \* a text that is a variable, as "$D"
          Fallback,     \* one with a default in the shell's way, as "${D:-/d}"
          Documents,    \* what users put in files
          Environments,
          Absent, NoConfig, NoPath,
          MaxEdits,     \* bound: changes of files by users
          MaxFaults     \* bound: system calls that fail

Blank == ""
Levels == {"debug", "info", "warn", "error"}
Ports == 1 .. 65535

\* The numbers and words that only Validate looks at are like concurrency and level.
Default == [workdir |-> ".", concurrency |-> 10, enabled |-> TRUE, port |-> 8080,
            level |-> "info", mounts |-> <<[path |-> "/", type |-> "filesystem"]>>]
Fields == DOMAIN Default

\* A file has a syntax and says something of some of the fields.
EmptyFile == [syntax |-> "empty", says |-> <<>>]
DefaultFile(p) == [syntax |-> IF p \in Json THEN "json" ELSE "yaml", says |-> Default]

(***************************************************************************)
(* A text that ends early, or has a gap, is one that cannot be read, or    *)
(* one that says less: "mounts:" without what follows is a list of none.   *)
(***************************************************************************)
CutFile == [syntax |-> "broken", says |-> <<>>]
ShortFile == [syntax |-> "yaml", says |-> [mounts |-> <<>>]]
Pieces == {CutFile, ShortFile}

Contents == Documents \cup Pieces \cup {Absent, EmptyFile} \cup {DefaultFile(p) : p \in Paths}

ASSUME ConfigurationAssumption ==
    /\ Search \in Seq(Paths) /\ Len(Search) > 1
    /\ Json \subseteq Paths
    /\ {Blank, ".", "/", Variable, Fallback} \subseteq Texts
    /\ StartsWith \subseteq Texts \X Texts
    /\ Length \in [Texts -> Nat]
    /\ Absent \notin Documents \cup Pieces \cup {EmptyFile} \cup {DefaultFile(p) : p \in Paths}
    /\ NoConfig # Default
    /\ \A d \in Documents : "mounts" \in DOMAIN d.says => DOMAIN d.says.mounts \subseteq Nat
    /\ \A e \in Environments : "mounts" \notin DOMAIN e.settings
    /\ {Variable, Fallback} \cap {".", "/"} = {}
    /\ MaxEdits \in Nat /\ MaxFaults \in Nat

-----------------------------------------------------------------------------
(***************************************************************************)
(* Reading: what is said goes over what was there.  JSON decodes the first *)
(* mount into the default one, so that what it does not say stays; YAML    *)
(* starts a new list.                                                      *)
(***************************************************************************)
Over(says, base) == [f \in DOMAIN base |-> IF f \in DOMAIN says THEN says[f] ELSE base[f]]

Slot(p, i) == IF p \in Json /\ i = 1 THEN Default.mounts[1]
              ELSE [path |-> Blank, type |-> Blank]

Decoded(p, says) ==
    LET cfg == Over(says, Default) IN
    [cfg EXCEPT !.mounts = [i \in DOMAIN cfg.mounts |-> Over(cfg.mounts[i], Slot(p, i))]]

\* Fault of Parses: a decoder that reports the end of an empty file.
ParsesSome(p, syntax) == syntax \in IF p \in Json THEN {"json"} ELSE {"yaml", "json"}

\* Nothing is a YAML document, and JSON is one.  Nothing is no JSON.
Parses(p, syntax) == syntax \in IF p \in Json THEN {"json"} ELSE {"yaml", "json", "empty"}

MountsValid(mounts) ==
    /\ \A i \in DOMAIN mounts : mounts[i].path # Blank /\ mounts[i].type # Blank
    /\ \A i, j \in DOMAIN mounts : mounts[i].path = mounts[j].path => i = j

Valid(cfg) ==
    /\ cfg.concurrency >= 1
    /\ MountsValid(cfg.mounts)
    /\ cfg.enabled => cfg.port \in Ports
    /\ cfg.level \in Levels

\* os.ExpandEnv takes all between the braces for the name, of a variable nobody sets.
Expand(env, t) == IF t = Variable THEN env.value ELSE IF t = Fallback THEN Blank ELSE t

Expanded(env, cfg) ==
    [cfg EXCEPT !.workdir = Expand(env, cfg.workdir),
                !.mounts = [i \in DOMAIN cfg.mounts |->
                               [cfg.mounts[i] EXCEPT !.path = Expand(env, cfg.mounts[i].path)]]]

LoadFrom(p, env, content) ==
    IF content # Absent /\ Parses(p, content.syntax) /\ Valid(Decoded(p, content.says))
    THEN Expanded(env, Decoded(p, content.says))
    ELSE NoConfig

MergeEnvironment(env, cfg) == Over(env.settings, cfg)

Matches(mounts, path) == {i \in DOMAIN mounts : <<path, mounts[i].path>> \in StartsWith}
First(S) == IF S = {} THEN 0 ELSE CHOOSE i \in S : \A j \in S : i <= j

\* Fault of GetMount: the first mount that matches.
GetFirstMount(mounts, path) == First(Matches(mounts, path))

\* The first of the longest mount paths that path starts with; 0 if there is none.
GetMount(mounts, path) ==
    LET found == Matches(mounts, path) IN
    First({i \in found : \A j \in found : Length[mounts[j].path] <= Length[mounts[i].path]})

-----------------------------------------------------------------------------
VARIABLES file,    \* file[p]: what is in it
          command, \* command[c]; touched, mixed, amid, missed and stayed are history
          strange, \* history: paths that users have changed, or with an unfinished text
          edits, faults

vars == <<file, command, strange, edits, faults>>

Idle == [op |-> "none", stage |-> "idle", left |-> <<>>, named |-> FALSE, force |-> FALSE,
         env |-> CHOOSE e \in Environments : TRUE,
         from |-> NoPath, cfg |-> NoConfig, ok |-> FALSE,
         touched |-> FALSE, \* its file was changed by another since it looked
         mixed |-> FALSE,   \* or emptied, or changed by a user, since it began to write
         amid |-> FALSE,    \* it read a file that another was writing
         missed |-> FALSE,  \* Stat failed, and what it looked for counted as absent
         stayed |-> {}]     \* paths with a file all the time since the call

Init ==
    /\ file = [p \in Paths |-> Absent]
    /\ command = [c \in Commands |-> Idle]
    /\ strange = {}
    /\ edits = 0 /\ faults = 0

Fault == faults < MaxFaults /\ faults' = faults + 1
At(c, stage) == command[c].stage = stage
Looking(c) == Head(command[c].left)
Goto(c, stage) == command' = [command EXCEPT ![c].stage = stage]
Ends(c, ok) == command' = [command EXCEPT ![c].stage = "done", ![c].ok = ok]

\* Another changed p, which d had looked at and may write.
Touched(d, p) ==
    IF command[d].op \in {"init", "create"} /\ ~At(d, "look") /\ Looking(d) = p
    THEN [command[d] EXCEPT !.touched = TRUE] ELSE command[d]

Writers(p) == {c \in Commands : (At(c, "write") \/ At(c, "rest")) /\ Looking(c) = p}

\* Another emptied it, or it was a user, while d was reading or writing it.
Disturbed(d, p) ==
    [Touched(d, p) EXCEPT !.mixed = @ \/ d \in Writers(p),
                          !.amid = @ \/ (At(d, "open") /\ Looking(d) = p)]

-----------------------------------------------------------------------------
(***************************************************************************)
(* The config commands and LoadOrCreate ("create").  named: the path was   *)
(* given; otherwise the search paths are tried.                            *)
(***************************************************************************)
Call(c, op, list, force, env) ==
    /\ At(c, "idle") /\ op \in Ops[c]
    /\ command' = [command EXCEPT ![c] =
                      [Idle EXCEPT !.op = op, !.stage = "look", !.left = list,
                                   !.named = list # Search, !.force = force, !.env = env,
                                   !.stayed = {p \in Paths : list = Search /\ file[p] # Absent}]]
    /\ UNCHANGED <<file, strange, edits, faults>>

Found(c) ==
    CASE command[c].op = "init" /\ command[c].force -> Goto(c, "create")
      [] command[c].op = "init" /\ ~command[c].force -> Ends(c, FALSE)
      [] command[c].op = "path" ->
            command' = [command EXCEPT ![c].stage = "done", ![c].ok = TRUE,
                                       ![c].from = Looking(c)]
      [] OTHER -> Goto(c, "open")

\* It is not there, or Stat failed: missed.
NotFound(c, missed) ==
    LET e == [command[c] EXCEPT !.missed = @ \/ missed] IN
    command' = [command EXCEPT ![c] =
        IF Len(e.left) > 1 THEN [e EXCEPT !.left = Tail(e.left)]
        ELSE CASE e.op \in {"init", "create"} -> [e EXCEPT !.stage = "create"]
               [] e.op \in {"show", "validate"} /\ e.named -> [e EXCEPT !.stage = "done"]
               [] e.op \in {"show", "validate"} /\ ~e.named ->
                     [e EXCEPT !.stage = "report", !.cfg = Default]
               [] OTHER -> [e EXCEPT !.stage = "done", !.ok = TRUE]]

Look(c) ==
    /\ At(c, "look")
    /\ \/ file[Looking(c)] # Absent /\ Found(c) /\ UNCHANGED faults
       \/ file[Looking(c)] = Absent /\ NotFound(c, FALSE) /\ UNCHANGED faults
       \/ Fault /\ NotFound(c, TRUE)
    /\ UNCHANGED <<file, strange, edits>>

\* Load: the file is opened, read, validated and expanded.
LoadsText(c, text) == LoadFrom(Looking(c), command[c].env, text)
Loads(c) == LoadsText(c, file[Looking(c)])

\* The text may go on growing, or be cut off, while it is read.
Amid(c) == command[c].amid \/ (Writers(Looking(c)) # {} /\ file[Looking(c)] # EmptyFile)

Opened(c, cfg) ==
    [command[c] EXCEPT !.from = Looking(c), !.cfg = cfg, !.amid = Amid(c),
                       !.ok = cfg # NoConfig /\ command[c].op = "create",
                       !.stage = IF cfg # NoConfig /\ command[c].op # "create"
                                 THEN "report" ELSE "done"]

\* Fault of Open: a file that cannot be loaded is passed over.
OpenOrSkip(c) ==
    /\ At(c, "open")
    /\ command' = [command EXCEPT ![c] =
          IF Loads(c) = NoConfig /\ Len(@.left) > 1
          THEN [@ EXCEPT !.stage = "look", !.left = Tail(@)]
          ELSE Opened(c, Loads(c))]
    /\ UNCHANGED <<file, strange, edits, faults>>

\* Fault of Open: LoadOrCreate creates what it cannot load.
OpenOrCreate(c) ==
    /\ At(c, "open")
    /\ command' = [command EXCEPT ![c] =
          IF Loads(c) = NoConfig /\ @.op = "create"
          THEN [@ EXCEPT !.stage = "create"]
          ELSE Opened(c, Loads(c))]
    /\ UNCHANGED <<file, strange, edits, faults>>

Open(c) ==
    /\ At(c, "open")
    /\ \/ /\ \E text \in {file[Looking(c)]} \cup (IF command[c].amid THEN Pieces ELSE {}) :
                command' = [command EXCEPT ![c] = Opened(c, LoadsText(c, text))]
          /\ UNCHANGED faults
       \/ command' = [command EXCEPT ![c] = Opened(c, NoConfig)] /\ Fault
    /\ UNCHANGED <<file, strange, edits>>

\* Show merges the environment.
Reports(c, valid) ==
    LET e == command[c] IN
    /\ At(c, "report")
    /\ IF e.op = "show"
       THEN command' = [command EXCEPT ![c].stage = "done", ![c].ok = TRUE,
                                       ![c].cfg = MergeEnvironment(e.env, e.cfg)]
       ELSE Ends(c, valid)
    /\ UNCHANGED <<file, strange, edits, faults>>

\* Fault of Report: "Validate is already called during load".
ReportLoaded(c) == Reports(c, TRUE)

\* The validate command validates once more.
Report(c) == Reports(c, Valid(command[c].cfg))

-----------------------------------------------------------------------------
\* Save: Create truncates.
Create(c) ==
    /\ At(c, "create")
    /\ \/ /\ file' = [file EXCEPT ![Looking(c)] = EmptyFile]
          /\ command' = [d \in Commands |->
                IF d = c THEN [command[c] EXCEPT !.stage = "write"]
                ELSE Disturbed(d, Looking(c))]
          /\ UNCHANGED faults
       \/ Fault /\ Ends(c, FALSE) /\ UNCHANGED file
    /\ UNCHANGED <<strange, edits>>

(***************************************************************************)
(* SaveTo: the YAML encoder writes its text in pieces, "rest" when it has  *)
(* written some, the JSON encoder all at once.  Two that write at the same *)
(* time write the same text, and leave gaps where the one has emptied what *)
(* the other wrote.  What is open may no longer be the file of this name.  *)
(***************************************************************************)
Writes(c, content) ==
    file' = [file EXCEPT ![Looking(c)] = content]

Mixed(p) ==
    IF file[p] \in {Absent, DefaultFile(p)} THEN {file[p]}
    ELSE {file[p], DefaultFile(p)} \cup Pieces

Told(c, e) == command' = [d \in Commands |-> IF d = c THEN e ELSE Touched(d, Looking(c))]

WritePiece(c) ==
    LET p == Looking(c) IN
    /\ At(c, "write") /\ p \notin Json
    /\ \E content \in IF command[c].mixed THEN Mixed(p) ELSE Pieces \cup {DefaultFile(p)} :
          Writes(c, content)
    /\ Told(c, [command[c] EXCEPT !.stage = "rest"])
    /\ UNCHANGED <<strange, edits, faults>>

WriteRest(c) ==
    LET p == Looking(c) IN
    /\ (At(c, "write") /\ p \in Json) \/ At(c, "rest")
    /\ \E content \in IF command[c].mixed THEN Mixed(p) ELSE {DefaultFile(p)} : Writes(c, content)
    /\ Told(c, [command[c] EXCEPT !.stage = "done", !.ok = TRUE, !.cfg = Default])
    /\ UNCHANGED <<strange, edits, faults>>

WriteFails(c) ==
    LET p == Looking(c) IN
    /\ At(c, "write") \/ At(c, "rest")
    /\ Fault
    /\ \E content \in {file[p]} \cup (IF file[p] = Absent THEN {} ELSE Pieces) : Writes(c, content)
    /\ Told(c, [command[c] EXCEPT !.stage = "done", !.cfg = NoConfig])
    /\ strange' = strange \cup {p}
    /\ UNCHANGED edits

Write(c) == WritePiece(c) \/ WriteRest(c) \/ WriteFails(c)

Return(c) ==
    /\ At(c, "done")
    /\ command' = [command EXCEPT ![c] = Idle]
    /\ UNCHANGED <<file, strange, edits, faults>>

(***************************************************************************)
(* The process dies.  What it was writing stays unfinished, unless it had  *)
(* written nothing and nobody else writes there.                           *)
(***************************************************************************)
Crash(c) ==
    /\ ~At(c, "idle") /\ ~At(c, "done")
    /\ command' = [command EXCEPT ![c] = Idle]
    /\ strange' = strange \cup
          {p \in Paths : c \in Writers(p) /\ ~(Writers(p) = {c} /\ file[p] = EmptyFile)}
    /\ UNCHANGED <<file, edits, faults>>

\* A user puts a file there, changes it or takes it away.
Edit(p, content) ==
    /\ edits < MaxEdits
    /\ edits' = edits + 1
    /\ content # file[p]
    /\ file' = [file EXCEPT ![p] = content]
    /\ strange' = strange \cup {p}
    /\ command' = [d \in Commands |->
          [Disturbed(d, p) EXCEPT !.stayed = IF content = Absent THEN @ \ {p} ELSE @]]
    /\ UNCHANGED faults

Runs(c) == Look(c) \/ Open(c) \/ Report(c) \/ Create(c) \/ Write(c) \/ Return(c)

Next ==
    \/ \E c \in Commands :
          \/ \E env \in Environments :
                \/ \E op \in {"show", "validate"}, list \in {Search} \cup {<<p>> : p \in Paths} :
                      Call(c, op, list, FALSE, env)
                \/ \E p \in Paths : Call(c, "create", <<p>>, FALSE, env)
          \/ \E p \in Paths, force \in BOOLEAN : Call(c, "init", <<p>>, force, Idle.env)
          \/ Call(c, "path", Search, FALSE, Idle.env)
          \/ Runs(c)
          \/ Crash(c)
    \/ \E p \in Paths, content \in Documents \cup {Absent, EmptyFile} : Edit(p, content)

Spec == Init /\ [][Next]_vars
=============================================================================
