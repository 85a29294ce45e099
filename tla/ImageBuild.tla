----------------------------- MODULE ImageBuild -----------------------------
(***************************************************************************)
(* Template images (infra/image.go, infra/inputs.go) and the processes     *)
(* that derive their tags: `faber build`, which builds and loads an image  *)
(* under its tag, and a run, whose preflight requires the image of every   *)
(* template and whose boxes start from them.                               *)
(*                                                                         *)
(* The operator edits hooks and skills at any time and an upgrade moves    *)
(* the faber-box binary, so every file read is a step.  A template has one *)
(* hook, known by its content; its skills leg is absent, empty or has      *)
(* files.  A tag stands for the fields its hash folds in; the packages,    *)
(* overlay and pin are fixed.                                              *)
(***************************************************************************)
EXTENDS Installed

CONSTANTS
  Builders,    \* faber build processes
  Templates,   \* in name order
  Hooks,       \* contents a hook file can have; "broken" fails CheckHookFile
  Legs,        \* skills legs: "absent", "empty", "files"
  MaxEdits,    \* bound: edits of the project's files
  MaxBuilds,   \* bound: faber build invocations
  MaxResumes   \* bound: executions of a run after its first

ASSUME ImageAssumption ==
  /\ Legs \subseteq {"absent", "empty", "files"}
  /\ Builders \cap RunIds = {}

Readers == Builders \cup RunIds
Names == {Templates[i] : i \in 1..Len(Templates)}

\* The steps of a valid workflow use at least one.
ASSUME TemplatesAssumption == Templates \in Seq(Names) /\ Templates # << >>

Sources == [hook : Hooks, skills : Legs]
Inputs == [tpl : Names, box : Releases, hook : Hooks, skills : Legs]

\* What the hash folds: the skills files, and so nothing at all for an empty leg.
Tag(in) ==
  [in EXCEPT !.skills = IF @ = "files" THEN "files" ELSE "absent"]
Tags == {Tag(in) : in \in Inputs}

NoBox == [stat |-> None, data |-> None]
Idle == [at |-> "idle", todo |-> << >>, stat |-> None, box |-> None]

VARIABLES
  source,   \* each template's hook and skills on disk
  daemon,   \* the images the docker daemon holds, by tag
  reader,   \* each process: its step, the templates it has yet to see, the stat and
            \* the bytes it has read of faber-box
  cache,    \* its ImageBuilder's boxCache
  memo,     \* the inputs it derived for each template: a run's imageTagger
  header,   \* the derivation each run journaled
  boxes,    \* history: the images each run started boxes from
  returned, \* history: the inputs of every image a faber build reported ready
  edits, builds, resumes

imageVars == <<source, daemon, reader, cache, memo, header, boxes, returned, edits,
               builds, resumes>>
counters == <<edits, builds, resumes>>

ImageTypeOK ==
  /\ source \in [Names -> Sources]
  /\ \A g \in DOMAIN daemon : g \in Tags /\ daemon[g] \in Inputs
  /\ \A r \in Readers :
       /\ reader[r].at \in {"idle", "stat", "read", "inputs", "inspect", "build",
                            "open", "running"}
       /\ cache[r] \in [stat : Releases \cup {None}, data : Releases \cup {None}]
       /\ \A t \in DOMAIN memo[r] : memo[r][t] \in Inputs
  /\ \A r \in RunIds : \A b \in boxes[r] : b \in Inputs

ImageInit ==
  /\ source \in [Names -> {[hook |-> h, skills |-> l] : h \in Hooks \ {"broken"}, l \in Legs}]
  /\ daemon = << >>
  /\ reader = [r \in Readers |-> Idle]
  /\ cache = [r \in Readers |-> NoBox]
  /\ memo = [r \in Readers |-> << >>]
  /\ header = [r \in RunIds |-> << >>]
  /\ boxes = [r \in RunIds |-> {}]
  /\ returned = {}
  /\ edits = 0 /\ builds = 0 /\ resumes = 0

-----------------------------------------------------------------------------
(* A process starts, and ends. *)

Begin(r) ==
  /\ reader' = [reader EXCEPT ![r] = [Idle EXCEPT !.at = "stat", !.todo = Templates]]
  /\ UNCHANGED <<cache, memo>>

\* The process ends, and with it what it held in memory.
Leave(r) ==
  /\ reader' = [reader EXCEPT ![r] = Idle]
  /\ cache' = [cache EXCEPT ![r] = NoBox]
  /\ memo' = [memo EXCEPT ![r] = << >>]

StartBuild(b) ==
  /\ b \in Builders /\ reader[b].at = "idle"
  /\ builds < MaxBuilds /\ live["faber"] # None
  /\ Begin(b)
  /\ builds' = builds + 1
  /\ UNCHANGED <<source, daemon, header, boxes, returned, edits, resumes>>

\* A resume takes up any journaled run: one that died, and one whose journal ends in
\* a pause, a failure or a halt.
StartRun(p) ==
  /\ p \in RunIds /\ reader[p].at = "idle" /\ live["faber"] # None
  /\ runs[p] = "none" \/ (runs[p] \in {"unfinished", "ended"} /\ resumes < MaxResumes)
  /\ Begin(p)
  /\ resumes' = IF runs[p] = "none" THEN resumes ELSE resumes + 1
  /\ UNCHANGED <<source, daemon, header, boxes, returned, edits, builds>>

-----------------------------------------------------------------------------
(* readInputs, a file at a time. *)

Subject(r) == Head(reader[r].todo)

\* readBox: the stat decides whether the cached bytes still stand for the file.
StatBox(r) ==
  /\ reader[r].at = "stat"
  /\ \/ live["box"] = None /\ Leave(r)
     \/ /\ live["box"] # None
        /\ reader' = [reader EXCEPT
                        ![r].stat = live["box"],
                        ![r].box = IF cache[r].stat = live["box"] THEN cache[r].data ELSE None,
                        ![r].at = IF cache[r].stat = live["box"] THEN "inputs" ELSE "read"]
        /\ UNCHANGED <<cache, memo>>
  /\ UNCHANGED <<source, daemon, header, boxes, returned, counters>>

ReadBox(r) ==
  /\ reader[r].at = "read"
  /\ \/ live["box"] = None /\ Leave(r)
     \/ /\ live["box"] # None
        /\ reader' = [reader EXCEPT ![r].box = live["box"], ![r].at = "inputs"]
        /\ cache' = [cache EXCEPT ![r] = [stat |-> reader[r].stat, data |-> live["box"]]]
        /\ UNCHANGED memo
  /\ UNCHANGED <<source, daemon, header, boxes, returned, counters>>

ReadTree(t) == source[t].skills

\* The hook and the skills tree complete the inputs, and with them the tag.
ReadInputs(r) ==
  LET t == Subject(r)
      in == [tpl |-> t, box |-> reader[r].box, hook |-> source[t].hook, skills |-> ReadTree(t)]
  IN
  /\ reader[r].at = "inputs"
  /\ \/ in.hook = "broken" /\ Leave(r)
     \/ /\ in.hook # "broken"
        /\ memo' = [memo EXCEPT ![r] = [x \in DOMAIN @ \cup {t} |-> IF x = t THEN in ELSE @[x]]]
        /\ reader' = [reader EXCEPT ![r].at = "inspect"]
        /\ UNCHANGED cache
  /\ UNCHANGED <<source, daemon, header, boxes, returned, counters>>

-----------------------------------------------------------------------------
(* BuildWith after the read, for each template in turn. *)

Derived(r) == memo[r][Subject(r)]

NextTemplate(r) ==
  /\ reader' = [reader EXCEPT ![r].todo = Tail(@), ![r].at = "stat"]
  /\ UNCHANGED <<cache, memo>>

Last(r) == Len(reader[r].todo) = 1
Ready(b) == IF Last(b) THEN Leave(b) ELSE NextTemplate(b)

\* ImageExists: the daemon is the cache.  It may also fail to answer.
Inspect(b) ==
  /\ b \in Builders /\ reader[b].at = "inspect"
  /\ \/ Leave(b) /\ UNCHANGED returned
     \/ /\ Tag(Derived(b)) \in DOMAIN daemon
        /\ Ready(b)
        /\ returned' = returned \cup {Derived(b)}
     \/ /\ Tag(Derived(b)) \notin DOMAIN daemon
        /\ reader' = [reader EXCEPT ![b].at = "build"]
        /\ UNCHANGED <<cache, memo, returned>>
  /\ UNCHANGED <<source, daemon, header, boxes, counters>>

\* The expression imports what stageInputs wrote: the bytes already read.
Staged(b) == Derived(b)

\* nix builds the staged expression, then docker load replaces whatever the daemon
\* held under the tag; either may fail.  Until the load nothing is visible outside.
BuildAndLoad(b) ==
  /\ b \in Builders /\ reader[b].at = "build"
  /\ \/ Leave(b) /\ UNCHANGED <<daemon, returned>>
     \/ LET g == Tag(Derived(b)) IN
        /\ daemon' = [x \in DOMAIN daemon \cup {g} |-> IF x = g THEN Staged(b) ELSE daemon[x]]
        /\ returned' = returned \cup {Derived(b)}
        /\ Ready(b)
  /\ UNCHANGED <<source, header, boxes, counters>>

-----------------------------------------------------------------------------
(* A run: preflight, the journal, the boxes. *)

Passed(p) ==
  IF Last(p)
    THEN reader' = [reader EXCEPT ![p].at = "open"] /\ UNCHANGED <<cache, memo>>
    ELSE NextTemplate(p)

\* Nothing of the run exists yet, so an audit does not see it.
Preflight(p) ==
  /\ p \in RunIds /\ reader[p].at = "inspect"
  /\ \/ Tag(Derived(p)) \notin DOMAIN daemon /\ Leave(p)
     \/ Tag(Derived(p)) \in DOMAIN daemon /\ Passed(p)
  /\ UNCHANGED <<source, daemon, header, boxes, returned, counters>>

\* resolveImages: the derivation of every template, for the journal's header.
ResolveImages(p) == [t \in Names |-> memo[p][t]]

\* checkImageDrift: a resume under another derivation is refused.
Drifted(p) ==
  \E t \in DOMAIN header[p] : Tag(ResolveImages(p)[t]) # Tag(header[p][t])

\* openRun: a fresh journal records the derivation, a resume compares with it; one
\* that is refused leaves the run as an audit told it.
OpenRun(p) ==
  /\ p \in RunIds /\ reader[p].at = "open"
  /\ \/ /\ runs[p] # "none" /\ Drifted(p)
        /\ Leave(p) /\ UNCHANGED <<header, runs>>
     \/ /\ runs[p] = "none" \/ ~Drifted(p)
        /\ reader' = [reader EXCEPT ![p].at = "running"]
        /\ header' = IF runs[p] = "none" THEN [header EXCEPT ![p] = ResolveImages(p)] ELSE header
        /\ runs' = [runs EXCEPT ![p] = "live"]
        /\ UNCHANGED <<cache, memo>>
  /\ UNCHANGED <<source, daemon, boxes, returned, counters>>

\* Mutant: the tag is derived again at every node.
TagFromDisk(p, t) ==
  Tag([memo[p][t] EXCEPT !.hook = source[t].hook, !.skills = source[t].skills])

\* imageTagger.Tag: a template seen before keeps its tag.
TagOf(p, t) == Tag(memo[p][t])

\* A box starts from the image the daemon holds under the node's tag.
StartBox(p, t) ==
  /\ p \in RunIds /\ reader[p].at = "running"
  /\ TagOf(p, t) \in DOMAIN daemon
  /\ boxes' = [boxes EXCEPT ![p] = @ \cup {daemon[TagOf(p, t)]}]
  /\ UNCHANGED <<runs, source, daemon, reader, cache, memo, header, returned, counters>>

\* The run appends its end marker, or its process dies.
StopRun(p) ==
  /\ p \in RunIds /\ reader[p].at = "running"
  /\ Leave(p)
  /\ \E s \in {"ended", "unfinished"} : runs' = [runs EXCEPT ![p] = s]
  /\ UNCHANGED <<source, daemon, header, boxes, returned, counters>>

-----------------------------------------------------------------------------
\* The operator edits a hook or the skills of a template.
Edit(t) ==
  /\ edits < MaxEdits
  /\ \E s \in Sources \ {source[t]} : source' = [source EXCEPT ![t] = s]
  /\ edits' = edits + 1
  /\ UNCHANGED <<daemon, reader, cache, memo, header, boxes, returned, builds, resumes>>

Imaging ==
  \/ /\ \/ \E t \in Names : Edit(t)
        \/ \E r \in Readers : StatBox(r) \/ ReadBox(r) \/ ReadInputs(r)
        \/ \E b \in Builders : StartBuild(b) \/ Inspect(b) \/ BuildAndLoad(b)
        \/ \E p \in RunIds : StartRun(p) \/ Preflight(p)
     /\ UNCHANGED runs
  \/ \E p \in RunIds : OpenRun(p) \/ StopRun(p) \/ (\E t \in Names : StartBox(p, t))
=============================================================================
