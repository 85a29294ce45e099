----------------------------- MODULE HostProofs -----------------------------
(***************************************************************************)
(* One host's images and its installed pair, proved for every number of    *)
(* builds, runs, templates and releases.                                   *)
(***************************************************************************)
EXTENDS Host, TLAPS

-----------------------------------------------------------------------------
(* Images                                                                  *)

Ats == {"idle", "stat", "read", "inputs", "inspect", "build", "open", "running"}

\* The type of what the image builds and the runs keep, as far as a step needs it.
ImageTyped ==
  /\ source \in [Names -> Sources]
  /\ reader \in [Readers -> [at : Ats, todo : Seq(Names), stat : Releases \cup {None},
                             box : Releases \cup {None}]]
  /\ cache \in [Readers -> [stat : Releases \cup {None}, data : Releases \cup {None}]]
  /\ DOMAIN memo = Readers /\ DOMAIN header = RunIds
  /\ boxes \in [RunIds -> SUBSET Inputs]
  /\ returned \subseteq Inputs

\* A tag in the daemon is the tag of the image under it.
Held == \A g \in DOMAIN daemon : daemon[g] \in Inputs /\ Tag(daemon[g]) = g

\* What r remembers of a template are inputs of that template.
Derives(r) == \A t \in DOMAIN memo[r] : memo[r][t] \in Inputs /\ memo[r][t].tpl = t

\* A process that has passed n templates has derived their inputs, and the one it
\* inspects; cached bytes are those of a file that was there.
Reading(r) ==
  /\ cache[r].stat # None => cache[r].data # None
  /\ reader[r].at = "inputs" => reader[r].box # None
  /\ reader[r].at \in {"stat", "read", "inputs", "inspect", "build"} => reader[r].todo # << >>
  /\ reader[r].at \in {"inspect", "build"} => Head(reader[r].todo) \in DOMAIN memo[r]
  /\ reader[r].at \in {"stat", "read", "inputs", "inspect", "build"} =>
       \A n \in Names : n \in DOMAIN memo[r]
                        \/ \E i \in 1..Len(reader[r].todo) : reader[r].todo[i] = n
  /\ reader[r].at \in {"open", "running"} => Names \subseteq DOMAIN memo[r]

Gathered == \A r \in Readers : Derives(r) /\ Reading(r)

\* What a run's journal records of its images, and what it started from.
Journaled(p) ==
  /\ reader[p].at \in {"stat", "read", "inputs", "inspect", "open"} =>
       runs[p] \in {"none", "unfinished", "ended"}
  /\ reader[p].at = "running" =>
       runs[p] = "live" /\ \A t \in Names : Tag(memo[p][t]) = Tag(header[p][t])
  /\ runs[p] = "none" => boxes[p] = {}
  /\ runs[p] # "none" =>
       /\ DOMAIN header[p] = Names
       /\ \A t \in Names : header[p][t] \in Inputs /\ header[p][t].tpl = t
  /\ \A b \in boxes[p] : Tag(b) = Tag(header[p][b.tpl])

Recorded == \A p \in RunIds : Journaled(p)

\* Every image a build returned is still there, under its tag.
Returned == \A in \in returned : Tag(in) \in DOMAIN daemon

ImageInv == InstalledTypeOK /\ ImageTyped /\ Held /\ Gathered /\ Recorded /\ Returned

\* Tags tell inputs apart unless both an absent and an empty skills leg occur.
LEMMA TagsApart ==
  ASSUME ~({"absent", "empty"} \subseteq Legs), NEW a \in Inputs, NEW b \in Inputs, Tag(a) = Tag(b)
  PROVE  a = b
<1>1. Legs \subseteq {"absent", "empty", "files"}
  BY ImageAssumption
<1>2. /\ Tag(a).tpl = a.tpl /\ Tag(a).box = a.box /\ Tag(a).hook = a.hook
      /\ Tag(a).skills = (IF a.skills = "files" THEN "files" ELSE "absent")
      /\ Tag(b).tpl = b.tpl /\ Tag(b).box = b.box /\ Tag(b).hook = b.hook
      /\ Tag(b).skills = (IF b.skills = "files" THEN "files" ELSE "absent")
  BY DEF Tag, Inputs
<1>3. a.skills \in Legs /\ b.skills \in Legs
  BY DEF Inputs
<1>4. a.tpl = b.tpl /\ a.box = b.box /\ a.hook = b.hook /\ a.skills = b.skills
  BY <1>1, <1>2, <1>3
<1> QED
  BY <1>4 DEF Inputs

\* Inputs with one tag are of one template.
LEMMA TagOfTemplate ==
  ASSUME NEW a \in Inputs, NEW b \in Inputs, Tag(a) = Tag(b)
  PROVE  a.tpl = b.tpl
<1>1. Tag(a).tpl = a.tpl /\ Tag(b).tpl = b.tpl
  BY DEF Tag, Inputs
<1> QED
  BY <1>1

\* A process that ends forgets, and promises nothing.
LEMMA LeaveKeeps ==
  ASSUME ImageTyped, Gathered, Recorded, NEW r \in Readers, Leave(r),
         UNCHANGED <<source, header, boxes, runs>>, returned' \subseteq Inputs
  PROVE  ImageTyped' /\ Gathered' /\ Recorded'
<1>1. Idle \in [at : Ats, todo : Seq(Names), stat : Releases \cup {None}, box : Releases \cup {None}]
  BY DEF Idle, Ats
<1>2. NoBox \in [stat : Releases \cup {None}, data : Releases \cup {None}]
  BY DEF NoBox
<1>3. ImageTyped'
  BY <1>1, <1>2 DEF ImageTyped, Leave
<1>4. reader'[r].at = "idle" /\ cache'[r].stat = None /\ memo'[r] = << >>
  BY DEF ImageTyped, Leave, Idle, NoBox
<1>5. \A q \in Readers \ {r} : reader'[q] = reader[q] /\ cache'[q] = cache[q] /\ memo'[q] = memo[q]
  BY DEF ImageTyped, Leave
<1>6. Gathered'
  BY <1>4, <1>5 DEF Gathered, Derives, Reading
<1>7. Recorded'
  BY <1>4, <1>5 DEF Recorded, Journaled, Readers
<1> QED
  BY <1>3, <1>6, <1>7

\* A process that moves on, remembering what it did: the others are not concerned.
LEMMA OthersKeep ==
  ASSUME Gathered, Recorded, ImageTyped, NEW r \in Readers,
         \A q \in Readers \ {r} : reader'[q] = reader[q] /\ cache'[q] = cache[q] /\ memo'[q] = memo[q],
         UNCHANGED <<header, boxes, runs>>
  PROVE  /\ Derives(r)' /\ Reading(r)' => Gathered'
         /\ (r \in RunIds => Journaled(r)') => Recorded'
BY DEF Gathered, Recorded, Derives, Reading, Journaled, Readers

\* Reading faber-box leaves the templates to do, and gives bytes that were there.
LEMMA BoxRead ==
  ASSUME NEW r, Derives(r), Reading(r), memo' = memo, reader'[r].todo = reader[r].todo,
         reader[r].at \in {"stat", "read"}, reader'[r].at \in {"read", "inputs"},
         cache'[r].stat # None => cache'[r].data # None,
         reader'[r].at = "inputs" => reader'[r].box # None
  PROVE  Derives(r)' /\ Reading(r)'
<1>1. Derives(r)'
  BY DEF Derives
<1>2. Reading(r)'
  BY DEF Reading
<1> QED
  BY <1>1, <1>2

\* The first template of a process that starts.
LEMMA BeginKeeps ==
  ASSUME ImageInv, NEW r \in Readers, reader[r].at = "idle", Begin(r),
         UNCHANGED <<source, header, boxes, runs, returned>>,
         r \in RunIds => runs[r] \in {"none", "unfinished", "ended"}
  PROVE  ImageTyped' /\ Gathered' /\ Recorded'
<1> USE DEF ImageInv
<1>1. /\ Templates \in Seq(Names) /\ Templates # << >>
      /\ \A n \in Names : \E i \in 1..Len(Templates) : Templates[i] = n
  <2>1. Templates \in Seq(Names) /\ Templates # << >>
    BY TemplatesAssumption
  <2>2. \A n \in Names : \E i \in 1..Len(Templates) : Templates[i] = n
    BY DEF Names
  <2> QED
    BY <2>1, <2>2
<1> DEFINE start == [Idle EXCEPT !.at = "stat", !.todo = Templates]
<1>2. /\ start \in [at : Ats, todo : Seq(Names), stat : Releases \cup {None}, box : Releases \cup {None}]
      /\ start.at = "stat" /\ start.todo = Templates
  <2>1. Idle \in [at : Ats, todo : Seq(Names), stat : Releases \cup {None}, box : Releases \cup {None}]
    BY DEF Idle, Ats
  <2> QED
    BY <1>1, <2>1 DEF Ats
<1>3. reader' = [reader EXCEPT ![r] = start] /\ UNCHANGED <<cache, memo>>
  BY DEF Begin
<1> HIDE DEF start
<1>4. /\ ImageTyped'
      /\ reader'[r].at = "stat" /\ reader'[r].todo = Templates
      /\ cache'[r] = cache[r] /\ memo'[r] = memo[r]
      /\ \A q \in Readers \ {r} : reader'[q] = reader[q] /\ cache'[q] = cache[q] /\ memo'[q] = memo[q]
  BY <1>2, <1>3 DEF ImageTyped
<1>5. Derives(r)' /\ Reading(r)'
  BY <1>1, <1>4 DEF Gathered, Derives, Reading
<1>6. r \in RunIds => Journaled(r)'
  BY <1>4 DEF Recorded, Journaled
<1> QED
  BY <1>4, <1>5, <1>6, OthersKeep

\* readBox's stat: the cached bytes stand for the file, or the file is read.
LEMMA StatKeeps ==
  ASSUME ImageInv, NEW r \in Readers, StatBox(r), UNCHANGED runs
  PROVE  ImageTyped' /\ Gathered' /\ Recorded'
<1> USE DEF ImageInv
<1>1. CASE Leave(r)
  BY <1>1, LeaveKeeps DEF StatBox, ImageTyped
<1>2. CASE ~Leave(r)
  <2>1. /\ reader[r].at = "stat" /\ live["box"] \in Releases \cup {None} /\ live["box"] # None
        /\ UNCHANGED <<cache, memo, source, daemon, header, boxes, returned>>
        /\ reader' = [reader EXCEPT
                        ![r].stat = live["box"],
                        ![r].box = IF cache[r].stat = live["box"] THEN cache[r].data ELSE None,
                        ![r].at = IF cache[r].stat = live["box"] THEN "inputs" ELSE "read"]
    BY <1>2 DEF StatBox, InstalledTypeOK, Tools
  <2>2. /\ reader[r] \in [at : Ats, todo : Seq(Names), stat : Releases \cup {None},
                          box : Releases \cup {None}]
        /\ cache[r] \in [stat : Releases \cup {None}, data : Releases \cup {None}]
    BY DEF ImageTyped
  <2>3. ImageTyped'
    BY <2>1, <2>2 DEF ImageTyped, Ats
  <2>4. /\ reader'[r].at = IF cache[r].stat = live["box"] THEN "inputs" ELSE "read"
        /\ reader'[r].box = IF cache[r].stat = live["box"] THEN cache[r].data ELSE None
        /\ reader'[r].todo = reader[r].todo
        /\ \A q \in Readers \ {r} : reader'[q] = reader[q]
    BY <2>1, <2>2 DEF ImageTyped
  <2>5. Derives(r)' /\ Reading(r)'
    <3>1. Derives(r) /\ Reading(r)
      BY DEF Gathered
    <3>2. cache[r].stat # None => cache[r].data # None
      BY <3>1 DEF Reading
    <3>3. /\ reader'[r].at \in {"read", "inputs"}
          /\ reader'[r].at = "inputs" => reader'[r].box # None
      BY <2>1, <2>4, <3>2
    <3>4. cache'[r].stat # None => cache'[r].data # None
      BY <2>1, <2>4, <3>2
    <3>5. memo' = memo /\ reader'[r].todo = reader[r].todo /\ reader[r].at \in {"stat", "read"}
      BY <2>1, <2>4
    <3> QED
      BY <3>1, <3>3, <3>4, <3>5, BoxRead
  <2>6. r \in RunIds => Journaled(r)'
    BY <2>1, <2>4 DEF Recorded, Journaled
  <2> QED
    BY <2>1, <2>3, <2>4, <2>5, <2>6, OthersKeep
<1> QED
  BY <1>1, <1>2

\* readBox's read: the bytes at the path, whatever the stat saw.
LEMMA ReadKeeps ==
  ASSUME ImageInv, NEW r \in Readers, ReadBox(r), UNCHANGED runs
  PROVE  ImageTyped' /\ Gathered' /\ Recorded'
<1> USE DEF ImageInv
<1>1. CASE Leave(r)
  BY <1>1, LeaveKeeps DEF ReadBox, ImageTyped
<1>2. CASE ~Leave(r)
  <2>1. /\ reader[r].at = "read" /\ live["box"] \in Releases \cup {None} /\ live["box"] # None
        /\ UNCHANGED <<memo, source, daemon, header, boxes, returned>>
        /\ reader' = [reader EXCEPT ![r].box = live["box"], ![r].at = "inputs"]
        /\ cache' = [cache EXCEPT ![r] = [stat |-> reader[r].stat, data |-> live["box"]]]
    BY <1>2 DEF ReadBox, InstalledTypeOK, Tools
  <2>2. reader[r] \in [at : Ats, todo : Seq(Names), stat : Releases \cup {None},
                       box : Releases \cup {None}]
    BY DEF ImageTyped
  <2>3. ImageTyped'
    BY <2>1, <2>2 DEF ImageTyped, Ats
  <2>4. /\ reader'[r].at = "inputs" /\ reader'[r].box = live["box"]
        /\ reader'[r].todo = reader[r].todo /\ cache'[r].data = live["box"]
        /\ \A q \in Readers \ {r} : reader'[q] = reader[q] /\ cache'[q] = cache[q]
    BY <2>1, <2>2 DEF ImageTyped
  <2>5. Derives(r)' /\ Reading(r)'
    <3>1. Derives(r) /\ Reading(r)
      BY DEF Gathered
    <3>2. cache[r].stat # None => cache[r].data # None
      BY <3>1 DEF Reading
    <3>3. /\ reader'[r].at \in {"read", "inputs"}
          /\ reader'[r].at = "inputs" => reader'[r].box # None
      BY <2>1, <2>4, <3>2
    <3>4. cache'[r].stat # None => cache'[r].data # None
      BY <2>1, <2>4, <3>2
    <3>5. memo' = memo /\ reader'[r].todo = reader[r].todo /\ reader[r].at \in {"stat", "read"}
      BY <2>1, <2>4
    <3> QED
      BY <3>1, <3>3, <3>4, <3>5, BoxRead
  <2>6. r \in RunIds => Journaled(r)'
    BY <2>1, <2>4 DEF Recorded, Journaled
  <2> QED
    BY <2>1, <2>3, <2>4, <2>5, <2>6, OthersKeep
<1> QED
  BY <1>1, <1>2

\* The first of the templates to do is a template.
LEMMA SubjectNamed ==
  ASSUME ImageTyped, NEW r \in Readers, reader[r].todo # << >>
  PROVE  /\ Subject(r) \in Names
         /\ Len(reader[r].todo) \in Nat \ {0}
         /\ Tail(reader[r].todo) \in Seq(Names)
         /\ Len(Tail(reader[r].todo)) = Len(reader[r].todo) - 1
         /\ \A i \in 1..Len(reader[r].todo) :
              \/ i = 1 /\ reader[r].todo[i] = Subject(r)
              \/ i - 1 \in 1..Len(Tail(reader[r].todo)) /\ Tail(reader[r].todo)[i - 1] = reader[r].todo[i]
<1>1. reader[r].todo \in Seq(Names)
  BY DEF ImageTyped
<1> DEFINE q == reader[r].todo
<1>2. q \in Seq(Names) /\ q # << >>
  BY <1>1
<1> HIDE DEF q
<1>3. /\ Head(q) \in Names /\ Len(q) \in Nat \ {0} /\ Tail(q) \in Seq(Names)
      /\ Len(Tail(q)) = Len(q) - 1 /\ Head(q) = q[1]
  BY <1>2
<1>4. \A j \in 1..Len(Tail(q)) : Tail(q)[j] = q[j + 1]
  BY <1>2
<1>5. ASSUME NEW i \in 1..Len(q), i # 1
      PROVE  i - 1 \in 1..Len(Tail(q)) /\ Tail(q)[i - 1] = q[i]
  <2>1. i - 1 \in 1..Len(Tail(q)) /\ (i - 1) + 1 = i
    BY <1>3, <1>5
  <2> QED
    BY <1>4, <2>1
<1>6. \A i \in 1..Len(q) :
        (i = 1 /\ q[i] = Head(q)) \/ (i - 1 \in 1..Len(Tail(q)) /\ Tail(q)[i - 1] = q[i])
  BY <1>3, <1>5
<1>7. Subject(r) = Head(q)
  BY DEF q, Subject
<1> QED
  BY ONLY <1>3, <1>6, <1>7 DEF q

\* The hook and the skills complete the inputs of the template at hand.
LEMMA InputsKeeps ==
  ASSUME ImageInv, NEW r \in Readers, ReadInputs(r), UNCHANGED runs
  PROVE  ImageTyped' /\ Gathered' /\ Recorded'
<1> USE DEF ImageInv
<1>1. CASE Leave(r)
  BY <1>1, LeaveKeeps DEF ReadInputs, ImageTyped
<1>2. CASE ~Leave(r)
  <2> DEFINE t  == Subject(r)
             in == [tpl |-> t, box |-> reader[r].box, hook |-> source[t].hook, skills |-> ReadTree(t)]
  <2>1. /\ reader[r].at = "inputs"
        /\ memo' = [memo EXCEPT ![r] = [x \in DOMAIN memo[r] \cup {t} |-> IF x = t THEN in ELSE memo[r][x]]]
        /\ reader' = [reader EXCEPT ![r].at = "inspect"]
        /\ UNCHANGED <<cache, source, daemon, header, boxes, returned>>
    BY <1>2 DEF ReadInputs
  <2>2. /\ reader[r] \in [at : Ats, todo : Seq(Names), stat : Releases \cup {None},
                          box : Releases \cup {None}]
        /\ reader[r].todo # << >> /\ reader[r].box # None
    BY <2>1 DEF ImageTyped, Gathered, Reading
  <2>3. t \in Names
    BY <2>2, SubjectNamed
  <2>4. in \in Inputs /\ in.tpl = t
    BY <2>2, <2>3 DEF ImageTyped, Sources, Inputs, ReadTree
  <2>5. ImageTyped'
    BY <2>1, <2>2 DEF ImageTyped, Ats
  <2>6. /\ memo'[r] = [x \in DOMAIN memo[r] \cup {t} |-> IF x = t THEN in ELSE memo[r][x]]
        /\ reader'[r].at = "inspect" /\ reader'[r].todo = reader[r].todo
        /\ reader'[r].box = reader[r].box
        /\ \A q \in Readers \ {r} : reader'[q] = reader[q] /\ memo'[q] = memo[q]
    BY <2>1, <2>2 DEF ImageTyped
  <2>7. Derives(r)
    BY DEF Gathered
  <2>8. Head(reader[r].todo) = t
    BY DEF Subject
  <2> HIDE DEF in, t
  <2>9. Derives(r)'
    BY <2>4, <2>6, <2>7 DEF Derives
  <2>10. Reading(r)'
    BY <2>1, <2>2, <2>6, <2>8 DEF Gathered, Reading
  <2>11. r \in RunIds => Journaled(r)'
    BY <2>1, <2>6 DEF Recorded, Journaled
  <2> QED
    BY <2>1, <2>5, <2>6, <2>9, <2>10, <2>11, OthersKeep
<1> QED
  BY <1>1, <1>2

\* On to the next template, with the inputs of the one at hand derived.
LEMMA NextKeeps ==
  ASSUME ImageInv, NEW r \in Readers, reader[r].at \in {"inspect", "build"}, ~Last(r),
         NextTemplate(r), UNCHANGED <<source, header, boxes, runs>>, returned' \subseteq Inputs,
         r \in RunIds => reader[r].at = "inspect"
  PROVE  ImageTyped' /\ Gathered' /\ Recorded'
<1> USE DEF ImageInv
<1> DEFINE q == reader[r].todo
<1>1. /\ reader[r] \in [at : Ats, todo : Seq(Names), stat : Releases \cup {None},
                        box : Releases \cup {None}]
      /\ q # << >> /\ Head(q) \in DOMAIN memo[r]
  BY DEF ImageTyped, Gathered, Reading
<1>2. /\ Len(q) \in Nat \ {0} /\ Tail(q) \in Seq(Names) /\ Len(Tail(q)) = Len(q) - 1
      /\ Len(q) # 1
      /\ \A i \in 1..Len(q) :
           (i = 1 /\ q[i] = Head(q)) \/ (i - 1 \in 1..Len(Tail(q)) /\ Tail(q)[i - 1] = q[i])
  BY <1>1, SubjectNamed DEF Last, Subject
<1>3. /\ reader' = [reader EXCEPT ![r].todo = Tail(q), ![r].at = "stat"]
      /\ UNCHANGED <<cache, memo, source, header, boxes, runs>>
  BY DEF NextTemplate
<1> HIDE DEF q
<1>4. ImageTyped'
  BY <1>1, <1>2, <1>3 DEF ImageTyped, Ats
<1>5. /\ reader'[r].at = "stat" /\ reader'[r].todo = Tail(q)
      /\ \A p \in Readers \ {r} : reader'[p] = reader[p]
  BY <1>1, <1>3 DEF ImageTyped
<1>6. ASSUME NEW n \in Names
      PROVE  n \in DOMAIN memo[r] \/ \E i \in 1..Len(Tail(q)) : Tail(q)[i] = n
  <2>1. n \in DOMAIN memo[r] \/ \E i \in 1..Len(q) : q[i] = n
    BY DEF Gathered, Reading, q
  <2> QED
    BY <1>1, <1>2, <2>1
<1>7. Tail(q) # << >>
  <2>1. Len(Tail(q)) > 0 /\ Len(<< >>) = 0
    BY <1>2
  <2> QED
    BY <2>1
<1>8. Derives(r)'
  BY <1>3 DEF Gathered, Derives
<1>9. Reading(r)'
  <2>1. Reading(r) /\ cache' = cache /\ memo' = memo
    BY <1>3 DEF Gathered
  <2> QED
    BY <1>5, <1>6, <1>7, <2>1 DEF Reading
<1>10. r \in RunIds => Journaled(r)'
  BY <1>3, <1>5 DEF Recorded, Journaled
<1> QED
  BY <1>3, <1>4, <1>5, <1>8, <1>9, <1>10, OthersKeep

\* ImageExists: what the daemon holds under the tag is returned.
LEMMA InspectKeeps ==
  ASSUME ImageInv, NEW b \in Builders, Inspect(b), UNCHANGED runs
  PROVE  ImageTyped' /\ Gathered' /\ Recorded' /\ Returned' /\ Held'
<1> USE DEF ImageInv
<1>1. /\ b \in Readers /\ b \notin RunIds /\ reader[b].at = "inspect"
      /\ UNCHANGED <<source, daemon, header, boxes>>
  BY ImageAssumption DEF Inspect, Readers
<1>2. Derived(b) \in Inputs
  BY <1>1 DEF Gathered, Reading, Derives, Derived, Subject
<1>3. Held'
  BY <1>1 DEF Held
<1>4. CASE Leave(b) /\ UNCHANGED returned
  BY <1>1, <1>3, <1>4, LeaveKeeps DEF Returned, ImageTyped
<1>5. CASE Tag(Derived(b)) \in DOMAIN daemon /\ Ready(b) /\ returned' = returned \cup {Derived(b)}
  <2>1. returned' \subseteq Inputs /\ Returned'
    BY <1>1, <1>2, <1>5 DEF ImageTyped, Returned
  <2> QED
    BY <1>1, <1>3, <1>5, <2>1, LeaveKeeps, NextKeeps DEF Ready
<1>6. CASE reader' = [reader EXCEPT ![b].at = "build"] /\ UNCHANGED <<cache, memo, returned>>
  <2>1. reader[b] \in [at : Ats, todo : Seq(Names), stat : Releases \cup {None},
                       box : Releases \cup {None}]
    BY <1>1 DEF ImageTyped
  <2>2. ImageTyped'
    BY <1>1, <1>6, <2>1 DEF ImageTyped, Ats
  <2>3. /\ reader'[b].at = "build" /\ reader'[b].todo = reader[b].todo
        /\ \A q \in Readers \ {b} : reader'[q] = reader[q]
    BY <1>1, <1>6, <2>1 DEF ImageTyped
  <2>4. Derives(b)'
    BY <1>1, <1>6 DEF Gathered, Derives
  <2>5. Reading(b)'
    BY <1>1, <1>6, <2>3 DEF Gathered, Reading
  <2> QED
    BY <1>1, <1>3, <1>6, <2>2, <2>3, <2>4, <2>5, OthersKeep DEF Returned
<1> QED
  BY <1>4, <1>5, <1>6 DEF Inspect

\* docker load: the image under the tag is built from the very inputs it is of.
LEMMA LoadKeeps ==
  ASSUME ImageInv, NEW b \in Builders, BuildAndLoad(b), UNCHANGED runs
  PROVE  ImageTyped' /\ Gathered' /\ Recorded' /\ Returned' /\ Held'
<1> USE DEF ImageInv
<1>1. /\ b \in Readers /\ b \notin RunIds /\ reader[b].at = "build"
      /\ UNCHANGED <<source, header, boxes>>
  BY ImageAssumption DEF BuildAndLoad, Readers
<1>2. Derived(b) \in Inputs
  BY <1>1 DEF Gathered, Reading, Derives, Derived, Subject
<1>3. CASE Leave(b) /\ UNCHANGED <<daemon, returned>>
  BY <1>1, <1>3, LeaveKeeps DEF Returned, Held, ImageTyped
<1>4. CASE ~(Leave(b) /\ UNCHANGED <<daemon, returned>>)
  <2> DEFINE g == Tag(Derived(b))
  <2>1. /\ daemon' = [x \in DOMAIN daemon \cup {g} |-> IF x = g THEN Staged(b) ELSE daemon[x]]
        /\ returned' = returned \cup {Derived(b)}
        /\ Ready(b)
    BY <1>4 DEF BuildAndLoad
  <2>2. Staged(b) \in Inputs /\ Tag(Staged(b)) = g
    BY <1>2 DEF Staged
  <2> HIDE DEF g
  <2>3. Held'
    BY <2>1, <2>2 DEF Held
  <2>4. returned' \subseteq Inputs
    BY <1>2, <2>1 DEF ImageTyped
  <2>5. Returned'
    BY <2>1 DEF Returned, g
  <2> QED
    BY <1>1, <2>1, <2>3, <2>4, <2>5, LeaveKeeps, NextKeeps DEF Ready
<1> QED
  BY <1>3, <1>4

\* preflight: a run opens with the inputs of every template in its tagger's memo.
LEMMA PreflightKeeps ==
  ASSUME ImageInv, NEW p \in RunIds, Preflight(p), UNCHANGED runs
  PROVE  ImageTyped' /\ Gathered' /\ Recorded'
<1> USE DEF ImageInv
<1>1. /\ p \in Readers /\ reader[p].at = "inspect"
      /\ UNCHANGED <<source, daemon, header, boxes, returned>>
  BY DEF Preflight, Readers
<1>2. CASE Leave(p)
  BY <1>1, <1>2, LeaveKeeps DEF ImageTyped
<1>3. CASE ~Last(p) /\ NextTemplate(p)
  BY <1>1, <1>3, NextKeeps DEF ImageTyped
<1>4. CASE Last(p) /\ reader' = [reader EXCEPT ![p].at = "open"] /\ UNCHANGED <<cache, memo>>
  <2>1. /\ reader[p] \in [at : Ats, todo : Seq(Names), stat : Releases \cup {None},
                          box : Releases \cup {None}]
        /\ reader[p].todo # << >> /\ Subject(p) \in DOMAIN memo[p]
    BY <1>1 DEF ImageTyped, Gathered, Reading, Subject
  <2>2. ImageTyped'
    BY <1>1, <1>4, <2>1 DEF ImageTyped, Ats
  <2>3. /\ reader'[p].at = "open" /\ reader'[p].todo = reader[p].todo
        /\ \A q \in Readers \ {p} : reader'[q] = reader[q]
    BY <1>1, <1>4, <2>1 DEF ImageTyped
  <2>4. Names \subseteq DOMAIN memo[p]
    <3>1. Len(reader[p].todo) = 1 /\ reader[p].todo[1] = Subject(p)
      BY <1>1, <1>4, <2>1, SubjectNamed DEF Last
    <3> QED
      BY <1>1, <2>1, <3>1 DEF Gathered, Reading
  <2>5. Derives(p)'
    BY <1>1, <1>4 DEF Gathered, Derives
  <2>6. Reading(p)'
    BY <1>1, <1>4, <2>3, <2>4 DEF Gathered, Reading
  <2>7. Journaled(p)'
    BY <1>1, <1>4, <2>3 DEF Recorded, Journaled
  <2> QED
    BY <1>1, <1>4, <2>2, <2>3, <2>5, <2>6, <2>7, OthersKeep
<1> QED
  BY <1>2, <1>3, <1>4 DEF Preflight, Passed

\* openRun: the journal records what the tagger derived, or agrees with it.
LEMMA OpenKeeps ==
  ASSUME ImageInv, NEW p \in RunIds, OpenRun(p)
  PROVE  ImageTyped' /\ Gathered' /\ Recorded' /\ runs' \in [RunIds -> {"none", "live", "unfinished", "ended"}]
<1> USE DEF ImageInv
<1>1. /\ p \in Readers /\ reader[p].at = "open" /\ runs[p] \in {"none", "unfinished", "ended"}
      /\ UNCHANGED <<source, daemon, boxes, returned>>
      /\ Names \subseteq DOMAIN memo[p] /\ Derives(p)
  BY DEF OpenRun, Readers, Gathered, Reading, Recorded, Journaled
<1>2. runs \in [RunIds -> {"none", "live", "unfinished", "ended"}]
  BY DEF InstalledTypeOK
<1>3. CASE Leave(p) /\ UNCHANGED <<header, runs>>
  BY <1>1, <1>2, <1>3, LeaveKeeps DEF ImageTyped
<1>4. CASE /\ runs[p] = "none" \/ ~Drifted(p)
           /\ reader' = [reader EXCEPT ![p].at = "running"]
           /\ header' = IF runs[p] = "none" THEN [header EXCEPT ![p] = ResolveImages(p)] ELSE header
           /\ runs' = [runs EXCEPT ![p] = "live"]
           /\ UNCHANGED <<cache, memo>>
  <2>1. reader[p] \in [at : Ats, todo : Seq(Names), stat : Releases \cup {None},
                       box : Releases \cup {None}]
    BY <1>1 DEF ImageTyped
  <2>2. ImageTyped'
    BY <1>1, <1>4, <2>1 DEF ImageTyped, Ats
  <2>3. /\ reader'[p].at = "running" /\ runs'[p] = "live"
        /\ \A q \in Readers \ {p} : reader'[q] = reader[q]
        /\ \A q \in RunIds \ {p} : runs'[q] = runs[q] /\ header'[q] = header[q]
    BY <1>1, <1>2, <1>4, <2>1 DEF ImageTyped
  <2>4. Gathered'
    <3>1. Derives(p)' /\ Reading(p)'
      BY <1>1, <1>4, <2>3 DEF Gathered, Derives, Reading
    <3>2. ASSUME NEW q \in Readers \ {p} PROVE Derives(q)' /\ Reading(q)'
      BY <1>4, <2>3 DEF Gathered, Derives, Reading
    <3> QED
      BY <3>1, <3>2 DEF Gathered
  <2>5. /\ DOMAIN header'[p] = Names
        /\ \A t \in Names : header'[p][t] \in Inputs /\ header'[p][t].tpl = t
        /\ \A t \in Names : Tag(memo[p][t]) = Tag(header'[p][t])
        /\ \A b \in boxes[p] : Tag(b) = Tag(header'[p][b.tpl])
    <3>1. CASE runs[p] = "none"
      <4>1. header'[p] = [t \in Names |-> memo[p][t]] /\ boxes[p] = {}
        BY <1>4, <3>1 DEF ImageTyped, ResolveImages, Recorded, Journaled
      <4> QED
        BY <1>1, <4>1 DEF Derives
    <3>2. CASE runs[p] # "none"
      <4>1. /\ header' = header /\ DOMAIN header[p] = Names
            /\ \A t \in Names : header[p][t] \in Inputs /\ header[p][t].tpl = t
            /\ \A b \in boxes[p] : Tag(b) = Tag(header[p][b.tpl])
        BY <1>4, <3>2 DEF Recorded, Journaled
      <4>2. \A t \in Names : Tag(memo[p][t]) = Tag(header[p][t])
        BY <1>4, <3>2, <4>1 DEF Drifted, ResolveImages
      <4> QED
        BY <4>1, <4>2
    <3> QED
      BY <3>1, <3>2
  <2>6. Journaled(p)'
    BY <1>1, <1>4, <2>3, <2>5 DEF Journaled
  <2>7. ASSUME NEW q \in RunIds \ {p} PROVE Journaled(q)'
    BY <1>1, <1>4, <2>3, <2>7 DEF Recorded, Journaled, Readers
  <2> QED
    BY <1>2, <1>4, <2>2, <2>4, <2>6, <2>7 DEF Recorded
<1> QED
  BY <1>3, <1>4 DEF OpenRun

\* A box starts from the image under the tag its run's tagger holds.
LEMMA StartKeeps ==
  ASSUME ImageInv, NEW p \in RunIds, NEW t \in Names, StartBox(p, t)
  PROVE  ImageTyped' /\ Gathered' /\ Recorded'
<1> USE DEF ImageInv
<1> DEFINE i == daemon[TagOf(p, t)]
<1>1. /\ reader[p].at = "running" /\ p \in Readers
      /\ boxes' = [boxes EXCEPT ![p] = boxes[p] \cup {i}]
      /\ TagOf(p, t) \in DOMAIN daemon
      /\ UNCHANGED <<runs, source, daemon, reader, cache, memo, header, returned>>
  BY DEF StartBox, Readers
<1>2. i \in Inputs /\ Tag(i) = TagOf(p, t)
  BY <1>1 DEF Held
<1>3. /\ runs[p] = "live" /\ Tag(i) = Tag(header[p][t])
      /\ header[p][t] \in Inputs /\ header[p][t].tpl = t
  BY <1>1, <1>2 DEF Recorded, Journaled, TagOf
<1>4. i.tpl = t
  BY <1>2, <1>3, TagOfTemplate
<1> HIDE DEF i
<1>5. ImageTyped'
  BY <1>1, <1>2 DEF ImageTyped
<1>6. Gathered'
  BY <1>1 DEF Gathered, Derives, Reading
<1>7. /\ boxes'[p] = boxes[p] \cup {i}
      /\ \A q \in RunIds \ {p} : boxes'[q] = boxes[q]
  BY <1>1 DEF ImageTyped
<1>8. Journaled(p)'
  BY <1>1, <1>3, <1>4, <1>7 DEF Recorded, Journaled
<1>9. ASSUME NEW q \in RunIds \ {p} PROVE Journaled(q)'
  BY <1>1, <1>7 DEF Recorded, Journaled
<1> QED
  BY <1>5, <1>6, <1>8, <1>9 DEF Recorded

\* A run that stops has a journal with its images.
LEMMA StopKeeps ==
  ASSUME ImageInv, NEW p \in RunIds, StopRun(p)
  PROVE  ImageTyped' /\ Gathered' /\ Recorded' /\ runs' \in [RunIds -> {"none", "live", "unfinished", "ended"}]
<1> USE DEF ImageInv
<1>1. /\ p \in Readers /\ reader[p].at = "running" /\ runs[p] = "live"
      /\ Leave(p) /\ UNCHANGED <<source, daemon, header, boxes, returned>>
  BY DEF StopRun, Readers, Recorded, Journaled
<1>2. PICK s \in {"ended", "unfinished"} : runs' = [runs EXCEPT ![p] = s]
  BY DEF StopRun
<1>3. runs \in [RunIds -> {"none", "live", "unfinished", "ended"}]
  BY DEF InstalledTypeOK
<1>4. ImageTyped' /\ reader'[p].at = "idle" /\ cache'[p].stat = None /\ memo'[p] = << >>
      /\ \A q \in Readers \ {p} : reader'[q] = reader[q] /\ cache'[q] = cache[q] /\ memo'[q] = memo[q]
  <2>1. Idle \in [at : Ats, todo : Seq(Names), stat : Releases \cup {None}, box : Releases \cup {None}]
        /\ Idle.at = "idle"
    BY DEF Idle, Ats
  <2>2. NoBox \in [stat : Releases \cup {None}, data : Releases \cup {None}] /\ NoBox.stat = None
    BY DEF NoBox
  <2> QED
    BY <1>1, <2>1, <2>2 DEF ImageTyped, Leave
<1>5. Gathered'
  <2>1. Derives(p)' /\ Reading(p)'
    BY <1>4 DEF Derives, Reading
  <2>2. ASSUME NEW q \in Readers \ {p} PROVE Derives(q)' /\ Reading(q)'
    BY <1>4 DEF Gathered, Derives, Reading
  <2> QED
    BY <2>1, <2>2 DEF Gathered
<1>6. runs'[p] \in {"ended", "unfinished"} /\ \A q \in RunIds \ {p} : runs'[q] = runs[q]
  BY <1>2, <1>3
<1>7. Journaled(p)'
  BY <1>1, <1>4, <1>6 DEF Recorded, Journaled
<1>8. ASSUME NEW q \in RunIds \ {p} PROVE Journaled(q)'
  BY <1>1, <1>4, <1>6 DEF Recorded, Journaled, Readers
<1> QED
  BY <1>2, <1>3, <1>4, <1>5, <1>7, <1>8 DEF Recorded

\* Images are derived, built, journaled and started as ImageInv says.
LEMMA ImageStep == ImageInv /\ live' \in [Tools -> Releases \cup {None}]
                   /\ bak' \in [Tools -> Releases \cup {None}] /\ [Next]_vars => ImageInv'
<1> SUFFICES ASSUME ImageInv, live' \in [Tools -> Releases \cup {None}],
                    bak' \in [Tools -> Releases \cup {None}], [Next]_vars
             PROVE  ImageInv'
  OBVIOUS
<1>1. runs \in [RunIds -> {"none", "live", "unfinished", "ended"}]
  BY DEF ImageInv, InstalledTypeOK
<1>2. CASE UNCHANGED <<runs, imageVars>>
  <2>1. UNCHANGED <<runs, source, daemon, reader, cache, memo, header, boxes, returned>>
    BY <1>2 DEF imageVars
  <2>2. ImageTyped'
    BY <2>1 DEF ImageInv, ImageTyped
  <2>3. Held' /\ Returned'
    BY <2>1 DEF ImageInv, Held, Returned
  <2>4. Gathered'
    BY <2>1 DEF ImageInv, Gathered, Derives, Reading
  <2>5. Recorded'
    BY <2>1 DEF ImageInv, Recorded, Journaled
  <2> QED
    BY <1>1, <2>1, <2>2, <2>3, <2>4, <2>5 DEF ImageInv, InstalledTypeOK
<1>3. ASSUME NEW t \in Names, Edit(t), UNCHANGED runs PROVE ImageInv'
  <2>1. UNCHANGED <<runs, daemon, reader, cache, memo, header, boxes, returned>>
    BY <1>3 DEF Edit
  <2>2. source' \in [Names -> Sources]
    BY <1>3 DEF ImageInv, ImageTyped, Edit
  <2>3. ImageTyped'
    BY <2>1, <2>2 DEF ImageInv, ImageTyped
  <2>4. Held' /\ Returned' /\ Gathered'
    BY <2>1 DEF ImageInv, Held, Returned, Gathered, Derives, Reading
  <2>5. Recorded'
    BY <2>1 DEF ImageInv, Recorded, Journaled
  <2> QED
    BY <1>1, <2>1, <2>3, <2>4, <2>5 DEF ImageInv, InstalledTypeOK
<1>4. ASSUME NEW r \in Readers, StatBox(r) \/ ReadBox(r) \/ ReadInputs(r), UNCHANGED runs
      PROVE  ImageInv'
  <2>1. Held' /\ Returned'
    BY <1>4 DEF ImageInv, Held, Returned, StatBox, ReadBox, ReadInputs
  <2> QED
    BY <1>1, <1>4, <2>1, StatKeeps, ReadKeeps, InputsKeeps DEF ImageInv, InstalledTypeOK
<1>5. ASSUME NEW b \in Builders, StartBuild(b), UNCHANGED runs PROVE ImageInv'
  <2>1. /\ b \in Readers /\ b \notin RunIds /\ reader[b].at = "idle" /\ Begin(b)
        /\ UNCHANGED <<source, daemon, header, boxes, returned>>
    BY <1>5, ImageAssumption DEF StartBuild, Readers
  <2>2. Held' /\ Returned'
    BY <2>1 DEF ImageInv, Held, Returned
  <2> QED
    BY <1>1, <1>5, <2>1, <2>2, BeginKeeps DEF ImageInv, InstalledTypeOK
<1>6. ASSUME NEW p \in RunIds, StartRun(p), UNCHANGED runs PROVE ImageInv'
  <2>1. /\ p \in Readers /\ reader[p].at = "idle" /\ Begin(p) /\ runs[p] \in {"none", "unfinished", "ended"}
        /\ UNCHANGED <<source, daemon, header, boxes, returned>>
    BY <1>6 DEF StartRun, Readers
  <2>2. Held' /\ Returned'
    BY <2>1 DEF ImageInv, Held, Returned
  <2> QED
    BY <1>1, <1>6, <2>1, <2>2, BeginKeeps DEF ImageInv, InstalledTypeOK
<1>7. ASSUME NEW b \in Builders, Inspect(b) \/ BuildAndLoad(b), UNCHANGED runs PROVE ImageInv'
  BY <1>1, <1>7, InspectKeeps, LoadKeeps DEF ImageInv, InstalledTypeOK
<1>8. ASSUME NEW p \in RunIds, Preflight(p), UNCHANGED runs PROVE ImageInv'
  <2>1. Held' /\ Returned'
    BY <1>8 DEF ImageInv, Held, Returned, Preflight
  <2> QED
    BY <1>1, <1>8, <2>1, PreflightKeeps DEF ImageInv, InstalledTypeOK
<1>9. ASSUME NEW p \in RunIds, OpenRun(p) \/ StopRun(p) PROVE ImageInv'
  <2>1. Held' /\ Returned'
    BY <1>9 DEF ImageInv, Held, Returned, OpenRun, StopRun
  <2> QED
    BY <1>9, <2>1, OpenKeeps, StopKeeps DEF ImageInv, InstalledTypeOK
<1>10. ASSUME NEW p \in RunIds, NEW t \in Names, StartBox(p, t) PROVE ImageInv'
  <2>1. Held' /\ Returned' /\ runs' = runs
    BY <1>10 DEF ImageInv, Held, Returned, StartBox
  <2> QED
    BY <1>1, <1>10, <2>1, StartKeeps DEF ImageInv, InstalledTypeOK
<1>11. CASE Upgrading /\ UNCHANGED imageVars
  <2>1. UNCHANGED runs
    BY <1>11 DEF Upgrading, Invoke, AuditGate, Resolve, FetchAndStage, MoveAside, MoveIn, Restore,
       Rollback
  <2> QED
    BY <1>2, <1>11, <2>1
<1>12. CASE Imaging
  BY <1>3, <1>4, <1>5, <1>6, <1>7, <1>8, <1>9, <1>10, <1>12 DEF Imaging
<1> QED
  BY <1>2, <1>11, <1>12 DEF Next, vars, imageVars

-----------------------------------------------------------------------------
(* The installed pair                                                      *)

UpType == [at : Stages, tool : Tools, plan : Plans \cup {NoPlan},
           tag : Releases \cup {None}, current : Releases \cup {None},
           before : [Tools -> Releases \cup {None}],
           exit : {"none", "same", "ok", "failed", "killed"}]

\* Every step of an upgrade leaves the binaries, the backups and itself typed.
LEMMA UpgradeStep ==
  ASSUME InstalledTypeOK, UpgradeTypeOK, NEW u \in Ups,
         \/ \E p \in Plans : Invoke(u, p)
         \/ AuditGate(u) \/ Resolve(u) \/ FetchAndStage(u)
         \/ MoveAside(u) \/ MoveIn(u) \/ Restore(u) \/ Rollback(u)
  PROVE  InstalledTypeOK' /\ UpgradeTypeOK'
<1> DEFINE T == Releases \cup {None}
           G == /\ live' \in [Tools -> T] /\ bak' \in [Tools -> T] /\ runs' = runs
                /\ up' \in [Ups -> UpType] /\ staged' \in [Ups -> [Tools -> T]]
                /\ made' \in 0..MaxUpgrades /\ replaced' \in [Tools -> T]
<1>0. /\ live \in [Tools -> T] /\ bak \in [Tools -> T]
      /\ up \in [Ups -> UpType] /\ staged \in [Ups -> [Tools -> T]]
      /\ made \in 0..MaxUpgrades /\ replaced \in [Tools -> T] /\ MaxUpgrades \in Nat
      /\ None \in T /\ "faber" \in Tools /\ "box" \in Tools
  BY UpgradeAssumption DEF InstalledTypeOK, UpgradeTypeOK, UpType, Tools
<1>1. SUFFICES G
  BY DEF InstalledTypeOK, UpgradeTypeOK, UpType
<1>2. up[u] \in UpType /\ up[u].tool \in Tools /\ up[u].tag \in T /\ up[u].before \in [Tools -> T]
  BY <1>0 DEF UpType
<1>3. ASSUME NEW s \in Stages, NEW t \in Tools, Go(u, s, t) PROVE up' \in [Ups -> UpType]
  <2>1. [up[u] EXCEPT !.at = s, !.tool = t] \in UpType
    BY <1>2, <1>3 DEF UpType
  <2> QED
    BY <1>0, <1>3, <2>1 DEF Go
<1>4. ASSUME NEW x \in {"none", "same", "ok", "failed", "killed"}, Exit(u, x)
      PROVE  up' \in [Ups -> UpType]
  <2>1. [up[u] EXCEPT !.at = "idle", !.exit = x] \in UpType
    BY <1>2, <1>4 DEF UpType, Stages
  <2> QED
    BY <1>0, <1>4, <2>1 DEF Exit
<1>5. \A v \in T : Pair(v) \in [Tools -> T]
  BY DEF Pair
<1>6. ASSUME NEW p \in Plans, Invoke(u, p) PROVE G
  <2>1. [at |-> "gate", tool |-> "faber", plan |-> p, tag |-> None,
         current |-> live["faber"], before |-> live, exit |-> "none"] \in UpType
    BY <1>0 DEF UpType, Stages
  <2> QED
    BY <1>0, <1>5, <1>6, <2>1 DEF Invoke
<1>7. CASE AuditGate(u)
  <2>1. up' \in [Ups -> UpType]
    BY <1>0, <1>3, <1>4, <1>7 DEF AuditGate, ScriptStage, Stages
  <2> QED
    BY <1>0, <1>7, <2>1 DEF AuditGate
<1>8. CASE Resolve(u)
  <2>1. ASSUME NEW v \in Offers(up[u].plan), up' = [up EXCEPT ![u].tag = v, ![u].at = "fetch"]
        PROVE  up' \in [Ups -> UpType]
    <3>1. v \in T
      <4>1. CASE up[u].plan \in Plans
        BY <2>1, <4>1, UpgradeAssumption DEF Offers, PlanType
      <4>2. CASE up[u].plan = NoPlan
        BY <2>1, <4>2 DEF Offers, NoPlan
      <4> QED
        BY <1>2, <4>1, <4>2 DEF UpType
    <3>2. [up[u] EXCEPT !.tag = v, !.at = "fetch"] \in UpType
      BY <1>2, <3>1 DEF UpType, Stages
    <3> QED
      BY <1>0, <2>1, <3>2
  <2>2. up' \in [Ups -> UpType]
    BY <1>4, <1>8, <2>1 DEF Resolve
  <2> QED
    BY <1>0, <1>8, <2>2 DEF Resolve
<1>9. CASE FetchAndStage(u)
  <2>1. up' \in [Ups -> UpType]
    BY <1>0, <1>3, <1>4, <1>9 DEF FetchAndStage, Stages
  <2>2. staged' \in [Ups -> [Tools -> T]]
    BY <1>0, <1>2, <1>5, <1>9 DEF FetchAndStage
  <2> QED
    BY <1>0, <1>9, <2>1, <2>2 DEF FetchAndStage
<1> HIDE DEF T
<1>10. CASE MoveAside(u)
  <2>1. up' \in [Ups -> UpType]
    BY <1>2, <1>3, <1>10 DEF MoveAside, Stages
  <2>2. live' \in [Tools -> T] /\ bak' \in [Tools -> T]
    BY <1>0, <1>2, <1>10 DEF MoveAside
  <2> QED
    BY <1>0, <1>10, <2>1, <2>2 DEF MoveAside
<1>11. CASE MoveIn(u)
  <2>1. up' \in [Ups -> UpType]
    BY <1>0, <1>2, <1>3, <1>4, <1>11 DEF MoveIn, Stages
  <2>2. /\ staged[u] \in [Tools -> T] /\ staged[u][up[u].tool] \in T
        /\ [staged[u] EXCEPT ![up[u].tool] = None] \in [Tools -> T]
    BY <1>0, <1>2
  <2>3. live' \in [Tools -> T]
    BY <1>0, <1>11, <2>2 DEF MoveIn
  <2>4. staged' \in [Ups -> [Tools -> T]]
    BY <1>0, <1>11, <2>2 DEF MoveIn
  <2>5. replaced' \in [Tools -> T]
    BY <1>0, <1>2, <1>11 DEF MoveIn
  <2> QED
    BY <1>0, <1>11, <2>1, <2>3, <2>4, <2>5 DEF MoveIn
<1>12. CASE Restore(u)
  <2>1. up' \in [Ups -> UpType]
    BY <1>0, <1>2, <1>3, <1>4, <1>12 DEF Restore, Stages
  <2>2. live' \in [Tools -> T] /\ bak' \in [Tools -> T]
    BY <1>0, <1>2, <1>12 DEF Restore
  <2>3. /\ staged[u] \in [Tools -> T] /\ Pair(None) \in [Tools -> T]
        /\ [staged[u] EXCEPT !["box"] = None] \in [Tools -> T]
    BY <1>0, <1>5
  <2>4. staged' \in [Ups -> [Tools -> T]]
    BY <1>0, <1>12, <2>3 DEF Restore
  <2> QED
    BY <1>0, <1>12, <2>1, <2>2, <2>4 DEF Restore
<1>13. CASE Rollback(u)
  <2>1. up' \in [Ups -> UpType]
    BY <1>0, <1>2, <1>3, <1>4, <1>13 DEF Rollback, Stages
  <2>2. live' \in [Tools -> T] /\ bak' \in [Tools -> T]
    BY <1>0, <1>2, <1>13 DEF Rollback
  <2> QED
    BY <1>0, <1>13, <2>1, <2>2 DEF Rollback
<1> QED
  BY <1>6, <1>7, <1>8, <1>9, <1>10, <1>11, <1>12, <1>13

TypedInv == ImageInv /\ UpgradeTypeOK

\* The types, and what the images' properties rest on, hold in every state.
THEOREM HostInvariance == Spec => []TypedInv
<1>1. Init => TypedInv
  <2> SUFFICES ASSUME Init PROVE TypedInv
    OBVIOUS
  <2>1. InstalledTypeOK
    BY ReleasesAssumption DEF Init, InstalledInit, InstalledTypeOK, Pair
  <2>2. UpgradeTypeOK
    BY UpgradeAssumption DEF Init, UpgradeInit, UpgradeTypeOK, Pair, Stages, Tools
  <2>3. ImageTyped
    <3>1. /\ Idle \in [at : Ats, todo : Seq(Names), stat : Releases \cup {None}, box : Releases \cup {None}]
          /\ NoBox \in [stat : Releases \cup {None}, data : Releases \cup {None}]
      BY DEF Idle, NoBox, Ats
    <3>2. source \in [Names -> Sources]
      BY DEF Init, ImageInit, Sources
    <3> QED
      BY <3>1, <3>2 DEF Init, ImageInit, ImageTyped
  <2>4. Held /\ Returned
    BY DEF Init, ImageInit, Held, Returned
  <2>5. Gathered
    BY DEF Init, ImageInit, Gathered, Derives, Reading, Idle, NoBox
  <2>6. Recorded
    BY DEF Init, ImageInit, InstalledInit, Recorded, Journaled, Idle, Readers
  <2> QED
    BY <2>1, <2>2, <2>3, <2>4, <2>5, <2>6 DEF TypedInv, ImageInv
<1>2. TypedInv /\ [Next]_vars => TypedInv'
  <2> SUFFICES ASSUME TypedInv, [Next]_vars PROVE TypedInv'
    OBVIOUS
  <2>1. CASE Upgrading
    BY <2>1, UpgradeStep, ImageStep DEF Upgrading, TypedInv, ImageInv, InstalledTypeOK
  <2>2. CASE UNCHANGED upgradeVars
    <3>1. UNCHANGED <<live, bak>> /\ UpgradeTypeOK'
      BY <2>2 DEF upgradeVars, TypedInv, UpgradeTypeOK
    <3> QED
      BY <3>1, ImageStep DEF TypedInv, ImageInv, InstalledTypeOK
  <2> QED
    BY <2>1, <2>2 DEF Next, vars, upgradeVars
<1> QED
  BY <1>1, <1>2, PTL DEF Spec

\* However files are edited and faber-box is swapped under builds and runs, the
\* images builds return and the images runs start from are those of the inputs
\* that were read and journaled (BuildWith, checkImageDrift, the tagger's memo).
THEOREM ImagesCorrect ==
  ASSUME ~({"absent", "empty"} \subseteq Legs)
  PROVE  Spec => []ImagesKept
<1>1. TypedInv => ImagesKept
  <2> SUFFICES ASSUME TypedInv PROVE ImagesKept
    OBVIOUS
  <2> USE DEF TypedInv, ImageInv
  <2>1. TypeOK
    <3>1. \A g \in DOMAIN daemon : g \in Tags /\ daemon[g] \in Inputs
      BY DEF Held, Tags
    <3>2. ImageTypeOK
      BY <3>1 DEF ImageTyped, Gathered, Derives, ImageTypeOK, Ats
    <3> QED
      BY <3>2 DEF TypeOK
  <2>2. ReturnsItsImage
    <3> SUFFICES ASSUME NEW in \in returned
                 PROVE  Tag(in) \in DOMAIN daemon /\ daemon[Tag(in)] = in
      BY DEF ReturnsItsImage
    <3>1. Tag(in) \in DOMAIN daemon /\ in \in Inputs
      BY DEF Returned, ImageTyped
    <3> QED
      BY <3>1, TagsApart DEF Held
  <2>3. OneImagePerRun
    <3> SUFFICES ASSUME NEW p \in RunIds, NEW b \in boxes[p] PROVE b = header[p][b.tpl]
      BY DEF OneImagePerRun
    <3>1. b \in Inputs /\ b.tpl \in Names
      BY DEF ImageTyped, Inputs
    <3>2. Journaled(p)
      BY DEF Recorded
    <3>3. header[p][b.tpl] \in Inputs /\ Tag(b) = Tag(header[p][b.tpl])
      BY <3>1, <3>2 DEF Journaled
    <3> QED
      BY <3>1, <3>3, TagsApart
  <2> QED
    BY <2>1, <2>2, <2>3 DEF ImagesKept
<1> QED
  BY <1>1, HostInvariance, PTL

\* The assumptions of the swap's promise: one upgrade at a time, and no rename fails
\* but the one that moves the new file in.
OneUpgrade == (\A u, w \in Ups : u = w) /\ MovesThatFail \subseteq {"in"}

\* Both halves are there, and the backups are the pair the last upgrade replaced, or
\* not both there.
Rested ==
  /\ live \in [Tools -> Releases]
  /\ bak["faber"] # None /\ bak["box"] # None => bak = replaced

\* What upgrade u was asked and knows, up to its last rename.
Informed(u) ==
  up[u].at # "idle" =>
    /\ up[u].before \in [Tools -> Releases]
    /\ up[u].current = up[u].before["faber"]
    /\ up[u].at = "rollback" => up[u].plan.mode = "rollback"
    /\ up[u].at \in {"resolve", "fetch", "aside", "in", "restore"} => up[u].plan.mode # "rollback"
    /\ up[u].at \in {"aside", "in", "restore"} => ~up[u].plan.check
    /\ up[u].at \in {"fetch", "aside", "in", "restore"} =>
         /\ up[u].tag \in Releases
         /\ up[u].plan.mode = "latest" /\ ~up[u].plan.check => up[u].tag >= up[u].before["faber"]

\* Where the two files and their backups are, stage by stage.
Moved(u) ==
  LET t == up[u].tool IN
  /\ up[u].at = "idle" => Rested
  /\ up[u].at \in {"gate", "resolve", "fetch"} => Rested /\ live = up[u].before
  /\ up[u].at = "aside" /\ t = "faber" => live = up[u].before /\ staged[u] = Pair(up[u].tag)
  /\ up[u].at = "aside" /\ t = "box" =>
       /\ live["faber"] = up[u].tag /\ live["box"] = up[u].before["box"]
       /\ bak["faber"] = up[u].before["faber"] /\ staged[u]["box"] = up[u].tag
  /\ up[u].at = "in" /\ t = "faber" =>
       /\ live["box"] = up[u].before["box"] /\ bak["faber"] = up[u].before["faber"]
       /\ staged[u] = Pair(up[u].tag)
  /\ up[u].at = "in" /\ t = "box" =>
       live["faber"] = up[u].tag /\ bak = up[u].before /\ staged[u]["box"] = up[u].tag
  /\ up[u].at = "restore" /\ t = "faber" =>
       live["box"] = up[u].before["box"] /\ bak["faber"] = up[u].before["faber"]
  /\ up[u].at = "restore" /\ t = "box" => bak = up[u].before
  /\ up[u].at = "rollback" /\ t = "faber" => Rested /\ live = up[u].before
  /\ up[u].at = "rollback" /\ t = "box" =>
       /\ replaced \in [Tools -> Releases] /\ bak["faber"] = None
       /\ live["faber"] = replaced["faber"] /\ bak["box"] = replaced["box"]

PairInv == (\A u \in Ups : Informed(u) /\ Moved(u)) /\ PairKept

\* What one upgrade has settled, if it has.
Kept(u) ==
  Settled(u) =>
    IF up[u].plan.mode # "rollback"
      THEN \/ live = up[u].before
           \/ /\ up[u].exit = "ok" /\ live = Pair(up[u].tag)
              /\ up[u].plan.mode = "latest" => live["faber"] >= up[u].before["faber"]
      ELSE live = IF up[u].exit = "ok" THEN replaced ELSE up[u].before

\* Two halves make a pair.
LEMMA TwoHalves ==
  ASSUME NEW S, NEW a \in [Tools -> S], NEW b \in [Tools -> S],
         a["faber"] = b["faber"], a["box"] = b["box"]
  PROVE  a = b
BY DEF Tools

\* One upgrade is all there is to say of the pair.
LEMMA OneKept ==
  ASSUME OneUpgrade, NEW u \in Ups
  PROVE  PairInv <=> Informed(u) /\ Moved(u) /\ Kept(u)
<1>1. \A w \in Ups : w = u
  BY DEF OneUpgrade
<1>2. PairKept <=> Kept(u)
  BY <1>1 DEF PairKept, UpgradeAtomic, RollbackUndoes, Kept
<1> QED
  BY <1>1, <1>2 DEF PairInv

\* What a step of the upgrade writes in its own record.
LEMMA Goes ==
  ASSUME UpgradeTypeOK, NEW u \in Ups, NEW s, NEW t, Go(u, s, t)
  PROVE  /\ up'[u].at = s /\ up'[u].tool = t /\ up'[u].plan = up[u].plan /\ up'[u].tag = up[u].tag
         /\ up'[u].current = up[u].current /\ up'[u].before = up[u].before
         /\ up'[u].exit = up[u].exit
BY DEF UpgradeTypeOK, Go

\* What its end writes there.
LEMMA Exits ==
  ASSUME UpgradeTypeOK, NEW u \in Ups, NEW x, Exit(u, x)
  PROVE  /\ up'[u].at = "idle" /\ up'[u].exit = x /\ up'[u].plan = up[u].plan
         /\ up'[u].tag = up[u].tag /\ up'[u].before = up[u].before
         /\ up'[u].current = up[u].current
BY DEF UpgradeTypeOK, Exit

\* An upgrade that ends with the pair it found, and backups that are not misleading.
LEMMA EndsAsFound ==
  ASSUME NEW u \in Ups, up'[u].at = "idle", Rested', live' = up'[u].before,
         up'[u].exit \in {"same", "failed"}
  PROVE  Informed(u)' /\ Moved(u)' /\ Kept(u)'
<1>1. Informed(u)'
  BY DEF Informed
<1>2. Moved(u)'
  BY DEF Moved
<1>3. Kept(u)'
  BY DEF Kept, Settled
<1> QED
  BY <1>1, <1>2, <1>3

\* Every step of the one upgrade leaves the files where its stage says they are.
LEMMA PairStep ==
  ASSUME OneUpgrade, InstalledTypeOK, UpgradeTypeOK, InstalledTypeOK', UpgradeTypeOK', NEW u \in Ups,
         Informed(u), Moved(u), Kept(u),
         \/ \E p \in Plans : Invoke(u, p)
         \/ AuditGate(u) \/ Resolve(u) \/ FetchAndStage(u)
         \/ MoveAside(u) \/ MoveIn(u) \/ Restore(u) \/ Rollback(u)
  PROVE  Informed(u)' /\ Moved(u)' /\ Kept(u)'
<1> DEFINE G == Informed(u)' /\ Moved(u)' /\ Kept(u)'
<1>0. /\ up[u].tool \in {"faber", "box"} /\ up'[u].tool \in {"faber", "box"}
      /\ None \notin Releases /\ None \in Releases \cup {None}
      /\ live \in [Tools -> Releases \cup {None}] /\ bak \in [Tools -> Releases \cup {None}]
      /\ live' \in [Tools -> Releases \cup {None}] /\ bak' \in [Tools -> Releases \cup {None}]
      /\ replaced \in [Tools -> Releases \cup {None}] /\ "faber" \in Tools /\ "box" \in Tools
      /\ up[u].before \in [Tools -> Releases \cup {None}]
  BY ReleasesAssumption DEF UpgradeTypeOK, InstalledTypeOK, Tools, None
<1>1. ASSUME NEW p \in Plans, Invoke(u, p) PROVE G
  <2>1. /\ up[u].at = "idle" /\ UNCHANGED <<live, bak, replaced>>
        /\ up'[u] = [at |-> "gate", tool |-> "faber", plan |-> p, tag |-> None,
                     current |-> live["faber"], before |-> live, exit |-> "none"]
    BY <1>1 DEF Invoke, UpgradeTypeOK
  <2>2. Rested /\ Rested'
    BY <2>1 DEF Moved, Rested
  <2>3. Informed(u)'
    BY <2>1, <2>2 DEF Informed, Rested
  <2>4. Moved(u)'
    BY <2>1, <2>2 DEF Moved
  <2>5. Kept(u)'
    BY <2>1 DEF Kept, Settled
  <2> QED
    BY <2>3, <2>4, <2>5
<1>2. CASE AuditGate(u)
  <2>1. /\ up[u].at = "gate" /\ Rested /\ live = up[u].before
        /\ UNCHANGED <<live, bak, staged, replaced>>
    BY <1>2 DEF AuditGate, Moved
  <2>2. Rested'
    BY <2>1 DEF Rested
  <2>3. CASE Exit(u, "failed")
    BY <2>1, <2>2, <2>3, Exits, EndsAsFound
  <2>4. CASE Go(u, ScriptStage(up[u].plan), "faber")
    <3>1. /\ up'[u].at = ScriptStage(up[u].plan) /\ up'[u].tool = "faber"
          /\ up'[u].plan = up[u].plan /\ up'[u].current = up[u].current
          /\ up'[u].before = up[u].before
      BY <2>4, Goes
    <3>2. ScriptStage(up[u].plan) = IF up[u].plan.mode = "rollback" THEN "rollback" ELSE "resolve"
      BY DEF ScriptStage
    <3>3. Informed(u)'
      BY <2>1, <3>1, <3>2 DEF Informed
    <3>4. Moved(u)'
      BY <2>1, <2>2, <3>1, <3>2 DEF Moved
    <3>5. Kept(u)'
      BY <3>1, <3>2 DEF Kept, Settled
    <3> QED
      BY <3>3, <3>4, <3>5
  <2> QED
    BY <1>2, <2>3, <2>4 DEF AuditGate
<1>3. CASE Resolve(u)
  <2>1. /\ up[u].at = "resolve" /\ Rested /\ live = up[u].before
        /\ UNCHANGED <<live, bak, staged, replaced>>
    BY <1>3 DEF Resolve, Moved
  <2>2. Rested'
    BY <2>1 DEF Rested
  <2>3. CASE Exit(u, "failed") \/ Exit(u, "same")
    BY <2>1, <2>2, <2>3, Exits, EndsAsFound
  <2>4. ASSUME NEW v \in Offers(up[u].plan), v # up[u].current, ~Anomaly(u, v),
               up' = [up EXCEPT ![u].tag = v, ![u].at = "fetch"]
        PROVE  G
    <3>1. /\ up'[u].at = "fetch" /\ up'[u].tool = up[u].tool /\ up'[u].tag = v
          /\ up'[u].plan = up[u].plan /\ up'[u].current = up[u].current
          /\ up'[u].before = up[u].before
      BY <2>4 DEF UpgradeTypeOK
    <3>2. v \in Releases
      <4>1. CASE up[u].plan \in Plans
        BY <2>4, <4>1, UpgradeAssumption DEF Offers, PlanType
      <4>2. CASE up[u].plan = NoPlan
        BY <2>4, <4>2 DEF Offers, NoPlan
      <4> QED
        BY <4>1, <4>2 DEF UpgradeTypeOK
    <3>3. up[u].before \in [Tools -> Releases] /\ up[u].current = up[u].before["faber"]
          /\ up[u].plan.mode # "rollback"
      BY <2>1 DEF Informed
    <3>4. up[u].plan.mode = "latest" /\ ~up[u].plan.check => v >= up[u].before["faber"]
      <4>1. v \in Nat /\ up[u].before["faber"] \in Nat
        BY <1>0, <3>2, <3>3, ReleasesAssumption
      <4> QED
        BY <2>4, <3>3, <4>1 DEF Anomaly
    <3>5. Informed(u)'
      BY <3>1, <3>2, <3>3, <3>4 DEF Informed
    <3>6. Moved(u)'
      BY <2>1, <2>2, <3>1 DEF Moved
    <3>7. Kept(u)'
      BY <3>1 DEF Kept, Settled
    <3> QED
      BY <3>5, <3>6, <3>7
  <2> QED
    BY <1>3, <2>3, <2>4 DEF Resolve
<1>4. CASE FetchAndStage(u)
  <2>1. /\ up[u].at = "fetch" /\ Rested /\ live = up[u].before
        /\ UNCHANGED <<live, bak, replaced>>
    BY <1>4 DEF FetchAndStage, Moved
  <2>2. Rested'
    BY <2>1 DEF Rested
  <2>3. CASE Exit(u, "failed") \/ Exit(u, "same")
    BY <2>1, <2>2, <2>3, Exits, EndsAsFound
  <2>4. CASE /\ ~up[u].plan.check /\ Go(u, "aside", "faber")
             /\ staged' = [staged EXCEPT ![u] = Pair(up[u].tag)]
    <3>1. /\ up'[u].at = "aside" /\ up'[u].tool = "faber"
          /\ up'[u].plan = up[u].plan /\ up'[u].current = up[u].current
          /\ up'[u].before = up[u].before /\ up'[u].tag = up[u].tag
          /\ staged'[u] = Pair(up[u].tag)
      BY <2>4, Goes DEF UpgradeTypeOK
    <3>2. Informed(u)'
      BY <2>1, <2>4, <3>1 DEF Informed
    <3>3. Moved(u)'
      BY <2>1, <3>1 DEF Moved
    <3>4. Kept(u)'
      BY <3>1 DEF Kept, Settled
    <3> QED
      BY <3>2, <3>3, <3>4
  <2> QED
    BY <1>4, <2>3, <2>4 DEF FetchAndStage
<1>5. CASE MoveAside(u)
  <2>1. up[u].at = "aside" /\ UNCHANGED <<staged, replaced>> /\ "aside" \notin MovesThatFail
    BY <1>5 DEF MoveAside, OneUpgrade
  <2>2. live[up[u].tool] = up[u].before[up[u].tool] /\ live[up[u].tool] # None
    BY <1>0, <2>1 DEF Moved, Informed
  <2>3. /\ live' = [live EXCEPT ![up[u].tool] = None]
        /\ bak' = [bak EXCEPT ![up[u].tool] = live[up[u].tool]]
        /\ Go(u, "in", up[u].tool)
    BY <1>5, <2>1, <2>2 DEF MoveAside
  <2>4. /\ up'[u].at = "in" /\ up'[u].tool = up[u].tool
        /\ up'[u].plan = up[u].plan /\ up'[u].current = up[u].current
        /\ up'[u].before = up[u].before /\ up'[u].tag = up[u].tag
    BY <2>3, Goes
  <2>5. Informed(u)'
    BY <2>1, <2>4 DEF Informed
  <2>6. Moved(u)'
    <3>1. CASE up[u].tool = "faber"
      BY <1>0, <2>1, <2>2, <2>3, <2>4, <3>1 DEF Moved
    <3>2. CASE up[u].tool = "box"
      <4>1. /\ live["faber"] = up[u].tag /\ bak["faber"] = up[u].before["faber"]
            /\ staged[u]["box"] = up[u].tag
        BY <2>1, <3>2 DEF Moved
      <4>2. /\ live'["faber"] = up[u].tag /\ bak'["faber"] = up[u].before["faber"]
            /\ bak'["box"] = up[u].before["box"]
        BY <1>0, <2>2, <2>3, <3>2, <4>1
      <4>3. bak' = up[u].before
        BY <1>0, <4>2, TwoHalves
      <4> QED
        BY <2>1, <2>4, <3>2, <4>1, <4>2, <4>3 DEF Moved
    <3> QED
      BY <1>0, <3>1, <3>2
  <2>7. Kept(u)'
    BY <2>4 DEF Kept, Settled
  <2> QED
    BY <2>5, <2>6, <2>7
<1>6. CASE MoveIn(u)
  <2>1. up[u].at = "in" /\ UNCHANGED bak
    BY <1>6 DEF MoveIn
  <2>2. CASE Go(u, "restore", up[u].tool) /\ UNCHANGED <<live, staged, replaced>>
    <3>1. /\ up'[u].at = "restore" /\ up'[u].tool = up[u].tool
          /\ up'[u].plan = up[u].plan /\ up'[u].current = up[u].current
          /\ up'[u].before = up[u].before /\ up'[u].tag = up[u].tag
      BY <2>2, Goes
    <3>2. Informed(u)'
      BY <2>1, <3>1 DEF Informed
    <3>3. Moved(u)'
      BY <1>0, <2>1, <2>2, <3>1 DEF Moved
    <3>4. Kept(u)'
      BY <3>1 DEF Kept, Settled
    <3> QED
      BY <3>2, <3>3, <3>4
  <2>3. CASE up[u].tool = "faber" /\ ~(Go(u, "restore", up[u].tool) /\ UNCHANGED <<live, staged, replaced>>)
    <3>1. /\ live' = [live EXCEPT !["faber"] = staged[u]["faber"]]
          /\ staged' = [staged EXCEPT ![u]["faber"] = None]
          /\ Go(u, "aside", "box") /\ replaced' = replaced
      BY <1>6, <2>3 DEF MoveIn
    <3>2. /\ up'[u].at = "aside" /\ up'[u].tool = "box"
          /\ up'[u].plan = up[u].plan /\ up'[u].current = up[u].current
          /\ up'[u].before = up[u].before /\ up'[u].tag = up[u].tag
      BY <3>1, Goes
    <3>3. /\ live["box"] = up[u].before["box"] /\ bak["faber"] = up[u].before["faber"]
          /\ staged[u] = Pair(up[u].tag)
      BY <2>1, <2>3 DEF Moved
    <3>4. staged[u]["faber"] = up[u].tag /\ staged[u]["box"] = up[u].tag
      BY <1>0, <3>3 DEF Pair
    <3>5. live'["faber"] = up[u].tag /\ live'["box"] = up[u].before["box"]
      BY <1>0, <3>1, <3>3, <3>4
    <3>6. staged'[u]["box"] = up[u].tag
      BY <1>0, <3>1, <3>4 DEF UpgradeTypeOK
    <3>7. Informed(u)'
      BY <2>1, <3>2 DEF Informed
    <3>8. Moved(u)'
      BY <2>1, <3>2, <3>3, <3>5, <3>6 DEF Moved
    <3>9. Kept(u)'
      BY <3>2 DEF Kept, Settled
    <3> QED
      BY <3>7, <3>8, <3>9
  <2>4. CASE up[u].tool = "box" /\ ~(Go(u, "restore", up[u].tool) /\ UNCHANGED <<live, staged, replaced>>)
    <3>1. /\ live' = [live EXCEPT !["box"] = staged[u]["box"]]
          /\ Exit(u, "ok") /\ replaced' = up[u].before
      BY <1>6, <2>4 DEF MoveIn
    <3>2. /\ up'[u].at = "idle" /\ up'[u].exit = "ok" /\ up'[u].plan = up[u].plan
          /\ up'[u].before = up[u].before /\ up'[u].tag = up[u].tag
      BY <3>1, Exits
    <3>3. live["faber"] = up[u].tag /\ bak = up[u].before /\ staged[u]["box"] = up[u].tag
      BY <2>1, <2>4 DEF Moved
    <3>4. /\ up[u].tag \in Releases /\ up[u].plan.mode # "rollback" /\ ~up[u].plan.check
          /\ up[u].plan.mode = "latest" => up[u].tag >= up[u].before["faber"]
      BY <2>1 DEF Informed
    <3>5. live'["faber"] = up[u].tag /\ live'["box"] = up[u].tag
      BY <1>0, <3>1, <3>3
    <3>6. live' = Pair(up[u].tag) /\ live' \in [Tools -> Releases]
      <4>1. /\ Pair(up[u].tag) \in [Tools -> Releases]
            /\ Pair(up[u].tag)["faber"] = up[u].tag /\ Pair(up[u].tag)["box"] = up[u].tag
        BY <1>0, <3>4 DEF Pair
      <4>2. Pair(up[u].tag) \in [Tools -> Releases \cup {None}]
        BY <4>1
      <4> QED
        BY <1>0, <3>5, <4>1, <4>2, TwoHalves
    <3>7. Informed(u)'
      BY <3>2 DEF Informed
    <3>8. Moved(u)'
      BY <2>1, <3>1, <3>2, <3>3, <3>6 DEF Moved, Rested
    <3>9. Kept(u)'
      BY <3>2, <3>4, <3>5, <3>6 DEF Kept
    <3> QED
      BY <3>7, <3>8, <3>9
  <2> QED
    BY <1>0, <2>2, <2>3, <2>4
<1>7. CASE Restore(u)
  <2>1. up[u].at = "restore" /\ replaced' = replaced /\ "restore" \notin MovesThatFail
    BY <1>7 DEF Restore, OneUpgrade
  <2>2. bak[up[u].tool] = up[u].before[up[u].tool] /\ up[u].before[up[u].tool] \in Releases
    BY <1>0, <2>1 DEF Moved, Informed
  <2>3. /\ live' = [live EXCEPT ![up[u].tool] = bak[up[u].tool]]
        /\ bak' = [bak EXCEPT ![up[u].tool] = None]
        /\ IF up[u].tool = "box" THEN Go(u, "restore", "faber") ELSE Exit(u, "failed")
    BY <1>0, <1>7, <2>1, <2>2 DEF Restore
  <2>4. CASE up[u].tool = "box"
    <3>1. /\ up'[u].at = "restore" /\ up'[u].tool = "faber"
          /\ up'[u].plan = up[u].plan /\ up'[u].current = up[u].current
          /\ up'[u].before = up[u].before /\ up'[u].tag = up[u].tag
      BY <2>3, <2>4, Goes
    <3>2. bak["faber"] = up[u].before["faber"]
      BY <2>1, <2>4 DEF Moved
    <3>3. live'["box"] = up[u].before["box"] /\ bak'["faber"] = up[u].before["faber"]
      BY <1>0, <2>2, <2>3, <2>4, <3>2
    <3>4. Informed(u)'
      BY <2>1, <3>1 DEF Informed
    <3>5. Moved(u)'
      BY <3>1, <3>3 DEF Moved
    <3>6. Kept(u)'
      BY <3>1 DEF Kept, Settled
    <3> QED
      BY <3>4, <3>5, <3>6
  <2>5. CASE up[u].tool = "faber"
    <3>1. /\ up'[u].at = "idle" /\ up'[u].exit = "failed" /\ up'[u].before = up[u].before
      BY <2>3, <2>5, Exits
    <3>2. live["box"] = up[u].before["box"] /\ up[u].before \in [Tools -> Releases]
      BY <2>1, <2>5 DEF Moved, Informed
    <3>3. live'["faber"] = up[u].before["faber"] /\ live'["box"] = up[u].before["box"]
          /\ bak'["faber"] = None
      BY <1>0, <2>2, <2>3, <2>5, <3>2
    <3>4. live' = up[u].before
      BY <1>0, <3>3, TwoHalves
    <3>5. Rested'
      BY <3>2, <3>3, <3>4 DEF Rested
    <3> QED
      BY <3>1, <3>4, <3>5, EndsAsFound
  <2> QED
    BY <1>0, <2>4, <2>5
<1>8. CASE Rollback(u)
  <2>1. up[u].at = "rollback" /\ replaced' = replaced /\ "rollback" \notin MovesThatFail
        /\ up[u].plan.mode = "rollback"
    BY <1>8 DEF Rollback, OneUpgrade, Informed
  <2>2. CASE up[u].tool = "faber" /\ bak["faber"] # None /\ bak["box"] # None
    <3>1. Rested /\ bak = replaced
      BY <2>1, <2>2 DEF Moved, Rested
    <3>2. /\ live' = [live EXCEPT !["faber"] = bak["faber"]]
          /\ bak' = [bak EXCEPT !["faber"] = None]
          /\ Go(u, "rollback", "box")
      BY <1>8, <2>1, <2>2 DEF Rollback
    <3>3. /\ up'[u].at = "rollback" /\ up'[u].tool = "box"
          /\ up'[u].plan = up[u].plan /\ up'[u].current = up[u].current
          /\ up'[u].before = up[u].before /\ up'[u].tag = up[u].tag
      BY <3>2, Goes
    <3>4. replaced \in [Tools -> Releases]
      BY <1>0, <2>2, <3>1 DEF Tools
    <3>5. bak'["faber"] = None /\ live'["faber"] = replaced["faber"] /\ bak'["box"] = replaced["box"]
      BY <1>0, <3>1, <3>2
    <3>6. Informed(u)'
      BY <2>1, <3>3 DEF Informed
    <3>7. Moved(u)'
      BY <2>1, <3>3, <3>4, <3>5 DEF Moved
    <3>8. Kept(u)'
      BY <3>3 DEF Kept, Settled
    <3> QED
      BY <3>6, <3>7, <3>8
  <2>3. CASE up[u].tool = "faber" /\ (bak["faber"] = None \/ bak["box"] = None)
    <3>1. Rested /\ live = up[u].before
      BY <2>1, <2>3 DEF Moved
    <3>2. Exit(u, "failed") /\ UNCHANGED <<live, bak>>
      BY <1>8, <2>1, <2>3 DEF Rollback
    <3>3. Rested'
      BY <2>1, <3>1, <3>2 DEF Rested
    <3> QED
      BY <3>1, <3>2, <3>3, Exits, EndsAsFound
  <2>4. CASE up[u].tool = "box"
    <3>1. /\ replaced \in [Tools -> Releases] /\ bak["faber"] = None
          /\ live["faber"] = replaced["faber"] /\ bak["box"] = replaced["box"]
      BY <2>1, <2>4 DEF Moved
    <3>2. bak["box"] # None
      BY <1>0, <3>1
    <3>3. /\ live' = [live EXCEPT !["box"] = bak["box"]]
          /\ bak' = [bak EXCEPT !["box"] = None]
          /\ Exit(u, "ok")
      BY <1>8, <2>1, <2>4, <3>2 DEF Rollback
    <3>4. up'[u].at = "idle" /\ up'[u].exit = "ok" /\ up'[u].plan = up[u].plan
      BY <3>3, Exits
    <3>5. live'["faber"] = replaced["faber"] /\ live'["box"] = replaced["box"] /\ bak'["faber"] = None
      BY <1>0, <3>1, <3>3
    <3>6. live' = replaced
      BY <1>0, <3>5, TwoHalves
    <3>7. Informed(u)'
      BY <3>4 DEF Informed
    <3>8. Moved(u)'
      BY <3>1, <3>4, <3>5, <3>6 DEF Moved, Rested
    <3>9. Kept(u)'
      BY <2>1, <3>4, <3>6 DEF Kept
    <3> QED
      BY <3>7, <3>8, <3>9
  <2> QED
    BY <1>0, <2>2, <2>3, <2>4
<1> QED
  BY <1>1, <1>2, <1>3, <1>4, <1>5, <1>6, <1>7, <1>8

\* install.sh's promise: with one upgrade at a time, whose only renames to fail are
\* those that move a new file in, the pair is never left mismatched, a plain upgrade
\* never goes back, and a rollback undoes the last upgrade or nothing.
THEOREM PairCorrect ==
  ASSUME OneUpgrade
  PROVE  Spec => []PairKept
<1>1. Init => PairInv
  <2> SUFFICES ASSUME Init PROVE PairInv
    OBVIOUS
  <2>1. live \in [Tools -> Releases] /\ bak["faber"] = None
    BY ReleasesAssumption DEF Init, InstalledInit, Pair, Tools
  <2>2. \A u \in Ups : up[u].at = "idle" /\ up[u].exit = "none"
    BY DEF Init, UpgradeInit
  <2> QED
    BY <2>1, <2>2 DEF PairInv, Informed, Moved, Rested, PairKept, UpgradeAtomic, RollbackUndoes,
       Settled
<1>2. TypedInv /\ TypedInv' /\ PairInv /\ [Next]_vars => PairInv'
  <2> SUFFICES ASSUME TypedInv, TypedInv', PairInv, [Next]_vars PROVE PairInv'
    OBVIOUS
  <2>1. CASE UNCHANGED upgradeVars
    BY <2>1 DEF upgradeVars, PairInv, Informed, Moved, Rested, PairKept, UpgradeAtomic,
       RollbackUndoes, Settled
  <2>2. ASSUME NEW u \in Ups,
               \/ \E p \in Plans : Invoke(u, p)
               \/ AuditGate(u) \/ Resolve(u) \/ FetchAndStage(u)
               \/ MoveAside(u) \/ MoveIn(u) \/ Restore(u) \/ Rollback(u)
        PROVE  PairInv'
    <3>1. Informed(u) /\ Moved(u) /\ Kept(u)
      BY OneKept
    <3>2. Informed(u)' /\ Moved(u)' /\ Kept(u)'
      BY <2>2, <3>1, PairStep DEF TypedInv, ImageInv
    <3>3. \A w \in Ups : w = u
      BY DEF OneUpgrade
    <3> QED
      BY <3>2, <3>3 DEF PairInv, PairKept, UpgradeAtomic, RollbackUndoes, Kept, Settled
  <2> QED
    BY <2>1, <2>2 DEF Next, vars, upgradeVars, Upgrading
<1>3. PairInv => PairKept
  BY DEF PairInv
<1> QED
  BY <1>1, <1>2, <1>3, HostInvariance, PTL DEF Spec
=============================================================================
