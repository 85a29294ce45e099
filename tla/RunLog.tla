------------------------------- MODULE RunLog -------------------------------
(***************************************************************************)
(* What the journal of one run promises to those who read it: a resume, a  *)
(* prune, an upgrade, a report.  It is a log that only grows, written by   *)
(* one execution at a time, in which what a record may say follows from    *)
(* the records before it.  There is no lock, file, process or crash here;  *)
(* RunStore implements this module (KeepsLog gives the mapping).           *)
(***************************************************************************)
EXTENDS Integers, Sequences

CONSTANTS
  Opener,   \* the executions of the run
  Step      \* the steps it records

VARIABLES
  there, log,  \* the run has a log; its records
  writer,      \* the execution that writes it: at most one
  through,     \* the steps the writer is through with
  closing      \* the writer has written its last record

vars == <<there, log, writer, through, closing>>

ResultsOf(s) == {i \in DOMAIN log : log[i] \in {<<"ok", s>>, <<"failed", s>>}}

\* s has a result, and one after each of its starts.
Answered(s) ==
  /\ ResultsOf(s) # {}
  /\ \A i \in DOMAIN log : log[i] = <<"start", s>> => \E j \in ResultsOf(s) : j > i

\* s succeeded, in this execution or an earlier one.
Succeeded(s) == \E i \in DOMAIN log : log[i] = <<"ok", s>>

Init == ~there /\ log = <<>> /\ writer = {} /\ through = {} /\ ~closing

\* A run begins with an empty log; later executions find one with records in it.
Open(e) ==
  /\ writer = {} /\ writer' = {e}
  /\ there => log # <<>>
  /\ there' = TRUE
  /\ UNCHANGED <<log, through, closing>>

\* Only the writer adds to the log, one record at a time.
Put(e, rec) ==
  /\ writer = {e} /\ ~closing
  /\ log' = Append(log, rec)
  /\ UNCHANGED <<there, writer>>

\* The header comes first, and once.
Header(e) ==
  /\ log = <<>>
  /\ Put(e, <<"header">>)
  /\ closing' \in BOOLEAN
  /\ UNCHANGED through

\* A box starts for a step that has not succeeded, and has no result of this writer.
Start(e, s) ==
  /\ log # <<>> /\ s \notin through /\ ~Succeeded(s)
  /\ Put(e, <<"start", s>>)
  /\ UNCHANGED <<through, closing>>

\* A step gets one result from each writer, and no failure after a success.
Result(e, s, r) ==
  /\ log # <<>> /\ s \notin through
  /\ r = "failed" => ~Succeeded(s)
  /\ Put(e, <<r, s>>)
  /\ through' = through \cup {s}
  /\ UNCHANGED closing

\* A cost is of a step this writer is through with.
Cost(e, s) ==
  /\ log # <<>> /\ s \in through
  /\ Put(e, <<"cost", s>>)
  /\ UNCHANGED <<through, closing>>

\* A run-end record is the writer's last word, and a true one.
End(e, status) ==
  /\ log # <<>>
  /\ status = "settled" => through = Step /\ \A s \in Step : Answered(s)
  /\ status = "paused" => through # Step
  /\ Put(e, <<"end", status>>)
  /\ closing' = TRUE
  /\ UNCHANGED through

\* A result that could not be written; the writer is through with s all the same.
Lose(e, s) ==
  /\ writer = {e} /\ ~closing /\ s \notin through
  /\ through' = through \cup {s}
  /\ UNCHANGED <<there, log, writer, closing>>

\* The writer stops without a run-end record.
GiveUp(e) ==
  /\ writer = {e} /\ ~closing
  /\ closing' = TRUE
  /\ UNCHANGED <<there, log, writer, through>>

\* The writer is gone, by itself or because it died.
Leave(e) ==
  /\ writer = {e} /\ writer' = {}
  /\ through' = {} /\ closing' = FALSE
  /\ UNCHANGED <<there, log>>

\* A log goes as a whole, and never under its writer.
Delete ==
  /\ there /\ writer = {}
  /\ there' = FALSE /\ log' = <<>>
  /\ UNCHANGED <<writer, through, closing>>

Next ==
  \/ \E e \in Opener : \/ Open(e) \/ Header(e) \/ GiveUp(e) \/ Leave(e)
                       \/ \E s \in Step : \/ Start(e, s) \/ Cost(e, s) \/ Lose(e, s)
                                          \/ Result(e, s, "ok") \/ Result(e, s, "failed")
                       \/ \E st \in {"settled", "paused", "aborted"} : End(e, st)
  \/ Delete

Spec == Init /\ [][Next]_vars
=============================================================================
