------------------------------ MODULE StateStore ------------------------------
(***************************************************************************)
(* The state file and run log all loops share: StateStore                  *)
(* (loopengine/state.py), file access by file access, and its two kinds of *)
(* user.  A runtime's _finish composes its section afresh, writes it and   *)
(* appends a row.  Notebook.add and clear (compaction.py), the scheduler's *)
(* _record_result and cli._deliver_proposal amend a section: they read it, *)
(* change one key and write it back.                                       *)
(*                                                                         *)
(* Nothing locks the file: `loopengine run`, `loopengine schedule` and a   *)
(* person's Notebook are processes of their own.  A section is reduced to  *)
(* the number of the run that composed it and the notes added since.       *)
(***************************************************************************)
EXTENDS Naturals, Sequences, FiniteSets

CONSTANTS
  Key,        \* loop ids and their "::sched" siblings
  Process,    \* processes with a StateStore over the same path
  Note,       \* what an amendment may add to a section
  MaxRuns,    \* bound: sections composed by runtimes
  MaxFaults,  \* bound: processes killed and writes cut short by a full disk
  None        \* "no key"

ASSUME StoreAssumption ==
  /\ None \notin Key
  /\ MaxRuns \in Nat /\ MaxFaults \in Nat

\* what a loop's section may be, and what the file may hold
Section == [run : 0 .. MaxRuns, notes : SUBSET Note]
Store == [Key -> Section]

\* read_section of a loop that has never run: an empty dict
Empty == [run |-> 0, notes |-> {}]
NoSections == [k \in Key |-> Empty]

VARIABLES
  file,      \* what the path holds: [is, data], see Readable
  log,       \* lines of the run log; a "torn" line has no newline yet
  pc, does, key, sec, copy,
  runs, faults,
  (* history variables *)
  composed,  \* composed[k]: sections some process has composed for k
  ideal,     \* the sections the writes would have left one after the other
  orderly,   \* no two accesses have overlapped and none was cut short
  appended   \* rows appended to the end

files == <<file, log>>
locals == <<pc, does, key, sec, copy>>
bounds == <<runs, faults>>
ghosts == <<composed, ideal, orderly, appended>>
vars == <<files, locals, bounds, ghosts>>

-----------------------------------------------------------------------------
\* _load: a missing file is an empty store; json.loads raises on an empty file
\* and on a garbled one.
Readable == file.is \in {"absent", "json"}

\* Mutant: write_section stores its own section only.
MergedAlone(data, k, s) == [NoSections EXCEPT ![k] = s]

\* Mutant: a section is updated with the new one instead of replaced.
MergedByUpdate(data, k, s) ==
  [data EXCEPT ![k] = [run |-> s.run, notes |-> @.notes \cup s.notes]]

\* data.setdefault("loops", {})[loop_id] = section
Merged(data, k, s) == [data EXCEPT ![k] = s]

\* What is in the file once this process has written to its start: the text it
\* wrote, unless another process filled the file after this one opened it and
\* the other text was longer.
Overlays(data) ==
  {[is |-> "json", data |-> data]}
    \cup IF file.is \in {"json", "garbled"}
         THEN {[is |-> "garbled", data |-> NoSections]} ELSE {}

\* Mutant: the log is opened with "w".
LogWithRewritten(row) == <<row>>

\* Mutant: a row is written without its newline.
LogWithUnended(row) == Append(log, IF row = "row" THEN "unended" ELSE row)

\* The log with one more line: what follows a torn line joins it, and
\* runlog_results skips the result.
LogWith(row) ==
  IF Len(log) > 0 /\ log[Len(log)] = "torn"
  THEN [log EXCEPT ![Len(log)] = IF row = "torn" THEN "torn" ELSE "junk"]
  ELSE Append(log, row)

\* An amendment keeps the other keys of the section it read.
WithNote(s, n) == [run |-> s.run, notes |-> s.notes \cup {n}]

WithoutNotes(s) == [run |-> s.run, notes |-> {}]

Goto(p, label) == pc' = [pc EXCEPT ![p] = label]

\* The call returns, raises or dies: its locals go.
Leave(p, label) ==
  /\ Goto(p, label)
  /\ does' = [does EXCEPT ![p] = "none"]
  /\ key' = [key EXCEPT ![p] = None]
  /\ sec' = [sec EXCEPT ![p] = Empty]
  /\ copy' = [copy EXCEPT ![p] = NoSections]

Alone(p) == \A q \in Process \ {p} : pc[q] = "idle"

Init ==
  /\ file = [is |-> "absent", data |-> NoSections]
  /\ log = <<>>
  /\ pc = [p \in Process |-> "idle"]
  /\ does = [p \in Process |-> "none"]
  /\ key = [p \in Process |-> None]
  /\ sec = [p \in Process |-> Empty]
  /\ copy = [p \in Process |-> NoSections]
  /\ runs = 0 /\ faults = 0
  /\ composed = [k \in Key |-> {Empty}]
  /\ ideal = NoSections
  /\ orderly = TRUE
  /\ appended = 0

-----------------------------------------------------------------------------
(* One access.                                                             *)

\* A runtime reaches _finish and composes its section.
BeginFinish(p, k) ==
  /\ pc[p] = "idle"
  /\ runs < MaxRuns
  /\ runs' = runs + 1
  /\ does' = [does EXCEPT ![p] = "finish"]
  /\ key' = [key EXCEPT ![p] = k]
  /\ sec' = [sec EXCEPT ![p] = [run |-> runs + 1, notes |-> {}]]
  /\ composed' = [composed EXCEPT ![k] = @ \cup {sec'[p]}]
  /\ orderly' = (orderly /\ Alone(p))
  /\ Goto(p, "load")
  /\ UNCHANGED <<files, copy, faults, ideal, appended>>

\* Someone is about to amend a section ...
BeginAmend(p, k) ==
  /\ pc[p] = "idle"
  /\ does' = [does EXCEPT ![p] = "amend"]
  /\ key' = [key EXCEPT ![p] = k]
  /\ orderly' = (orderly /\ Alone(p))
  /\ Goto(p, "read")
  /\ UNCHANGED <<files, sec, copy, bounds, composed, ideal, appended>>

\* ... and reads it to add to it, ...
ReadSection(p) ==
  /\ pc[p] = "read"
  /\ Readable
  /\ \E n \in Note :
       sec' = [sec EXCEPT ![p] = WithNote(file.data[key[p]], n)]
  /\ composed' = [composed EXCEPT ![key[p]] = @ \cup {sec'[p]}]
  /\ Goto(p, "load")
  /\ UNCHANGED <<files, does, key, copy, bounds, ideal, orderly, appended>>

\* ... or to clear its notes, which writes nothing when there are none; it may
\* find a file it cannot parse.
ReadToClear(p) ==
  /\ pc[p] = "read"
  /\ Readable
  /\ LET s == file.data[key[p]]
     IN  IF s.notes = {}
         THEN /\ Leave(p, "idle")
              /\ UNCHANGED composed
         ELSE /\ sec' = [sec EXCEPT ![p] = WithoutNotes(s)]
              /\ composed' = [composed EXCEPT ![key[p]] = @ \cup {WithoutNotes(s)}]
              /\ Goto(p, "load")
              /\ UNCHANGED <<does, key, copy>>
  /\ UNCHANGED <<files, bounds, ideal, orderly, appended>>

\* write_section: load the whole file and put the section into it, ...
Load(p) ==
  /\ pc[p] = "load"
  /\ Readable
  /\ copy' = [copy EXCEPT ![p] = Merged(file.data, key[p], sec[p])]
  /\ Goto(p, "open")
  /\ UNCHANGED <<files, does, key, sec, bounds, ghosts>>

\* JSONDecodeError: nobody catches it
Raise(p) ==
  /\ pc[p] \in {"read", "load"}
  /\ ~Readable
  /\ Leave(p, "raised")
  /\ UNCHANGED <<files, bounds, ghosts>>

\* ... open it for writing, which empties it, ...
Truncate(p) ==
  /\ pc[p] = "open"
  /\ file' = [is |-> "empty", data |-> NoSections]
  /\ Goto(p, "fill")
  /\ UNCHANGED <<log, does, key, sec, copy, bounds, ghosts>>

\* ... and write the text.
Fill(p) ==
  /\ pc[p] = "fill"
  /\ file' \in Overlays(copy[p])
  /\ ideal' = [ideal EXCEPT ![key[p]] = sec[p]]
  /\ Leave(p, IF does[p] = "finish" THEN "log" ELSE "idle")
  /\ UNCHANGED <<log, bounds, composed, orderly, appended>>

\* append_runlog: the file is opened for appending, a row is one write.
AppendRow(p) ==
  /\ pc[p] = "log"
  /\ log' = LogWith("row")
  /\ appended' = appended + 1
  /\ Goto(p, "idle")
  /\ UNCHANGED <<file, does, key, sec, copy, bounds, composed, ideal, orderly>>

Exit(p) ==
  /\ pc[p] = "raised"
  /\ Goto(p, "idle")
  /\ UNCHANGED <<files, does, key, sec, copy, bounds, ghosts>>

Access(p) ==
  \/ \E k \in Key : BeginFinish(p, k) \/ BeginAmend(p, k)
  \/ ReadSection(p) \/ ReadToClear(p) \/ Load(p) \/ Raise(p) \/ Truncate(p) \/ Fill(p)
  \/ AppendRow(p) \/ Exit(p)

-----------------------------------------------------------------------------
(* What may go wrong.                                                      *)

Fault(p) ==
  /\ pc[p] # "idle"
  /\ faults < MaxFaults
  /\ faults' = faults + 1
  /\ orderly' = FALSE
  /\ UNCHANGED <<runs, composed, ideal, appended>>

\* The process is killed; what it opened stays as it is.
Kill(p) ==
  /\ Fault(p)
  /\ Leave(p, "idle")
  /\ UNCHANGED files

\* The disk is full: part of the text or of the row is written.
DiskFull(p) ==
  /\ Fault(p)
  /\ \/ /\ pc[p] = "fill"
        /\ file' = [is |-> "garbled", data |-> NoSections]
        /\ UNCHANGED log
     \/ /\ pc[p] = "log"
        /\ log' = LogWith("torn")
        /\ UNCHANGED file
  /\ Leave(p, "raised")

\* A person removes a state file nothing can parse.
StartOver ==
  /\ ~Readable
  /\ file' = [is |-> "absent", data |-> NoSections]
  /\ ideal' = NoSections
  /\ orderly' = FALSE
  /\ UNCHANGED <<log, locals, bounds, composed, appended>>

Next ==
  \/ \E p \in Process : Access(p) \/ Kill(p) \/ DiskFull(p)
  \/ StartOver

Spec == Init /\ [][Next]_vars

-----------------------------------------------------------------------------
TypeOK ==
  /\ file \in [is : {"absent", "empty", "garbled", "json"}, data : Store]
  /\ log \in Seq({"row", "torn", "junk"})
  /\ pc \in [Process -> {"idle", "read", "load", "open", "fill", "log", "raised"}]
  /\ does \in [Process -> {"none", "finish", "amend"}]
  /\ key \in [Process -> Key \cup {None}]
  /\ sec \in [Process -> Section]
  /\ copy \in [Process -> Store]
  /\ runs \in 0 .. MaxRuns /\ faults \in 0 .. MaxFaults
  /\ composed \in [Key -> SUBSET Section]
  /\ ideal \in Store
  /\ orderly \in BOOLEAN
  /\ appended \in Nat

\* However accesses overlap, are killed or run out of disk, a file that still
\* parses holds for every loop a section composed for that loop as a whole: an
\* update may be lost, but a cursor never comes with another run's findings.
SectionsAreWhole == \A k \in Key : file.data[k] \in composed[k]

\* The strengthening of SectionsAreWhole every step preserves: the copies
\* processes hold are whole too.
IInv ==
  /\ SectionsAreWhole
  /\ \A k \in Key : Empty \in composed[k]
  /\ \A p \in Process :
       /\ pc[p] \in {"read", "load", "open", "fill"} => key[p] \in Key
       /\ pc[p] = "load" => sec[p] \in composed[key[p]]
       /\ pc[p] \in {"open", "fill"} => \A k \in Key : copy[p][k] \in composed[k]

\* Until two accesses overlap or one is cut short no process raises, and
\* between accesses the file holds the last section written for every key.
OrderlyUse ==
  orderly =>
    /\ \A p \in Process : pc[p] # "raised"
    /\ (\A p \in Process : pc[p] # "fill") => file.data = ideal

Rows == {i \in 1 .. Len(log) : log[i] = "row"}

\* "The run log is never edited, only appended" (state.py): a fault costs at
\* most the one complete row that was appended behind its torn line.
RowsSurvive == appended - Cardinality(Rows) <= faults

\* The strengthening of OrderlyUse: one access at a time, whose copy is the
\* store the writes so far would have left with its own section put in.
OrderlyOK ==
  orderly =>
    /\ \A p, q \in Process : pc[p] # "idle" /\ pc[q] # "idle" => p = q
    /\ \A p \in Process :
         /\ pc[p] # "raised"
         /\ pc[p] \in {"open", "fill"} => copy[p] = Merged(ideal, key[p], sec[p])
         /\ pc[p] = "fill" => file.is = "empty"
    /\ (\A p \in Process : pc[p] # "fill") => Readable /\ file.data = ideal

\* The strengthening of RowsSurvive: a torn line at the end has yet to cost the
\* row behind it.
TornEnd == IF Len(log) > 0 /\ log[Len(log)] = "torn" THEN 1 ELSE 0
RowsOK == appended + TornEnd <= Cardinality(Rows) + faults

\* "Overwrite only this loop's section; leave others untouched." (state.py)
OnlyOwnSection ==
  [][\A p \in Process :
        pc[p] = "fill" /\ file'.is = "json"
          => \A k \in Key \ {key[p]} : file'.data[k] = ideal[k]]_file
=============================================================================
