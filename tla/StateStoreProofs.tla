-------------------------- MODULE StateStoreProofs --------------------------
(***************************************************************************)
(* Proofs about StateStore for any number of processes, keys and faults:   *)
(* whatever is lost to an unlocked read-modify-write or a full disk, no    *)
(* section is ever half of one update and half of another; nothing is lost *)
(* in orderly use, and a fault costs the run log at most one row.          *)
(***************************************************************************)
EXTENDS StateStore, FiniteSetTheorems, TLAPS

USE StoreAssumption DEF StoreAssumption

LEMMA EmptyType == Empty \in Section
  BY DEF Empty, Section

LEMMA NoSectionsType == NoSections \in Store
  BY EmptyType DEF NoSections, Store

\* Putting a section into a store changes that key only and keeps the type.
LEMMA MergedType ==
  ASSUME NEW data \in Store, NEW k, NEW s \in Section
  PROVE  /\ Merged(data, k, s) \in Store
         /\ \A j \in Key : Merged(data, k, s)[j] = IF j = k THEN s ELSE data[j]
BY DEF Merged, Store

\* A garbled file holds no sections, and an overlay holds the writer's.
LEMMA OverlayType ==
  ASSUME NEW data \in Store, NEW f \in Overlays(data)
  PROVE  /\ f \in [is : {"absent", "empty", "garbled", "json"}, data : Store]
         /\ f.data \in {data, NoSections}
BY NoSectionsType DEF Overlays

LEMMA LogWithType ==
  ASSUME log \in Seq({"row", "torn", "junk"}), NEW row \in {"row", "torn"}
  PROVE  LogWith(row) \in Seq({"row", "torn", "junk"})
<1>1. CASE Len(log) > 0 /\ log[Len(log)] = "torn"
  BY <1>1 DEF LogWith
<1>2. CASE ~(Len(log) > 0 /\ log[Len(log)] = "torn")
  BY <1>2 DEF LogWith
<1> QED
  BY <1>1, <1>2

Inv == TypeOK /\ IInv

\* What leaving a call does to the types of a process's locals.
LEMMA LeaveType ==
  ASSUME TypeOK, NEW p \in Process,
         NEW label \in {"idle", "log", "raised"}, Leave(p, label)
  PROVE  /\ pc' \in [Process -> {"idle", "read", "load", "open", "fill", "log", "raised"}]
         /\ does' \in [Process -> {"none", "finish", "amend"}]
         /\ key' \in [Process -> Key \cup {None}]
         /\ sec' \in [Process -> Section]
         /\ copy' \in [Process -> Store]
         /\ pc'[p] = label
         /\ \A q \in Process \ {p} : /\ pc'[q] = pc[q] /\ key'[q] = key[q]
                                     /\ sec'[q] = sec[q] /\ copy'[q] = copy[q]
BY EmptyType, NoSectionsType DEF Leave, Goto, TypeOK

\* A call that is left, with nothing newly composed, leaves the copies of the
\* others whole.
LEMMA LeaveOK ==
  ASSUME Inv, NEW p \in Process, NEW label \in {"idle", "log", "raised"},
         Leave(p, label), composed' = composed, SectionsAreWhole'
  PROVE  IInv'
BY LeaveType DEF Inv, IInv

LEMMA InitInv == Init => Inv
<1> SUFFICES ASSUME Init PROVE Inv
  OBVIOUS
<1>1. TypeOK
  BY EmptyType, NoSectionsType DEF Init, TypeOK
<1>2. IInv
  BY DEF Init, IInv, SectionsAreWhole, NoSections
<1> QED
  BY <1>1, <1>2 DEF Inv

LEMMA StepInv == Inv /\ [Next]_vars => Inv'
<1> SUFFICES ASSUME Inv, [Next]_vars PROVE Inv'
  OBVIOUS
<1> USE EmptyType, NoSectionsType DEF Inv
<1>1. ASSUME NEW p \in Process, NEW k \in Key, BeginFinish(p, k) PROVE Inv'
  <2>1. [run |-> runs + 1, notes |-> {}] \in Section
    BY <1>1 DEF BeginFinish, TypeOK, Section
  <2>2. runs' \in 0 .. MaxRuns
    BY <1>1 DEF BeginFinish, TypeOK
  <2>3. sec'[p] \in Section /\ sec' \in [Process -> Section]
    BY <1>1, <2>1 DEF BeginFinish, TypeOK
  <2>4. TypeOK'
    BY <1>1, <2>2, <2>3 DEF BeginFinish, Goto, TypeOK, files
  <2>5. IInv'
    BY <1>1, <2>1 DEF BeginFinish, Goto, TypeOK, IInv, SectionsAreWhole, files
  <2> QED
    BY <2>4, <2>5
<1>2. ASSUME NEW p \in Process, NEW k \in Key, BeginAmend(p, k) PROVE Inv'
  <2>1. TypeOK'
    BY <1>2 DEF BeginAmend, Goto, TypeOK, files, bounds
  <2>2. IInv'
    BY <1>2 DEF BeginAmend, Goto, TypeOK, IInv, SectionsAreWhole, files
  <2> QED
    BY <2>1, <2>2
<1>3. ASSUME NEW p \in Process, ReadSection(p) PROVE Inv'
  <2>1. key[p] \in Key /\ file.data[key[p]] \in Section
    BY <1>3 DEF ReadSection, IInv, TypeOK, Store
  <2>2. PICK n \in Note :
          sec' = [sec EXCEPT ![p] = WithNote(file.data[key[p]], n)]
    BY <1>3 DEF ReadSection
  <2>3. WithNote(file.data[key[p]], n) \in Section
    BY <2>1 DEF WithNote, Section
  <2>4. sec'[p] \in Section /\ sec' \in [Process -> Section]
    BY <2>2, <2>3 DEF TypeOK
  <2>5. TypeOK'
    BY <1>3, <2>1, <2>4 DEF ReadSection, Goto, TypeOK, files, bounds
  <2>6. /\ \A j \in Key : composed[j] \subseteq composed'[j]
        /\ sec'[p] \in composed'[key[p]]
    BY <1>3, <2>1 DEF ReadSection, TypeOK
  <2>7. \A q \in Process \ {p} : sec'[q] = sec[q]
    BY <2>2 DEF TypeOK
  <2>8. IInv'
    BY <1>3, <2>1, <2>6, <2>7 DEF ReadSection, Goto, TypeOK, IInv, SectionsAreWhole, files
  <2> QED
    BY <2>5, <2>8
<1>14. ASSUME NEW p \in Process, ReadToClear(p) PROVE Inv'
  <2>1. key[p] \in Key /\ file.data[key[p]] \in Section
    BY <1>14 DEF ReadToClear, IInv, TypeOK, Store
  <2>2. CASE file.data[key[p]].notes = {}
    <3>1. /\ Leave(p, "idle") /\ composed' = composed
          /\ UNCHANGED <<files, bounds, ideal, orderly, appended>>
      BY <1>14, <2>2 DEF ReadToClear
    <3>2. TypeOK'
      BY <3>1, LeaveType DEF TypeOK, files, bounds
    <3>3. SectionsAreWhole'
      BY <3>1 DEF IInv, SectionsAreWhole, files
    <3> QED
      BY <3>1, <3>2, <3>3, LeaveOK
  <2>3. CASE file.data[key[p]].notes # {}
    <3>1. PICK s : s = WithoutNotes(file.data[key[p]])
      OBVIOUS
    <3>2. s \in Section
      BY <2>1, <3>1 DEF WithoutNotes, Section
    <3>3. /\ sec' = [sec EXCEPT ![p] = s] /\ pc' = [pc EXCEPT ![p] = "load"]
          /\ composed' = [composed EXCEPT ![key[p]] = @ \cup {s}]
          /\ UNCHANGED <<does, key, copy, files, bounds, ideal, orderly, appended>>
      BY <1>14, <2>3, <3>1 DEF ReadToClear, Goto
    <3>4. TypeOK'
      BY <2>1, <3>2, <3>3 DEF TypeOK, files, bounds
    <3>5. /\ \A j \in Key : composed[j] \subseteq composed'[j]
          /\ sec'[p] \in composed'[key[p]]
          /\ \A q \in Process \ {p} : sec'[q] = sec[q]
      BY <2>1, <3>3 DEF TypeOK
    <3>6. IInv'
      BY <2>1, <3>3, <3>5 DEF TypeOK, IInv, SectionsAreWhole, files
    <3> QED
      BY <3>4, <3>6
  <2> QED
    BY <2>2, <2>3
<1>4. ASSUME NEW p \in Process, Load(p) PROVE Inv'
  <2> DEFINE merged == Merged(file.data, key[p], sec[p])
  <2>1. /\ merged \in Store
        /\ \A j \in Key : merged[j] = IF j = key[p] THEN sec[p] ELSE file.data[j]
    BY MergedType DEF TypeOK
  <2>2. \A j \in Key : merged[j] \in composed[j]
    BY <1>4, <2>1 DEF Load, IInv, SectionsAreWhole
  <2>3. copy' = [copy EXCEPT ![p] = merged]
    BY <1>4 DEF Load
  <2> HIDE DEF merged
  <2>4. TypeOK'
    BY <1>4, <2>1, <2>3 DEF Load, Goto, TypeOK, files, bounds, ghosts
  <2>5. IInv'
    BY <1>4, <2>2, <2>3 DEF Load, Goto, TypeOK, IInv, SectionsAreWhole, files, ghosts
  <2> QED
    BY <2>4, <2>5
<1>5. ASSUME NEW p \in Process, Raise(p) PROVE Inv'
  <2>1. TypeOK'
    BY <1>5, LeaveType DEF Raise, TypeOK, files, bounds, ghosts
  <2>2. SectionsAreWhole' /\ composed' = composed
    BY <1>5 DEF Raise, IInv, SectionsAreWhole, files, ghosts
  <2> QED
    BY <1>5, <2>1, <2>2, LeaveOK DEF Raise
<1>6. ASSUME NEW p \in Process, Truncate(p) PROVE Inv'
  <2>1. TypeOK'
    BY <1>6 DEF Truncate, Goto, TypeOK, bounds, ghosts
  <2>2. IInv'
    BY <1>6 DEF Truncate, Goto, TypeOK, IInv, SectionsAreWhole, NoSections, ghosts
  <2> QED
    BY <2>1, <2>2
<1>7. ASSUME NEW p \in Process, Fill(p) PROVE Inv'
  <2>1. copy[p] \in Store /\ sec[p] \in Section
    BY DEF TypeOK
  <2>2. /\ file' \in [is : {"absent", "empty", "garbled", "json"}, data : Store]
        /\ file'.data \in {copy[p], NoSections}
    BY <1>7, <2>1, OverlayType DEF Fill
  <2>3. ideal' \in Store
    BY <1>7, <2>1 DEF Fill, TypeOK, Store
  <2>4. PICK label \in {"idle", "log", "raised"} : Leave(p, label)
    BY <1>7 DEF Fill
  <2>5. TypeOK'
    BY <1>7, <2>2, <2>3, <2>4, LeaveType DEF Fill, TypeOK, bounds
  <2>6. SectionsAreWhole' /\ composed' = composed
    BY <1>7, <2>2 DEF Fill, IInv, SectionsAreWhole, NoSections
  <2> QED
    BY <2>4, <2>5, <2>6, LeaveOK
<1>8. ASSUME NEW p \in Process, AppendRow(p) PROVE Inv'
  <2>1. TypeOK'
    BY <1>8, LogWithType DEF AppendRow, Goto, TypeOK, bounds
  <2>2. IInv'
    BY <1>8 DEF AppendRow, Goto, TypeOK, IInv, SectionsAreWhole
  <2> QED
    BY <2>1, <2>2
<1>9. ASSUME NEW p \in Process, Exit(p) PROVE Inv'
  <2>1. TypeOK'
    BY <1>9 DEF Exit, Goto, TypeOK, files, bounds, ghosts
  <2>2. IInv'
    BY <1>9 DEF Exit, Goto, TypeOK, IInv, SectionsAreWhole, files, ghosts
  <2> QED
    BY <2>1, <2>2
<1>10. ASSUME NEW p \in Process, Kill(p) PROVE Inv'
  <2>3. faults' \in 0 .. MaxFaults
    BY <1>10 DEF Kill, Fault, TypeOK
  <2>1. TypeOK'
    BY <1>10, <2>3, LeaveType DEF Kill, Fault, TypeOK, files
  <2>2. SectionsAreWhole' /\ composed' = composed
    BY <1>10 DEF Kill, Fault, IInv, SectionsAreWhole, files
  <2> QED
    BY <1>10, <2>1, <2>2, LeaveOK DEF Kill
<1>11. ASSUME NEW p \in Process, DiskFull(p) PROVE Inv'
  <2>1. /\ file' \in [is : {"absent", "empty", "garbled", "json"}, data : Store]
        /\ file'.data \in {file.data, NoSections}
        /\ log' \in Seq({"row", "torn", "junk"})
    BY <1>11, LogWithType DEF DiskFull, TypeOK
  <2>4. faults' \in 0 .. MaxFaults
    BY <1>11 DEF DiskFull, Fault, TypeOK
  <2>2. TypeOK'
    BY <1>11, <2>1, <2>4, LeaveType DEF DiskFull, Fault, TypeOK
  <2>3. SectionsAreWhole' /\ composed' = composed
    BY <1>11, <2>1 DEF DiskFull, Fault, IInv, SectionsAreWhole, NoSections
  <2> QED
    BY <1>11, <2>2, <2>3, LeaveOK DEF DiskFull
<1>12. CASE StartOver
  <2>1. TypeOK'
    BY <1>12 DEF StartOver, TypeOK, locals, bounds
  <2>2. IInv'
    BY <1>12 DEF StartOver, IInv, SectionsAreWhole, NoSections, locals
  <2> QED
    BY <2>1, <2>2
<1>13. CASE UNCHANGED vars
  BY <1>13 DEF vars, files, locals, bounds, ghosts, TypeOK, IInv, SectionsAreWhole
<1> QED
  BY <1>1, <1>2, <1>3, <1>4, <1>5, <1>6, <1>7, <1>8, <1>9, <1>10, <1>11, <1>12,
     <1>13, <1>14 DEF Next, Access

\* Every variable keeps its type, whatever overlaps and fails.
THEOREM StoreTypeCorrect == Spec => []TypeOK
<1>1. Inv => TypeOK
  BY DEF Inv
<1> QED
  BY <1>1, InitInv, StepInv, PTL DEF Spec

\* For any number of processes and faults, every section in the file was
\* composed as a whole for its loop: write_section may lose an update, never
\* mix two.
THEOREM WholeSections == Spec => []SectionsAreWhole
<1>1. Inv => SectionsAreWhole
  BY DEF Inv, IInv
<1> QED
  BY <1>1, InitInv, StepInv, PTL DEF Spec
-----------------------------------------------------------------------------
(* Orderly use.                                                            *)

LEMMA LeavePc ==
  ASSUME TypeOK, NEW p \in Process, NEW label, Leave(p, label)
  PROVE  /\ pc'[p] = label
         /\ \A q \in Process \ {p} : /\ pc'[q] = pc[q] /\ key'[q] = key[q]
                                     /\ sec'[q] = sec[q] /\ copy'[q] = copy[q]
BY DEF Leave, Goto, TypeOK

LEMMA InitOrderly == Init => OrderlyOK
BY DEF Init, OrderlyOK, Readable

\* While use is orderly a process that is busy is the only one.
LEMMA BusyAlone ==
  ASSUME OrderlyOK, orderly, NEW p \in Process, pc[p] # "idle"
  PROVE  \A q \in Process \ {p} : pc[q] = "idle"
BY DEF OrderlyOK

\* A step of the only busy process that neither writes nor raises.
LEMMA QuietStep ==
  ASSUME OrderlyOK, NEW p \in Process,
         orderly => \A q \in Process \ {p} : pc[q] = "idle",
         \A q \in Process \ {p} : pc'[q] = pc[q],
         pc[p] # "fill", pc'[p] \in {"idle", "read", "load", "log"},
         orderly' => orderly,
         file' = file, ideal' = ideal
  PROVE  OrderlyOK'
BY DEF OrderlyOK, Readable

LEMMA StepOrderly == TypeOK /\ OrderlyOK /\ [Next]_vars => OrderlyOK'
<1> SUFFICES ASSUME TypeOK, OrderlyOK, [Next]_vars PROVE OrderlyOK'
  OBVIOUS
<1>1. ASSUME NEW p \in Process, NEW k \in Key, BeginFinish(p, k) \/ BeginAmend(p, k)
      PROVE  OrderlyOK'
  <2>1. /\ pc[p] = "idle" /\ pc'[p] \in {"read", "load"}
        /\ \A q \in Process \ {p} : pc'[q] = pc[q]
        /\ file' = file /\ ideal' = ideal
        /\ orderly' = (orderly /\ Alone(p))
    BY <1>1 DEF BeginFinish, BeginAmend, Goto, TypeOK, files
  <2>2. CASE orderly /\ Alone(p)
    BY <2>1, <2>2, QuietStep DEF Alone
  <2>3. CASE ~(orderly /\ Alone(p))
    BY <2>1, <2>3 DEF OrderlyOK
  <2> QED
    BY <2>2, <2>3
<1>2. ASSUME NEW p \in Process, ReadSection(p) \/ ReadToClear(p) PROVE OrderlyOK'
  <2>1. /\ pc[p] = "read" /\ pc'[p] \in {"load", "idle"}
        /\ \A q \in Process \ {p} : pc'[q] = pc[q]
        /\ UNCHANGED <<file, ideal, orderly>>
    <3>1. CASE ReadSection(p)
      BY <3>1 DEF ReadSection, Goto, TypeOK, files
    <3>2. CASE ReadToClear(p)
      BY <3>2, LeavePc DEF ReadToClear, Goto, TypeOK, files
    <3> QED
      BY <1>2, <3>1, <3>2
  <2> QED
    BY <2>1, BusyAlone, QuietStep
<1>3. ASSUME NEW p \in Process, Load(p) PROVE OrderlyOK'
  <2>1. /\ pc[p] = "load" /\ pc'[p] = "open"
        /\ \A q \in Process \ {p} : pc'[q] = pc[q]
        /\ copy'[p] = Merged(file.data, key[p], sec[p])
        /\ UNCHANGED <<file, ideal, orderly, key, sec>>
    BY <1>3 DEF Load, Goto, TypeOK, files, ghosts
  <2>2. orderly => file.data = ideal /\ \A q \in Process \ {p} : pc[q] = "idle"
    BY <2>1, BusyAlone DEF OrderlyOK
  <2>3. orderly => copy'[p] = Merged(ideal', key'[p], sec'[p])
    BY <2>1, <2>2
  <2> QED
    BY <2>1, <2>2, <2>3 DEF OrderlyOK, Readable, Merged
<1>4. ASSUME NEW p \in Process, Raise(p) PROVE OrderlyOK'
  BY <1>4, BusyAlone DEF Raise, OrderlyOK, ghosts
<1>5. ASSUME NEW p \in Process, Truncate(p) PROVE OrderlyOK'
  <2>1. /\ pc[p] = "open" /\ pc'[p] = "fill" /\ file'.is = "empty"
        /\ \A q \in Process \ {p} : pc'[q] = pc[q]
        /\ UNCHANGED <<ideal, orderly, key, sec, copy>>
    BY <1>5 DEF Truncate, Goto, TypeOK, ghosts
  <2>2. orderly => \A q \in Process \ {p} : pc[q] = "idle"
    BY <2>1, BusyAlone
  <2> QED
    BY <2>1, <2>2 DEF OrderlyOK, Merged
<1>6. ASSUME NEW p \in Process, Fill(p) PROVE OrderlyOK'
  <2>1. PICK label \in {"idle", "log"} : Leave(p, label)
    BY <1>6 DEF Fill
  <2>2. /\ pc[p] = "fill" /\ pc'[p] = label
        /\ \A q \in Process \ {p} : pc'[q] = pc[q]
        /\ file' \in Overlays(copy[p])
        /\ ideal' = Merged(ideal, key[p], sec[p]) /\ orderly' = orderly
    BY <1>6, <2>1, LeavePc DEF Fill, Merged
  <2>3. ASSUME orderly
        PROVE  /\ \A q \in Process \ {p} : pc[q] = "idle"
               /\ file' = [is |-> "json", data |-> ideal']
    BY <2>2, <2>3, BusyAlone DEF OrderlyOK, Overlays
  <2> QED
    BY <2>2, <2>3 DEF OrderlyOK, Readable
<1>7. ASSUME NEW p \in Process, AppendRow(p) PROVE OrderlyOK'
  <2>1. /\ pc[p] = "log" /\ pc'[p] = "idle"
        /\ \A q \in Process \ {p} : pc'[q] = pc[q]
        /\ UNCHANGED <<file, ideal, orderly>>
    BY <1>7 DEF AppendRow, Goto, TypeOK
  <2> QED
    BY <2>1, BusyAlone, QuietStep
<1>8. ASSUME NEW p \in Process, Exit(p) PROVE OrderlyOK'
  BY <1>8 DEF Exit, OrderlyOK, ghosts
<1>9. ASSUME NEW p \in Process, Kill(p) \/ DiskFull(p) PROVE OrderlyOK'
  BY <1>9 DEF Kill, DiskFull, Fault, OrderlyOK
<1>10. CASE StartOver
  BY <1>10 DEF StartOver, OrderlyOK
<1>11. CASE UNCHANGED vars
  BY <1>11 DEF vars, files, locals, ghosts, OrderlyOK, Readable
<1> QED
  BY <1>1, <1>2, <1>3, <1>4, <1>5, <1>6, <1>7, <1>8, <1>9, <1>10, <1>11
     DEF Next, Access

\* For any number of processes and keys: until two accesses overlap or one is
\* cut short no process raises and the file holds what was written last.
THEOREM StoreOrderly == Spec => []OrderlyUse
<1>1. OrderlyOK => OrderlyUse
  BY DEF OrderlyOK, OrderlyUse
<1> QED
  BY <1>1, InitInv, StepInv, InitOrderly, StepOrderly, PTL DEF Spec, Inv

-----------------------------------------------------------------------------
(* The run log.                                                            *)

LEMMA RowsFinite ==
  ASSUME log \in Seq({"row", "torn", "junk"})
  PROVE  IsFiniteSet(Rows) /\ Cardinality(Rows) \in Nat
<1>1. IsFiniteSet(1 .. Len(log))
  BY FS_Interval
<1> QED
  BY <1>1, FS_Subset, FS_CardinalityType DEF Rows

\* A line more costs no row: a whole one adds itself, behind a torn line or not,
\* and the others stay.
LEMMA RowsAfterLine ==
  ASSUME log \in Seq({"row", "torn", "junk"}), NEW line \in {"row", "torn"},
         log' = LogWith(line)
  PROVE  /\ line = "row" /\ TornEnd = 0 => Cardinality(Rows') = Cardinality(Rows) + 1
         /\ line = "torn" \/ TornEnd = 1 => Rows' = Rows
         /\ TornEnd' = IF line = "torn" THEN 1 ELSE 0
<1>1. CASE TornEnd = 1
  <2>1. Len(log) \in Nat /\ Len(log) > 0 /\ log[Len(log)] = "torn"
    BY <1>1 DEF TornEnd
  <2>2. log' = [log EXCEPT ![Len(log)] = IF line = "torn" THEN "torn" ELSE "junk"]
    BY <2>1 DEF LogWith
  <2>3. /\ Len(log') = Len(log)
        /\ \A i \in 1 .. Len(log) :
             log'[i] = IF i = Len(log) THEN (IF line = "torn" THEN "torn" ELSE "junk")
                       ELSE log[i]
    BY <2>1, <2>2
  <2>4. Rows' = Rows
    BY <2>1, <2>3 DEF Rows
  <2>5. TornEnd' = IF line = "torn" THEN 1 ELSE 0
    BY <2>1, <2>3 DEF TornEnd
  <2> QED
    BY <1>1, <2>4, <2>5
<1>2. CASE TornEnd = 0
  <2>1. ~(Len(log) > 0 /\ log[Len(log)] = "torn") /\ Len(log) \in Nat
    BY <1>2 DEF TornEnd
  <2>2. log' = Append(log, line)
    BY <2>1 DEF LogWith
  <2>3. /\ Len(log') = Len(log) + 1 /\ log'[Len(log) + 1] = line
        /\ \A i \in 1 .. Len(log) : log'[i] = log[i]
    BY <2>2
  <2>4. TornEnd' = IF line = "torn" THEN 1 ELSE 0
    BY <2>1, <2>3 DEF TornEnd
  <2>5. CASE line = "torn"
    <3>1. Rows' = Rows
      BY <2>1, <2>3, <2>5 DEF Rows
    <3> QED
      BY <2>4, <2>5, <3>1
  <2>6. CASE line = "row"
    <3>1. Rows' = Rows \cup {Len(log) + 1} /\ Len(log) + 1 \notin Rows
      BY <2>1, <2>3, <2>6 DEF Rows
    <3>2. Cardinality(Rows') = Cardinality(Rows) + 1
      BY <3>1, RowsFinite, FS_AddElement
    <3> QED
      BY <1>2, <2>4, <2>6, <3>2
  <2> QED
    BY <2>5, <2>6
<1> QED
  BY <1>1, <1>2 DEF TornEnd

LEMMA InitRows == Init => RowsOK
<1> SUFFICES ASSUME Init PROVE RowsOK
  OBVIOUS
<1>1. Rows = {} /\ TornEnd = 0
  BY DEF Init, Rows, TornEnd
<1>2. Cardinality(Rows) = 0
  BY <1>1, FS_EmptySet
<1> QED
  BY <1>1, <1>2 DEF Init, RowsOK

LEMMA StepRows == TypeOK /\ RowsOK /\ [Next]_vars => RowsOK'
<1> SUFFICES ASSUME TypeOK, RowsOK, [Next]_vars PROVE RowsOK'
  OBVIOUS
<1>1. /\ log \in Seq({"row", "torn", "junk"})
      /\ appended \in Nat /\ faults \in Nat /\ TornEnd \in {0, 1}
      /\ Cardinality(Rows) \in Nat
  BY RowsFinite DEF TypeOK, TornEnd
<1>2. CASE log' = log /\ appended' = appended /\ faults' \in {faults, faults + 1}
  <2>1. Rows' = Rows /\ TornEnd' = TornEnd
    BY <1>2 DEF Rows, TornEnd
  <2> QED
    BY <1>1, <1>2, <2>1 DEF RowsOK
<1>3. ASSUME NEW p \in Process, AppendRow(p) PROVE RowsOK'
  <2>1. log' = LogWith("row") /\ appended' = appended + 1 /\ faults' = faults
    BY <1>3 DEF AppendRow, bounds
  <2>2. /\ TornEnd = 0 => Cardinality(Rows') = Cardinality(Rows) + 1
        /\ TornEnd = 1 => Rows' = Rows
        /\ TornEnd' = 0
    BY <1>1, <2>1, RowsAfterLine
  <2> QED
    BY <1>1, <2>1, <2>2 DEF RowsOK
<1>4. ASSUME NEW p \in Process, DiskFull(p), log' = LogWith("torn") PROVE RowsOK'
  <2>1. appended' = appended /\ faults' = faults + 1
    BY <1>4 DEF DiskFull, Fault
  <2>2. Rows' = Rows /\ TornEnd' = 1
    BY <1>1, <1>4, RowsAfterLine
  <2> QED
    BY <1>1, <2>1, <2>2 DEF RowsOK
<1>5. ASSUME NEW p \in Process,
             Access(p) \/ Kill(p) \/ DiskFull(p)
      PROVE  \/ log' = log /\ appended' = appended /\ faults' \in {faults, faults + 1}
             \/ AppendRow(p)
             \/ DiskFull(p) /\ log' = LogWith("torn")
  BY <1>5 DEF Access, BeginFinish, BeginAmend, ReadSection, ReadToClear, Load, Raise,
              Truncate, Fill, Exit, Kill, DiskFull, Fault, files, bounds, ghosts
<1>6. CASE StartOver
  BY <1>2, <1>6 DEF StartOver, bounds
<1>7. CASE UNCHANGED vars
  BY <1>2, <1>7 DEF vars, files, bounds, ghosts
<1> QED
  BY <1>2, <1>3, <1>4, <1>5, <1>6, <1>7 DEF Next

\* For any number of processes and faults, a fault costs the run log at most one
\* complete row.
THEOREM StoreRowsSurvive == Spec => []RowsSurvive
<1>1. TypeOK /\ RowsOK => RowsSurvive
  <2> SUFFICES ASSUME TypeOK, RowsOK PROVE RowsSurvive
    OBVIOUS
  <2>1. /\ appended \in Nat /\ faults \in Nat /\ TornEnd \in {0, 1}
        /\ Cardinality(Rows) \in Nat
    BY RowsFinite DEF TypeOK, TornEnd
  <2> QED
    BY <2>1 DEF RowsOK, RowsSurvive
<1> QED
  BY <1>1, InitInv, StepInv, InitRows, StepRows, PTL DEF Spec, Inv
=============================================================================
