---------------------------- MODULE TriageProofs ----------------------------
(***************************************************************************)
(* Proofs about Triage for every repository, set of refs and number of     *)
(* overlapping runs: type correctness; until somebody rewrites history,    *)
(* that no cursor ever passes a commit that was not accounted for and that *)
(* the loop therefore implements the at-least-once Feed; when runs do not  *)
(* overlap, that what all cursors cover is not reported, failures keep the *)
(* cursors, cursors only advance, and an undisturbed run reports all.      *)
(***************************************************************************)
EXTENDS Triage, TLAPS

USE NRefsAssumption, RootAssumption, NoneAssumption, BucketsAssumption,
    BoundsAssumption
USE DEF NRefsAssumption, RootAssumption, NoneAssumption, BucketsAssumption,
        BoundsAssumption

LEMMA NoCursorsType == NoCursors \in Cursors
  BY DEF NoCursors, Cursors

LEMMA FirstRef == 1 \in Ref
  BY DEF Ref

\* The part of the type invariant that a step of a run can disturb.
LocalTypes ==
  /\ pc \in [Run -> Pc]
  /\ prior \in [Run -> Cursors] /\ new \in [Run -> Cursors]
  /\ idx \in [Run -> Ref]
  /\ found \in [Run -> SUBSET Commit]
  /\ cite \in [Run -> Commit \cup {None}]
  /\ checked \in [Run -> SUBSET Commit]
  /\ failures \in [Run -> SUBSET {"fabricated", "unverifiable"}]
  /\ res \in [Run -> Result] /\ out \in [Run -> Cursors]

LEMMA LocalStep ==
  ASSUME TypeOK, LocalTypes',
         UNCHANGED <<repoVars, world, durableVars, boundVars>>
  PROVE  TypeOK'
BY DEF TypeOK, LocalTypes, repoVars, world, durableVars, boundVars

LEMMA DecideTypes ==
  ASSUME TypeOK, NEW p \in Run, NEW result \in Result, NEW cursors \in Cursors,
         Decide(p, result, cursors)
  PROVE  LocalTypes'
BY DEF TypeOK, LocalTypes, Decide, Goto, Pc

\* The model's variables keep their types: in particular a cursor is always a
\* commit or absent and a run is always at one of the code's call sites.
THEOREM TypeCorrect == Spec => []TypeOK
<1>1. Init => TypeOK
  <2> SUFFICES ASSUME Init PROVE TypeOK
    OBVIOUS
  <2>1. anc \in [Commit -> SUBSET Commit]
    BY DEF Init
  <2>2. /\ section \in [cursors : Cursors, result : Result, found : SUBSET Commit]
        /\ copy \in [Other -> [cursors : Cursors, result : Result, found : SUBSET Commit]]
    BY NoCursorsType DEF Init, EmptySection, Result
  <2>3. tip \in [Ref -> Commit] /\ idx \in [Run -> Ref]
    BY FirstRef DEF Init
  <2>4. faults \in 0 .. MaxFaults /\ crashes \in 0 .. MaxCrashes
          /\ rewrites \in 0 .. MaxRewrites
    BY DEF Init
  <2>5. /\ prior \in [Run -> Cursors] /\ new \in [Run -> Cursors]
        /\ out \in [Run -> Cursors] /\ found \in [Run -> SUBSET Commit]
        /\ cite \in [Run -> Commit \cup {None}]
        /\ checked \in [Run -> SUBSET Commit]
        /\ failures \in [Run -> SUBSET {"fabricated", "unverifiable"}]
    BY NoCursorsType DEF Init
  <2>6. pc \in [Run -> Pc] /\ res \in [Run -> Result] /\ row \in Result
    BY DEF Init, Result, Pc
  <2> QED
    BY <2>1, <2>2, <2>3, <2>4, <2>5, <2>6 DEF Init, TypeOK
<1>2. TypeOK /\ [Next]_vars => TypeOK'
  <2> SUFFICES ASSUME TypeOK, [Next]_vars PROVE TypeOK'
    OBVIOUS
  <2> USE NoCursorsType, FirstRef DEF TypeOK, Result, Pc
  <2> DEFINE nothing == \A p \in Run, result \in Result :
                          Decide(p, result, NoCursors) => LocalTypes'
  <2>0. nothing
    BY DecideTypes
  <2>1. ASSUME NEW p \in Run, Start(p) PROVE TypeOK'
    <3>1. UNCHANGED <<prior, new, idx, found, cite, checked, failures, res, out>> /\ Goto(p, "probe")
            => LocalTypes'
      BY DEF Goto, LocalTypes
    <3> HIDE DEF TypeOK
    <3>2. LocalTypes'
      BY <2>0, <2>1, <3>1 DEF Start
    <3> QED
      BY <2>1, <3>2, LocalStep DEF Start
  <2>2. ASSUME NEW p \in Run, Probe(p) PROVE TypeOK'
    <3>1. UNCHANGED <<prior, new, idx, found, cite, checked, failures, res, out>> /\ Goto(p, "read")
            => LocalTypes'
      BY DEF Goto, LocalTypes
    <3> HIDE DEF TypeOK
    <3>2. LocalTypes'
      BY <2>0, <2>2, <3>1 DEF Probe
    <3> QED
      BY <2>2, <3>2, LocalStep DEF Probe
  <2>3. ASSUME NEW p \in Run, ReadState(p) PROVE TypeOK'
    BY <2>3 DEF ReadState, Goto, repoVars, world, durableVars, boundVars
  <2>4. ASSUME NEW p \in Run, Resolve(p) PROVE TypeOK'
    <3>1. [new EXCEPT ![p][idx[p]] = tip[idx[p]]] \in [Run -> Cursors]
      BY DEF Cursors
    <3>2. CASE repo = "ok"
      <4>1. LocalTypes'
        BY <2>4, <3>1, <3>2 DEF Resolve, Goto, LocalTypes
      <4> QED
        BY <2>4, <4>1, LocalStep DEF Resolve
    <3>3. CASE repo # "ok"
      BY <2>0, <2>4, <3>3, LocalStep DEF Resolve
    <3> QED
      BY <3>2, <3>3
  <2>5. ASSUME NEW p \in Run, List(p) PROVE TypeOK'
    <3>1. NewCommits(idx[p], prior[p][idx[p]]) \in SUBSET Commit
      BY DEF NewCommits
    <3>2. idx[p] < NRefs => idx[p] + 1 \in Ref
      BY DEF Ref
    <3>3. CASE ~Readable(prior[p][idx[p]])
      BY <2>0, <2>5, <3>3, LocalStep DEF List
    <3>4. CASE Readable(prior[p][idx[p]])
      <4>1. found' \in [Run -> SUBSET Commit]
        BY <2>5, <3>1, <3>4 DEF List
      <4>2. pc' \in [Run -> Pc]
        BY <2>5, <3>4 DEF List, Goto
      <4>3. idx' \in [Run -> Ref]
        BY <2>5, <3>2, <3>4 DEF List
      <4>4. LocalTypes'
        BY <2>5, <3>4, <4>1, <4>2, <4>3 DEF List, LocalTypes
      <4> QED
        BY <2>5, <4>4, LocalStep DEF List
    <3> QED
      BY <3>3, <3>4
  <2>6. ASSUME NEW p \in Run, Compare(p) \/ CiteTip(p) PROVE TypeOK'
    <3>1. CASE repo = "ok"
      <4>1. tip[1] \in Commit
        OBVIOUS
      <4>2. LocalTypes'
        BY <2>6, <3>1, <4>1 DEF Compare, CiteTip, Goto, LocalTypes
      <4> QED
        BY <2>6, <4>2, LocalStep DEF Compare, CiteTip
    <3>2. CASE repo # "ok"
      BY <2>0, <2>6, <3>2, LocalStep DEF Compare, CiteTip
    <3> QED
      BY <3>1, <3>2
  <2>16. ASSUME NEW p \in Run, NEW c \in Actionable(p), CheckSha(p, c)
         PROVE  TypeOK'
    <3>1. c \in Commit
      BY DEF Actionable
    <3>2. ShaVerdict(c \in gone) \in SUBSET {"fabricated", "unverifiable"}
      BY DEF ShaVerdict
    <3>3. LocalTypes'
      BY <2>16, <3>1, <3>2 DEF CheckSha, LocalTypes
    <3> QED
      BY <2>16, <3>3, LocalStep DEF CheckSha
  <2>7. ASSUME NEW p \in Run, Clean(p) PROVE TypeOK'
    <3>1. new[p] \in Cursors
      OBVIOUS
    <3> QED
      BY <2>7, <3>1, DecideTypes, LocalStep DEF Clean
  <2>8. ASSUME NEW p \in Run, Verify(p) PROVE TypeOK'
    <3>1. new[p] \in Cursors /\ prior[p] \in Cursors
      OBVIOUS
    <3>2. CASE Decide(p, "escalated", NoCursors)
      BY <2>0, <2>8, <3>2, LocalStep DEF Verify
    <3>3. CASE Decide(p, "error", prior[p])
      BY <2>8, <3>1, <3>3, DecideTypes, LocalStep DEF Verify
    <3>4. CASE Decide(p, "found", new[p])
      BY <2>8, <3>1, <3>4, DecideTypes, LocalStep DEF Verify
    <3> QED
      BY <2>8, <3>2, <3>3, <3>4 DEF Verify
  <2>9. ASSUME NEW p \in Run, GuardCrash(p) PROVE TypeOK'
    BY <2>9 DEF GuardCrash, Decide, Goto, repoVars, world, durableVars, boundVars
  <2>10. ASSUME NEW p \in Run, Finish(p) PROVE TypeOK'
    <3>1. CursorsToWrite(p) \in Cursors
      BY DEF CursorsToWrite
    <3> QED
      BY <2>10, <3>1 DEF Finish, Goto, repoVars, world, durableVars, boundVars
  <2>11. ASSUME NEW p \in Run, Write(p) PROVE TypeOK'
    BY <2>11 DEF Write, Findings, Goto, repoVars, world, boundVars
  <2>12. ASSUME NEW p \in Run, AppendLog(p) PROVE TypeOK'
    BY <2>12 DEF AppendLog, Fresh, Goto, repoVars, world, boundVars
  <2>13. ASSUME NEW p \in Run, Crash(p) PROVE TypeOK'
    BY <2>13 DEF Crash, Fresh, Goto, repoVars, world, durableVars
  <2>14. CASE Environment
    <3> USE DEF otherThanRepo, repoVars, world, durableVars, localVars, boundVars
    <3>1. ASSUME NEW c \in Commit, NEW parents \in SUBSET (made \ gone),
                 CommitObject(c, parents)
          PROVE  TypeOK'
      BY <3>1 DEF CommitObject
    <3>2. ASSUME NEW r \in Ref, NEW c \in made \ gone,
                 Advance(r, c) \/ Rewrite(r, c)
          PROVE  TypeOK'
      <4>1. tip' \in [Ref -> Commit] /\ rewrites' \in 0 .. MaxRewrites
        BY <3>2 DEF Advance, Rewrite
      <4> QED
        BY <3>2, <4>1 DEF Advance, Rewrite
    <3>3. ASSUME NEW c \in made \ gone, Prune(c) PROVE TypeOK'
      BY <3>3 DEF Prune
    <3>4. ASSUME NEW how \in {"missing", "nogit"}, Break(how) PROVE TypeOK'
      BY <3>4 DEF Break
    <3>5. CASE Repair \/ TogglePause
      BY <3>5 DEF Repair, TogglePause
    <3>6. ASSUME NEW o \in Other, OtherLoads(o) PROVE TypeOK'
      BY <3>6 DEF OtherLoads
    <3>7. ASSUME NEW o \in Other, OtherStores(o) PROVE TypeOK'
      <4>1. EmptySection \in [cursors : Cursors, result : Result, found : SUBSET Commit]
        BY DEF EmptySection
      <4> QED
        BY <3>7, <4>1 DEF OtherStores
    <3> QED
      BY <2>14, <3>1, <3>2, <3>3, <3>4, <3>5, <3>6, <3>7 DEF Environment
  <2>15. CASE UNCHANGED vars
    BY <2>15 DEF vars, world, repoVars, durableVars, localVars, boundVars
  <2> QED
    BY <2>1, <2>2, <2>3, <2>4, <2>5, <2>6, <2>7, <2>8, <2>9, <2>10, <2>11,
       <2>12, <2>13, <2>14, <2>15, <2>16 DEF Next, RunStep
<1> QED
  BY <1>1, <1>2, PTL DEF Spec

-----------------------------------------------------------------------------
\* A step that leaves the graph and a run's locals alone and forgets no
\* report keeps that run's part of the invariant.
LEMMA BystanderOK ==
  ASSUME TypeOK, NEW q \in Run, RunOK(q),
         UNCHANGED <<made, anc, tip>>, reported \subseteq reported',
         pc'[q] = pc[q], prior'[q] = prior[q], new'[q] = new[q],
         idx'[q] = idx[q], found'[q] = found[q], res'[q] = res[q],
         out'[q] = out[q]
  PROVE  RunOK(q)'
<1>1. Accounted \subseteq Accounted'
  BY DEF Accounted
<1>2. Findings(q)' = Findings(q)
  BY DEF Findings
<1> QED
  BY <1>1, <1>2 DEF RunOK, CoversOnly, Behind, ScannedOK

\* Cursors that cover accounted commits still do after any step that leaves
\* the graph alone and forgets no report.
LEMMA CoversOnlyMono ==
  ASSUME NEW f, NEW S, NEW T, S \subseteq T,
         UNCHANGED <<made, anc>>, CoversOnly(f, S)
  PROVE  \A r \in Ref : /\ f[r] \in made' \cup {None}
                        /\ (IF f[r] = None THEN {} ELSE anc'[f[r]]) \subseteq T
BY DEF CoversOnly, Behind

LEMMA NoCursorsCover == \A S : CoversOnly(NoCursors, S)
  BY DEF CoversOnly, NoCursors, Behind

\* What a run decides keeps its part of the invariant when the cursors it
\* wants to write cover no more than it will report.
LEMMA DecideOK ==
  ASSUME TypeOK, NEW p \in Run, RunOK(p), NEW result \in Result,
         NEW cursors \in Cursors, Decide(p, result, cursors),
         UNCHANGED <<made, anc, tip, reported>>,
         CoversOnly(cursors, (IF result = "found" THEN found[p] ELSE {})
                               \cup Accounted)
  PROVE  RunOK(p)'
<1>1. pc'[p] = "finish" /\ res'[p] = result /\ out'[p] = cursors
  BY DEF Decide, Goto, TypeOK
<1>2. found' = found /\ prior' = prior /\ new' = new /\ idx' = idx
  BY DEF Decide
<1>3. Findings(p)' = IF result = "found" THEN found[p] ELSE {}
  BY <1>1, <1>2 DEF Findings
<1>4. Accounted' = Accounted
  BY DEF Accounted
<1> QED
  BY <1>1, <1>2, <1>3, <1>4 DEF RunOK, CoversOnly, Behind

\* A step of one run that touches neither the graph nor the state file and
\* re-establishes that run's part of the invariant preserves the whole.
LEMMA RunStepOK ==
  ASSUME TypeOK, IInv, NEW p \in Run, RunOK(p)',
         UNCHANGED <<made, anc, tip, section, reported, copy>>,
         \A q \in Run \ {p} :
           /\ pc'[q] = pc[q] /\ prior'[q] = prior[q] /\ new'[q] = new[q]
           /\ idx'[q] = idx[q] /\ found'[q] = found[q]
           /\ res'[q] = res[q] /\ out'[q] = out[q]
  PROVE  IInv'
<1>1. \A q \in Run \ {p} : RunOK(q)'
  BY BystanderOK DEF IInv
<1>2. GraphOK'
  BY DEF IInv, GraphOK
<1>3. /\ CoversOnly(section.cursors, Accounted)'
      /\ \A o \in Other : CoversOnly(copy[o].cursors, Accounted)'
  BY DEF IInv, CoversOnly, Behind, Accounted
<1> QED
  BY <1>1, <1>2, <1>3 DEF IInv

LEMMA DecideStepOK ==
  ASSUME TypeOK, IInv, NEW p \in Run, NEW result \in Result,
         NEW cursors \in Cursors, Decide(p, result, cursors),
         UNCHANGED <<made, anc, tip, section, reported, copy>>,
         CoversOnly(cursors, (IF result = "found" THEN found[p] ELSE {})
                               \cup Accounted)
  PROVE  IInv'
<1>1. RunOK(p)'
  BY DecideOK DEF IInv
<1>2. \A q \in Run \ {p} :
           /\ pc'[q] = pc[q] /\ prior'[q] = prior[q] /\ new'[q] = new[q]
           /\ idx'[q] = idx[q] /\ found'[q] = found[q]
           /\ res'[q] = res[q] /\ out'[q] = out[q]
  BY DEF Decide, Goto, TypeOK
<1> QED
  BY <1>1, <1>2, RunStepOK

\* Ending a run without cursors of its own: escalations and paused runs.
LEMMA DecideNothingOK ==
  ASSUME TypeOK, IInv, NEW p \in Run, NEW result \in Result,
         Decide(p, result, NoCursors),
         UNCHANGED <<made, anc, tip, section, reported, copy>>
  PROVE  IInv'
BY DecideStepOK, NoCursorsCover, NoCursorsType

\* The heads a run scanned cover no more than what it found, once all refs
\* are listed.
LEMMA ScannedCovers ==
  ASSUME TypeOK, IInv, NEW p \in Run, pc[p] = "judge"
  PROVE  CoversOnly(new[p], found[p] \cup Accounted)
<1>1. ScannedOK(p)
  BY DEF IInv, RunOK
<1>2. \A r \in Ref : new[p][r] \in made /\ new[p][r] # None
  BY <1>1 DEF ScannedOK, TypeOK
<1> QED
  BY <1>1, <1>2 DEF ScannedOK, CoversOnly, Behind

\* Every step of a run preserves the invariant.
LEMMA RunPreserves ==
  ASSUME TypeOK, TypeOK', IInv, NEW p \in Run,
         RunStep(p) \/ GuardCrash(p) \/ Crash(p)
  PROVE  IInv'
<1> DEFINE Rest(q) ==
      /\ pc'[q] = pc[q] /\ prior'[q] = prior[q] /\ new'[q] = new[q]
      /\ idx'[q] = idx[q] /\ found'[q] = found[q]
      /\ res'[q] = res[q] /\ out'[q] = out[q]
<1> USE DEF repoVars, world, durableVars, boundVars, Result
<1>0. RunOK(p) /\ CoversOnly(section.cursors, Accounted) /\ GraphOK
  BY DEF IInv
<1>1. CASE Start(p)
  <2>1. CASE paused \/ MaxIterations < 1
    BY <1>1, <2>1, DecideNothingOK DEF Start
  <2>2. CASE ~(paused \/ MaxIterations < 1)
    <3>1. RunOK(p)'
      BY <1>0, <1>1, <2>2
      DEF Start, Goto, RunOK, TypeOK, CoversOnly, Behind, Accounted
    <3>2. \A q \in Run \ {p} : Rest(q)
      BY <1>1, <2>2 DEF Start, Goto, TypeOK
    <3> QED
      BY <1>1, <3>1, <3>2, RunStepOK DEF Start
  <2> QED
    BY <2>1, <2>2
<1>2. CASE Probe(p)
  <2>1. CASE repo # "ok"
    BY <1>2, <2>1, DecideNothingOK DEF Probe
  <2>2. CASE repo = "ok"
    <3>1. RunOK(p)'
      BY <1>0, <1>2, <2>2
      DEF Probe, Goto, RunOK, TypeOK, CoversOnly, Behind, Accounted
    <3>2. \A q \in Run \ {p} : Rest(q)
      BY <1>2, <2>2 DEF Probe, Goto, TypeOK
    <3> QED
      BY <1>2, <3>1, <3>2, RunStepOK DEF Probe
  <2> QED
    BY <2>1, <2>2
<1>3. CASE ReadState(p)
  <2>1. pc'[p] = "resolve" /\ prior'[p] = section.cursors /\ idx'[p] = 1
    BY <1>0, <1>3 DEF ReadState, Goto, TypeOK, RunOK
  <2>2. ~(\E r \in Ref : r < 1)
    BY DEF Ref
  <2>3. RunOK(p)'
    BY <1>0, <1>3, <2>1, <2>2
    DEF ReadState, RunOK, ScannedOK, CoversOnly, Behind, Accounted
  <2>4. \A q \in Run \ {p} : Rest(q)
    BY <1>3 DEF ReadState, Goto, TypeOK
  <2> QED
    BY <1>3, <2>3, <2>4, RunStepOK DEF ReadState
<1>4. CASE Resolve(p)
  <2>1. CASE repo # "ok"
    BY <1>4, <2>1, DecideNothingOK DEF Resolve
  <2>2. CASE repo = "ok"
    <3>1. /\ pc[p] = "resolve" /\ pc'[p] = "list"
          /\ new'[p] = [new[p] EXCEPT ![idx[p]] = tip[idx[p]]]
      BY <1>4, <2>2 DEF Resolve, Goto, TypeOK
    <3>2. new'[p][idx[p]] = tip[idx[p]]
      BY <3>1 DEF TypeOK, Cursors
    <3>3. \A r \in Ref : r < idx[p] => new'[p][r] = new[p][r]
      BY <3>1 DEF TypeOK, Cursors, Ref
    <3>4. ScannedOK(p)'
      BY <1>0, <1>4, <2>2, <3>1, <3>3
      DEF Resolve, RunOK, ScannedOK, Accounted
    <3>5. tip[idx[p]] \in anc[tip[idx[p]]]
      BY <1>0 DEF GraphOK, TypeOK
    <3>6. RunOK(p)'
      BY <1>0, <1>4, <2>2, <3>1, <3>2, <3>4, <3>5
      DEF Resolve, RunOK, CoversOnly, Behind, Accounted
    <3>7. \A q \in Run \ {p} : Rest(q)
      BY <1>4, <2>2 DEF Resolve, Goto, TypeOK
    <3> QED
      BY <1>4, <2>2, <3>6, <3>7, RunStepOK DEF Resolve
  <2> QED
    BY <2>1, <2>2
<1>5. CASE List(p)
  <2>1. CASE ~Readable(prior[p][idx[p]])
    BY <1>5, <2>1, DecideNothingOK DEF List
  <2>2. CASE Readable(prior[p][idx[p]])
    <3> DEFINE r == idx[p]
               listed == NewCommits(r, prior[p][r])
    <3>1. /\ pc[p] = "list" /\ r \in Ref
          /\ found'[p] = found[p] \cup listed
          /\ prior' = prior /\ new' = new
      BY <1>5, <2>2 DEF List, TypeOK
    <3>2. \/ idx'[p] = r + 1 /\ pc'[p] = "resolve"
          \/ idx'[p] = r /\ r = NRefs /\ pc'[p] \in {"compare", "tip", "judge"}
      <4>1. ~(r < NRefs) => r = NRefs
        BY <3>1 DEF Ref
      <4>2. r < NRefs => idx'[p] = r + 1 /\ pc'[p] = "resolve"
        BY <1>5, <2>2 DEF List, Goto, TypeOK
      <4>3. ~(r < NRefs) => idx'[p] = r /\ pc'[p] \in {"compare", "tip", "judge"}
        BY <1>5, <2>2 DEF List, Goto, TypeOK
      <4> QED
        BY <4>1, <4>2, <4>3
    <3>3. new[p][r] \in anc[tip[r]]
      BY <1>0, <3>1 DEF RunOK
    <3>4. anc[tip[r]] \subseteq listed \cup Accounted
      BY <1>0, <3>1
      DEF RunOK, CoversOnly, Behind, NewCommits, Accounted
    <3>5. /\ new[p][r] \in made
          /\ anc[new[p][r]] \subseteq found'[p] \cup Accounted
      <4>1. tip[r] \in Commit
        BY <3>1 DEF TypeOK
      <4>2. anc[tip[r]] \subseteq made /\ anc[new[p][r]] \subseteq anc[tip[r]]
        BY <1>0, <3>3, <4>1 DEF GraphOK
      <4> QED
        BY <3>1, <3>3, <3>4, <4>2
    <3>6. \A s \in Ref : s < r => /\ new[p][s] \in made
                                 /\ anc[new[p][s]] \subseteq found'[p] \cup Accounted
      BY <1>0, <3>1 DEF RunOK, ScannedOK
    <3>7. ScannedOK(p)'
      <4>1. \A s \in Ref : s < r + 1 => s < r \/ s = r
        BY <3>1 DEF Ref
      <4>2. \A s \in Ref : r = NRefs => s < r \/ s = r
        BY <3>1 DEF Ref
      <4>3. made' = made /\ anc' = anc /\ Accounted' = Accounted
        BY <1>5 DEF List, Accounted
      <4> QED
        BY <3>1, <3>2, <3>5, <3>6, <4>1, <4>2, <4>3 DEF ScannedOK
    <3>8. listed \subseteq made
      BY <1>0, <3>1 DEF GraphOK, TypeOK, NewCommits
    <3>9. RunOK(p)'
      BY <1>0, <1>5, <3>1, <3>2, <3>7, <3>8
      DEF List, RunOK, CoversOnly, Behind, Accounted
    <3>10. \A q \in Run \ {p} : Rest(q)
      BY <1>5, <2>2 DEF List, Goto, TypeOK
    <3> QED
      BY <1>5, <3>9, <3>10, RunStepOK DEF List
  <2> QED
    BY <2>1, <2>2
<1>6. CASE Compare(p) \/ CiteTip(p)
  <2>1. CASE repo # "ok"
    BY <1>6, <2>1, DecideNothingOK DEF Compare, CiteTip
  <2>2. CASE repo = "ok"
    <3>1. pc[p] \in {"compare", "tip"} /\ pc'[p] \in {"tip", "judge"}
      BY <1>6, <2>2 DEF Compare, CiteTip, Goto, TypeOK
    <3>2. RunOK(p)'
      BY <1>0, <1>6, <2>2, <3>1
      DEF Compare, CiteTip, RunOK, ScannedOK, CoversOnly, Behind, Accounted
    <3>3. \A q \in Run \ {p} : Rest(q)
      BY <1>6, <2>2 DEF Compare, CiteTip, Goto, TypeOK
    <3> QED
      BY <1>6, <2>2, <3>2, <3>3, RunStepOK DEF Compare, CiteTip
  <2> QED
    BY <2>1, <2>2
<1>12. CASE \E c \in Actionable(p) : CheckSha(p, c)
  <2>1. RunOK(p)'
    BY <1>0, <1>12 DEF CheckSha, RunOK, ScannedOK, CoversOnly, Behind, Findings, Accounted
  <2> QED
    BY <1>12, <2>1, RunStepOK DEF CheckSha
<1>7. CASE Clean(p)
  <2>1. found[p] \subseteq Accounted
    BY <1>7 DEF Clean, HasActionable, Actionable, Accounted
  <2>2. CoversOnly(new[p], {} \cup Accounted)
    BY <1>7, <2>1, ScannedCovers DEF Clean, CoversOnly
  <2> QED
    BY <1>7, <2>2, DecideStepOK DEF Clean, TypeOK
<1>8. CASE Verify(p) \/ GuardCrash(p)
  <2>1. CASE Decide(p, "escalated", NoCursors)
    BY <1>8, <2>1, DecideNothingOK DEF Verify, GuardCrash
  <2>2. CASE Decide(p, "error", prior[p])
    <3>1. CoversOnly(prior[p], {} \cup Accounted)
      BY <1>0 DEF RunOK, CoversOnly
    <3> QED
      BY <1>8, <2>2, <3>1, DecideStepOK DEF Verify, GuardCrash, TypeOK
  <2>3. CASE pc[p] = "judge" /\ Decide(p, "found", new[p])
    BY <1>8, <2>3, ScannedCovers, DecideStepOK DEF Verify, GuardCrash, TypeOK
  <2> QED
    BY <1>8, <2>1, <2>2, <2>3 DEF Verify, GuardCrash
<1>9. CASE Finish(p)
  <2>1. /\ pc[p] = "finish" /\ pc'[p] = "write"
        /\ out'[p] = CursorsToWrite(p) /\ Findings(p)' = Findings(p)
    BY <1>9 DEF Finish, Goto, Findings, TypeOK
  <2>2. CoversOnly(CursorsToWrite(p), Findings(p) \cup Accounted)
    BY <1>0, <2>1 DEF CursorsToWrite, RunOK, CoversOnly
  <2>3. RunOK(p)'
    BY <1>0, <1>9, <2>1, <2>2
    DEF Finish, RunOK, CoversOnly, Behind, Accounted
  <2>4. \A q \in Run \ {p} : Rest(q)
    BY <1>9 DEF Finish, Goto, TypeOK
  <2> QED
    BY <1>9, <2>3, <2>4, RunStepOK DEF Finish
<1>10. CASE Write(p)
  <2>1. Accounted' = Findings(p) \cup Accounted
    BY <1>10 DEF Write, Accounted
  <2>2. /\ pc[p] = "write" /\ pc'[p] = "log" /\ section'.cursors = out[p]
        /\ UNCHANGED <<made, anc, tip>> /\ reported \subseteq reported'
    BY <1>10 DEF Write, Goto, TypeOK
  <2>3. CoversOnly(section.cursors, Accounted)'
    BY <1>0, <2>1, <2>2 DEF RunOK, CoversOnly, Behind
  <2>4. RunOK(p)'
    BY <1>0, <1>10, <2>1, <2>2 DEF Write, RunOK, CoversOnly, Behind
  <2>5. \A q \in Run \ {p} : Rest(q)
    BY <1>10 DEF Write, Goto, TypeOK
  <2>6. \A q \in Run \ {p} : RunOK(q)'
    BY <2>2, <2>5, BystanderOK DEF IInv
  <2>7. GraphOK'
    BY <1>0, <2>2 DEF GraphOK
  <2>8. \A o \in Other : CoversOnly(copy[o].cursors, Accounted)'
    BY <1>10, <2>1 DEF Write, IInv, CoversOnly, Behind
  <2> QED
    BY <2>3, <2>4, <2>6, <2>7, <2>8 DEF IInv
<1>11. CASE AppendLog(p) \/ Crash(p)
  <2>1. /\ pc'[p] = "idle" /\ prior'[p] = NoCursors /\ idx'[p] = 1
        /\ found'[p] = {}
    BY <1>11 DEF AppendLog, Crash, Goto, Fresh, TypeOK
  <2>2. CoversOnly(prior[p], Accounted)'
    BY <2>1, NoCursorsCover DEF CoversOnly, NoCursors, Behind
  <2>3. RunOK(p)'
    BY <2>1, <2>2 DEF RunOK
  <2>4. \A q \in Run \ {p} : Rest(q)
    BY <1>11 DEF AppendLog, Crash, Goto, Fresh, TypeOK
  <2> QED
    BY <1>11, <2>3, <2>4, RunStepOK DEF AppendLog, Crash
<1> QED
  BY <1>1, <1>2, <1>3, <1>4, <1>5, <1>6, <1>7, <1>8, <1>9, <1>10, <1>11, <1>12
  DEF RunStep

\* Nothing anyone else does breaks the invariant, history being append-only.
LEMMA EnvironmentPreserves ==
  ASSUME TypeOK, IInv, rewrites' = 0, Environment
  PROVE  IInv'
<1> USE DEF otherThanRepo, world, durableVars, localVars
<1>1. /\ \A r \in Ref, c \in made \ gone : ~Rewrite(r, c)
      /\ \A c \in made \ gone : ~Prune(c)
  BY DEF TypeOK, Rewrite, Prune
<1>2. ASSUME NEW c \in Commit, NEW parents \in SUBSET (made \ gone),
             CommitObject(c, parents)
      PROVE  IInv'
  <2>1. /\ c \notin made /\ made' = made \cup {c} /\ tip' = tip
        /\ \A d \in made : anc'[d] = anc[d]
        /\ anc'[c] = {c} \cup UNION {anc[d] : d \in parents}
        /\ \A d \in Commit : d # c => anc'[d] = anc[d]
    BY <1>2 DEF CommitObject, TypeOK
  <2>2. UNION {anc[d] : d \in parents} \subseteq made
    BY DEF IInv, GraphOK, TypeOK
  <2>3. GraphOK'
    <3>1. \A d \in made' : d \in anc'[d]
      BY <2>1 DEF IInv, GraphOK
    <3>2. \A d \in Commit : anc'[d] \subseteq made'
      BY <2>1, <2>2 DEF IInv, GraphOK
    <3>3. \A d \in Commit : \A e \in anc'[d] : anc'[e] \subseteq anc'[d]
      <4> SUFFICES ASSUME NEW d \in Commit, NEW e \in anc'[d]
                   PROVE  anc'[e] \subseteq anc'[d]
        OBVIOUS
      <4>1. CASE d # c
        BY <2>1, <4>1 DEF IInv, GraphOK
      <4>2. CASE d = c /\ e # c
        <5>1. PICK f \in parents : e \in anc[f]
          BY <2>1, <4>2
        <5>2. f \in Commit /\ e \in Commit
          BY <5>1 DEF TypeOK
        <5>3. anc[e] \subseteq anc[f]
          BY <5>1, <5>2 DEF IInv, GraphOK
        <5> QED
          BY <2>1, <4>2, <5>1, <5>2, <5>3
      <4> QED
        BY <4>1, <4>2
    <3>4. \A r \in Ref : tip'[r] \in made'
      BY <2>1 DEF IInv, GraphOK
    <3> QED
      BY <2>1, <3>1, <3>2, <3>3, <3>4 DEF IInv, GraphOK
  <2>4. UNCHANGED <<section, reported, copy, localVars>> /\ Accounted' = Accounted
    BY <1>2 DEF CommitObject, Accounted
  <2>5. /\ CoversOnly(section.cursors, Accounted)'
        /\ \A o \in Other : CoversOnly(copy[o].cursors, Accounted)'
    BY <2>1, <2>4 DEF IInv, CoversOnly, Behind
  <2>6. \A p \in Run : RunOK(p)'
    BY <2>1, <2>4
    DEF IInv, GraphOK, RunOK, ScannedOK, CoversOnly, Behind, Findings, TypeOK
  <2> QED
    BY <2>3, <2>5, <2>6 DEF IInv
<1>3. ASSUME NEW r \in Ref, NEW c \in made \ gone, Advance(r, c)
      PROVE  IInv'
  <2>1. /\ tip[r] \in anc[c] /\ tip' = [tip EXCEPT ![r] = c]
        /\ UNCHANGED <<made, anc, section, reported, copy, localVars>>
        /\ Accounted' = Accounted
    BY <1>3 DEF Advance, Accounted
  <2>2. \A s \in Ref : anc[tip[s]] \subseteq anc[tip'[s]]
    BY <2>1 DEF IInv, GraphOK, TypeOK
  <2>3. GraphOK'
    BY <2>1 DEF IInv, GraphOK, TypeOK
  <2>4. /\ CoversOnly(section.cursors, Accounted)'
        /\ \A o \in Other : CoversOnly(copy[o].cursors, Accounted)'
    BY <2>1 DEF IInv, CoversOnly, Behind
  <2>5. \A p \in Run : RunOK(p)'
    BY <2>1, <2>2
    DEF IInv, RunOK, ScannedOK, CoversOnly, Behind, Findings, TypeOK
  <2> QED
    BY <2>3, <2>4, <2>5 DEF IInv
<1>4. CASE (\E how \in {"missing", "nogit"} : Break(how)) \/ Repair
             \/ TogglePause
  <2>1. UNCHANGED <<made, anc, tip, section, reported, copy, localVars>>
    BY <1>4 DEF Break, Repair, TogglePause, repoVars
  <2> QED
    BY <2>1 DEF IInv, GraphOK, RunOK, ScannedOK, CoversOnly, Behind, Findings,
                Accounted
<1>5. ASSUME NEW o \in Other, OtherLoads(o) \/ OtherStores(o)
      PROVE  IInv'
  <2>1. /\ UNCHANGED <<made, anc, tip, reported, localVars>> /\ Accounted' = Accounted
        /\ section' \in {section, copy[o]}
        /\ \A q \in Other : copy'[q] \in {copy[q], section, EmptySection}
    BY <1>5 DEF OtherLoads, OtherStores, repoVars, Accounted, TypeOK
  <2>2. CoversOnly(EmptySection.cursors, Accounted)
    BY NoCursorsCover DEF EmptySection
  <2>3. CoversOnly(section'.cursors, Accounted)
    BY <2>1 DEF IInv
  <2>4. \A q \in Other : CoversOnly(copy'[q].cursors, Accounted)
    BY <2>1, <2>2 DEF IInv
  <2>5. \A p \in Run : RunOK(p)' /\ GraphOK'
    BY <2>1 DEF IInv, GraphOK, RunOK, ScannedOK, CoversOnly, Behind, Findings
  <2> QED
    BY <2>1, <2>3, <2>4, <2>5 DEF IInv, GraphOK, CoversOnly, Behind
<1> QED
  BY <1>1, <1>2, <1>3, <1>4, <1>5 DEF Environment

LEMMA StutterPreserves == IInv /\ UNCHANGED vars => IInv'
BY DEF vars, world, repoVars, durableVars, localVars, IInv, GraphOK, RunOK,
       ScannedOK, CoversOnly, Behind, Findings, Accounted

LEMMA InitIInv == Init => IInv
<1> SUFFICES ASSUME Init PROVE IInv
  OBVIOUS
<1>1. GraphOK
  BY DEF Init, GraphOK
<1>2. CoversOnly(section.cursors, Accounted)
  BY NoCursorsCover DEF Init, EmptySection
<1>3. \A p \in Run : RunOK(p)
  BY NoCursorsCover DEF Init, RunOK
<1>4. \A o \in Other : CoversOnly(copy[o].cursors, Accounted)
  BY NoCursorsCover DEF Init, EmptySection
<1> QED
  BY <1>1, <1>2, <1>3, <1>4 DEF IInv

\* Nobody takes a rewrite back.
LEMMA RewritesStay ==
  ASSUME TypeOK, [Next]_vars, rewrites' = 0
  PROVE  rewrites = 0
<1>1. CASE \E p \in Run : RunStep(p) \/ GuardCrash(p) \/ Crash(p)
  BY <1>1
  DEF RunStep, Start, Probe, ReadState, Resolve, List, Compare, CiteTip, Clean, CheckSha,
      Verify, Finish, Write, AppendLog, GuardCrash, Crash, boundVars
<1>2. CASE Environment
  BY <1>2
  DEF Environment, CommitObject, Advance, Rewrite, Prune, Break, Repair, TogglePause,
      OtherLoads, OtherStores, boundVars, TypeOK
<1> QED
  BY <1>1, <1>2 DEF Next, vars, boundVars

\* However many runs overlap, wherever pushes, failures and crashes fall, the
\* strengthened invariant holds as long as nobody has rewritten history.
THEOREM Inductive == Spec => [](rewrites = 0 => IInv)
<1>1. ASSUME TypeOK, rewrites = 0 => IInv, TypeOK', [Next]_vars
      PROVE  (rewrites = 0 => IInv)'
  <2> SUFFICES ASSUME rewrites' = 0 PROVE IInv'
    OBVIOUS
  <2>1. IInv
    BY <1>1, RewritesStay
  <2> QED
    BY <1>1, <2>1, RunPreserves, EnvironmentPreserves, StutterPreserves DEF Next
<1> QED
  BY <1>1, InitIInv, TypeCorrect, PTL DEF Spec

\* The durable cursor never passes an unreported commit before history is first
\* rewritten.
THEOREM NoLoss == Spec => []NoCommitLost
<1>1. (rewrites = 0 => IInv) => NoCommitLost
  BY DEF IInv, CoversOnly, NoCommitLost
<1> QED
  BY <1>1, Inductive, PTL

-----------------------------------------------------------------------------
\* Every step of the loop and of its environment is a step of the feed or
\* leaves the feed as it is: what a reader of the state file may rely on.
LEMMA FeedStep ==
  ASSUME TypeOK, IInv, IInv', [Next]_vars, MaxRewrites = 0
  PROVE  [Promise!Next]_(Promise!vars)
<1> DEFINE covered == UNION {Behind(section.cursors[r]) : r \in Ref}
<1> USE DEF Promise!vars
<1>1. covered' \subseteq Accounted'
  BY DEF IInv, CoversOnly
<1>2. CASE UNCHANGED <<made, anc, section, reported>>
  BY <1>2 DEF Behind
<1>3. ASSUME NEW p \in Run, Write(p) PROVE Promise!Next
  <2>1. /\ reported' = reported \cup Findings(p) /\ made' = made /\ anc' = anc
    BY <1>3 DEF Write, repoVars
  <2>2. Findings(p) \in SUBSET made
    BY DEF IInv, RunOK, Findings
  <2>3. covered' \in SUBSET made
    <3>1. \A r \in Ref : Behind(section.cursors[r])' \subseteq made'
      BY DEF IInv, CoversOnly, GraphOK, Behind
    <3> QED
      BY <2>1, <3>1
  <2>4. Promise!Report(Findings(p))
    BY <1>1, <2>1, <2>3 DEF Promise!Report, Accounted
  <2> QED
    BY <2>2, <2>4 DEF Promise!Next
<1>4. ASSUME NEW c \in Commit, NEW parents \in SUBSET (made \ gone),
             CommitObject(c, parents)
      PROVE  Promise!Next
  <2>1. /\ made' = made \cup {c} /\ UNCHANGED <<section, reported>>
        /\ \A d \in made : anc'[d] = anc[d]
    BY <1>4 DEF CommitObject, TypeOK, otherThanRepo, durableVars
  <2>2. \A r \in Ref : section.cursors[r] \in made \cup {None}
    BY DEF IInv, CoversOnly
  <2>3. covered' = covered
    BY <2>1, <2>2 DEF Behind
  <2> QED
    BY <2>1, <2>3 DEF Promise!Next, Promise!Appear, TypeOK
<1>5. CASE \E p \in Run : (RunStep(p) /\ ~Write(p)) \/ GuardCrash(p) \/ Crash(p)
  <2>1. UNCHANGED <<made, anc, section, reported>>
    BY <1>5
    DEF RunStep, Start, Probe, ReadState, Resolve, List, Compare, CiteTip, Clean, CheckSha,
        Verify, GuardCrash, Finish, AppendLog, Crash, repoVars, durableVars
  <2> QED
    BY <1>2, <2>1
<1>6. CASE /\ Environment /\ made' = made /\ anc' = anc
           /\ ~\E o \in Other : OtherStores(o)
  <2>1. UNCHANGED <<made, anc, section, reported>>
    BY <1>6
    DEF Environment, CommitObject, Advance, Rewrite, Prune, Break, Repair,
        TogglePause, OtherLoads, otherThanRepo, durableVars
  <2> QED
    BY <1>2, <2>1
<1>9. ASSUME NEW o \in Other, OtherStores(o) PROVE Promise!Next
  <2>1. /\ reported' = reported \cup {} /\ made' = made /\ anc' = anc
    BY <1>9 DEF OtherStores, repoVars
  <2>2. covered' \in SUBSET made
    <3>1. \A r \in Ref : Behind(section.cursors[r])' \subseteq made'
      BY DEF IInv, CoversOnly, GraphOK, Behind
    <3> QED
      BY <2>1, <3>1
  <2>3. Promise!Report({})
    BY <1>1, <2>1, <2>2 DEF Promise!Report, Accounted
  <2> QED
    BY <2>3 DEF Promise!Next
<1>7. CASE Environment
  BY <1>4, <1>6, <1>7, <1>9
  DEF Environment, Advance, Rewrite, Prune, Break, Repair, TogglePause, OtherLoads,
      repoVars
<1>8. CASE UNCHANGED vars
  BY <1>2, <1>8 DEF vars, repoVars, durableVars
<1> QED
  BY <1>3, <1>5, <1>7, <1>8 DEF Next

\* The loop is an at-least-once feed of its repository.
THEOREM FeedImplemented == ASSUME MaxRewrites = 0 PROVE Spec => ImplementsFeed
<1>0. TypeOK => rewrites = 0
  BY DEF TypeOK
<1>1. Init => Promise!Init
  <2> SUFFICES ASSUME Init PROVE Promise!Init
    OBVIOUS
  <2>1. \A r \in Ref : Behind(section.cursors[r]) = {}
    BY DEF Init, EmptySection, NoCursors, Behind
  <2> QED
    BY <2>1 DEF Init, Promise!Init
<1>2. TypeOK /\ IInv /\ IInv' /\ [Next]_vars => [Promise!Next]_(Promise!vars)
  BY FeedStep
<1> QED
  BY <1>0, <1>1, <1>2, TypeCorrect, Inductive, PTL DEF Spec, ImplementsFeed, Promise!Spec

-----------------------------------------------------------------------------
(* One run at a time, whatever happens to the repository.                  *)

\* What one process's step leaves alone: the repository, what other loops
\* hold, and the locals of every other run.
LEMMA RunFrame ==
  ASSUME TypeOK, NEW p \in Run, RunStep(p) \/ GuardCrash(p) \/ Crash(p)
  PROVE  /\ UNCHANGED <<made, anc, tip, repo, gone, copy, holding>>
         /\ \A q \in Run \ {p} :
              /\ pc'[q] = pc[q] /\ prior'[q] = prior[q] /\ new'[q] = new[q]
              /\ idx'[q] = idx[q] /\ found'[q] = found[q]
              /\ res'[q] = res[q] /\ out'[q] = out[q]
         /\ pc[p] # "idle" \/ pc'[p] # "idle"
BY DEF RunStep, Start, Probe, ReadState, Resolve, List, Compare, CiteTip, Clean, CheckSha, Verify,
       GuardCrash, Finish, Write, AppendLog, Crash, Decide, Goto, Fresh, TypeOK,
       repoVars, world

\* The state file changes only when a run writes it.
LEMMA SectionFrame ==
  ASSUME NEW p \in Run, RunStep(p) \/ GuardCrash(p) \/ Crash(p), ~Write(p)
  PROVE  section' = section
BY DEF RunStep, Start, Probe, ReadState, Resolve, List, Compare, CiteTip, Clean, CheckSha, Verify,
       GuardCrash, Finish, AppendLog, Crash, durableVars

LEMMA DecideLocals ==
  ASSUME TypeOK, NEW p \in Run, NEW result, NEW cursors,
         Decide(p, result, cursors)
  PROVE  /\ pc'[p] = "finish" /\ res'[p] = result /\ out'[p] = cursors
         /\ UNCHANGED <<prior, new, idx, found>>
BY DEF Decide, Goto, TypeOK

\* The cursors a run handles are heads it saw, or came from the file.
LEMMA RunKnown ==
  ASSUME TypeOK, TypeOK', KnownOK, NEW p \in Run,
         RunStep(p) \/ GuardCrash(p) \/ Crash(p)
  PROVE  KnownOK'
<1> DEFINE K(cursors) == KnownCursors(cursors)
<1>1. K(NoCursors)
  BY DEF KnownCursors, NoCursors
<1>2. /\ \A r \in Ref : tip[r] \in made
      /\ K(section.cursors) /\ K(prior[p]) /\ K(new[p]) /\ K(out[p])
  BY DEF KnownOK
<1>3. K(prior'[p])
  BY <1>1, <1>2
  DEF RunStep, Start, Probe, ReadState, Resolve, List, Compare, CiteTip, Clean, CheckSha, Verify,
      GuardCrash, Finish, Write, AppendLog, Crash, Decide, Fresh, TypeOK
<1>4. K(new'[p])
  <2>1. CASE Resolve(p) /\ repo = "ok"
    <3>1. new'[p] = [new[p] EXCEPT ![idx[p]] = tip[idx[p]]] /\ idx[p] \in Ref
      BY <2>1 DEF Resolve, TypeOK
    <3>2. \A r \in Ref : new'[p][r] \in {new[p][r], tip[r]}
      BY <3>1 DEF TypeOK, Cursors
    <3> QED
      BY <1>2, <3>2 DEF KnownCursors
  <2>2. CASE ~(Resolve(p) /\ repo = "ok")
    BY <1>1, <1>2, <2>2
    DEF RunStep, Start, Probe, ReadState, Resolve, List, Compare, CiteTip, Clean, CheckSha, Verify,
        GuardCrash, Finish, Write, AppendLog, Crash, Decide, Fresh, TypeOK
  <2> QED
    BY <2>1, <2>2
<1>5. K(out'[p])
  BY <1>1, <1>2
  DEF RunStep, Start, Probe, ReadState, Resolve, List, Compare, CiteTip, Clean, CheckSha, Verify,
      GuardCrash, Finish, CursorsToWrite, Write, AppendLog, Crash, Decide, Fresh,
      TypeOK
<1>6. K(section'.cursors)
  BY <1>2, SectionFrame DEF Write
<1> HIDE DEF K
<1>7. \A q \in Run : K(prior'[q]) /\ K(new'[q]) /\ K(out'[q])
  BY <1>3, <1>4, <1>5, RunFrame DEF KnownOK, K
<1>8. \A f : K(f) => KnownCursors(f)'
  BY RunFrame DEF K, KnownCursors
<1> QED
  BY <1>6, <1>7, <1>8, RunFrame DEF KnownOK, K

LEMMA EnvironmentKnown ==
  ASSUME TypeOK, KnownOK, Environment \/ UNCHANGED vars
  PROVE  KnownOK'
<1> USE DEF otherThanRepo, repoVars, world, durableVars, localVars
<1>1. made \subseteq made' /\ UNCHANGED <<prior, new, out>>
  BY DEF Environment, CommitObject, Advance, Rewrite, Prune, Break, Repair,
         TogglePause, OtherLoads, OtherStores, vars
<1>2. \A r \in Ref : tip'[r] \in made'
  BY DEF Environment, CommitObject, Advance, Rewrite, Prune, Break, Repair,
         TogglePause, OtherLoads, OtherStores, vars, KnownOK, TypeOK
<1>3. KnownCursors(EmptySection.cursors)
  BY DEF KnownCursors, EmptySection, NoCursors
<1>4. /\ KnownCursors(section'.cursors)
      /\ \A o \in Other : KnownCursors(copy'[o].cursors)
  BY <1>3
  DEF Environment, CommitObject, Advance, Rewrite, Prune, Break, Repair,
      TogglePause, OtherLoads, OtherStores, vars, KnownOK, TypeOK
<1> QED
  BY <1>1, <1>2, <1>4 DEF KnownOK, KnownCursors

\* Commits made later leave what known cursors cover alone.
LEMMA BehindKept ==
  ASSUME TypeOK, KnownOK, Environment \/ UNCHANGED vars,
         NEW cursors, KnownCursors(cursors)
  PROVE  \A r \in Ref : Behind(cursors[r])' = Behind(cursors[r])
<1>1. \A c \in made : anc'[c] = anc[c]
  BY DEF Environment, CommitObject, Advance, Rewrite, Prune, Break, Repair,
         TogglePause, OtherLoads, OtherStores, vars, repoVars, TypeOK
<1> QED
  BY <1>1 DEF KnownCursors, Behind

\* With one run at a time every step of a run keeps the serial invariant.
LEMMA RunSerial ==
  ASSUME TypeOK, TypeOK', SerialOK, OneAtATime, OneAtATime', NEW p \in Run,
         RunStep(p) \/ GuardCrash(p) \/ Crash(p)
  PROVE  SerialOK'
<1> USE DEF SerialOK
<1>1. /\ UNCHANGED <<made, anc, tip, repo, copy, holding>>
      /\ \A q \in Run \ {p} : pc'[q] = pc[q] /\ found'[q] = found[q]
      /\ pc[p] # "idle" \/ pc'[p] # "idle"
  BY RunFrame
<1>2. holding' = {} /\ \A q \in Run \ {p} : pc[q] = "idle" /\ pc'[q] = "idle"
  BY <1>1 DEF OneAtATime
<1>3. KnownOK'
  BY RunKnown
<1>4. \A q \in Run \ {p} : SerialRunOK(q)'
  BY <1>1, <1>2 DEF SerialRunOK
<1>5. SerialRunOK(p)
  OBVIOUS
<1>6. \A c \in Commit : Behind(c)' = Behind(c)
  BY <1>1 DEF Behind
<1>7. SerialRunOK(p)'
  <2>1. ASSUME NEW result \in Result \ {"found"}, Decide(p, result, NoCursors),
               section' = section
        PROVE  SerialRunOK(p)'
    BY <2>1, DecideLocals DEF SerialRunOK
  <2> USE DEF Result
  <2>2. CASE Start(p) \/ Probe(p)
    <3>1. CASE Decide(p, "clean", NoCursors) \/ Decide(p, "escalated", NoCursors)
      BY <2>1, <2>2, <3>1 DEF Start, Probe, durableVars
    <3>2. CASE pc'[p] \in {"probe", "read"} /\ pc[p] \in {"idle", "probe"} /\ found' = found
      BY <1>5, <3>2 DEF SerialRunOK
    <3> QED
      BY <2>2, <3>1, <3>2 DEF Start, Probe, Goto, TypeOK
  <2>3. CASE ReadState(p)
    <3>1. /\ pc[p] = "read" /\ pc'[p] = "resolve" /\ found' = found
          /\ prior'[p] = section.cursors /\ section' = section
      BY <2>3 DEF ReadState, Goto, TypeOK, durableVars
    <3> QED
      BY <1>5, <3>1 DEF SerialRunOK, Unreported
  <2>4. CASE \/ Resolve(p) \/ Compare(p) \/ CiteTip(p)
             \/ \E c \in Actionable(p) : CheckSha(p, c)
    <3>1. CASE Decide(p, "escalated", NoCursors)
      BY <2>1, <2>4, <3>1 DEF Resolve, Compare, CiteTip, CheckSha, durableVars
    <3>2. CASE /\ pc'[p] \in {"list", "tip", "judge"}
               /\ pc[p] \in {"resolve", "compare", "tip", "judge"}
               /\ UNCHANGED <<found, prior, section, anc>>
      BY <1>5, <3>2 DEF SerialRunOK, Unreported, Behind
    <3> QED
      BY <1>1, <2>4, <3>1, <3>2
      DEF Resolve, Compare, CiteTip, CheckSha, Goto, TypeOK, durableVars
  <2>5. CASE List(p)
    <3>1. CASE Decide(p, "escalated", NoCursors)
      BY <2>1, <2>5, <3>1 DEF List, durableVars
    <3>2. CASE ~Decide(p, "escalated", NoCursors)
      <4>1. /\ pc[p] = "list" /\ pc'[p] \in {"resolve", "compare", "judge"}
            /\ found'[p] = found[p] \cup NewCommits(idx[p], prior[p][idx[p]])
            /\ UNCHANGED <<prior, section>> /\ idx[p] \in Ref
        BY <2>5, <3>2 DEF List, Goto, TypeOK, durableVars
      <4>2. prior[p] = section.cursors /\ Unreported(p)
        BY <1>5, <4>1 DEF SerialRunOK
      <4>3. \A c \in NewCommits(idx[p], prior[p][idx[p]]) :
                 c \notin Behind(section.cursors[idx[p]])
        BY <4>2 DEF NewCommits, Behind
      <4>4. Unreported(p)'
        BY <1>1, <4>1, <4>2, <4>3 DEF Unreported, Behind
      <4> QED
        BY <4>1, <4>2, <4>4 DEF SerialRunOK
    <3> QED
      BY <3>1, <3>2
  <2>6. CASE Clean(p) \/ Verify(p) \/ GuardCrash(p)
    <3>1. /\ pc[p] = "judge" /\ section' = section
          /\ prior[p] = section.cursors /\ Unreported(p)
      BY <1>5, <2>6 DEF Clean, Verify, GuardCrash, SerialRunOK, durableVars
    <3>2. \/ Decide(p, "clean", new[p]) \/ Decide(p, "escalated", NoCursors)
          \/ Decide(p, "error", prior[p]) \/ Decide(p, "found", new[p])
      BY <2>6 DEF Clean, Verify, GuardCrash
    <3>3. pc'[p] = "finish" /\ found' = found
      BY <3>2, DecideLocals
    <3>4. res'[p] \in {"error", "escalated"} => out'[p] \in {NoCursors, section.cursors}
      BY <3>1, <3>2, DecideLocals
    <3>5. Unreported(p)'
      BY <1>1, <3>1, <3>3 DEF Unreported, Behind
    <3> QED
      BY <3>1, <3>3, <3>4, <3>5 DEF SerialRunOK
  <2>7. CASE Finish(p)
    <3>1. /\ pc[p] = "finish" /\ pc'[p] = "write" /\ out'[p] = CursorsToWrite(p)
          /\ UNCHANGED <<section, found, res>>
      BY <2>7 DEF Finish, Goto, TypeOK, durableVars
    <3>2. Unreported(p) => Unreported(p)'
      BY <1>1, <3>1 DEF Unreported, Behind
    <3> QED
      BY <1>5, <3>1, <3>2 DEF SerialRunOK, CursorsToWrite
  <2>8. CASE Write(p)
    BY <2>8 DEF Write, Goto, TypeOK, SerialRunOK
  <2>9. CASE AppendLog(p) \/ Crash(p)
    <3>1. pc'[p] = "idle" /\ found'[p] = {}
      BY <2>9 DEF AppendLog, Crash, Goto, Fresh, TypeOK
    <3> QED
      BY <3>1 DEF SerialRunOK
  <2> QED
    BY <2>2, <2>3, <2>4, <2>5, <2>6, <2>7, <2>8, <2>9 DEF RunStep
<1> QED
  BY <1>2, <1>3, <1>4, <1>7

LEMMA EnvironmentSerial ==
  ASSUME TypeOK, SerialOK, OneAtATime, OneAtATime', Environment \/ UNCHANGED vars
  PROVE  SerialOK'
<1>1. UNCHANGED localVars
  BY DEF Environment, CommitObject, Advance, Rewrite, Prune, Break, Repair,
         TogglePause, OtherLoads, OtherStores, vars, otherThanRepo
<1>2. section' = section
  BY DEF Environment, CommitObject, Advance, Rewrite, Prune, Break, Repair,
         TogglePause, OtherLoads, OtherStores, vars, otherThanRepo, durableVars,
         SerialOK
<1>3. \A o \in holding' : copy'[o] = section
  BY DEF Environment, CommitObject, Advance, Rewrite, Prune, Break, Repair,
         TogglePause, OtherLoads, OtherStores, vars, otherThanRepo, world,
         SerialOK, TypeOK
<1>4. KnownOK'
  BY EnvironmentKnown DEF SerialOK
<1>5. \A r \in Ref : Behind(section.cursors[r])' = Behind(section.cursors[r])
  BY <1>2, BehindKept DEF SerialOK, KnownOK, Behind
<1>6. \A p \in Run : SerialRunOK(p)'
  BY <1>1, <1>2, <1>5 DEF SerialOK, SerialRunOK, Unreported, localVars
<1> QED
  BY <1>2, <1>3, <1>4, <1>6 DEF SerialOK

LEMMA InitSerial == Init => SerialOK
<1> SUFFICES ASSUME Init PROVE SerialOK
  OBVIOUS
<1>1. \A r \in Ref : NoCursors[r] = None
  BY DEF NoCursors
<1>2. KnownOK
  BY <1>1 DEF Init, KnownOK, KnownCursors, EmptySection
<1>3. \A p \in Run : SerialRunOK(p)
  BY DEF Init, SerialRunOK
<1> QED
  BY <1>2, <1>3 DEF Init, SerialOK

\* While runs do not overlap and no other loop writes under them, what a run
\* read at its start is what the state file says when it ends, whatever is
\* force-pushed, pruned or broken meanwhile and whichever runs are killed.
THEOREM SerialInductive == Spec /\ []OneAtATime => []SerialOK
<1>1. TypeOK /\ TypeOK' /\ OneAtATime /\ OneAtATime' /\ SerialOK /\ [Next]_vars
        => SerialOK'
  BY RunSerial, EnvironmentSerial DEF Next
<1> QED
  BY <1>1, InitSerial, TypeCorrect, PTL DEF Spec

\* One run at a time, no finding is written that the cursors of the state it
\* replaces all cover.  What lies ahead of some cursor may have been reported
\* before, through another ref or before a force-push.
THEOREM CoveredIsQuiet == Spec /\ []OneAtATime => CoveredNotReported
<1>1. ASSUME TypeOK, SerialOK, OneAtATime, OneAtATime', [Next]_vars
      PROVE  [\A c \in section'.found :
                \E r \in Ref : c \notin Behind(section.cursors[r])]_section
  <2>1. ASSUME NEW p \in Run, Write(p)
        PROVE  \A c \in section'.found :
                 \E r \in Ref : c \notin Behind(section.cursors[r])
    BY <1>1, <2>1 DEF Write, SerialOK, SerialRunOK, Unreported, Findings
  <2>2. CASE Environment \/ UNCHANGED vars
    BY <1>1, <2>2
    DEF Environment, CommitObject, Advance, Rewrite, Prune, Break, Repair,
        TogglePause, OtherLoads, OtherStores, vars, otherThanRepo, durableVars,
        SerialOK
  <2> QED
    BY <1>1, <2>1, <2>2, SectionFrame DEF Next
<1> QED
  BY <1>1, SerialInductive, TypeCorrect, PTL DEF Spec, CoveredNotReported

\* One run at a time, a run that ends in an error or an escalation puts back
\* the cursors it found.
THEOREM FailureKeepsCursors == Spec /\ []OneAtATime => FailedRunKeepsCursors
<1>1. ASSUME TypeOK, SerialOK, OneAtATime, OneAtATime', [Next]_vars
      PROVE  [section'.result \in {"error", "escalated"}
                => section'.cursors = section.cursors]_section
  <2>1. ASSUME NEW p \in Run, Write(p)
        PROVE  section'.result \in {"error", "escalated"}
                 => section'.cursors = section.cursors
    BY <1>1, <2>1 DEF Write, SerialOK, SerialRunOK
  <2>2. CASE Environment \/ UNCHANGED vars
    BY <1>1, <2>2
    DEF Environment, CommitObject, Advance, Rewrite, Prune, Break, Repair,
        TogglePause, OtherLoads, OtherStores, vars, otherThanRepo, durableVars,
        SerialOK
  <2> QED
    BY <1>1, <2>1, <2>2, SectionFrame DEF Next
<1> QED
  BY <1>1, SerialInductive, TypeCorrect, PTL DEF Spec, FailedRunKeepsCursors

-----------------------------------------------------------------------------
(* One run at a time over a history nobody rewrites.                       *)

LEMMA RunOnward ==
  ASSUME TypeOK, IInv, SerialOK, OnwardOK, OneAtATime, OneAtATime',
         NEW p \in Run, RunStep(p) \/ GuardCrash(p) \/ Crash(p)
  PROVE  OnwardOK'
<1> DEFINE Sane(cursors) == cursors = NoCursors \/ Onward(cursors)
<1>1. /\ UNCHANGED <<made, anc, tip, repo>>
      /\ \A q \in Run \ {p} : pc'[q] = pc[q]
      /\ pc[p] # "idle" \/ pc'[p] # "idle"
  BY RunFrame
<1>2. \A q \in Run \ {p} : pc'[q] = "idle"
  BY <1>1 DEF OneAtATime
<1>3. \A q \in Run \ {p} : OnwardRunOK(q)'
  BY <1>2 DEF OnwardRunOK, ResolvedBy
<1>4. OnwardRunOK(p) /\ Onward(section.cursors) /\ SerialRunOK(p) /\ RunOK(p)
  BY DEF OnwardOK, SerialOK, IInv
<1>5. \A f : Onward(f) /\ section' = section => Onward(f)'
  BY <1>1 DEF Onward, Behind
<1>6. Onward(section.cursors)' /\ OnwardRunOK(p)'
  <2>1. ASSUME NEW result, NEW cursors, Sane(cursors),
               Decide(p, result, cursors), section' = section
        PROVE  Onward(section.cursors)' /\ OnwardRunOK(p)'
    BY <1>4, <1>5, <2>1, DecideLocals DEF OnwardRunOK, ResolvedBy
  <2>2. Sane(NoCursors)
    OBVIOUS
  <2>3. CASE Start(p) \/ Probe(p) \/ ReadState(p)
    <3>1. CASE Decide(p, "clean", NoCursors) \/ Decide(p, "escalated", NoCursors)
      BY <2>1, <2>3, <3>1 DEF Start, Probe, ReadState, durableVars
    <3>2. CASE /\ pc'[p] \in {"probe", "read", "resolve"} /\ idx'[p] = 1
               /\ section' = section
      <4>1. \A r \in Ref : ~ResolvedBy(p, r)'
        BY <3>2 DEF ResolvedBy, Ref
      <4> QED
        BY <1>4, <1>5, <3>2, <4>1 DEF OnwardRunOK
    <3>3. pc[p] \in {"idle", "probe", "read"} /\ idx[p] = 1 /\ section' = section
      BY <1>4, <2>3 DEF Start, Probe, ReadState, durableVars, RunOK
    <3> QED
      BY <2>3, <3>1, <3>2, <3>3 DEF Start, Probe, ReadState, Goto, TypeOK
  <2>4. CASE Resolve(p)
    <3>1. CASE repo # "ok"
      BY <2>1, <2>4, <3>1 DEF Resolve, durableVars
    <3>2. CASE repo = "ok"
      <4>1. /\ pc[p] = "resolve" /\ pc'[p] = "list" /\ idx' = idx
            /\ new'[p] = [new[p] EXCEPT ![idx[p]] = tip[idx[p]]]
            /\ section' = section /\ idx[p] \in Ref
        BY <2>4, <3>2 DEF Resolve, Goto, TypeOK, durableVars
      <4>2. \A r \in Ref : /\ r = idx[p] => new'[p][r] = tip[r]
                           /\ r # idx[p] => new'[p][r] = new[p][r]
        BY <4>1 DEF TypeOK, Cursors
      <4>3. \A r \in Ref : tip[r] \in made
        BY DEF SerialOK, KnownOK
      <4>4. \A r \in Ref : r # idx[p] /\ ResolvedBy(p, r)' => ResolvedBy(p, r)
        BY <4>1 DEF ResolvedBy
      <4>5. \A r \in Ref : ResolvedBy(p, r)'
                => /\ new'[p][r] \in made
                   /\ Behind(section.cursors[r]) \subseteq anc[new'[p][r]]
                   /\ anc[new'[p][r]] \subseteq anc[tip[r]]
        BY <1>4, <4>2, <4>3, <4>4 DEF OnwardRunOK, Onward
      <4> QED
        BY <1>1, <1>4, <1>5, <4>1, <4>5 DEF OnwardRunOK, Behind
    <3> QED
      BY <3>1, <3>2
  <2>5. CASE List(p)
    <3>1. CASE Decide(p, "escalated", NoCursors)
      BY <2>1, <2>5, <3>1 DEF List, durableVars
    <3>2. CASE ~Decide(p, "escalated", NoCursors)
      <4>1. /\ pc[p] = "list" /\ UNCHANGED <<new, section>> /\ idx[p] \in Ref
            /\ \/ idx'[p] = idx[p] + 1 /\ pc'[p] = "resolve"
               \/ /\ ~(idx[p] < NRefs) /\ idx'[p] = idx[p]
                  /\ pc'[p] \in {"compare", "tip", "judge"}
        BY <2>5, <3>2 DEF List, Goto, TypeOK, durableVars
      <4>2. \A r \in Ref : ResolvedBy(p, r)' => ResolvedBy(p, r)
        BY <4>1 DEF ResolvedBy, Ref
      <4> QED
        BY <1>1, <1>4, <1>5, <4>1, <4>2 DEF OnwardRunOK, Behind
    <3> QED
      BY <3>1, <3>2
  <2>6. CASE \/ Compare(p) \/ CiteTip(p)
             \/ \E c \in Actionable(p) : CheckSha(p, c)
    <3>1. CASE Decide(p, "escalated", NoCursors)
      BY <2>1, <2>2, <2>6, <3>1 DEF Compare, CiteTip, CheckSha, durableVars
    <3>2. CASE ~Decide(p, "escalated", NoCursors)
      <4>1. /\ pc[p] \in {"compare", "tip", "judge"} /\ pc'[p] \in {"tip", "judge"}
            /\ UNCHANGED <<new, section>>
        BY <2>6, <3>2 DEF Compare, CiteTip, CheckSha, Goto, TypeOK, durableVars
      <4> QED
        BY <1>1, <1>4, <1>5, <4>1 DEF OnwardRunOK, ResolvedBy, Behind
    <3> QED
      BY <3>1, <3>2
  <2>7. CASE Clean(p) \/ Verify(p) \/ GuardCrash(p)
    <3>1. /\ pc[p] = "judge" /\ section' = section /\ prior[p] = section.cursors
      BY <1>4, <2>7 DEF Clean, Verify, GuardCrash, SerialRunOK, durableVars
    <3>2. Sane(prior[p])
      BY <1>4, <3>1
    <3>3. \A r \in Ref : /\ new[p][r] \in made
                         /\ Behind(section.cursors[r]) \subseteq anc[new[p][r]]
                         /\ anc[new[p][r]] \subseteq anc[tip[r]]
      BY <1>4, <3>1 DEF OnwardRunOK, ResolvedBy
    <3>4. Sane(new[p])
      BY <3>3 DEF Onward, Behind, TypeOK
    <3>5. \/ Decide(p, "clean", new[p]) \/ Decide(p, "escalated", NoCursors)
          \/ Decide(p, "error", prior[p]) \/ Decide(p, "found", new[p])
      BY <2>7 DEF Clean, Verify, GuardCrash
    <3> QED
      BY <2>1, <2>2, <3>1, <3>2, <3>4, <3>5
  <2>8. CASE Finish(p)
    <3>1. /\ pc[p] = "finish" /\ pc'[p] = "write" /\ out'[p] = CursorsToWrite(p)
          /\ section' = section
      BY <2>8 DEF Finish, Goto, TypeOK, durableVars
    <3>2. Onward(CursorsToWrite(p))
      BY <1>4, <3>1 DEF OnwardRunOK, CursorsToWrite
    <3> QED
      BY <1>4, <1>5, <3>1, <3>2 DEF OnwardRunOK, ResolvedBy
  <2>9. CASE Write(p)
    <3>1. pc[p] = "write" /\ pc'[p] = "log" /\ section'.cursors = out[p]
      BY <2>9 DEF Write, Goto, TypeOK
    <3>2. Onward(out[p])
      BY <1>4, <3>1 DEF OnwardRunOK
    <3> QED
      BY <1>1, <3>1, <3>2 DEF OnwardRunOK, ResolvedBy, Onward, Behind
  <2>10. CASE AppendLog(p) \/ Crash(p)
    <3>1. pc'[p] = "idle" /\ section' = section
      BY <2>10 DEF AppendLog, Crash, Goto, Fresh, TypeOK, durableVars
    <3> QED
      BY <1>4, <1>5, <3>1 DEF OnwardRunOK, ResolvedBy
  <2> QED
    BY <2>3, <2>4, <2>5, <2>6, <2>7, <2>8, <2>9, <2>10 DEF RunStep
<1> QED
  BY <1>3, <1>6 DEF OnwardOK

LEMMA EnvironmentOnward ==
  ASSUME TypeOK, IInv, SerialOK, OnwardOK, MaxRewrites = 0,
         Environment \/ UNCHANGED vars
  PROVE  OnwardOK'
<1>1. UNCHANGED localVars /\ section' = section
  BY DEF Environment, CommitObject, Advance, Rewrite, Prune, Break, Repair,
         TogglePause, OtherLoads, OtherStores, vars, otherThanRepo, durableVars,
         SerialOK
<1>2. made \subseteq made' /\ \A c \in made : anc'[c] = anc[c]
  BY DEF Environment, CommitObject, Advance, Rewrite, Prune, Break, Repair,
         TogglePause, OtherLoads, OtherStores, vars, repoVars, TypeOK
<1>3. \A r \in Ref : anc[tip[r]] \subseteq anc'[tip'[r]]
  <2>1. \A r \in Ref : tip[r] \in made /\ tip[r] \in Commit
    BY DEF IInv, GraphOK, TypeOK
  <2>2. ASSUME NEW s \in Ref, NEW c \in made \ gone, Advance(s, c)
        PROVE  \A r \in Ref : anc[tip[r]] \subseteq anc'[tip'[r]]
    BY <2>2 DEF Advance, IInv, GraphOK, TypeOK
  <2>3. ~(rewrites < MaxRewrites)
    BY DEF TypeOK
  <2>4. tip' = tip \/ \E s \in Ref, c \in made \ gone : Advance(s, c)
    BY <2>3
    DEF Environment, CommitObject, Rewrite, Prune, Break, Repair, TogglePause,
        OtherLoads, OtherStores, vars, repoVars
  <2> QED
    BY <1>2, <2>1, <2>2, <2>4
<1>4. \A f : KnownCursors(f) => \A r \in Ref : Behind(f[r])' = Behind(f[r])
  BY BehindKept DEF SerialOK, Behind
<1>5. \A f : KnownCursors(f) /\ Onward(f) => Onward(f)'
  BY <1>1, <1>3, <1>4 DEF SerialOK, KnownOK, Onward
<1>6. ASSUME NEW p \in Run PROVE OnwardRunOK(p)'
  <2>1. KnownCursors(out[p]) /\ KnownCursors(section.cursors) /\ OnwardRunOK(p)
    BY DEF SerialOK, KnownOK, OnwardOK
  <2>2. pc' = pc /\ idx' = idx /\ new' = new /\ out' = out
    BY <1>1 DEF localVars
  <2>3. ASSUME NEW r \in Ref, ResolvedBy(p, r)'
        PROVE  /\ new[p][r] \in made'
               /\ Behind(section.cursors[r])' \subseteq anc'[new[p][r]]
               /\ anc'[new[p][r]] \subseteq anc'[tip'[r]]
    <3>1. /\ new[p][r] \in made
          /\ Behind(section.cursors[r]) \subseteq anc[new[p][r]]
          /\ anc[new[p][r]] \subseteq anc[tip[r]]
      BY <2>1, <2>2, <2>3 DEF OnwardRunOK, ResolvedBy
    <3>2. Behind(section.cursors[r])' = Behind(section.cursors[r])
      BY <1>1, <1>4, <2>1
    <3> QED
      BY <1>2, <1>3, <3>1, <3>2
  <2>4. pc[p] = "finish" => out[p] = NoCursors \/ Onward(out[p])'
    BY <1>5, <2>1, <2>2 DEF OnwardRunOK
  <2>5. pc[p] = "write" => Onward(out[p])'
    BY <1>5, <2>1, <2>2 DEF OnwardRunOK
  <2> QED
    BY <2>2, <2>3, <2>4, <2>5 DEF OnwardRunOK
<1> QED
  BY <1>1, <1>5, <1>6 DEF OnwardOK, SerialOK, KnownOK

LEMMA InitOnward == Init => OnwardOK
<1> SUFFICES ASSUME Init PROVE OnwardOK
  OBVIOUS
<1>1. Onward(section.cursors)
  BY DEF Init, EmptySection, NoCursors, Onward, Behind
<1> QED
  BY <1>1 DEF Init, OnwardOK, OnwardRunOK, ResolvedBy

\* On an append-only history, one run at a time, no outcome of a run - clean,
\* found, error, escalated, paused or killed - moves a durable cursor to where
\* commits it covered before would be scanned again.
THEOREM CursorsAdvance ==
  ASSUME MaxRewrites = 0
  PROVE  Spec /\ []OneAtATime => CursorsNeverRetreat
<1> DEFINE Kept == \A r \in Ref : Behind(section.cursors[r])
                                    \subseteq Behind(section.cursors[r])'
<1>0. TypeOK => rewrites = 0
  BY DEF TypeOK
<1>1. TypeOK /\ IInv /\ SerialOK /\ OneAtATime /\ OneAtATime' /\ OnwardOK
        /\ [Next]_vars => OnwardOK'
  BY RunOnward, EnvironmentOnward DEF Next
<1>2. ASSUME TypeOK, SerialOK, OneAtATime, OnwardOK, [Next]_vars
      PROVE  Kept
  <2>1. ASSUME NEW p \in Run, Write(p) PROVE Kept
    BY <1>2, <2>1 DEF Write, repoVars, OnwardOK, OnwardRunOK, Onward, Behind
  <2>2. CASE \E p \in Run : ~Write(p) /\ (RunStep(p) \/ GuardCrash(p) \/ Crash(p))
    BY <1>2, <2>2, SectionFrame, RunFrame DEF Behind
  <2>3. CASE Environment \/ UNCHANGED vars
    <3>1. section' = section
      BY <1>2, <2>3
      DEF Environment, CommitObject, Advance, Rewrite, Prune, Break, Repair,
          TogglePause, OtherLoads, OtherStores, vars, otherThanRepo, durableVars,
          SerialOK
    <3> QED
      BY <1>2, <2>3, <3>1, BehindKept DEF SerialOK, KnownOK, Behind
  <2> QED
    BY <1>2, <2>1, <2>2, <2>3 DEF Next
<1>3. TypeOK /\ SerialOK /\ OneAtATime /\ OnwardOK /\ [Next]_vars => [Kept]_vars
  BY <1>2
<1> QED
  BY <1>0, <1>1, <1>3, InitOnward, SerialInductive, Inductive, TypeCorrect, PTL
  DEF Spec, CursorsNeverRetreat

-----------------------------------------------------------------------------
(* A run nobody disturbs.                                                  *)

\* One ref more.
LEMMA AheadGrows ==
  ASSUME NEW cursors, NEW r \in Ref
  PROVE  /\ Ahead(cursors, 1 .. 0) = {}
         /\ Ahead(cursors, 1 .. r) = Ahead(cursors, 1 .. r - 1) \cup NewCommits(r, cursors[r])
<1>1. 1 .. 0 = {} /\ 1 .. r = (1 .. r - 1) \cup {r}
  BY DEF Ref
<1> QED
  BY <1>1 DEF Ahead

\* What a run does to the repository, the kill switch and what they determine.
LEMMA RunStill ==
  ASSUME TypeOK, NEW p \in Run, RunStep(p) \/ GuardCrash(p) \/ Crash(p)
  PROVE  /\ paused' = paused /\ UNCHANGED repoVars
         /\ FirstIsAhead' = FirstIsAhead
         /\ \A cursors, refs : Ahead(cursors, refs)' = Ahead(cursors, refs)
         /\ section' = section => Outcome' = Outcome
<1>1. paused' = paused /\ UNCHANGED repoVars
  BY RunFrame
  DEF RunStep, Start, Probe, ReadState, Resolve, List, Compare, CiteTip, Clean, CheckSha, Verify,
      GuardCrash, Finish, Write, AppendLog, Crash, world, repoVars
<1>2. anc' = anc /\ tip' = tip
  BY <1>1 DEF repoVars
<1>3. \A cursors, refs : Ahead(cursors, refs)' = Ahead(cursors, refs)
  BY <1>2 DEF Ahead, NewCommits
<1>4. FirstIsAhead' = FirstIsAhead
  BY <1>2 DEF FirstIsAhead
<1>5. section' = section => Outcome' = Outcome
  BY <1>1, <1>2, <1>3, <1>4 DEF Outcome, WorthReporting
<1> QED
  BY <1>1, <1>3, <1>4, <1>5

\* What _finish stores of a run that scanned every ref is the outcome.
LEMMA JudgedOutcome ==
  ASSUME TypeOK, WholeRun, NEW p \in Run, pc[p] = "judge",
         NEW result \in {"clean", "found"},
         result = "found" <=> HasActionable(p)
  PROVE  /\ new[p] = tip /\ new[p] # NoCursors
         /\ Outcome = [cursors |-> new[p], result |-> result,
                       found |-> IF result = "found" THEN found[p] ELSE {}]
<1>1. WholeRunOK(p)
  BY DEF WholeRun
<1>2. \A r \in Ref : new[p][r] = tip[r]
  BY <1>1 DEF WholeRunOK, ResolvedBy
<1>3. new[p] = tip
  BY <1>2 DEF TypeOK, Cursors
<1>4. tip[1] \in Commit /\ NoCursors[1] = None
  BY FirstRef DEF TypeOK, NoCursors
<1>5. found[p] = Ahead(section.cursors, Ref) /\ (cite[p] # None <=> FirstIsAhead)
      /\ ~paused
  BY <1>1 DEF WholeRunOK
<1>6. HasActionable(p) <=> WorthReporting
  BY <1>5 DEF HasActionable, Actionable, WorthReporting
<1>7. CASE result = "found"
  BY <1>3, <1>4, <1>5, <1>6, <1>7, NoneAssumption DEF Outcome
<1>8. CASE result = "clean"
  BY <1>3, <1>4, <1>5, <1>6, <1>8, NoneAssumption DEF Outcome
<1> QED
  BY <1>7, <1>8

LEMMA RunWhole ==
  ASSUME TypeOK, TypeOK', SerialOK, OneAtATime, OneAtATime', WholeRun,
         NEW p \in Run, RunStep(p) \/ GuardCrash(p) \/ Crash(p)
  PROVE  WholeRun'
<1>1. /\ \A q \in Run \ {p} : pc[q] = "idle" /\ pc'[q] = "idle"
      /\ \A q \in Run \ {p} : idx'[q] = idx[q]
  BY RunFrame DEF OneAtATime
<1>2. \A q \in Run \ {p} : cite'[q] = cite[q]
  BY DEF RunStep, Start, Probe, ReadState, Resolve, List, Compare, CiteTip, Clean, CheckSha, Verify,
         GuardCrash, Finish, Write, AppendLog, Crash, Decide, Fresh, TypeOK
<1>3. WholeRunOK(p) /\ SerialRunOK(p)
  BY DEF WholeRun, SerialOK
<1>4. \A q \in Run \ {p} : WholeRunOK(q)'
  BY <1>1, <1>2 DEF WholeRun, WholeRunOK, ResolvedBy
<1>5. /\ paused' = paused /\ anc' = anc /\ tip' = tip
      /\ FirstIsAhead' = FirstIsAhead
      /\ \A cursors, refs : Ahead(cursors, refs)' = Ahead(cursors, refs)
      /\ section' = section => Outcome' = Outcome
  BY RunStill DEF repoVars
<1>6. WholeRunOK(p)'
  <2>1. ASSUME NEW result \in Result \ {"found", "clean"}, NEW cursors,
               Decide(p, result, cursors)
        PROVE  WholeRunOK(p)'
    BY <2>1, DecideLocals DEF WholeRunOK, ResolvedBy
  <2> USE DEF Result
  <2>2. CASE Start(p)
    <3>1. CASE paused
      <4>1. Decide(p, "clean", NoCursors) /\ section' = section
        BY <2>2, <3>1 DEF Start, durableVars
      <4>2. pc'[p] = "finish" /\ res'[p] = "clean" /\ out'[p] = NoCursors
        BY <4>1, DecideLocals
      <4>3. CursorsToWrite(p)' = section.cursors /\ Findings(p)' = {}
        BY <4>1, <4>2 DEF CursorsToWrite, Findings
      <4>4. Outcome' = [cursors |-> section.cursors, result |-> "clean", found |-> {}]
        BY <1>5, <3>1, <4>1 DEF Outcome
      <4> QED
        BY <4>2, <4>3, <4>4 DEF WholeRunOK, ResolvedBy
    <3>2. CASE Decide(p, "escalated", NoCursors)
      BY <2>1, <3>2
    <3>3. CASE ~paused /\ pc'[p] = "probe" /\ pc[p] = "idle" /\ idx' = idx /\ cite' = cite
      BY <1>3, <1>5, <3>3 DEF WholeRunOK, ResolvedBy
    <3> QED
      BY <2>2, <3>1, <3>2, <3>3 DEF Start, Goto, TypeOK
  <2>3. CASE Probe(p)
    <3>1. CASE Decide(p, "escalated", NoCursors)
      BY <2>1, <3>1
    <3>2. CASE pc'[p] = "read" /\ pc[p] = "probe" /\ idx' = idx /\ cite' = cite
      BY <1>3, <1>5, <3>2 DEF WholeRunOK, ResolvedBy
    <3> QED
      BY <2>3, <3>1, <3>2 DEF Probe, Goto, TypeOK
  <2>4. CASE ReadState(p)
    <3>1. /\ pc[p] = "read" /\ pc'[p] = "resolve"
          /\ UNCHANGED <<new, idx, found, cite, section>>
      BY <2>4 DEF ReadState, Goto, TypeOK, durableVars
    <3>2. idx[p] = 1 /\ cite[p] = None /\ found[p] = {} /\ ~paused
      BY <1>3, <3>1 DEF WholeRunOK, SerialRunOK
    <3>3. Ahead(section.cursors, 1 .. idx[p] - 1) = {}
      BY <3>2, AheadGrows, FirstRef
    <3>4. \A r \in Ref : ~ResolvedBy(p, r)'
      BY <3>1, <3>2 DEF ResolvedBy, Ref
    <3> QED
      BY <1>5, <3>1, <3>2, <3>3, <3>4 DEF WholeRunOK
  <2>5. CASE Resolve(p)
    <3>1. CASE Decide(p, "escalated", NoCursors)
      BY <2>1, <3>1
    <3>2. CASE /\ pc[p] = "resolve" /\ pc'[p] = "list"
               /\ new'[p] = [new[p] EXCEPT ![idx[p]] = tip[idx[p]]]
               /\ UNCHANGED <<idx, found, cite, section>>
      <4>1. \A r \in Ref : ResolvedBy(p, r)' => r = idx[p] \/ ResolvedBy(p, r)
        BY <3>2 DEF ResolvedBy
      <4>2. \A r \in Ref : ResolvedBy(p, r)' => new'[p][r] = tip'[r]
        BY <1>3, <1>5, <3>2, <4>1 DEF WholeRunOK, TypeOK, Cursors
      <4> QED
        BY <1>3, <1>5, <3>2, <4>2 DEF WholeRunOK
    <3> QED
      BY <2>5, <3>1, <3>2 DEF Resolve, Goto, TypeOK, durableVars
  <2>6. CASE List(p)
    <3>1. CASE Decide(p, "escalated", NoCursors)
      BY <2>1, <3>1
    <3>2. CASE ~Decide(p, "escalated", NoCursors)
      <4>1. /\ pc[p] = "list"
            /\ found'[p] = found[p] \cup NewCommits(idx[p], prior[p][idx[p]])
            /\ UNCHANGED <<new, cite, section>> /\ idx[p] \in Ref
            /\ IF idx[p] < NRefs
               THEN pc'[p] = "resolve" /\ idx'[p] = idx[p] + 1
               ELSE /\ pc'[p] = IF NRefs >= 2 THEN "compare" ELSE "judge"
                    /\ idx' = idx
        BY <2>6, <3>2 DEF List, Goto, TypeOK, durableVars
      <4>2. prior[p] = section.cursors /\ cite[p] = None /\ ~paused
            /\ found[p] = Ahead(section.cursors, 1 .. idx[p] - 1)
        BY <1>3, <4>1 DEF WholeRunOK, SerialRunOK
      <4>3. found'[p] = Ahead(section.cursors, 1 .. idx[p])
        BY <1>5, <4>1, <4>2, AheadGrows
      <4>4. \A r \in Ref : r <= idx[p] => new'[p][r] = tip'[r]
        BY <1>3, <1>5, <4>1 DEF WholeRunOK, ResolvedBy, Ref
      <4>5. CASE idx[p] < NRefs
        <5>1. idx'[p] - 1 = idx[p]
          BY <4>1, <4>5 DEF Ref
        <5>2. \A r \in Ref : ResolvedBy(p, r)' => r <= idx[p]
          BY <4>1, <4>5 DEF ResolvedBy, Ref
        <5> QED
          BY <1>5, <4>1, <4>2, <4>3, <4>4, <4>5, <5>1, <5>2 DEF WholeRunOK
      <4>6. CASE ~(idx[p] < NRefs)
        <5>1. 1 .. idx[p] = Ref /\ \A r \in Ref : r <= idx[p]
          BY <4>1, <4>6 DEF Ref
        <5>2. pc'[p] = "judge" => ~FirstIsAhead
          BY <4>1, <4>6, NRefsAssumption DEF FirstIsAhead
        <5> QED
          BY <1>5, <4>1, <4>2, <4>3, <4>4, <4>6, <5>1, <5>2 DEF WholeRunOK
      <4> QED
        BY <4>5, <4>6
    <3> QED
      BY <3>1, <3>2
  <2>7. CASE Compare(p)
    <3>1. CASE Decide(p, "escalated", NoCursors)
      BY <2>1, <3>1
    <3>2. CASE /\ pc[p] = "compare"
               /\ pc'[p] = IF FirstIsAhead THEN "tip" ELSE "judge"
               /\ UNCHANGED <<new, idx, found, cite, section>>
      <4>1. cite[p] = None
        BY <1>3, <3>2 DEF WholeRunOK
      <4> QED
        BY <1>3, <1>5, <3>2, <4>1 DEF WholeRunOK, ResolvedBy
    <3> QED
      BY <2>7, <3>1, <3>2 DEF Compare, Goto, TypeOK, durableVars
  <2>12. CASE CiteTip(p)
    <3>1. CASE Decide(p, "escalated", NoCursors)
      BY <2>1, <3>1
    <3>2. CASE /\ pc[p] = "tip" /\ pc'[p] = "judge" /\ cite'[p] = tip[1]
               /\ UNCHANGED <<new, idx, found, section>>
      <4>1. cite'[p] # None /\ FirstIsAhead
        BY <1>3, <3>2, FirstRef, NoneAssumption DEF TypeOK, WholeRunOK
      <4> QED
        BY <1>3, <1>5, <3>2, <4>1 DEF WholeRunOK, ResolvedBy
    <3> QED
      BY <2>12, <3>1, <3>2 DEF CiteTip, Goto, TypeOK, durableVars
  <2>13. CASE \E c \in Actionable(p) : CheckSha(p, c)
    <3>1. /\ pc[p] = "judge" /\ pc' = pc
          /\ UNCHANGED <<new, idx, found, cite, section>>
      BY <2>13 DEF CheckSha, durableVars
    <3> QED
      BY <1>3, <1>5, <3>1 DEF WholeRunOK, ResolvedBy
  <2>8. CASE Clean(p) \/ Verify(p) \/ GuardCrash(p)
    <3>1. CASE Decide(p, "escalated", NoCursors) \/ Decide(p, "error", prior[p])
      BY <2>1, <3>1
    <3>2. ASSUME NEW result \in {"clean", "found"}, Decide(p, result, new[p]),
                 result = "found" <=> HasActionable(p)
          PROVE  WholeRunOK(p)'
      <4>1. pc[p] = "judge" /\ section' = section
        BY <2>8 DEF Clean, Verify, GuardCrash, durableVars
      <4>2. /\ new[p] # NoCursors
            /\ Outcome = [cursors |-> new[p], result |-> result,
                          found |-> IF result = "found" THEN found[p] ELSE {}]
        BY <3>2, <4>1, JudgedOutcome
      <4>3. /\ pc'[p] = "finish" /\ res'[p] = result /\ out'[p] = new[p]
            /\ found' = found
        BY <3>2, DecideLocals
      <4>4. /\ CursorsToWrite(p)' = new[p]
            /\ Findings(p)' = IF result = "found" THEN found[p] ELSE {}
        BY <4>2, <4>3 DEF CursorsToWrite, Findings
      <4>5. Outcome' = [cursors |-> CursorsToWrite(p)', result |-> res'[p],
                        found |-> Findings(p)']
        BY <1>5, <4>1, <4>2, <4>3, <4>4
      <4> QED
        BY <4>3, <4>5 DEF WholeRunOK, ResolvedBy
    <3> QED
      BY <2>8, <3>1, <3>2 DEF Clean, Verify, GuardCrash
  <2>9. CASE Finish(p)
    <3>1. /\ pc[p] = "finish" /\ pc'[p] = "write" /\ out'[p] = CursorsToWrite(p)
          /\ UNCHANGED <<section, found, res>>
      BY <2>9 DEF Finish, Goto, TypeOK, durableVars
    <3>2. Findings(p)' = Findings(p)
      BY <3>1 DEF Findings
    <3> QED
      BY <1>3, <1>5, <3>1, <3>2 DEF WholeRunOK, ResolvedBy
  <2>10. CASE Write(p)
    BY <2>10 DEF Write, Goto, TypeOK, WholeRunOK, ResolvedBy
  <2>11. CASE AppendLog(p) \/ Crash(p)
    <3>1. pc'[p] = "idle" /\ idx'[p] = 1 /\ cite'[p] = None
      BY <2>11 DEF AppendLog, Crash, Goto, Fresh, TypeOK
    <3> QED
      BY <3>1 DEF WholeRunOK, ResolvedBy
  <2> QED
    BY <2>2, <2>3, <2>4, <2>5, <2>6, <2>7, <2>8, <2>9, <2>10, <2>11, <2>12,
       <2>13 DEF RunStep
<1> QED
  BY <1>4, <1>6 DEF WholeRun

LEMMA EnvironmentWhole ==
  ASSUME TypeOK, SerialOK, WholeRun, Environment \/ UNCHANGED vars,
         (\E p \in Run : pc[p] # "idle") => UNCHANGED <<repoVars, paused>>
  PROVE  WholeRun'
<1>1. UNCHANGED localVars /\ section' = section
  BY DEF Environment, CommitObject, Advance, Rewrite, Prune, Break, Repair,
         TogglePause, OtherLoads, OtherStores, vars, otherThanRepo, durableVars,
         SerialOK
<1>2. CASE \A p \in Run : pc[p] = "idle"
  BY <1>1, <1>2 DEF WholeRun, WholeRunOK, ResolvedBy, localVars
<1>3. CASE UNCHANGED <<repoVars, paused>>
  <2>1. anc' = anc /\ tip' = tip /\ paused' = paused
    BY <1>3 DEF repoVars
  <2>2. \A cursors, refs : Ahead(cursors, refs)' = Ahead(cursors, refs)
    BY <2>1 DEF Ahead, NewCommits
  <2>3. FirstIsAhead' = FirstIsAhead
    BY <2>1 DEF FirstIsAhead
  <2>4. Outcome' = Outcome
    BY <1>1, <2>1, <2>2, <2>3 DEF Outcome, WorthReporting
  <2> QED
    BY <1>1, <2>1, <2>2, <2>3, <2>4
    DEF WholeRun, WholeRunOK, ResolvedBy, localVars, CursorsToWrite, Findings
<1> QED
  BY <1>2, <1>3

LEMMA InitWhole == Init => WholeRun
BY DEF Init, WholeRun, WholeRunOK, ResolvedBy

\* One at a time and undisturbed, for any commit graph, cursors and number of
\* refs, every run that ends as clean or found leaves the outcome: what its refs
\* have and its cursors do not cover, no more and no less.
THEOREM RunReportsAll == Spec /\ []OneAtATime /\ Undisturbed => WholeReport
<1> DEFINE Still == (\E p \in Run : pc[p] # "idle") => UNCHANGED <<repoVars, paused>>
           Whole == section'.result \in {"clean", "found"} => section' = Outcome
<1>1. TypeOK /\ TypeOK' /\ SerialOK /\ OneAtATime /\ OneAtATime' /\ WholeRun
        /\ [Next]_vars /\ [Still]_vars => WholeRun'
  <2> SUFFICES ASSUME TypeOK, TypeOK', SerialOK, OneAtATime, OneAtATime', WholeRun,
                      [Next]_vars, [Still]_vars
               PROVE  WholeRun'
    OBVIOUS
  <2>1. CASE \E p \in Run : RunStep(p) \/ GuardCrash(p) \/ Crash(p)
    BY <2>1, RunWhole
  <2>2. CASE Environment \/ UNCHANGED vars
    <3>1. UNCHANGED vars => Still
      BY DEF vars, world
    <3> QED
      BY <2>2, <3>1, EnvironmentWhole
  <2> QED
    BY <2>1, <2>2 DEF Next
<1>2. ASSUME TypeOK, SerialOK, WholeRun, [Next]_vars PROVE [Whole]_section
  <2>1. ASSUME NEW p \in Run, Write(p) PROVE Whole
    <3>1. /\ pc[p] = "write"
          /\ section' = [cursors |-> out[p], result |-> res[p], found |-> Findings(p)]
      BY <2>1 DEF Write
    <3> QED
      BY <1>2, <3>1 DEF WholeRun, WholeRunOK
  <2>2. CASE \E p \in Run : ~Write(p) /\ (RunStep(p) \/ GuardCrash(p) \/ Crash(p))
    BY <2>2, SectionFrame
  <2>3. CASE Environment \/ UNCHANGED vars
    BY <1>2, <2>3
    DEF Environment, CommitObject, Advance, Rewrite, Prune, Break, Repair,
        TogglePause, OtherLoads, OtherStores, vars, otherThanRepo, durableVars,
        SerialOK
  <2> QED
    BY <1>2, <2>1, <2>2, <2>3 DEF Next
<1>3. TypeOK /\ SerialOK /\ WholeRun /\ [Next]_vars => [Whole]_section
  BY <1>2
<1> QED
  BY <1>1, <1>3, InitWhole, SerialInductive, TypeCorrect, PTL
  DEF Spec, Undisturbed, WholeReport
=============================================================================
