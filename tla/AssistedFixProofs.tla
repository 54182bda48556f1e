-------------------------- MODULE AssistedFixProofs --------------------------
(***************************************************************************)
(* Proofs about AssistedFix for any number of overlapping runs, commits,   *)
(* attempts, kills and failing writes: no branch is left to nobody,        *)
(* base_ref loses commits only to a merge that was overtaken, and every    *)
(* run's steps are numbered.                                               *)
(***************************************************************************)
EXTENDS AssistedFix, TLAPS

\* What the proofs use of the assumptions on the constants.
LEMMA Constants == /\ Root \in Commit /\ None \notin Commit
                   /\ MaxAttempts \in Nat /\ MaxCrashes \in Nat /\ MaxWriteFaults \in Nat
BY CommitAssumption, BoundsAssumption, Zenon DEF CommitAssumption, BoundsAssumption

USE Constants

Inv == TypeOK /\ IInv

-----------------------------------------------------------------------------
(* Types.                                                                  *)

LEMMA GotoType ==
  ASSUME TypeOK, NEW p \in Run, NEW label \in Pc, Goto(p, label)
  PROVE  pc' \in [Run -> Pc] /\ \A q \in Run : pc'[q] = IF q = p THEN label ELSE pc[q]
BY DEF Goto, TypeOK

EndTypes == /\ pc' \in [Run -> Pc] /\ res' \in [Run -> Result]
            /\ keep' \in [Run -> BOOLEAN] /\ guarded' \in [Run -> BOOLEAN]

LEMMA DecideType ==
  ASSUME TypeOK, NEW p \in Run, NEW result \in Result, NEW kept \in BOOLEAN,
         Decide(p, result, kept)
  PROVE  EndTypes
<1>1. pc' \in [Run -> Pc]
  BY GotoType DEF Decide, Pc
<1> QED
  BY <1>1 DEF Decide, EndTypes, TypeOK

LEMMA FailType ==
  ASSUME TypeOK, NEW p \in Run, Fail(p)
  PROVE  EndTypes
<1>1. pc' \in [Run -> Pc]
  BY GotoType DEF Fail, Pc
<1> QED
  BY <1>1 DEF Fail, EndTypes, TypeOK, Result

LEMMA StayType ==
  ASSUME TypeOK, NEW p \in Run, NEW label \in Pc, Goto(p, label), UNCHANGED endLocals
  PROVE  EndTypes
<1>1. pc' \in [Run -> Pc]
  BY GotoType
<1> QED
  BY <1>1 DEF EndTypes, endLocals, TypeOK

LEMMA ForgetType ==
  ASSUME TypeOK, NEW p \in Run, Forget(p)
  PROVE  /\ EndTypes
         /\ wt' \in [Run -> Commit \cup {None}] /\ name' \in [Run -> Commit \cup {None}]
         /\ from' \in [Run -> Commit \cup {None}]
         /\ phase' \in [Run -> Phases \cup {"none"}]
         /\ attempt' \in [Run -> 0 .. MaxAttempts]
         /\ edit' \in [Run -> {"none", "good", "bad", "tamper"}]
         /\ commit' \in [Run -> Commit \cup {None}] /\ old' \in [Run -> Commit \cup {None}]
<1>1. pc' \in [Run -> Pc]
  BY GotoType DEF Forget, Pc
<1>2. attempt' \in [Run -> 0 .. MaxAttempts]
  BY DEF Forget, TypeOK
<1> QED
  BY <1>1, <1>2 DEF Forget, EndTypes, TypeOK, Result

LEMMA NextAttemptType ==
  ASSUME TypeOK, NEW p \in Run, NextAttempt(p)
  PROVE  /\ EndTypes
         /\ attempt' \in [Run -> 0 .. MaxAttempts]
         /\ edit' \in [Run -> {"none", "good", "bad", "tamper"}]
<1>1. edit' \in [Run -> {"none", "good", "bad", "tamper"}]
  BY DEF NextAttempt, TypeOK
<1>2. CASE attempt[p] < MaxAttempts
  <2>1. pc' \in [Run -> Pc]
    BY <1>2, GotoType DEF NextAttempt, Pc
  <2>2. attempt' \in [Run -> 0 .. MaxAttempts]
    <3>1. attempt[p] \in 0 .. MaxAttempts
      BY DEF TypeOK
    <3>2. attempt[p] + 1 \in 0 .. MaxAttempts
      BY <1>2, <3>1
    <3> QED
      BY <1>2, <3>2 DEF NextAttempt, TypeOK
  <2> QED
    BY <1>1, <1>2, <2>1, <2>2 DEF NextAttempt, EndTypes, endLocals, TypeOK
<1>3. CASE ~(attempt[p] < MaxAttempts)
  BY <1>1, <1>3, DecideType DEF NextAttempt, TypeOK, Result
<1> QED
  BY <1>2, <1>3

\* A new commit does not change what the others reach.
LEMMA NewCommitType ==
  ASSUME TypeOK, NEW c \in Commit, NEW parent \in Commit, NewCommit(c, parent)
  PROVE  /\ made' \subseteq Commit /\ anc' \in [Commit -> SUBSET Commit]
         /\ made \subseteq made' /\ c \in made' /\ made' = made \cup {c}
         /\ anc'[c] = {c} \cup anc[parent]
         /\ \A d \in made : anc'[d] = anc[d]
BY DEF NewCommit, TypeOK

LEMMA InitType == Init => TypeOK
<1> SUFFICES ASSUME Init PROVE TypeOK
  OBVIOUS
<1>1. attempt \in [Run -> 0 .. MaxAttempts] /\ crashes \in 0 .. MaxCrashes
      /\ writeFaults \in 0 .. MaxWriteFaults
  BY DEF Init
<1>2. section \in [result : Result, commit : Commit \cup {None}]
  BY DEF Init, Result
<1>3. made \subseteq Commit /\ anc \in [Commit -> SUBSET Commit]
  BY DEF Init
<1> QED
  BY <1>1, <1>2, <1>3 DEF Init, TypeOK, Pc, Result

\* A run at work has a commit on its branch to build on.
LEMMA WorkingHasBranch ==
  ASSUME Inv, NEW p \in Run, pc[p] \in Working
  PROVE  /\ name[p] \in Commit /\ wt[p] = name[p]
         /\ branch[name[p]] \in made /\ branch[name[p]] \in Commit
BY DEF Inv, TypeOK, IInv, RunOK

LEMMA TypeStep ==
  ASSUME Inv, [Next]_vars
  PROVE  TypeOK'
<1> USE DEF Inv, TypeOK
<1> USE DEF repoVars, durableVars, gitLocals, runLocals, endLocals, boundVars, ghostVars
<1>1. ASSUME NEW p \in Run, Start(p) \/ Refuse(p) PROVE TypeOK'
  <2>1. pc' \in [Run -> Pc]
    BY <1>1, GotoType DEF Start, Refuse, Pc
  <2>2. phase' \in [Run -> Phases \cup {"none"}] /\ res' \in [Run -> Result]
    BY <1>1 DEF Start, Refuse, Result
  <2> QED
    BY <1>1, <2>1, <2>2 DEF Start, Refuse
<1>22. ASSUME NEW p \in Run, ResolveFails(p) PROVE TypeOK'
  BY <1>22, ForgetType DEF ResolveFails, EndTypes
<1>2. ASSUME NEW p \in Run, Resolve(p) PROVE TypeOK'
  <2>1. pc' \in [Run -> Pc]
    BY <1>2, GotoType DEF Resolve, Pc
  <2> QED
    BY <1>2, <2>1 DEF Resolve
<1>3. ASSUME NEW p \in Run, DropStale(p) PROVE TypeOK'
  <2>1. pc' \in [Run -> Pc]
    BY <1>3, GotoType DEF DropStale, Pc
  <2>2. branch' \in [Commit -> Commit \cup {None}]
    BY <1>3 DEF DropStale, BranchAfterDelete
  <2> QED
    BY <1>3, <2>1, <2>2 DEF DropStale
<1>4. ASSUME NEW p \in Run, AddWorktree(p) PROVE TypeOK'
  <2>1. EndTypes
    <3>1. CASE Goto(p, "make") /\ UNCHANGED endLocals
      BY <3>1, StayType DEF Pc
    <3>2. CASE Decide(p, "escalated", FALSE)
      BY <3>2, DecideType DEF Result
    <3> QED
      BY <1>4, <3>1, <3>2 DEF AddWorktree
  <2>2. attempt' \in [Run -> 0 .. MaxAttempts]
    <3>1. CASE MaxAttempts > 0
      <4>1. 1 \in 0 .. MaxAttempts
        BY <3>1
      <4> QED
        BY <1>4, <3>1, <4>1 DEF AddWorktree
    <3>2. CASE ~(MaxAttempts > 0)
      BY <1>4, <3>2 DEF AddWorktree
    <3> QED
      BY <3>1, <3>2
  <2>3. branch' \in [Commit -> Commit \cup {None}] /\ wt' \in [Run -> Commit \cup {None}]
        /\ from' \in [Run -> Commit \cup {None}]
    BY <1>4 DEF AddWorktree
  <2> QED
    BY <1>4, <2>1, <2>2, <2>3 DEF AddWorktree, EndTypes
<1>5. ASSUME NEW p \in Run, AddFails(p) \/ InfraFails(p) PROVE TypeOK'
  BY <1>5, FailType DEF AddFails, InfraFails, EndTypes
<1>6. ASSUME NEW p \in Run, Make(p) PROVE TypeOK'
  <2>1. pc' \in [Run -> Pc]
    BY <1>6, GotoType DEF Make, Pc
  <2>2. edit' \in [Run -> {"none", "good", "bad", "tamper"}]
    <3>1. PICK e \in {"none", "good", "bad", "tamper"} : edit' = [edit EXCEPT ![p] = e]
      BY <1>6 DEF Make
    <3> QED
      BY <3>1
  <2> QED
    BY <1>6, <2>1, <2>2 DEF Make
<1>7. ASSUME NEW p \in Run, MakeAndCommit(p) PROVE TypeOK'
  <2>1. pc' \in [Run -> Pc]
    BY <1>7, GotoType DEF MakeAndCommit, Pc
  <2>2. PICK c \in Commit : /\ NewCommit(c, branch[name[p]])
                            /\ branch' = [branch EXCEPT ![name[p]] = c]
                            /\ byLoop' = byLoop \cup {c}
    BY <1>7 DEF MakeAndCommit
  <2>3. branch[name[p]] \in Commit
    BY <1>7, WorkingHasBranch DEF MakeAndCommit, Working
  <2>4. made' \subseteq Commit /\ anc' \in [Commit -> SUBSET Commit]
    BY <2>2, <2>3, NewCommitType
  <2>5. edit' \in [Run -> {"none", "good", "bad", "tamper"}]
    <3>1. PICK e \in {"none", "good", "bad", "tamper"} : edit' = [edit EXCEPT ![p] = e]
      BY <1>7 DEF MakeAndCommit
    <3> QED
      BY <3>1
  <2> QED
    BY <1>7, <2>1, <2>2, <2>4, <2>5 DEF MakeAndCommit
<1>8. ASSUME NEW p \in Run, Judge(p) \/ Test(p) PROVE TypeOK'
  <2>1. /\ EndTypes /\ attempt' \in [Run -> 0 .. MaxAttempts]
        /\ edit' \in [Run -> {"none", "good", "bad", "tamper"}]
    <3>1. CASE NextAttempt(p)
      BY <3>1, NextAttemptType
    <3>2. CASE Decide(p, "escalated", FALSE) /\ UNCHANGED <<attempt, edit>>
      BY <3>2, DecideType DEF Result
    <3>3. CASE (Goto(p, "test") \/ Goto(p, "commit")) /\ UNCHANGED <<attempt, edit, endLocals>>
      BY <3>3, GotoType DEF EndTypes, Pc
    <3> QED
      BY <1>8, <3>1, <3>2, <3>3 DEF Judge, Test
  <2> QED
    BY <1>8, <2>1 DEF Judge, Test, EndTypes
<1>9. ASSUME NEW p \in Run, CommitEdit(p) PROVE TypeOK'
  <2>1. PICK c \in Commit : /\ NewCommit(c, branch[name[p]])
                            /\ branch' = [branch EXCEPT ![name[p]] = c]
                            /\ commit' = [commit EXCEPT ![p] = c]
                            /\ byLoop' = byLoop \cup {c}
                            /\ scanned' \in {scanned \cup {c}, scanned}
    BY <1>9 DEF CommitEdit
  <2>2. branch[name[p]] \in Commit
    BY <1>9, WorkingHasBranch DEF CommitEdit, Working
  <2>3. made' \subseteq Commit /\ anc' \in [Commit -> SUBSET Commit]
    BY <2>1, <2>2, NewCommitType
  <2>4. EndTypes
    <3>1. CASE Goto(p, "gate") /\ UNCHANGED endLocals
      BY <3>1, StayType DEF Pc
    <3>2. CASE Decide(p, "proposed", TRUE)
      BY <3>2, DecideType DEF Result
    <3> QED
      BY <1>9, <3>1, <3>2 DEF CommitEdit
  <2>5. edit' \in [Run -> {"none", "good", "bad", "tamper"}]
    BY <1>9 DEF CommitEdit
  <2> QED
    BY <1>9, <2>1, <2>3, <2>4, <2>5 DEF CommitEdit, EndTypes
<1>10. ASSUME NEW p \in Run, Gate(p) PROVE TypeOK'
  <2>1. EndTypes
    <3>1. CASE Goto(p, "reread") /\ UNCHANGED endLocals
      BY <3>1, StayType DEF Pc
    <3>2. CASE Decide(p, "escalated", TRUE) \/ Decide(p, "proposed", TRUE)
      BY <3>2, DecideType DEF Result
    <3> QED
      BY <1>10, <3>1, <3>2 DEF Gate
  <2> QED
    BY <1>10, <2>1 DEF Gate, EndTypes
<1>11. ASSUME NEW p \in Run, ReadOldBase(p) PROVE TypeOK'
  <2>1. pc' \in [Run -> Pc]
    BY <1>11, GotoType DEF ReadOldBase, Pc
  <2> QED
    BY <1>11, <2>1 DEF ReadOldBase
<1>12. ASSUME NEW p \in Run, MoveBase(p) PROVE TypeOK'
  <2>1. EndTypes
    BY <1>12, FailType, DecideType DEF MoveBase, Result
  <2>2. commit[p] \in Commit
    <3>1. RunOK(p) /\ pc[p] = "move"
      BY <1>12 DEF MoveBase, IInv
    <3> QED
      BY <3>1, WorkingHasBranch DEF RunOK, Working
  <2>3. base' \in Commit
    BY <1>12, <2>2 DEF MoveBase
  <2> QED
    BY <1>12, <2>1, <2>3 DEF MoveBase, EndTypes
<1>13. ASSUME NEW p \in Run, RemoveWorktree(p) PROVE TypeOK'
  <2>1. pc' \in [Run -> Pc]
    BY <1>13, GotoType DEF RemoveWorktree, Pc
  <2> QED
    BY <1>13, <2>1 DEF RemoveWorktree
<1>14. ASSUME NEW p \in Run, DeleteBranch(p) PROVE TypeOK'
  <2>1. pc' \in [Run -> Pc]
    BY <1>14, GotoType DEF DeleteBranch, Pc
  <2>2. branch' \in [Commit -> Commit \cup {None}]
    BY <1>14 DEF DeleteBranch, BranchAfterDelete, DeletesBranch
  <2> QED
    BY <1>14, <2>1, <2>2 DEF DeleteBranch
<1>15. ASSUME NEW p \in Run, WriteState(p) PROVE TypeOK'
  <2>1. pc' \in [Run -> Pc]
    BY <1>15, GotoType DEF WriteState, Pc
  <2>2. section' \in [result : Result, commit : Commit \cup {None}]
    BY <1>15 DEF WriteState
  <2> QED
    BY <1>15, <2>1, <2>2 DEF WriteState
<1>16. ASSUME NEW p \in Run, WriteFails(p) PROVE TypeOK'
  <2>1. writeFaults' \in 0 .. MaxWriteFaults
    BY <1>16 DEF WriteFails
  <2> QED
    BY <1>16, <2>1, FailType, ForgetType DEF WriteFails, EndTypes
<1>17. ASSUME NEW p \in Run, AppendLog(p) PROVE TypeOK'
  <2>1. row' \in Result /\ awaiting' \in [Commit -> Commit \cup {None}]
    BY <1>17 DEF AppendLog
  <2>2. audited' \subseteq Commit
    BY <1>17 DEF AppendLog, IInv, RunOK
  <2> QED
    BY <1>17, <2>1, <2>2, ForgetType DEF AppendLog, EndTypes
<1>18. ASSUME NEW p \in Run, Crash(p) PROVE TypeOK'
  <2>1. crashes' \in 0 .. MaxCrashes /\ stale' \subseteq Commit
    BY <1>18 DEF Crash
  <2> QED
    BY <1>18, <2>1, ForgetType DEF Crash, EndTypes
<1>19. ASSUME NEW c \in Commit, Push(c) PROVE TypeOK'
  BY <1>19, NewCommitType DEF Push
<1>20. ASSUME NEW n \in Commit, Review(n) PROVE TypeOK'
  BY <1>20 DEF Review
<1>21. CASE UNCHANGED vars
  BY <1>21 DEF vars
<1> QED
  BY <1>1, <1>2, <1>3, <1>4, <1>5, <1>6, <1>7, <1>8, <1>9, <1>10, <1>11, <1>12,
     <1>13, <1>14, <1>15, <1>16, <1>17, <1>18, <1>19, <1>20, <1>21, <1>22
  DEF Next, RunStep

-----------------------------------------------------------------------------
(* The strengthening.                                                      *)

\* The locals of the other runs stand still.
Others(p) ==
  \A q \in Run \ {p} :
    /\ pc'[q] = pc[q] /\ wt'[q] = wt[q] /\ name'[q] = name[q] /\ from'[q] = from[q]
    /\ commit'[q] = commit[q] /\ old'[q] = old[q]
    /\ res'[q] = res[q] /\ keep'[q] = keep[q] /\ guarded'[q] = guarded[q]

\* A run that is not stepping keeps its RunOK if its branch stays where it is.
LEMMA BystanderOK ==
  ASSUME Inv, NEW p \in Run, Others(p), NEW q \in Run \ {p},
         made \subseteq made', \A c \in made : anc'[c] = anc[c],
         wt[q] # None => branch'[wt[q]] = branch[wt[q]]
  PROVE  RunOK(q)'
<1>1. RunOK(q)
  BY DEF Inv, IInv
<1>2. wt[q] # None => wt[q] \in Commit /\ branch[wt[q]] \in made
  BY <1>1 DEF Inv, TypeOK, IInv, RunOK
<1>3. ASSUME pc[q] \in Working
      PROVE  from'[q] \in made' /\ anc'[from'[q]] \subseteq anc'[branch'[name'[q]]]
  BY <1>1, <1>2, <1>3 DEF Others, RunOK
<1>4. wt'[q] # None => /\ wt'[q] = name'[q] /\ branch'[name'[q]] # None
                       /\ pc'[q] \in Working \cup {"unlink"}
  BY <1>1, <1>2 DEF Others, RunOK
<1>5. pc'[q] \in Working => wt'[q] # None
  BY <1>1 DEF Others, RunOK
<1>6. pc'[q] \in {"gate", "reread", "move"} => commit'[q] = branch'[name'[q]]
  BY <1>1, <1>2 DEF Others, RunOK, Working
<1>7. /\ pc'[q] = "move" => old'[q] # None
      /\ pc'[q] \notin {"idle", "resolve", "write", "log"} => name'[q] # None
      /\ keep'[q] => /\ guarded'[q] /\ commit'[q] # None
                     /\ pc'[q] \in {"unlink", "delete", "write", "log"}
      /\ guarded'[q] => name'[q] # None
      /\ pc'[q] \in Working \cup {"drop", "add"} => guarded'[q]
      /\ res'[q] = "merged" => commit'[q] # None
  BY <1>1 DEF Others, RunOK
<1> QED
  BY <1>3, <1>4, <1>5, <1>6, <1>7 DEF RunOK, Others

\* A step of run p, judged by what it does to the repository and to p.
LEMMA StepOK ==
  ASSUME Inv, NEW p \in Run, Others(p),
         made \subseteq made', \A c \in made : anc'[c] = anc[c],
         base' \in made', \A n \in Commit : branch'[n] \in made' \cup {None},
         \A q \in Run \ {p} : wt[q] # None => /\ branch'[wt[q]] = branch[wt[q]]
                                              /\ wt[q] # wt'[p],
         RunOK(p)', LitterOK'
  PROVE  IInv'
<1>1. \A q \in Run : RunOK(q)'
  BY BystanderOK
<1>2. \A q, r \in Run : wt'[q] = wt'[r] /\ wt'[q] # None => q = r
  BY DEF Inv, IInv, Others
<1> QED
  BY <1>1, <1>2 DEF IInv

\* A branch that stays had its owner or its reviewer; who is not p is still there.
LEMMA LitterStep ==
  ASSUME Inv, NEW p \in Run, Others(p), UNCHANGED <<crashes, stale>>,
         crashes = 0 =>
           \A n \in Commit : branch'[n] # None =>
             \/ Owns(p, n)' \/ awaiting'[n] # None
             \/ \E q \in Run \ {p} : Owns(q, n)
             \/ branch[n] # None /\ ~Owns(p, n) /\ awaiting[n] = None
  PROVE  LitterOK'
<1>1. \A q \in Run \ {p}, n \in Commit : Owns(q, n)' <=> Owns(q, n)
  BY DEF Others, Owns
<1>2. LitterOK
  BY DEF Inv, IInv
<1> QED
  BY <1>1, <1>2 DEF LitterOK

\* A step that leaves branches and commits alone.
LEMMA LocalStep ==
  ASSUME Inv, NEW p \in Run, Others(p),
         UNCHANGED <<made, anc, branch, stale, crashes>>, base' \in made,
         wt'[p] \in {wt[p], None}, RunOK(p)',
         \A n \in Commit : /\ awaiting[n] # None => awaiting'[n] # None
                           /\ Owns(p, n) => Owns(p, n)' \/ awaiting'[n] # None
  PROVE  IInv'
<1>1. \A n \in Commit : branch'[n] \in made' \cup {None}
  BY DEF Inv, IInv
<1>2. \A q \in Run \ {p} : wt[q] # None => wt[q] # wt'[p]
  BY DEF Inv, IInv
<1>3. LitterOK'
  BY LitterStep
<1> QED
  BY <1>1, <1>2, <1>3, StepOK

LEMMA GotoFacts ==
  ASSUME TypeOK, NEW p \in Run, NEW label, Goto(p, label)
  PROVE  pc'[p] = label /\ \A q \in Run \ {p} : pc'[q] = pc[q]
BY DEF Goto, TypeOK

LEMMA DecideFacts ==
  ASSUME TypeOK, NEW p \in Run, NEW result, NEW kept, Decide(p, result, kept)
  PROVE  /\ pc'[p] = "unlink" /\ res'[p] = result /\ keep'[p] = kept
         /\ guarded'[p] = guarded[p]
         /\ \A q \in Run \ {p} : /\ pc'[q] = pc[q] /\ res'[q] = res[q]
                                 /\ keep'[q] = keep[q] /\ guarded'[q] = guarded[q]
BY DEF Decide, Goto, TypeOK

LEMMA ForgetFacts ==
  ASSUME TypeOK, NEW p \in Run, Forget(p)
  PROVE  /\ Others(p)
         /\ pc'[p] = "idle" /\ wt'[p] = None /\ name'[p] = None
         /\ keep'[p] = FALSE /\ guarded'[p] = FALSE /\ res'[p] = "none"
BY DEF Forget, Goto, Others, TypeOK

\* The handler hands a failed run, or a failed _finish, to the clean-up.
LEMMA FailOK ==
  ASSUME Inv, NEW p \in Run, Fail(p),
         \/ pc[p] \in Working \cup {"add"}
         \/ pc[p] \in {"write", "log"} /\ guarded[p],
         UNCHANGED <<made, anc, base, branch, stale, crashes, gitLocals, runLocals, awaiting>>
  PROVE  IInv'
<1> USE DEF gitLocals, runLocals
<1>1. /\ Others(p) /\ pc'[p] = "unlink" /\ res'[p] = "error"
      /\ keep'[p] = FALSE /\ guarded'[p] = FALSE
  BY DEF Fail, Goto, Others, Inv, TypeOK
<1>2. RunOK(p) /\ name[p] # None
  BY DEF Inv, IInv, RunOK, Working
<1>3. RunOK(p)'
  BY <1>1, <1>2 DEF RunOK, Working
<1>4. \A n \in Commit : Owns(p, n) => Owns(p, n)'
  BY <1>1 DEF Owns
<1> QED
  BY <1>1, <1>3, <1>4, LocalStep DEF Inv, IInv

\* The loop, or the gates, have decided.
LEMMA DecideOK ==
  ASSUME Inv, NEW p \in Run, NEW result \in Result, NEW kept \in BOOLEAN,
         Decide(p, result, kept), pc[p] \in Working,
         kept \/ result = "merged" => pc[p] \in {"gate", "move"},
         kept => guarded[p], base' \in made,
         UNCHANGED <<made, anc, branch, stale, crashes, gitLocals, commit, old, awaiting>>
  PROVE  IInv'
<1> USE DEF gitLocals
<1>1. /\ Others(p) /\ pc'[p] = "unlink" /\ res'[p] = result
      /\ keep'[p] = kept /\ guarded'[p] = guarded[p]
  BY DecideFacts DEF Others, Inv
<1>2. RunOK(p) /\ branch[name[p]] # None
  BY WorkingHasBranch DEF Inv, IInv, TypeOK
<1>3. RunOK(p)'
  BY <1>1, <1>2 DEF RunOK, Working
<1>4. \A n \in Commit : Owns(p, n) => Owns(p, n)'
  BY <1>1 DEF Owns
<1> QED
  BY <1>1, <1>3, <1>4, LocalStep DEF Inv

LEMMA NextAttemptOK ==
  ASSUME Inv, NEW p \in Run, NextAttempt(p), pc[p] \in {"judge", "test"}, base' = base,
         UNCHANGED <<made, anc, branch, stale, crashes, gitLocals, commit, old, awaiting>>
  PROVE  IInv'
<1>0. base' \in made
  BY DEF Inv, IInv
<1>1. CASE attempt[p] < MaxAttempts
  <2>1. Goto(p, "make") /\ UNCHANGED endLocals
    BY <1>1 DEF NextAttempt
  <2>2. Others(p) /\ pc'[p] = "make"
    BY <2>1, GotoFacts DEF Others, gitLocals, endLocals, Inv
  <2>3. RunOK(p)
    BY DEF Inv, IInv
  <2>4. RunOK(p)'
    BY <2>1, <2>2, <2>3 DEF RunOK, Working, gitLocals, endLocals
  <2>5. \A n \in Commit : Owns(p, n) => Owns(p, n)'
    BY <2>2 DEF Owns, Working, gitLocals
  <2> QED
    BY <1>0, <2>2, <2>4, <2>5, LocalStep DEF gitLocals
<1>2. CASE ~(attempt[p] < MaxAttempts)
  <2>1. Decide(p, "escalated", FALSE)
    BY <1>2 DEF NextAttempt
  <2> QED
    BY <1>0, <2>1, DecideOK DEF Working, Result
<1> QED
  BY <1>1, <1>2

\* A step that takes a run along without touching its branch.
LEMMA MoveOn ==
  ASSUME Inv, NEW p \in Run, NEW label, Goto(p, label), base' = base,
         UNCHANGED <<made, anc, branch, stale, crashes, gitLocals, commit,
                     endLocals, awaiting>>,
         \A q \in Run \ {p} : old'[q] = old[q],
         \/ pc[p] = "make" /\ label = "judge"
         \/ pc[p] = "judge" /\ label = "test"
         \/ pc[p] = "test" /\ label = "commit"
         \/ pc[p] = "gate" /\ label = "reread"
         \/ pc[p] = "reread" /\ label = "move" /\ old'[p] # None
         \/ pc[p] = "idle" /\ label = "resolve"
         \/ pc[p] = "write" /\ label = "log"
  PROVE  IInv'
<1>1. Others(p) /\ pc'[p] = label
  BY GotoFacts DEF Others, gitLocals, endLocals, Inv
<1>2. RunOK(p) /\ base' \in made
  BY DEF Inv, IInv
<1>3. RunOK(p)'
  BY <1>1, <1>2 DEF RunOK, Working, gitLocals, endLocals
<1>4. \A n \in Commit : Owns(p, n) => Owns(p, n)'
  BY <1>1 DEF Owns, Working, gitLocals, endLocals
<1> QED
  BY <1>1, <1>2, <1>3, <1>4, LocalStep DEF gitLocals

\* A commit on the branch of a run at work.
LEMMA GrowBranch ==
  ASSUME Inv, NEW p \in Run, NEW c \in Commit, Others(p), pc[p] \in {"make", "commit"},
         NewCommit(c, branch[name[p]]), branch' = [branch EXCEPT ![name[p]] = c],
         UNCHANGED <<base, stale, crashes, gitLocals, awaiting, guarded>>,
         keep'[p] => commit'[p] = c /\ pc'[p] = "unlink",
         res'[p] = "merged" => commit'[p] # None,
         \/ pc'[p] \in {"judge", "unlink"}
         \/ pc'[p] = "gate" /\ commit'[p] = c
  PROVE  IInv'
<1> USE DEF gitLocals
<1>1. /\ name[p] \in Commit /\ wt[p] = name[p]
      /\ branch[name[p]] \in made /\ branch[name[p]] \in Commit
  BY WorkingHasBranch DEF Working
<1>2. /\ made \subseteq made' /\ c \in made' /\ c \notin made
      /\ anc'[c] = {c} \cup anc[branch[name[p]]]
      /\ \A d \in made : anc'[d] = anc[d]
  BY <1>1, NewCommitType DEF NewCommit, Inv
<1>3. /\ branch'[name[p]] = c
      /\ \A n \in Commit \ {name[p]} : branch'[n] = branch[n]
  BY <1>1 DEF Inv, TypeOK
<1>4. \A q \in Run \ {p} : wt[q] # None => /\ branch'[wt[q]] = branch[wt[q]]
                                           /\ wt[q] # wt'[p]
  BY <1>1, <1>3 DEF Inv, TypeOK, IInv
<1>5. base' \in made' /\ \A n \in Commit : branch'[n] \in made' \cup {None}
  BY <1>2, <1>3 DEF Inv, IInv
<1>6. RunOK(p)
  BY DEF Inv, IInv
<1>7. RunOK(p)'
  <2>1. from'[p] \in made' /\ anc'[from'[p]] \subseteq anc'[branch'[name'[p]]]
    BY <1>2, <1>3, <1>6 DEF RunOK, Working
  <2> QED
    BY <1>1, <1>3, <1>6, <2>1 DEF RunOK, Working
<1>8. LitterOK'
  <2>1. \A n \in Commit : Owns(p, n) => Owns(p, n)'
    BY DEF Owns, Working
  <2>2. \A n \in Commit : branch'[n] # None => branch[n] # None \/ Owns(p, n)'
    BY <1>3 DEF Owns, Working
  <2>3. LitterOK
    BY DEF Inv, IInv
  <2> QED
    BY <2>1, <2>2, <2>3, LitterStep DEF LitterOK
<1> QED
  BY <1>2, <1>4, <1>5, <1>7, <1>8, StepOK

-----------------------------------------------------------------------------
(* One lemma per group of actions.                                         *)

LEMMA BeginOK ==
  ASSUME Inv, NEW p \in Run,
         Start(p) \/ Refuse(p) \/ Resolve(p) \/ DropStale(p) \/ AddWorktree(p)
  PROVE  IInv'
<1> USE DEF repoVars, durableVars, gitLocals, runLocals, endLocals, boundVars, ghostVars
<1>0. RunOK(p) /\ base \in made /\ base \in Commit
  BY DEF Inv, IInv, TypeOK
<1>1. CASE Start(p)
  BY <1>1, MoveOn DEF Start
<1>2. CASE Refuse(p)
  <2>1. PICK r \in {"clean", "escalated", "error"} : res' = [res EXCEPT ![p] = r]
    BY <1>2 DEF Refuse
  <2>2. pc[p] = "idle" /\ pc'[p] = "write" /\ res'[p] = r /\ Others(p)
    BY <1>2, <2>1, GotoFacts DEF Refuse, Others, Inv, TypeOK
  <2>3. RunOK(p)'
    BY <1>0, <1>2, <2>2 DEF Refuse, RunOK, Working
  <2>4. \A n \in Commit : ~Owns(p, n)
    BY <1>0, <2>2 DEF Owns, Working, RunOK
  <2> QED
    BY <1>0, <1>2, <2>2, <2>3, <2>4, LocalStep DEF Refuse
<1>3. CASE Resolve(p)
  <2>1. /\ pc[p] = "resolve" /\ pc'[p] = "drop" /\ Others(p)
        /\ name'[p] = base /\ guarded'[p] = TRUE
    BY <1>3, GotoFacts DEF Resolve, Others, Inv, TypeOK
  <2>2. wt[p] = None /\ ~keep[p]
    BY <1>0, <2>1 DEF RunOK, Working
  <2>3. RunOK(p)'
    BY <1>0, <1>3, <2>1, <2>2 DEF Resolve, RunOK, Working
  <2>4. \A n \in Commit : ~Owns(p, n)
    BY <2>1 DEF Owns, Working
  <2> QED
    BY <1>0, <1>3, <2>1, <2>3, <2>4, LocalStep DEF Resolve
<1>4. CASE DropStale(p)
  <2>1. pc[p] = "drop" /\ pc'[p] = "add" /\ Others(p)
    BY <1>4, GotoFacts DEF DropStale, Others, Inv
  <2>2. name[p] \in Commit /\ wt[p] = None
    BY <1>0, <2>1 DEF RunOK, Working, Inv, TypeOK
  <2>3. \A n \in Commit : \/ branch'[n] = branch[n]
                          \/ branch'[n] = None /\ ~\E q \in Run : wt[q] = n
    BY <1>4, <2>2 DEF DropStale, BranchAfterDelete, CheckedOut, Inv, TypeOK
  <2>4. RunOK(p)'
    BY <1>0, <1>4, <2>1, <2>2 DEF DropStale, RunOK, Working
  <2>5. LitterOK'
    <3>1. \A n \in Commit : ~Owns(p, n)
      BY <2>1 DEF Owns, Working
    <3>2. LitterOK
      BY DEF Inv, IInv
    <3> QED
      BY <1>4, <2>1, <2>3, <3>1, <3>2, LitterStep DEF DropStale, LitterOK
  <2>6. \A q \in Run : wt[q] # None => wt[q] \in Commit /\ branch'[wt[q]] = branch[wt[q]]
    BY <2>3 DEF Inv, TypeOK
  <2>7. \A n \in Commit : branch'[n] \in made \cup {None}
    BY <2>3 DEF Inv, IInv
  <2>8. wt'[p] = None /\ UNCHANGED <<made, anc, base>>
    BY <1>4, <2>2 DEF DropStale
  <2> QED
    BY <1>0, <2>1, <2>4, <2>5, <2>6, <2>7, <2>8, StepOK
<1>5. CASE AddWorktree(p)
  <2>1. pc[p] = "add" /\ name[p] \in Commit /\ branch[name[p]] = None /\ wt[p] = None
        /\ ~keep[p] /\ guarded[p]
    BY <1>0, <1>5 DEF AddWorktree, RunOK, Working, Inv, TypeOK
  <2>2. /\ wt'[p] = name[p] /\ from'[p] = base /\ branch'[name[p]] = base
        /\ \A q \in Run \ {p} : wt'[q] = wt[q] /\ from'[q] = from[q]
        /\ \A n \in Commit \ {name[p]} : branch'[n] = branch[n]
        /\ UNCHANGED <<made, anc, base, stale, name, commit, old, crashes, awaiting>>
    BY <1>5, <2>1 DEF AddWorktree, Inv, TypeOK
  <2>3. /\ pc'[p] \in {"make", "unlink"}
        /\ res'[p] = "merged" => res[p] = "merged"
        /\ ~keep'[p] /\ guarded'[p]
        /\ \A q \in Run \ {p} : /\ pc'[q] = pc[q] /\ res'[q] = res[q]
                                /\ keep'[q] = keep[q] /\ guarded'[q] = guarded[q]
    <3>1. CASE Goto(p, "make") /\ UNCHANGED endLocals
      BY <2>1, <3>1, GotoFacts DEF Inv
    <3>2. CASE Decide(p, "escalated", FALSE)
      <4>1. /\ pc'[p] = "unlink" /\ res'[p] = "escalated" /\ keep'[p] = FALSE
            /\ guarded'[p] = guarded[p]
            /\ \A q \in Run \ {p} : /\ pc'[q] = pc[q] /\ res'[q] = res[q]
                                    /\ keep'[q] = keep[q] /\ guarded'[q] = guarded[q]
        BY <3>2, DecideFacts DEF Inv
      <4> QED
        BY <2>1, <4>1
    <3> QED
      BY <1>5, <3>1, <3>2 DEF AddWorktree
  <2>4. Others(p)
    BY <2>2, <2>3 DEF Others
  <2>5. RunOK(p)'
    BY <1>0, <2>1, <2>2, <2>3 DEF RunOK, Working
  <2>6. \A q \in Run \ {p} : wt[q] # None => /\ branch'[wt[q]] = branch[wt[q]]
                                             /\ wt[q] # wt'[p]
    BY <2>1, <2>2 DEF Inv, IInv, RunOK, TypeOK
  <2>7. LitterOK'
    <3>1. Owns(p, name[p])' /\ \A n \in Commit : ~Owns(p, n)
      BY <2>1, <2>2, <2>3 DEF Owns, Working
    <3>2. LitterOK
      BY DEF Inv, IInv
    <3>3. \A n \in Commit \ {name[p]} :
            branch'[n] # None /\ crashes = 0 =>
              awaiting'[n] # None \/ \E q \in Run \ {p} : Owns(q, n)
      BY <2>2, <3>1, <3>2 DEF LitterOK
    <3>4. \A n \in Commit : n = name[p] => Owns(p, n)'
      BY <2>1, <2>2, <2>3 DEF Owns, Working
    <3> QED
      BY <2>2, <2>4, <3>3, <3>4, LitterStep
  <2>8. \A n \in Commit : branch'[n] \in made' \cup {None}
    BY <1>0, <2>2 DEF Inv, IInv
  <2> QED
    BY <1>0, <2>2, <2>4, <2>5, <2>6, <2>7, <2>8, StepOK
<1> QED
  BY <1>1, <1>2, <1>3, <1>4, <1>5

LEMMA WorkOK ==
  ASSUME Inv, NEW p \in Run,
         AddFails(p) \/ InfraFails(p) \/ Make(p) \/ MakeAndCommit(p) \/ Judge(p)
           \/ Test(p) \/ CommitEdit(p)
  PROVE  IInv'
<1> USE DEF repoVars, durableVars, runLocals, endLocals, boundVars, ghostVars
<1>0. RunOK(p) /\ base \in made
  BY DEF Inv, IInv
<1>1. CASE AddFails(p) \/ InfraFails(p)
  BY <1>1, FailOK DEF AddFails, InfraFails, Working
<1>2. CASE Make(p)
  BY <1>2, MoveOn DEF Make
<1>3. CASE MakeAndCommit(p)
  <2>1. /\ pc[p] = "make" /\ pc'[p] = "judge" /\ Others(p)
        /\ UNCHANGED <<base, stale, crashes, gitLocals, awaiting, guarded, keep, res, commit>>
    BY <1>3, GotoFacts DEF MakeAndCommit, Others, gitLocals, Inv
  <2>2. PICK c \in Commit : /\ NewCommit(c, branch[name[p]])
                            /\ branch' = [branch EXCEPT ![name[p]] = c]
    BY <1>3 DEF MakeAndCommit
  <2>3. ~keep[p] /\ (res[p] = "merged" => commit[p] # None)
    BY <1>0, <2>1 DEF RunOK
  <2> QED
    BY <2>1, <2>2, <2>3, GrowBranch
<1>4. CASE Judge(p)
  <2>1. /\ pc[p] = "judge" /\ base' = base
        /\ UNCHANGED <<made, anc, branch, stale, crashes, gitLocals, commit, old, awaiting>>
    BY <1>4 DEF Judge
  <2>2. CASE NextAttempt(p)
    BY <2>1, <2>2, NextAttemptOK
  <2>3. CASE Decide(p, "escalated", FALSE)
    BY <1>0, <2>1, <2>3, DecideOK DEF Working, Result
  <2>4. CASE Goto(p, "test") /\ UNCHANGED endLocals
    BY <2>1, <2>4, MoveOn
  <2> QED
    BY <1>4, <2>2, <2>3, <2>4 DEF Judge
<1>5. CASE Test(p)
  <2>1. /\ pc[p] = "test" /\ base' = base
        /\ UNCHANGED <<made, anc, branch, stale, crashes, gitLocals, commit, old, awaiting>>
    BY <1>5 DEF Test
  <2>2. CASE NextAttempt(p)
    BY <2>1, <2>2, NextAttemptOK
  <2>3. CASE Goto(p, "commit") /\ UNCHANGED endLocals
    BY <2>1, <2>3, MoveOn
  <2> QED
    BY <1>5, <2>2, <2>3 DEF Test
<1>6. CASE CommitEdit(p)
  <2>1. PICK c \in Commit : /\ NewCommit(c, branch[name[p]])
                            /\ branch' = [branch EXCEPT ![name[p]] = c]
                            /\ commit' = [commit EXCEPT ![p] = c]
    BY <1>6 DEF CommitEdit
  <2>2. pc[p] = "commit" /\ ~keep[p] /\ c # None
        /\ commit'[p] = c /\ \A q \in Run \ {p} : commit'[q] = commit[q]
    BY <1>0, <1>6, <2>1 DEF CommitEdit, RunOK, Inv, TypeOK
  <2>3. UNCHANGED <<base, stale, crashes, gitLocals, awaiting, old>>
    BY <1>6 DEF CommitEdit
  <2>4. CASE Decide(p, "proposed", TRUE)
    <3>1. Others(p) /\ pc'[p] = "unlink" /\ res'[p] = "proposed" /\ UNCHANGED guarded
      BY <2>2, <2>3, <2>4, DecideFacts DEF Others, gitLocals, Inv, Decide
    <3> QED
      BY <2>1, <2>2, <2>3, <3>1, GrowBranch
  <2>5. CASE Goto(p, "gate") /\ UNCHANGED endLocals
    <3>1. Others(p) /\ pc'[p] = "gate"
      BY <2>2, <2>3, <2>5, GotoFacts DEF Others, gitLocals, Inv
    <3> QED
      BY <2>1, <2>2, <2>3, <2>5, <3>1, GrowBranch
  <2> QED
    BY <1>6, <2>4, <2>5 DEF CommitEdit
<1> QED
  BY <1>1, <1>2, <1>3, <1>4, <1>5, <1>6

LEMMA MergeOK ==
  ASSUME Inv, NEW p \in Run, Gate(p) \/ ReadOldBase(p) \/ MoveBase(p)
  PROVE  IInv'
<1> USE DEF repoVars, durableVars, gitLocals, runLocals, endLocals, boundVars, ghostVars
<1>0. RunOK(p) /\ base \in made /\ base # None
  BY DEF Inv, IInv, TypeOK
<1>1. CASE Gate(p)
  <2>1. pc[p] = "gate" /\ guarded[p]
    BY <1>0, <1>1 DEF Gate, RunOK, Working
  <2>2. CASE Decide(p, "escalated", TRUE)
    BY <1>0, <1>1, <2>1, <2>2, DecideOK DEF Gate, Working, Result
  <2>3. CASE Decide(p, "proposed", TRUE)
    BY <1>0, <1>1, <2>1, <2>3, DecideOK DEF Gate, Working, Result
  <2>4. CASE Goto(p, "reread") /\ UNCHANGED endLocals
    BY <1>1, <2>1, <2>4, MoveOn DEF Gate
  <2> QED
    BY <1>1, <2>2, <2>3, <2>4 DEF Gate
<1>2. CASE ReadOldBase(p)
  <2>1. old'[p] # None /\ \A q \in Run \ {p} : old'[q] = old[q]
    BY <1>0, <1>2 DEF ReadOldBase, Inv, TypeOK
  <2> QED
    BY <1>2, <2>1, MoveOn DEF ReadOldBase
<1>3. CASE MoveBase(p)
  <2>1. /\ pc[p] = "move" /\ commit[p] \in made
        /\ UNCHANGED <<made, anc, branch, stale, crashes, gitLocals, commit, old, awaiting>>
    <3>1. pc[p] = "move" /\ commit[p] = branch[name[p]]
      BY <1>0, <1>3 DEF MoveBase, RunOK
    <3>2. branch[name[p]] \in made
      BY <3>1, WorkingHasBranch DEF Working
    <3> QED
      BY <1>3, <3>1, <3>2 DEF MoveBase
  <2>2. CASE OldBaseMatches(p)
    <3>1. Decide(p, "merged", FALSE) /\ base' \in made
      BY <1>3, <2>1, <2>2 DEF MoveBase
    <3> QED
      BY <2>1, <3>1, DecideOK DEF Working, Result
  <2>3. CASE ~OldBaseMatches(p)
    <3>1. Fail(p) /\ base' = base
      BY <1>3, <2>3 DEF MoveBase
    <3> QED
      BY <1>3, <2>1, <3>1, FailOK DEF MoveBase, Working
  <2> QED
    BY <2>2, <2>3
<1> QED
  BY <1>1, <1>2, <1>3

LEMMA RemoveWorktreeOK ==
  ASSUME Inv, NEW p \in Run, RemoveWorktree(p)
  PROVE  IInv'
<1> USE DEF RemoveWorktree, repoVars, runLocals, endLocals, boundVars, ghostVars
<1>0. RunOK(p) /\ base' \in made
  BY DEF Inv, IInv
<1>1. pc[p] = "unlink" /\ pc'[p] = "delete" /\ wt'[p] = None /\ Others(p)
  BY GotoFacts DEF Others, Inv, TypeOK
<1>2. RunOK(p)'
  BY <1>0, <1>1 DEF RunOK, Working
<1>3. \A n \in Commit : Owns(p, n) => Owns(p, n)'
  BY <1>1 DEF Owns
<1> QED
  BY <1>0, <1>1, <1>2, <1>3, LocalStep

LEMMA DeleteBranchOK ==
  ASSUME Inv, NEW p \in Run, DeleteBranch(p)
  PROVE  IInv'
<1> USE DEF DeleteBranch, durableVars, gitLocals, runLocals, endLocals, boundVars, ghostVars
<1>0. RunOK(p) /\ base' \in made' /\ UNCHANGED <<made, anc, base>>
  BY DEF Inv, IInv
<1>1. pc[p] = "delete" /\ pc'[p] = "write" /\ Others(p)
  BY GotoFacts DEF Others, Inv
<1>2. name[p] \in Commit /\ wt[p] = None
  BY <1>0, <1>1 DEF RunOK, Working, Inv, TypeOK
<1>3. \A n \in Commit : n # name[p] \/ keep[p] => branch'[n] = branch[n]
  BY <1>2 DEF DeletesBranch, Inv, TypeOK
<1>4. ~keep[p] => \/ branch'[name[p]] = branch[name[p]] /\ CheckedOut(name[p])
                  \/ branch'[name[p]] = None /\ ~CheckedOut(name[p])
  BY <1>2 DEF DeletesBranch, BranchAfterDelete, Inv, TypeOK
<1>5. \A q \in Run : wt[q] # None => wt[q] \in Commit /\ branch'[wt[q]] = branch[wt[q]]
  BY <1>3, <1>4 DEF CheckedOut, Inv, TypeOK
<1>6. RunOK(p)'
  BY <1>0, <1>1, <1>2 DEF RunOK, Working
<1>7. LitterOK'
  <2>1. LitterOK
    BY DEF Inv, IInv
  <2>2. CASE keep[p]
    <3>1. \A n \in Commit : Owns(p, n) => Owns(p, n)'
      BY <1>1, <2>2 DEF Owns
    <3> QED
      BY <1>1, <1>3, <2>1, <2>2, <3>1, LitterStep DEF LitterOK
  <2>3. CASE ~keep[p]
    <3>1. \A n \in Commit : n # name[p] => ~Owns(p, n)
      BY DEF Owns
    <3>2. ASSUME crashes = 0, branch'[name[p]] # None
          PROVE  \E q \in Run \ {p} : Owns(q, name[p])
      <4>1. CheckedOut(name[p]) /\ stale = {}
        BY <1>4, <2>1, <2>3, <3>2 DEF LitterOK
      <4>2. PICK q \in Run : wt[q] = name[p]
        BY <4>1 DEF CheckedOut
      <4>3. q # p /\ RunOK(q) /\ wt[q] # None
        BY <1>2, <4>2 DEF Inv, IInv
      <4> QED
        BY <4>2, <4>3 DEF RunOK, Owns
    <3>3. \A n \in Commit \ {name[p]} :
            crashes = 0 /\ branch'[n] # None =>
              awaiting'[n] # None \/ \E q \in Run \ {p} : Owns(q, n)
      BY <1>3, <2>1, <3>1 DEF LitterOK
    <3> QED
      BY <1>1, <3>2, <3>3, LitterStep
  <2> QED
    BY <2>2, <2>3
<1>8. \A n \in Commit : branch'[n] \in made' \cup {None}
  BY <1>3, <1>4 DEF Inv, IInv
<1>9. \A q \in Run \ {p} : wt[q] # None => /\ branch'[wt[q]] = branch[wt[q]]
                                           /\ wt[q] # wt'[p]
  BY <1>2, <1>5
<1> QED
  BY <1>0, <1>1, <1>6, <1>7, <1>8, <1>9, StepOK

\* A run that leaves without a branch of its own.
LEMMA ForgetOK ==
  ASSUME Inv, NEW p \in Run, Forget(p), pc[p] \in {"resolve", "write", "log"}, base' = base,
         UNCHANGED <<made, anc, branch, stale, crashes>>,
         \A n \in Commit : /\ awaiting[n] # None => awaiting'[n] # None
                           /\ keep[p] /\ n = name[p] => awaiting'[n] # None
  PROVE  IInv'
<1>0. RunOK(p) /\ base' \in made
  BY DEF Inv, IInv
<1>1. /\ Others(p) /\ pc'[p] = "idle" /\ wt'[p] = None
      /\ keep'[p] = FALSE /\ guarded'[p] = FALSE /\ res'[p] = "none"
  BY ForgetFacts DEF Inv
<1>2. RunOK(p)'
  BY <1>1 DEF RunOK, Working
<1>3. \A n \in Commit : Owns(p, n) => awaiting'[n] # None
  BY DEF Owns, Working
<1> QED
  BY <1>0, <1>1, <1>2, <1>3, LocalStep

LEMMA FinishOK ==
  ASSUME Inv, NEW p \in Run, WriteState(p) \/ WriteFails(p) \/ AppendLog(p)
                              \/ ResolveFails(p)
  PROVE  IInv'
<1> USE DEF repoVars, durableVars, gitLocals, runLocals, endLocals, boundVars, ghostVars
<1>0. RunOK(p)
  BY DEF Inv, IInv
<1>1. CASE WriteState(p)
  BY <1>1, MoveOn DEF WriteState
<1>2. CASE WriteFails(p) /\ guarded[p]
  BY <1>2, FailOK DEF WriteFails
<1>3. CASE WriteFails(p) /\ ~guarded[p]
  <2>1. ~keep[p]
    BY <1>0, <1>3 DEF RunOK
  <2> QED
    BY <1>3, <2>1, ForgetOK DEF WriteFails
<1>4. CASE AppendLog(p)
  <2>1. keep[p] => commit[p] # None
    BY <1>0 DEF RunOK
  <2>2. \A n \in Commit : /\ awaiting[n] # None => awaiting'[n] # None
                          /\ keep[p] /\ n = name[p] => awaiting'[n] # None
    BY <1>4, <2>1 DEF AppendLog, Inv, TypeOK
  <2> QED
    BY <1>4, <2>2, ForgetOK DEF AppendLog
<1>5. CASE ResolveFails(p)
  <2>1. ~keep[p]
    BY <1>0, <1>5 DEF ResolveFails, RunOK
  <2> QED
    BY <1>5, <2>1, ForgetOK DEF ResolveFails
<1> QED
  BY <1>1, <1>2, <1>3, <1>4, <1>5

LEMMA OthersOK ==
  ASSUME Inv,
         \/ \E p \in Run : Crash(p)
         \/ \E c \in Commit : Push(c)
         \/ \E n \in Commit : Review(n)
         \/ UNCHANGED vars
  PROVE  IInv'
<1> USE DEF repoVars, durableVars, gitLocals, runLocals, endLocals, boundVars, ghostVars
<1>0. /\ base \in made /\ \A n \in Commit : branch[n] \in made \cup {None}
      /\ \A p \in Run : RunOK(p)
      /\ \A p, q \in Run : wt[p] = wt[q] /\ wt[p] # None => p = q
      /\ LitterOK
  BY DEF Inv, IInv
<1>1. ASSUME NEW p \in Run, Crash(p) PROVE IInv'
  <2>1. /\ Others(p) /\ pc'[p] = "idle" /\ wt'[p] = None
        /\ keep'[p] = FALSE /\ guarded'[p] = FALSE /\ res'[p] = "none"
        /\ UNCHANGED <<made, anc, base, branch>>
    BY <1>1, ForgetFacts DEF Crash, Inv
  <2>2. RunOK(p)'
    BY <2>1 DEF RunOK, Working
  <2>3. LitterOK'
    <3>1. crashes' # 0
      BY <1>1 DEF Crash, Inv, TypeOK
    <3> QED
      BY <3>1 DEF LitterOK
  <2> QED
    BY <1>0, <2>1, <2>2, <2>3, StepOK
<1>2. ASSUME NEW c \in Commit, Push(c) PROVE IInv'
  <2>1. /\ base \in Commit /\ NewCommit(c, base) /\ base' = c
        /\ UNCHANGED <<branch, stale, pc, gitLocals, runLocals, endLocals, crashes, awaiting>>
    BY <1>2 DEF Push, Inv, TypeOK
  <2>2. made \subseteq made' /\ c \in made' /\ \A d \in made : anc'[d] = anc[d]
    BY <2>1, NewCommitType DEF Inv
  <2>3. \A p \in Run : RunOK(p)'
    <3>1. TAKE p \in Run
    <3>2. wt[p] # None => name[p] \in Commit /\ branch[name[p]] \in made
      BY <1>0 DEF RunOK, Inv, TypeOK
    <3> QED
      BY <1>0, <2>1, <2>2, <3>2 DEF RunOK
  <2>4. LitterOK'
    BY <1>0, <2>1 DEF LitterOK, Owns
  <2> QED
    BY <1>0, <2>1, <2>2, <2>3, <2>4 DEF IInv
<1>3. ASSUME NEW n \in Commit, Review(n) PROVE IInv'
  <2>1. /\ ~CheckedOut(n) /\ branch' = [branch EXCEPT ![n] = None]
        /\ awaiting' = [awaiting EXCEPT ![n] = None]
        /\ UNCHANGED <<made, anc, base, stale, pc, gitLocals, runLocals, endLocals, crashes>>
    BY <1>3 DEF Review
  <2>2. /\ branch'[n] = None
        /\ \A m \in Commit \ {n} : branch'[m] = branch[m] /\ awaiting'[m] = awaiting[m]
    BY <2>1 DEF Inv, TypeOK
  <2>3. \A p \in Run : RunOK(p)'
    <3>1. TAKE p \in Run
    <3>2. wt[p] # None => name[p] \in Commit \ {n}
      BY <1>0, <2>1 DEF RunOK, CheckedOut, Inv, TypeOK
    <3>3. wt[p] # None => branch'[name[p]] = branch[name[p]]
      BY <2>2, <3>2
    <3> QED
      BY <1>0, <2>1, <3>3 DEF RunOK, Working
  <2>4. LitterOK'
    BY <1>0, <2>1, <2>2 DEF LitterOK, Owns
  <2> QED
    BY <1>0, <2>1, <2>2, <2>3, <2>4 DEF IInv
<1>4. CASE UNCHANGED vars
  BY <1>0, <1>4 DEF vars, IInv, RunOK, LitterOK, Owns
<1> QED
  BY <1>1, <1>2, <1>3, <1>4

LEMMA InitIInv == Init => IInv
BY DEF Init, IInv, RunOK, LitterOK, Working

LEMMA InvStep == ASSUME Inv, [Next]_vars PROVE Inv'
<1>1. TypeOK'
  BY TypeStep
<1>2. IInv'
  BY BeginOK, WorkOK, MergeOK, RemoveWorktreeOK, DeleteBranchOK, FinishOK, OthersOK
  DEF Next, RunStep
<1> QED
  BY <1>1, <1>2 DEF Inv

\* The strengthening behind NoLitter and LossOnlyWhenOvertaken.
THEOREM FixInductive == Spec => []Inv
<1>1. Init => Inv
  BY InitType, InitIInv DEF Inv
<1>2. Inv /\ [Next]_vars => Inv'
  BY InvStep
<1> QED
  BY <1>1, <1>2, PTL DEF Spec

\* Every variable keeps its type, and no attempt exceeds the cap, for any
\* number of runs, commits and attempts.
THEOREM FixTypeCorrect == Spec => []TypeOK
<1>1. Inv => TypeOK
  BY DEF Inv
<1> QED
  BY <1>1, FixInductive, PTL

\* However many runs overlap, share branch names and fail, once none is running
\* (and none was killed) every loop branch is one somebody was asked to review.
THEOREM FixNoLitter == Spec => []NoLitter
<1>1. Inv => NoLitter
  BY DEF Inv, IInv, LitterOK, Owns, Working, NoLitter
<1> QED
  BY <1>1, FixInductive, PTL

-----------------------------------------------------------------------------
(* What reaches base_ref.                                                  *)

LEMMA NextAttemptEdit ==
  ASSUME Inv, NEW p \in Run, NextAttempt(p)
  PROVE  /\ edit'[p] = "none" /\ pc'[p] \in {"make", "unlink"}
         /\ \A q \in Run \ {p} : edit'[q] = edit[q] /\ pc'[q] = pc[q]
<1>1. edit'[p] = "none" /\ \A q \in Run \ {p} : edit'[q] = edit[q]
  BY DEF NextAttempt, Inv, TypeOK
<1>2. CASE Goto(p, "make")
  BY <1>1, <1>2, GotoFacts DEF Inv
<1>3. CASE Decide(p, "escalated", FALSE)
  <2>1. pc'[p] = "unlink" /\ \A q \in Run \ {p} : pc'[q] = pc[q]
    BY <1>3, DecideFacts DEF Inv
  <2> QED
    BY <1>1, <2>1
<1> QED
  BY <1>2, <1>3 DEF NextAttempt

\* The two facts about an edit that a run's own step must keep.
EditOK(p) == /\ pc[p] = "test" => edit[p] # "tamper"
             /\ pc[p] = "commit" => edit[p] = "good"

LEMMA ScannedStep ==
  ASSUME Inv, [Next]_vars, AllScanned, ~MakerCommits, ~GuardMayDie
  PROVE  AllScanned'
<1> USE DEF repoVars, durableVars, gitLocals, runLocals, endLocals, boundVars, ghostVars
<1>0. byLoop \subseteq scanned /\ \A p \in Run : EditOK(p)
  BY DEF AllScanned, EditOK
<1> SUFFICES byLoop' \subseteq scanned' /\ \A p \in Run : EditOK(p)'
  BY DEF AllScanned, EditOK
<1>a. ASSUME NEW p \in Run, NEW label \in Pc \ {"test", "commit"},
             pc'[p] = label,
             \A q \in Run \ {p} : pc'[q] = pc[q] /\ edit'[q] = edit[q],
             byLoop' \subseteq scanned'
      PROVE  byLoop' \subseteq scanned' /\ \A q \in Run : EditOK(q)'
  BY <1>0, <1>a DEF EditOK
<1>1. ASSUME NEW p \in Run,
             \/ Start(p) \/ Refuse(p) \/ Resolve(p) \/ DropStale(p) \/ ReadOldBase(p)
             \/ RemoveWorktree(p) \/ DeleteBranch(p) \/ WriteState(p)
      PROVE  byLoop' \subseteq scanned' /\ \A q \in Run : EditOK(q)'
  <2>1. PICK label \in Pc \ {"test", "commit"} : Goto(p, label)
    BY <1>1 DEF Start, Refuse, Resolve, DropStale, ReadOldBase, RemoveWorktree,
                DeleteBranch, WriteState, Pc
  <2>2. UNCHANGED <<edit, byLoop, scanned>>
    BY <1>1 DEF Start, Refuse, Resolve, DropStale, ReadOldBase, RemoveWorktree,
                DeleteBranch, WriteState
  <2>3. pc'[p] = label /\ \A q \in Run \ {p} : pc'[q] = pc[q]
    BY <2>1, GotoFacts DEF Inv
  <2> QED
    BY <1>0, <1>a, <2>2, <2>3
<1>2. ASSUME NEW p \in Run,
             AddFails(p) \/ InfraFails(p) \/ AddWorktree(p) \/ Gate(p) \/ MoveBase(p)
      PROVE  byLoop' \subseteq scanned' /\ \A q \in Run : EditOK(q)'
  <2>1. UNCHANGED <<edit, byLoop, scanned>>
    BY <1>2 DEF AddFails, InfraFails, AddWorktree, Gate, MoveBase
  <2>2. \/ Goto(p, "make") \/ Goto(p, "reread") \/ Goto(p, "unlink")
    BY <1>2 DEF AddFails, InfraFails, AddWorktree, Gate, MoveBase, Fail, Decide
  <2>3. pc'[p] \in {"make", "reread", "unlink"} /\ \A q \in Run \ {p} : pc'[q] = pc[q]
    BY <2>2, GotoFacts DEF Inv
  <2> QED
    BY <1>0, <1>a, <2>1, <2>3 DEF Pc
<1>3. ASSUME NEW p \in Run, Make(p)
      PROVE  byLoop' \subseteq scanned' /\ \A q \in Run : EditOK(q)'
  <2>1. pc'[p] = "judge" /\ \A q \in Run \ {p} : pc'[q] = pc[q]
    BY <1>3, GotoFacts DEF Make, Inv
  <2>2. UNCHANGED <<byLoop, scanned>> /\ \A q \in Run \ {p} : edit'[q] = edit[q]
    BY <1>3 DEF Make, Inv, TypeOK
  <2> QED
    BY <1>0, <1>a, <2>1, <2>2 DEF Pc
<1>4. ASSUME NEW p \in Run, Judge(p)
      PROVE  byLoop' \subseteq scanned' /\ \A q \in Run : EditOK(q)'
  <2>1. UNCHANGED <<byLoop, scanned>>
    BY <1>4 DEF Judge
  <2>2. CASE NextAttempt(p)
    BY <1>0, <1>a, <2>1, <2>2, NextAttemptEdit DEF Pc
  <2>3. CASE Decide(p, "escalated", FALSE) /\ UNCHANGED edit
    <3>1. pc'[p] = "unlink" /\ \A q \in Run \ {p} : pc'[q] = pc[q]
      BY <2>3, DecideFacts DEF Inv
    <3> QED
      BY <1>0, <1>a, <2>1, <2>3, <3>1 DEF Pc
  <2>4. CASE ~Tampered(p) /\ Goto(p, "test") /\ UNCHANGED edit
    <3>1. pc'[p] = "test" /\ \A q \in Run \ {p} : pc'[q] = pc[q]
      BY <2>4, GotoFacts DEF Inv
    <3> QED
      BY <1>0, <2>1, <2>4, <3>1 DEF Tampered, EditOK
  <2> QED
    BY <1>4, <2>2, <2>3, <2>4 DEF Judge
<1>5. ASSUME NEW p \in Run, Test(p)
      PROVE  byLoop' \subseteq scanned' /\ \A q \in Run : EditOK(q)'
  <2>1. UNCHANGED <<byLoop, scanned>> /\ edit[p] # "tamper"
    BY <1>0, <1>5 DEF Test, EditOK
  <2>2. CASE NextAttempt(p)
    BY <1>0, <1>a, <2>1, <2>2, NextAttemptEdit DEF Pc
  <2>3. CASE Passes(p) /\ Goto(p, "commit") /\ UNCHANGED edit
    <3>1. pc'[p] = "commit" /\ \A q \in Run \ {p} : pc'[q] = pc[q]
      BY <2>3, GotoFacts DEF Inv
    <3> QED
      BY <1>0, <2>1, <2>3, <3>1 DEF Passes, EditOK
  <2> QED
    BY <1>5, <2>2, <2>3 DEF Test
<1>6. ASSUME NEW p \in Run, CommitEdit(p)
      PROVE  byLoop' \subseteq scanned' /\ \A q \in Run : EditOK(q)'
  <2>1. edit[p] = "good"
    BY <1>0, <1>6 DEF CommitEdit, EditOK
  <2>2. byLoop' \subseteq scanned'
    <3>1. PICK c \in Commit : byLoop' = byLoop \cup {c} /\ scanned' = scanned \cup {c}
      BY <1>6, <2>1 DEF CommitEdit
    <3> QED
      BY <1>0, <3>1
  <2>3. \A q \in Run \ {p} : edit'[q] = edit[q]
    BY <1>6 DEF CommitEdit, Inv, TypeOK
  <2>4. Goto(p, "unlink") \/ Goto(p, "gate")
    BY <1>6 DEF CommitEdit, Decide
  <2>5. pc'[p] \in {"unlink", "gate"} /\ \A q \in Run \ {p} : pc'[q] = pc[q]
    BY <2>4, GotoFacts DEF Inv
  <2> QED
    BY <1>0, <1>a, <2>2, <2>3, <2>5 DEF Pc
<1>7. ASSUME NEW p \in Run, WriteFails(p) \/ AppendLog(p) \/ Crash(p)
                            \/ ResolveFails(p)
      PROVE  byLoop' \subseteq scanned' /\ \A q \in Run : EditOK(q)'
  <2>1. UNCHANGED <<byLoop, scanned>>
    BY <1>7 DEF WriteFails, AppendLog, Crash, ResolveFails
  <2>2. (Fail(p) /\ UNCHANGED edit) \/ Forget(p)
    BY <1>7 DEF WriteFails, AppendLog, Crash, ResolveFails
  <2>3. /\ Goto(p, "unlink") \/ Goto(p, "idle")
        /\ \A q \in Run \ {p} : edit'[q] = edit[q]
    BY <2>2 DEF Fail, Forget, Inv, TypeOK
  <2>4. pc'[p] \in {"unlink", "idle"} /\ \A q \in Run \ {p} : pc'[q] = pc[q]
    BY <2>3, GotoFacts DEF Inv
  <2> QED
    BY <1>0, <1>a, <2>1, <2>3, <2>4 DEF Pc
<1>8. CASE \/ \E c \in Commit : Push(c)
           \/ \E n \in Commit : Review(n)
           \/ UNCHANGED vars
  BY <1>0, <1>8 DEF Push, Review, vars, EditOK
<1> QED
  BY <1>1, <1>2, <1>3, <1>4, <1>5, <1>6, <1>7, <1>8 DEF Next, RunStep, MakeAndCommit

\* When makers leave committing to the loop and loopguard always answers,
\* everything a loop commits passed the integrity scan and the tests.
THEOREM FixAllScanned ==
  ASSUME ~MakerCommits, ~GuardMayDie
  PROVE  Spec => []AllScanned
<1>1. Init => AllScanned
  BY DEF Init, AllScanned
<1>2. Inv /\ AllScanned /\ [Next]_vars => AllScanned'
  BY ScannedStep
<1> QED
  BY <1>1, <1>2, FixInductive, PTL DEF Spec

\* So no commit of a loop, tip or ancestor, is on base_ref unscanned, however
\* runs overlap, are killed and restarted.
THEOREM FixOnlyScannedMerges ==
  ASSUME ~MakerCommits, ~GuardMayDie
  PROVE  Spec => []OnlyScannedMerges
<1>1. AllScanned => OnlyScannedMerges
  BY DEF AllScanned, OnlyScannedMerges
<1> QED
  BY <1>1, FixAllScanned, PTL

LEMMA NoLossStep ==
  ASSUME Inv, [Next]_vars
  PROVE  \/ anc[base] \subseteq (anc[base])'
         \/ \E p \in Run : pc[p] = "move" /\ pc'[p] # "move" /\ old[p] # from[p]
<1> USE DEF repoVars, durableVars, gitLocals, runLocals, endLocals, boundVars, ghostVars
<1>0. base \in made /\ base \in Commit
  BY DEF Inv, IInv, TypeOK
<1>1. ASSUME NEW p \in Run, MoveBase(p), OldBaseMatches(p), old[p] = from[p]
      PROVE  anc[base] \subseteq (anc[base])'
  <2>1. RunOK(p) /\ pc[p] = "move"
    BY <1>1 DEF MoveBase, Inv, IInv
  <2>2. anc[from[p]] \subseteq anc[commit[p]]
    BY <2>1 DEF RunOK, Working
  <2> QED
    BY <1>1, <2>2 DEF MoveBase, OldBaseMatches
<1>2. ASSUME NEW p \in Run, MoveBase(p), OldBaseMatches(p)
      PROVE  pc[p] = "move" /\ pc'[p] # "move"
  <2>1. pc[p] = "move" /\ Decide(p, "merged", FALSE)
    BY <1>2 DEF MoveBase
  <2> QED
    BY <2>1, DecideFacts DEF Inv
<1>3. ASSUME NEW p \in Run, MoveBase(p), ~OldBaseMatches(p)
      PROVE  UNCHANGED <<anc, base>>
  BY <1>3 DEF MoveBase
<1>4. ASSUME NEW p \in Run, MakeAndCommit(p) \/ CommitEdit(p)
      PROVE  anc[base] \subseteq (anc[base])'
  <2>1. base' = base
    BY <1>4 DEF MakeAndCommit, CommitEdit
  <2>2. branch[name[p]] \in Commit
    BY <1>4, WorkingHasBranch DEF MakeAndCommit, CommitEdit, Working
  <2>3. \E c \in Commit : NewCommit(c, branch[name[p]])
    BY <1>4 DEF MakeAndCommit, CommitEdit
  <2>4. PICK b \in Commit : b = branch[name[p]]
    BY <2>2
  <2>5. \A d \in made : anc'[d] = anc[d]
    BY <2>3, <2>4, NewCommitType DEF Inv
  <2> QED
    BY <1>0, <2>1, <2>5
<1>5. ASSUME NEW c \in Commit, Push(c)
      PROVE  anc[base] \subseteq (anc[base])'
  <2>1. anc'[c] = {c} \cup anc[base] /\ base' = c
    BY <1>0, <1>5, NewCommitType DEF Push, Inv
  <2> QED
    BY <2>1
<1>6. ASSUME NEW p \in Run,
             \/ Start(p) \/ Refuse(p) \/ Resolve(p) \/ DropStale(p) \/ AddWorktree(p)
             \/ AddFails(p) \/ Make(p) \/ InfraFails(p) \/ Judge(p)
             \/ Test(p) \/ Gate(p) \/ ReadOldBase(p)
             \/ RemoveWorktree(p) \/ DeleteBranch(p) \/ WriteState(p) \/ AppendLog(p)
             \/ WriteFails(p) \/ Crash(p) \/ ResolveFails(p)
      PROVE  UNCHANGED <<anc, base>>
  BY <1>6 DEF Start, Refuse, Resolve, DropStale, AddWorktree, AddFails, Make, InfraFails,
              Judge, Test, Gate, ReadOldBase, RemoveWorktree, DeleteBranch, WriteState,
              AppendLog, WriteFails, Crash, ResolveFails
<1>7. CASE (\E n \in Commit : Review(n)) \/ UNCHANGED vars
  BY <1>7 DEF Review, vars
<1> QED
  BY <1>1, <1>2, <1>3, <1>4, <1>5, <1>6, <1>7 DEF Next, RunStep

\* base_ref loses a commit only in a merge by a run that read back another base
\* than its worktree grew from: an edit of its own branch, a second run of the
\* same name, a person's push or a kill never makes it lose one.
THEOREM FixLossOnlyWhenOvertaken == Spec => LossOnlyWhenOvertaken
<1>1. Inv /\ [Next]_vars =>
        [anc[base] \subseteq (anc[base])'
           \/ \E p \in Run : pc[p] = "move" /\ pc'[p] # "move" /\ old[p] # from[p]]_vars
  BY NoLossStep
<1> QED
  BY <1>1, FixInductive, PTL DEF Spec, LossOnlyWhenOvertaken

-----------------------------------------------------------------------------
(* Runs are finite.                                                        *)

LEMMA StepsLeftBound ==
  ASSUME TypeOK, NEW p \in Run
  PROVE  StepsLeft(p) \in 0 .. 18 + 3 * MaxAttempts
<1>1. attempt[p] \in 0 .. MaxAttempts
  BY DEF TypeOK
<1> QED
  BY <1>1 DEF StepsLeft

\* A run only knows its own counters.
LEMMA StepsLeftFrame ==
  ASSUME NEW p \in Run, UNCHANGED <<pc[p], attempt[p], guarded[p]>>
  PROVE  StepsLeft(p)' = StepsLeft(p)
BY DEF StepsLeft

\* The end of a run: it was decided on or failed at work, ...
LEMMA EndIsNearer ==
  ASSUME TypeOK, NEW p \in Run,
         pc[p] \in {"resolve", "drop", "add"} \cup Working,
         pc'[p] = "unlink"
  PROVE  StepsLeft(p)' < StepsLeft(p)
<1>1. attempt[p] \in 0 .. MaxAttempts
  BY DEF TypeOK
<1>2. StepsLeft(p)' <= 8
  BY DEF StepsLeft
<1>3. StepsLeft(p) >= 9
  <2>1. CASE pc[p] \in {"resolve", "drop", "add"}
    BY <2>1 DEF StepsLeft
  <2>2. CASE pc[p] \in {"make", "judge", "test"}
    <3>1. 3 * (MaxAttempts - attempt[p]) >= 0
      BY <1>1
    <3>2. \E stage \in {13, 14, 15} :
            StepsLeft(p) = stage + 3 * (MaxAttempts - attempt[p]) + 0
      BY <2>2 DEF StepsLeft
    <3> QED
      BY <1>1, <3>1, <3>2
  <2>3. CASE pc[p] \in {"commit", "gate", "reread", "move"}
    BY <2>3 DEF StepsLeft
  <2> QED
    BY <2>1, <2>2, <2>3 DEF Working
<1> QED
  BY <1>1, <1>2, <1>3, StepsLeftBound DEF StepsLeft

\* ... or at its own end, which it then begins again, once.
LEMMA AgainIsNearer ==
  ASSUME TypeOK, NEW p \in Run,
         pc[p] \in {"write", "log"}, guarded[p], pc'[p] = "unlink", ~guarded'[p]
  PROVE  StepsLeft(p)' < StepsLeft(p)
BY DEF StepsLeft

LEMMA IdleIsNearest ==
  ASSUME TypeOK, NEW p \in Run, pc[p] # "idle", pc'[p] = "idle"
  PROVE  StepsLeft(p)' < StepsLeft(p)
<1>1. attempt[p] \in 0 .. MaxAttempts
  BY DEF TypeOK
<1>2. StepsLeft(p)' = 0
  BY DEF StepsLeft
<1>3. StepsLeft(p) >= 1
  BY <1>1 DEF StepsLeft, TypeOK, Pc
<1> QED
  BY <1>1, <1>2, <1>3, StepsLeftBound

\* The next attempt, or the last one's end.
LEMMA AttemptIsNearer ==
  ASSUME TypeOK, NEW p \in Run, pc[p] \in {"judge", "test"}, NextAttempt(p)
  PROVE  StepsLeft(p)' < StepsLeft(p)
<1>1. attempt[p] \in 0 .. MaxAttempts
  BY DEF TypeOK
<1>2. CASE attempt[p] < MaxAttempts
  <2>1. pc'[p] = "make" /\ attempt'[p] = attempt[p] + 1
    BY <1>2 DEF NextAttempt, Goto, TypeOK
  <2> QED
    BY <1>1, <1>2, <2>1 DEF StepsLeft
<1>3. CASE ~(attempt[p] < MaxAttempts)
  <2>1. pc'[p] = "unlink"
    BY <1>3 DEF NextAttempt, Decide, Goto, TypeOK
  <2> QED
    BY <2>1, EndIsNearer DEF Working
<1> QED
  BY <1>2, <1>3

\* A step along the pipeline.
LEMMA OnwardIsNearer ==
  ASSUME TypeOK, NEW p \in Run, attempt'[p] = attempt[p], guarded'[p] = guarded[p],
         \/ pc[p] = "drop" /\ pc'[p] = "add"
         \/ pc[p] = "make" /\ pc'[p] = "judge"
         \/ pc[p] = "judge" /\ pc'[p] = "test"
         \/ pc[p] = "test" /\ pc'[p] = "commit"
         \/ pc[p] = "commit" /\ pc'[p] = "gate"
         \/ pc[p] = "gate" /\ pc'[p] = "reread"
         \/ pc[p] = "reread" /\ pc'[p] = "move"
         \/ pc[p] = "unlink" /\ pc'[p] = "delete"
         \/ pc[p] = "delete" /\ pc'[p] = "write"
         \/ pc[p] = "write" /\ pc'[p] = "log"
  PROVE  StepsLeft(p)' < StepsLeft(p)
<1>1. attempt[p] \in 0 .. MaxAttempts
  BY DEF TypeOK
<1> QED
  BY <1>1 DEF StepsLeft

LEMMA RunIsNearer ==
  ASSUME TypeOK, NEW p \in Run, pc[p] # "idle",
         RunStep(p) \/ WriteFails(p) \/ Crash(p)
  PROVE  StepsLeft(p)' < StepsLeft(p)
<1> USE DEF runLocals, endLocals
<1>1. CASE Resolve(p)
  BY <1>1 DEF Resolve, Goto, TypeOK, StepsLeft
<1>2. CASE AddWorktree(p)
  <2>1. CASE MaxAttempts > 0
    <3>1. pc[p] = "add" /\ pc'[p] = "make" /\ attempt'[p] = 1
      BY <1>2, <2>1 DEF AddWorktree, Goto, TypeOK
    <3> QED
      BY <2>1, <3>1 DEF StepsLeft
  <2>2. CASE ~(MaxAttempts > 0)
    <3>1. pc[p] = "add" /\ pc'[p] = "unlink"
      BY <1>2, <2>2 DEF AddWorktree, Decide, Goto, TypeOK
    <3> QED
      BY <3>1, EndIsNearer
  <2> QED
    BY <2>1, <2>2
<1>3. CASE AddFails(p) \/ InfraFails(p)
  <2>1. pc[p] \in {"add"} \cup Working /\ pc'[p] = "unlink"
    BY <1>3 DEF AddFails, InfraFails, Fail, Goto, TypeOK, Working
  <2> QED
    BY <2>1, EndIsNearer
<1>4. CASE DropStale(p) \/ Make(p) \/ MakeAndCommit(p) \/ ReadOldBase(p)
             \/ RemoveWorktree(p) \/ DeleteBranch(p) \/ WriteState(p)
  BY <1>4, OnwardIsNearer
  DEF DropStale, Make, MakeAndCommit, ReadOldBase, RemoveWorktree, DeleteBranch,
      WriteState, Goto, TypeOK
<1>5. CASE Judge(p)
  <2>1. pc[p] = "judge"
    BY <1>5 DEF Judge
  <2>2. CASE Decide(p, "escalated", FALSE)
    BY <2>1, <2>2, DecideFacts, EndIsNearer DEF Working
  <2>3. CASE Goto(p, "test") /\ UNCHANGED <<attempt, edit, endLocals>>
    BY <2>1, <2>3, OnwardIsNearer DEF Goto, TypeOK
  <2> QED
    BY <1>5, <2>1, <2>2, <2>3, AttemptIsNearer DEF Judge
<1>6. CASE Test(p)
  <2>1. CASE Passes(p)
    BY <1>6, <2>1, OnwardIsNearer DEF Test, Goto, TypeOK
  <2> QED
    BY <1>6, <2>1, AttemptIsNearer DEF Test
<1>7. CASE CommitEdit(p) \/ Gate(p)
  <2>1. pc[p] \in {"commit", "gate"} /\ attempt' = attempt
    BY <1>7 DEF CommitEdit, Gate
  <2>2. CASE pc'[p] = "unlink"
    BY <2>1, <2>2, EndIsNearer DEF Working
  <2>3. CASE ~(pc'[p] = "unlink")
    <3>1. /\ guarded' = guarded
          /\ \/ pc[p] = "commit" /\ pc'[p] = "gate"
             \/ pc[p] = "gate" /\ pc'[p] = "reread"
      BY <1>7, <2>3 DEF CommitEdit, Gate, Decide, Goto, TypeOK
    <3> QED
      BY <2>1, <3>1, OnwardIsNearer
  <2> QED
    BY <2>2, <2>3
<1>8. CASE MoveBase(p)
  <2>1. pc[p] = "move" /\ pc'[p] = "unlink"
    BY <1>8 DEF MoveBase, Decide, Fail, Goto, TypeOK
  <2> QED
    BY <2>1, EndIsNearer DEF Working
<1>9. CASE WriteFails(p)
  <2>1. CASE guarded[p]
    <3>1. pc[p] \in {"write", "log"} /\ pc'[p] = "unlink" /\ ~guarded'[p]
      BY <1>9, <2>1 DEF WriteFails, Fail, Goto, TypeOK
    <3> QED
      BY <2>1, <3>1, AgainIsNearer
  <2>2. CASE ~guarded[p]
    BY <1>9, <2>2, IdleIsNearest DEF WriteFails, Forget, Goto, TypeOK
  <2> QED
    BY <2>1, <2>2
<1>10. CASE AppendLog(p) \/ Crash(p) \/ ResolveFails(p)
  BY <1>10, IdleIsNearest DEF AppendLog, Crash, ResolveFails, Forget, Goto, TypeOK
<1>11. ~Start(p) /\ ~Refuse(p)
  BY DEF Start, Refuse
<1> QED
  BY <1>1, <1>2, <1>3, <1>4, <1>5, <1>6, <1>7, <1>8, <1>9, <1>10, <1>11 DEF RunStep

\* A busy run is changed by its own steps only.
LEMMA OthersWait ==
  ASSUME TypeOK, [Next]_vars, NEW p \in Run,
         ~(RunStep(p) \/ WriteFails(p) \/ Crash(p))
  PROVE  UNCHANGED <<pc[p], attempt[p], guarded[p]>>
<1> USE DEF runLocals, endLocals
<1>1. ASSUME NEW q \in Run, q # p, RunStep(q) \/ WriteFails(q) \/ Crash(q)
      PROVE  UNCHANGED <<pc[p], attempt[p], guarded[p]>>
  BY <1>1
  DEF RunStep, Start, Refuse, Resolve, DropStale, AddWorktree, AddFails, Make,
      MakeAndCommit, InfraFails, Judge, Test, CommitEdit, Gate, ReadOldBase, MoveBase,
      RemoveWorktree, DeleteBranch, WriteState, AppendLog, WriteFails, Crash,
      ResolveFails, NextAttempt, Decide, Fail, Forget, Goto, TypeOK
<1>2. CASE \/ \E c \in Commit : Push(c)
           \/ \E n \in Commit : Review(n)
           \/ UNCHANGED vars
  BY <1>2 DEF Push, Review, vars
<1> QED
  BY <1>1, <1>2 DEF Next

\* For any number of runs, attempts, kills and failing writes: from its worktree's
\* base to its row a run takes at most 18 + 3 * MaxAttempts steps, and nobody can
\* make it take more.  That it takes them is the fairness TLC checks EveryRunEnds
\* under.
THEOREM FixRunsAreFinite == Spec => EveryStepCounts
<1> DEFINE Counts ==
      \A p \in Run :
        /\ StepsLeft(p) \in 0 .. 18 + 3 * MaxAttempts
        /\ pc[p] # "idle" => StepsLeft(p)' < StepsLeft(p)
                                \/ UNCHANGED <<pc[p], attempt[p], guarded[p]>>
        /\ RunStep(p) /\ pc[p] # "idle" => StepsLeft(p)' < StepsLeft(p)
<1>1. TypeOK /\ [Next]_vars => [Counts]_vars
  <2> SUFFICES ASSUME TypeOK, [Next]_vars, NEW p \in Run
               PROVE  /\ StepsLeft(p) \in 0 .. 18 + 3 * MaxAttempts
                      /\ pc[p] # "idle" => StepsLeft(p)' < StepsLeft(p)
                                             \/ UNCHANGED <<pc[p], attempt[p], guarded[p]>>
                      /\ RunStep(p) /\ pc[p] # "idle" => StepsLeft(p)' < StepsLeft(p)
    OBVIOUS
  <2> QED
    BY StepsLeftBound, RunIsNearer, OthersWait
<1> QED
  BY <1>1, FixTypeCorrect, PTL DEF Spec, EveryStepCounts
=============================================================================
