-------------------------- MODULE DailyTriageProofs --------------------------
(***************************************************************************)
(* Proofs about DailyTriage for any number of commits, failing steps, dead *)
(* reports, lost cursors and re-run jobs: the cursor on the loop-state     *)
(* branch covers only commits that were published, too old to be listed,   *)
(* or lost to a report that died with no issue open.                       *)
(***************************************************************************)
EXTENDS DailyTriage, TLAPS

USE DailyAssumption
USE DEF DailyAssumption

LEMMA OneMoreType ==
  ASSUME NEW streak \in 0 .. CloseAfter
  PROVE  OneMore(streak) \in 0 .. CloseAfter
  BY DEF OneMore

\* The cursors of a state, whatever else it holds, and its commits.
LEMMA StateFields ==
  /\ NoState \in State /\ NoState.cursor = 0
  /\ \A s \in State : /\ s.cursor \in Cursor /\ s.found \in SUBSET Commit
                      /\ s.streak \in 0 .. CloseAfter
                      /\ s.result \in {"none", "clean", "found"}
  BY DEF NoState, State, Cursor

LEMMA NewCommitsType ==
  ASSUME TypeOK
  PROVE  \A c \in Cursor : NewCommits(c) \subseteq Commit
  BY DEF TypeOK, NewCommits, Commit

\* What a run leaves is a state: a clean one with the old cursor or the tip, or
\* one that lists every new commit.
LEMMA AfterRunOK ==
  ASSUME TypeOK
  PROVE  /\ AfterRun \in State
         /\ AfterRun.result # "found" => AfterRun.found = {}
         /\ \/ off /\ AfterRun.cursor = work.cursor
            \/ ~off /\ AfterRun.cursor = tip /\ NewCommits(work.cursor) \subseteq Noise
            \/ ~off /\ AfterRun.cursor = tip /\ AfterRun.found = NewCommits(work.cursor)
<1>1. work.cursor \in Cursor /\ tip \in Cursor /\ OneMore(work.streak) \in 0 .. CloseAfter
  BY StateFields, OneMoreType DEF TypeOK, Cursor, Commit
<1>2. NewCommits(work.cursor) \subseteq Commit
  BY <1>1, NewCommitsType
<1>3. \A c \in Cursor : Clean(c) \in State /\ Clean(c).cursor = c /\ Clean(c).found = {}
  BY <1>1 DEF Clean, State
<1>4. /\ Found(NewCommits(work.cursor)) \in State
      /\ Found(NewCommits(work.cursor)).cursor = tip
      /\ Found(NewCommits(work.cursor)).result = "found"
      /\ Found(NewCommits(work.cursor)).found = NewCommits(work.cursor)
  BY <1>1, <1>2 DEF Found, State
<1>5. off \in BOOLEAN
  BY DEF TypeOK
<1>6. CASE off
  BY <1>1, <1>3, <1>6 DEF AfterRun
<1>7. CASE ~off /\ NewCommits(work.cursor) \subseteq Noise
  BY <1>1, <1>3, <1>7 DEF AfterRun
<1>8. CASE ~off /\ ~(NewCommits(work.cursor) \subseteq Noise)
  BY <1>4, <1>8 DEF AfterRun
<1> QED
  BY <1>5, <1>6, <1>7, <1>8

LEMMA IssueAfterType ==
  ASSUME TypeOK
  PROVE  IssueAfter(work) \in [open : BOOLEAN, body : SUBSET Commit]
  BY StateFields DEF TypeOK, IssueAfter

-----------------------------------------------------------------------------
LEMMA TypeInit == Init => TypeOK
<1> SUFFICES ASSUME Init PROVE TypeOK
  OBVIOUS
<1>1. head \in Commit /\ aged \in 0 .. head /\ tip \in 0 .. head
  BY DEF Init, Commit
<1>2. faults \in 0 .. MaxFaults /\ deadReports \in 0 .. MaxDeadReports
        /\ restoreFaults \in 0 .. MaxRestoreFaults /\ reruns \in 0 .. MaxReruns
  BY DEF Init
<1>3. issue \in [open : BOOLEAN, body : SUBSET Commit]
  BY DEF Init
<1> QED
  BY <1>1, <1>2, <1>3, StateFields DEF Init, TypeOK

LEMMA TypeStep == TypeOK /\ [Next]_vars => TypeOK'
<1> SUFFICES ASSUME TypeOK, [Next]_vars PROVE TypeOK'
  OBVIOUS
<1> USE DEF TypeOK, repo, bounds, ghosts, Discard
<1>0. NoState \in State /\ 0 \in 0 .. head /\ head \in 1 .. MaxCommits
  BY StateFields DEF Commit
<1>1. CASE Checkout
  <2>1. through' \in BOOLEAN /\ closed' \in BOOLEAN
    BY <1>1, Zenon DEF Checkout
  <2> QED
    BY <1>0, <1>1, <2>1 DEF Checkout
<1>2. ASSUME NEW t \in 1 .. head, Rerun(t) PROVE TypeOK'
  <2>1. through' \in BOOLEAN /\ closed' \in BOOLEAN
    BY <1>2, Zenon DEF Rerun
  <2>2. reruns' \in 0 .. MaxReruns /\ tip' \in 0 .. head /\ off' \in BOOLEAN
    BY <1>0, <1>2 DEF Rerun
  <2> QED
    BY <1>2, <2>1, <2>2 DEF Rerun
<1>3. CASE Restore
  BY <1>3 DEF Restore
<1>4. CASE RestoreFails
  BY <1>0, <1>4 DEF RestoreFails
<1>5. CASE RunLoop
  <2>1. AfterRun \in State
    BY AfterRunOK
  <2>2. outside' \subseteq Commit
    BY <1>0, <1>5 DEF RunLoop, Commit
  <2> QED
    BY <1>5, <2>1, <2>2 DEF RunLoop
<1>6. CASE RunFails
  <2>1. faults' \in 0 .. MaxFaults
    BY <1>6 DEF RunFails
  <2> QED
    BY <1>0, <1>6, <2>1 DEF RunFails
<1>7. CASE FindIssue
  BY <1>7 DEF FindIssue
<1>8. CASE PublishFindings
  <2>1. work.found \subseteq Commit
    BY StateFields
  <2> QED
    BY <1>8, <2>1, IssueAfterType DEF PublishFindings
<1>17. CASE NoFindings
  <2>1. work.found \subseteq Commit
    BY StateFields
  <2>2. deadReports' \in 0 .. MaxDeadReports
    BY <1>17 DEF NoFindings
  <2>3. missed' \subseteq Commit /\ pc' \in {"banner", "persist"}
    BY <1>17, <2>1 DEF NoFindings
  <2> QED
    BY <1>17, <2>2, <2>3 DEF NoFindings
<1>18. CASE EditIssue
  <2>1. work.found \subseteq Commit
    BY StateFields
  <2>2. issue' \in [open : BOOLEAN, body : SUBSET Commit]
    BY <1>18, <2>1 DEF EditIssue
  <2>3. pc' \in {"close", "persist"} /\ missed' \subseteq Commit /\ published' \subseteq Commit
    BY <1>18, <2>1 DEF EditIssue
  <2> QED
    BY <1>18, <2>2, <2>3 DEF EditIssue
<1>9. CASE CloseIssue
  BY <1>9 DEF CloseIssue
<1>10. CASE Persist
  BY <1>0, <1>10 DEF Persist
<1>11. CASE StepFails
  <2>1. faults' \in 0 .. MaxFaults
    BY <1>11 DEF StepFails
  <2> QED
    BY <1>0, <1>11, <2>1 DEF StepFails
<1>12. CASE Push
  BY <1>0, <1>12 DEF Push, machine, Commit
<1>13. CASE TwoWeeksPass
  BY <1>0, <1>13 DEF TwoWeeksPass, machine
<1>14. CASE TogglePause
  BY <1>14 DEF TogglePause, machine
<1>15. CASE PersonCloses
  BY <1>15 DEF PersonCloses, machine
<1>16. CASE UNCHANGED vars
  BY <1>16 DEF vars, machine
<1> QED
  BY <1>1, <1>2, <1>3, <1>4, <1>5, <1>6, <1>7, <1>8, <1>9, <1>10, <1>11,
     <1>12, <1>13, <1>14, <1>15, <1>16, <1>17, <1>18 DEF Next, JobStep

\* Every variable keeps its type.
THEOREM DailyTypeCorrect == Spec => []TypeOK
  BY TypeInit, TypeStep, PTL DEF Spec

-----------------------------------------------------------------------------
LEMMA NothingCovers == \A S : Covers(0, S)
  BY DEF Covers

LEMMA CoversMore ==
  ASSUME NEW c, NEW S, NEW T, Covers(c, S), S \subseteq T
  PROVE  Covers(c, T)
  BY DEF Covers

\* A run's cursor covers what its old cursor covered, what it lists, what is
\* noise and what it left out for its age.
LEMMA RunCovers ==
  ASSUME TypeOK, NEW S, Covers(work.cursor, S), NEW T,
         IF work.cursor = 0 /\ ~off THEN T = S \cup 1 .. aged ELSE T = S
  PROVE  Covers(AfterRun.cursor, T \cup AfterRun.found)
<1> SUFFICES ASSUME NEW i \in 1 .. AfterRun.cursor, i \notin Noise
             PROVE  i \in T \cup AfterRun.found
  BY DEF Covers
<1>1. work.cursor \in Nat /\ work.cursor \in Cursor /\ tip \in Nat /\ aged \in Nat /\ i \in Nat
  BY StateFields DEF TypeOK, Cursor, Commit
<1>2. S \subseteq T /\ (work.cursor = 0 /\ ~off => 1 .. aged \subseteq T)
  OBVIOUS
<1>3. CASE off /\ AfterRun.cursor = work.cursor
  BY <1>2, <1>3 DEF Covers
<1>4. CASE ~off /\ AfterRun.cursor = tip
  <2>1. i \in NewCommits(work.cursor) \/ i \in 1 .. work.cursor
          \/ (work.cursor = 0 /\ i \in 1 .. aged)
    BY <1>1, <1>4 DEF NewCommits
  <2>2. CASE i \in 1 .. work.cursor
    BY <1>2, <2>2 DEF Covers
  <2>3. CASE work.cursor = 0 /\ i \in 1 .. aged
    BY <1>2, <1>4, <2>3
  <2>4. CASE i \in NewCommits(work.cursor)
    BY <1>4, <2>4, AfterRunOK
  <2> QED
    BY <2>1, <2>2, <2>3, <2>4
<1> QED
  BY <1>3, <1>4, AfterRunOK

Inv == TypeOK /\ IInv

LEMMA InvInit == Init => Inv
  BY TypeInit, NothingCovers DEF Init, Inv, IInv, NothingSkippedUnpublished, NoState

\* No step takes an excuse away: what leaves `missed` is published.
LEMMA ExcusedGrows ==
  ASSUME TypeOK, deadReports' \in Nat, deadReports' >= deadReports,
         published \cup outside \subseteq published' \cup outside',
         missed \subseteq missed' \cup published'
  PROVE  Excused \subseteq Excused'
<1>1. deadReports \in Nat
  BY DEF TypeOK
<1>2. CASE deadReports > 0
  BY <1>1, <1>2 DEF Excused
<1>3. CASE ~(deadReports > 0)
  BY <1>1, <1>3 DEF Excused
<1> QED
  BY <1>2, <1>3

LEMMA InvStep == Inv /\ [Next]_vars => Inv'
<1> SUFFICES ASSUME Inv, [Next]_vars PROVE IInv'
  BY TypeStep DEF Inv
<1>0. TypeOK /\ IInv /\ deadReports \in Nat
  BY DEF Inv, TypeOK
<1>a. Covers(saved.cursor, Excused) /\ (missed # {} => deadReports > 0)
  BY <1>0 DEF IInv, NothingSkippedUnpublished
<1>1. CASE Checkout \/ \E t \in 1 .. head : Rerun(t)
  BY <1>0, <1>1
     DEF Checkout, Rerun, IInv, NothingSkippedUnpublished, Covers, Excused, bounds
<1>2. CASE Restore
  BY <1>0, <1>2
     DEF Restore, IInv, NothingSkippedUnpublished, Covers, Excused, bounds, ghosts
<1>3. CASE RestoreFails
  <2>1. Covers(0, Excused) /\ NoState.cursor = 0
    BY NothingCovers, StateFields
  <2>2. /\ Excused' = Excused /\ missed' = missed /\ deadReports' = deadReports
        /\ saved' = saved /\ work' = NoState /\ pc' = "run"
    BY <1>3 DEF RestoreFails, Excused, ghosts
  <2> QED
    BY <1>a, <2>1, <2>2 DEF IInv, NothingSkippedUnpublished, Covers
<1>4. CASE RunLoop
  <2>1. Covers(work.cursor, Excused)
    BY <1>0, <1>4 DEF RunLoop, IInv
  <2>2. /\ missed' = missed /\ deadReports' = deadReports /\ published' = published
        /\ saved' = saved /\ work' = AfterRun /\ pc' = "find"
    BY <1>4 DEF RunLoop, bounds
  <2>3. IF work.cursor = 0 /\ ~off THEN Excused' = Excused \cup 1 .. aged
        ELSE Excused' = Excused
    BY <1>4, <2>2 DEF RunLoop, Excused
  <2>4. Covers(AfterRun.cursor, Excused' \cup AfterRun.found)
    BY <1>0, <2>1, <2>3, RunCovers
  <2>5. Excused \subseteq Excused'
    BY <2>3
  <2>6. Covers(saved.cursor, Excused')
    BY <1>a, <2>5, CoversMore
  <2>7. AfterRun.result # "found" => AfterRun.found = {}
    BY <1>0, AfterRunOK
  <2> QED
    BY <1>a, <2>2, <2>4, <2>6, <2>7 DEF IInv, NothingSkippedUnpublished, Covers
<1>5. CASE FindIssue
  BY <1>0, <1>5
     DEF FindIssue, IInv, NothingSkippedUnpublished, Covers, Excused, bounds, ghosts
<1>6. CASE PublishFindings \/ EditIssue
  <2>1. Covers(work.cursor, Excused \cup work.found)
    BY <1>0, <1>6 DEF PublishFindings, EditIssue, IInv
  <2>2. /\ published' = published \cup work.found /\ outside' = outside
        /\ missed' = missed \ work.found /\ deadReports' = deadReports
        /\ work' = work /\ saved' = saved /\ pc' \in {"close", "persist"}
    BY <1>6 DEF PublishFindings, EditIssue, bounds
  <2>3. Excused \subseteq Excused'
    BY <1>0, <2>2, ExcusedGrows
  <2>4. work.found \subseteq Excused'
    BY <2>2 DEF Excused
  <2>5. Covers(work.cursor, Excused') /\ Covers(saved.cursor, Excused')
    BY <1>a, <2>1, <2>3, <2>4 DEF Covers
  <2> QED
    BY <1>a, <2>2, <2>5 DEF IInv, NothingSkippedUnpublished, Covers
<1>7. CASE NoFindings
  <2>1. Covers(work.cursor, Excused \cup work.found) /\ work.found \subseteq Commit
    BY <1>0, <1>7, StateFields DEF NoFindings, IInv, TypeOK
  <2>2. /\ published' = published /\ outside' = outside
        /\ work' = work /\ saved' = saved
        /\ pc = "publish" /\ deadReports' \in {deadReports, deadReports + 1}
    BY <1>7 DEF NoFindings
  <2>3. missed \subseteq missed' /\ deadReports' \in Nat /\ deadReports' >= deadReports
    BY <1>0, <1>7, <2>2 DEF NoFindings
  <2>4. Excused \subseteq Excused'
    BY <1>0, <2>2, <2>3, ExcusedGrows
  <2>5. Covers(saved.cursor, Excused') /\ Covers(work.cursor, Excused' \cup work.found)
    BY <1>a, <2>1, <2>4 DEF Covers
  <2>6. CASE num
    <3>1. pc' = "banner" /\ missed' = missed
      BY <1>7, <2>6 DEF NoFindings
    <3> QED
      BY <1>0, <1>a, <2>2, <2>3, <2>5, <3>1 DEF IInv, NothingSkippedUnpublished, Covers
  <2>7. CASE ~num /\ work.result # "found" /\ work.found = {}
    <3>1. pc' = "persist" /\ missed' = missed
      BY <1>7, <2>7 DEF NoFindings
    <3>2. Covers(work.cursor, Excused')
      BY <2>5, <2>7 DEF Covers
    <3> QED
      BY <1>0, <1>a, <2>2, <2>3, <2>5, <3>1, <3>2 DEF IInv, NothingSkippedUnpublished, Covers
  <2>8. CASE ~num /\ deadReports' = deadReports + 1
    <3>1. pc' = "persist" /\ missed' = missed \cup work.found /\ deadReports' > 0
      BY <1>0, <1>7, <2>8 DEF NoFindings
    <3>2. work.found \subseteq Excused'
      BY <3>1 DEF Excused
    <3>3. Covers(work.cursor, Excused')
      BY <2>5, <3>2 DEF Covers
    <3> QED
      BY <2>2, <2>5, <3>1, <3>3 DEF IInv, NothingSkippedUnpublished, Covers
  <2>9. num \in BOOLEAN
    BY <1>0 DEF TypeOK
  <2>10. (work.result # "found" /\ work.found = {}) \/ deadReports' = deadReports + 1
    BY <1>0, <1>7 DEF NoFindings, IInv
  <2> QED
    BY <2>6, <2>7, <2>8, <2>9, <2>10
<1>8. CASE CloseIssue
  BY <1>0, <1>8
     DEF CloseIssue, IInv, NothingSkippedUnpublished, Covers, Excused, bounds, ghosts
<1>9. CASE Persist
  BY <1>0, <1>9
     DEF Persist, Discard, IInv, NothingSkippedUnpublished, Covers, Excused, bounds
<1>10. CASE RunFails \/ StepFails
  BY <1>0, <1>10
     DEF RunFails, StepFails, Discard, IInv, NothingSkippedUnpublished, Covers, Excused, ghosts
<1>11. CASE Push \/ TwoWeeksPass \/ TogglePause \/ PersonCloses \/ UNCHANGED vars
  BY <1>0, <1>11
     DEF Push, TwoWeeksPass, TogglePause, PersonCloses, vars, machine, bounds, ghosts,
         IInv, NothingSkippedUnpublished, Covers, Excused
<1> QED
  BY <1>1, <1>2, <1>3, <1>4, <1>5, <1>6, <1>7, <1>8, <1>9, <1>10, <1>11
     DEF Next, JobStep

\* For any number of commits, failing steps, dead reports, lost cursors and
\* re-run jobs: a commit worth a report falls behind the cursor on the loop-state
\* branch only after some published report listed it, because a run without a
\* cursor found it too old, or because the report of the job that found it died
\* while no issue was open; without such a death, never for that third reason.
THEOREM DailyNothingSkipped == Spec => []NothingSkippedUnpublished
<1>1. Inv => NothingSkippedUnpublished
  BY DEF Inv, IInv
<1> QED
  BY <1>1, InvInit, InvStep, PTL DEF Spec

-----------------------------------------------------------------------------
LEMMA InboxInit == Init => InboxOK
  BY DEF Init, InboxOK

LEMMA InboxStep == TypeOK /\ InboxOK /\ [Next]_vars => InboxOK'
<1> SUFFICES ASSUME TypeOK, InboxOK, [Next]_vars PROVE InboxOK'
  OBVIOUS
<1> USE DEF InboxOK, Shows
<1>0. issue \in [open : BOOLEAN, body : SUBSET Commit] /\ num \in BOOLEAN
  BY DEF TypeOK
<1>1. CASE Checkout \/ \E t \in 1 .. head : Rerun(t)
  BY <1>1 DEF Checkout, Rerun
<1>2. CASE Restore \/ RestoreFails \/ RunLoop
  BY <1>2 DEF Restore, RestoreFails, RunLoop, ghosts
<1>3. CASE FindIssue
  BY <1>3 DEF FindIssue, ghosts
<1>4. CASE PublishFindings
  <2>1. /\ pc = "publish" /\ pc' = "persist" /\ work' = work
        /\ through' = through /\ closed' = closed /\ work.result = "found"
        /\ issue' = IssueAfter(work)
    BY <1>4 DEF PublishFindings
  <2>2. issue'.body = work.found /\ (issue'.open \/ closed)
    BY <1>0, <2>1 DEF IssueAfter
  <2> QED
    BY <2>1, <2>2
<1>5. CASE NoFindings
  <2>1. /\ pc = "publish" /\ work' = work /\ num' = num /\ issue' = issue
        /\ through' = through /\ closed' = closed
        /\ IF num THEN pc' = "banner" ELSE pc' = "persist" /\ missed' = missed \cup work.found
    BY <1>5 DEF NoFindings
  <2> QED
    BY <1>0, <2>1
<1>6. CASE EditIssue
  <2>1. /\ pc = "banner" /\ work' = work /\ through' = through /\ closed' = closed
        /\ pc' \in {"close", "persist"} /\ (pc' = "close" => work.result # "found")
        /\ issue' = [issue EXCEPT !.body = work.found]
    BY <1>6 DEF EditIssue
  <2>2. issue'.body = work.found /\ issue'.open = issue.open
    BY <1>0, <2>1
  <2> QED
    BY <2>1, <2>2
<1>7. CASE CloseIssue
  <2>1. /\ pc = "close" /\ pc' = "persist" /\ work' = work /\ through' = through
        /\ issue'.open = FALSE
    BY <1>0, <1>7 DEF CloseIssue, ghosts
  <2> QED
    BY <2>1
<1>8. CASE Persist
  <2>1. /\ pc = "persist" /\ pc' = "idle" /\ saved' = work /\ issue' = issue
        /\ missed' = missed /\ closed' = closed
    BY <1>8 DEF Persist, Discard
  <2> QED
    BY <2>1
<1>9. CASE RunFails \/ StepFails
  BY <1>9 DEF RunFails, StepFails, Discard, ghosts
<1>10. CASE PersonCloses
  <2>1. /\ issue'.open = FALSE /\ issue'.body = issue.body /\ closed' = TRUE
        /\ missed' = missed /\ through' = through /\ saved' = saved
        /\ pc' = pc /\ work' = work /\ num' = num
    BY <1>0, <1>10 DEF PersonCloses, machine
  <2> QED
    BY <2>1
<1>11. CASE Push \/ TwoWeeksPass \/ TogglePause \/ UNCHANGED vars
  BY <1>11 DEF Push, TwoWeeksPass, TogglePause, vars, machine, ghosts
<1> QED
  BY <1>1, <1>2, <1>3, <1>4, <1>5, <1>6, <1>7, <1>8, <1>9, <1>10, <1>11 DEF Next, JobStep

\* For any number of commits, failing steps, dead reports, lost cursors and re-run
\* jobs, and a person who closes the issue at any moment: after a job that went
\* through, the findings on the branch are what the issue lists - open, unless
\* that person shut it - or the report that should have listed them died while no
\* issue was open; and an open issue lists nothing but the findings on the branch.
THEOREM DailyInbox == Spec => []InboxReflectsState
<1>1. InboxOK => InboxReflectsState
  BY DEF InboxOK, InboxReflectsState
<1> QED
  BY <1>1, TypeInit, TypeStep, InboxInit, InboxStep, PTL DEF Spec
=============================================================================
