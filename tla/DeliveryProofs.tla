---------------------------- MODULE DeliveryProofs ----------------------------
(***************************************************************************)
(* Proofs about Delivery for any number of processes, bases, proposals and *)
(* faults: the run log agrees with the pull requests, what becomes of a    *)
(* proposal is final, and without overlaps the branch under review is the  *)
(* one the evidence is about.                                              *)
(***************************************************************************)
EXTENDS Delivery, TLAPS

USE DeliveryAssumption DEF DeliveryAssumption

Inv == TypeOK /\ IInv

-----------------------------------------------------------------------------
(* Types.                                                                  *)

LEMMA GotoType ==
  ASSUME pc \in [Run -> Pc], NEW p \in Run, NEW label \in Pc, Goto(p, label)
  PROVE  pc' \in [Run -> Pc]
BY DEF Goto

LEMMA LeaveType ==
  ASSUME TypeOK, NEW p \in Run, Leave(p)
  PROVE  /\ pc' \in [Run -> Pc] /\ name' \in [Run -> Base]
         /\ fix' \in [Run -> Tip] /\ sec' \in [Run -> Section]
<1>1. pc' \in [Run -> Pc]
  BY GotoType DEF Leave, TypeOK, Pc
<1>2. 0 \in Tip /\ [commit |-> 0, pr |-> 0] \in Section
  BY DEF Tip, Section
<1> QED
  BY <1>1, <1>2 DEF Leave, TypeOK

LEMMA InitType == Init => TypeOK
<1> SUFFICES ASSUME Init PROVE TypeOK
  OBVIOUS
<1>1. 0 \in Tip /\ 1 \in Base /\ [commit |-> 0, pr |-> 0] \in Section
  BY DEF Tip, Base, Section
<1> QED
  BY <1>1 DEF Init, TypeOK, Pc

\* What a process that is past its run has in hand.
LEMMA InHandType ==
  ASSUME Inv, NEW p \in Run, pc[p] \notin {"idle", "make"}
  PROVE  /\ fix[p] \in Fix /\ fix[p] <= fixes
         /\ row[fix[p]] = "none" /\ fix[p] \notin cut
         /\ \A q \in Run \ {p} : fix[q] # fix[p]
<1>1. fix[p] \in Tip /\ fix[p] # 0
  BY DEF Inv, TypeOK, IInv
<1> QED
  BY <1>1 DEF Inv, IInv, Tip, Fix

LEMMA TypeStep ==
  ASSUME Inv, [Next]_vars
  PROVE  TypeOK'
<1> USE DEF Inv, TypeOK
<1>1. ASSUME NEW p \in Run, Begin(p) PROVE TypeOK'
  <2>1. pc' \in [Run -> Pc]
    BY <1>1, GotoType DEF Begin, Pc
  <2>2. 0 \in Tip
    BY DEF Tip
  <2> QED
    BY <1>1, <2>1, <2>2 DEF Begin, durableVars, madeVars, ghostVars
<1>2. ASSUME NEW p \in Run, EndWithout(p) PROVE TypeOK'
  <2>1. pc' \in [Run -> Pc]
    BY <1>2, GotoType DEF EndWithout, Pc
  <2>2. section' \in Section
    BY <1>2 DEF EndWithout, Finished, Section, Tip
  <2>3. local' \in [Base -> Tip \cup {None}] /\ orderly' \in BOOLEAN
    BY <1>2 DEF EndWithout
  <2> QED
    BY <1>2, <2>1, <2>2, <2>3 DEF EndWithout, madeVars, ghostVars
<1>3. ASSUME NEW p \in Run, Propose(p) PROVE TypeOK'
  <2>1. pc' \in [Run -> Pc]
    BY <1>3, GotoType DEF Propose, Pc
  <2>2. fixes + 1 \in Tip /\ fixes + 1 \in Fix
    BY <1>3 DEF Propose, Tip, Fix
  <2>3. section' \in Section
    BY <1>3, <2>2 DEF Propose, Finished, Section, Tip
  <2>4. local' \in [Base -> Tip \cup {None}] /\ off' \in [Fix -> Base]
    BY <1>3, <2>2 DEF Propose
  <2>5. fix' \in [Run -> Tip]
    BY <1>3, <2>2 DEF Propose
  <2> QED
    BY <1>3, <2>1, <2>2, <2>3, <2>4, <2>5 DEF Propose, ghostVars
<1>4. ASSUME NEW p \in Run, TakeToken(p) \/ FindSlug(p) \/ PushFails(p) \/ OpenFails(p)
      PROVE  TypeOK'
  <2>1. pc' \in [Run -> Pc]
    BY <1>4, GotoType DEF TakeToken, FindSlug, PushFails, OpenFails, Pc
  <2> QED
    BY <1>4, <2>1 DEF TakeToken, FindSlug, PushFails, OpenFails, repoVars,
                      durableVars, madeVars, ghostVars
<1>5. ASSUME NEW p \in Run, PushAccepted(p) PROVE TypeOK'
  <2>1. pc' \in [Run -> Pc]
    BY <1>5, GotoType DEF PushAccepted, Pc
  <2> QED
    BY <1>5, <2>1 DEF PushAccepted, durableVars, madeVars, ghostVars
<1>6. ASSUME NEW p \in Run, OpenAccepted(p) PROVE TypeOK'
  <2>1. pc' \in [Run -> Pc]
    BY <1>6, GotoType DEF OpenAccepted, Pc
  <2>2. fix[p] \in Fix
    BY <1>6, InHandType DEF OpenAccepted
  <2> QED
    BY <1>6, <2>1, <2>2 DEF OpenAccepted, OpensPullRequest, Cited, durableVars, madeVars
<1>7. ASSUME NEW p \in Run, AnswerLost(p) PROVE TypeOK'
  <2>1. fix[p] \in Fix
    BY <1>7, InHandType DEF AnswerLost
  <2>2. /\ open' \subseteq Fix /\ opened' \subseteq Fix
        /\ reopened' \subseteq Fix /\ cut' \subseteq Fix
    BY <1>7, <2>1 DEF AnswerLost, OpensPullRequest, Cited
  <2> QED
    BY <1>7, <2>1, <2>2, LeaveType DEF AnswerLost, OpensPullRequest, durableVars, madeVars
<1>8. ASSUME NEW p \in Run, ReadSection(p) \/ WriteSection(p) PROVE TypeOK'
  <2>1. pc' \in [Run -> Pc]
    BY <1>8, GotoType DEF ReadSection, WriteSection, Pc
  <2>2. section' \in Section /\ sec' \in [Run -> Section]
    BY <1>8 DEF ReadSection, WriteSection, durableVars, Section
  <2> QED
    BY <1>8, <2>1, <2>2 DEF ReadSection, WriteSection, repoVars, durableVars,
                            madeVars, ghostVars
<1>9. ASSUME NEW p \in Run, LogOpened(p) \/ LogFailed(p) PROVE TypeOK'
  BY <1>9, LeaveType DEF LogOpened, LogFailed, repoVars, madeVars, ghostVars
<1>10. ASSUME NEW p \in Run, Die(p) PROVE TypeOK'
  <2>1. fix[p] \in Fix
    BY <1>10, InHandType DEF Die
  <2>2. faults' \in 0 .. MaxFaults
    BY <1>10 DEF Die
  <2> QED
    BY <1>10, <2>1, <2>2, LeaveType DEF Die, repoVars, durableVars, madeVars
<1>11. ASSUME People PROVE TypeOK'
  <2>1. base' \in Base
    BY <1>11 DEF People, AdvanceBase, Review, DeleteRemote, Base
  <2> QED
    BY <1>11, <2>1 DEF People, AdvanceBase, Review, DeleteRemote, durableVars,
                       madeVars, runVars, ghostVars
<1>12. CASE UNCHANGED vars
  BY <1>12 DEF vars, repoVars, durableVars, madeVars, runVars, ghostVars
<1> QED
  BY <1>1, <1>2, <1>3, <1>4, <1>5, <1>6, <1>7, <1>8, <1>9, <1>10, <1>11, <1>12
  DEF Next, Deliver

-----------------------------------------------------------------------------
(* The strengthening.                                                      *)

\* What IInv says of a proposal and of a process.
FixOK(k) ==
  /\ k \notin cut =>
       /\ row[k] = "opened" => k \in opened
       /\ row[k] = "failed" => k \notin opened \ doubted
       /\ k \in opened /\ ~InHand(k) => row[k] # "none"
  /\ k > fixes => row[k] = "none" /\ k \notin opened \cup cut
  /\ k \in doubted => k \in opened
  /\ k \in killed => k \in cut
  /\ row[k] # "none" => k \notin cut

RunOK(p) ==
  /\ pc[p] \in {"idle", "make"} <=> fix[p] = 0
  /\ fix[p] # 0 =>
       /\ fix[p] <= fixes
       /\ row[fix[p]] = "none"
       /\ fix[p] \notin cut
       /\ \A q \in Run : fix[q] = fix[p] => q = p
  /\ pc[p] \in {"token", "slug", "push", "open"} => fix[p] \notin opened
  /\ pc[p] \in {"read", "write", "row"} => fix[p] \in opened
  /\ pc[p] = "report" => fix[p] \notin opened \ doubted

LEMMA IInvParts == IInv <=> reopened = {} /\ (\A k \in Fix : FixOK(k)) /\ (\A p \in Run : RunOK(p))
BY DEF IInv, RowsTellTheTruth, FixOK, RunOK

LEMMA InvParts == ASSUME Inv PROVE reopened = {} /\ (\A k \in Fix : FixOK(k)) /\ (\A p \in Run : RunOK(p))
BY IInvParts DEF Inv

recordVars == <<row, fixes, fix, opened, reopened, doubted, cut, killed>>

\* A step that only moves a process along its delivery, or changes what people
\* see, touches neither the records nor what is in hand.
LEMMA MovePreserves ==
  ASSUME Inv, UNCHANGED recordVars, NEW p \in Run, NEW label \in Pc, Goto(p, label),
         \/ pc[p] \in {"idle", "make"} /\ label \in {"idle", "make"}
         \/ pc[p] \in {"token", "slug", "push", "open"}
            /\ label \in {"slug", "push", "open", "report"}
         \/ pc[p] \in {"read", "write"} /\ label \in {"write", "row"}
  PROVE  IInv'
<1> USE InvParts
<1>1. \A q \in Run : pc'[q] = IF q = p THEN label ELSE pc[q]
  BY DEF Goto, Inv, TypeOK
<1>2. ASSUME NEW k \in Fix PROVE FixOK(k)'
  BY DEF FixOK, InHand, recordVars
<1>3. ASSUME NEW q \in Run PROVE RunOK(q)'
  <2>1. RunOK(q) /\ RunOK(p)
    OBVIOUS
  <2>2. CASE q = p
    BY <1>1, <2>1, <2>2 DEF RunOK, recordVars
  <2>3. CASE q # p
    BY <1>1, <2>1, <2>3 DEF RunOK, recordVars
  <2> QED
    BY <2>2, <2>3
<1> QED
  BY <1>2, <1>3, IInvParts DEF IInv, RowsTellTheTruth, FixOK, RunOK, recordVars

\* How the in-hand part of the others survives when process p lets go.
LEMMA LeaveFacts ==
  ASSUME Inv, NEW p \in Run, Leave(p)
  PROVE  /\ pc'[p] = "idle" /\ fix'[p] = 0
         /\ \A q \in Run \ {p} : pc'[q] = pc[q] /\ fix'[q] = fix[q]
         /\ fix[p] # 0 => \A k \in Fix : InHand(k)' <=> InHand(k) /\ k # fix[p]
<1>1. /\ pc'[p] = "idle" /\ fix'[p] = 0
      /\ \A q \in Run \ {p} : pc'[q] = pc[q] /\ fix'[q] = fix[q]
  BY DEF Leave, Goto, Inv, TypeOK
<1>2. ASSUME fix[p] # 0, NEW k \in Fix PROVE InHand(k)' <=> InHand(k) /\ k # fix[p]
  BY <1>1, <1>2, InvParts DEF InHand, RunOK, Fix
<1> QED
  BY <1>1, <1>2

\* A process that is through leaves one record about its own proposal: a row,
\* a pull request or a mark that it was cut short.
LEMMA EndPreserves ==
  ASSUME Inv, NEW p \in Run, Leave(p), pc[p] \notin {"idle", "make"},
         UNCHANGED <<fixes, doubted, reopened>>,
         \/ /\ row' = [row EXCEPT ![fix[p]] = "opened"] /\ fix[p] \in opened
            /\ UNCHANGED <<opened, cut, killed>>
         \/ /\ row' = [row EXCEPT ![fix[p]] = "failed"] /\ fix[p] \notin opened \ doubted
            /\ UNCHANGED <<opened, cut, killed>>
         \/ /\ opened' \in {opened, opened \cup {fix[p]}}
            /\ cut' = cut \cup {fix[p]} /\ killed' \in {killed, killed \cup {fix[p]}}
            /\ UNCHANGED row
  PROVE  IInv'
<1>1. /\ fix[p] \in Fix /\ fix[p] # 0 /\ fix[p] <= fixes
      /\ row[fix[p]] = "none" /\ fix[p] \notin cut
      /\ \A q \in Run \ {p} : fix[q] # fix[p]
  BY InHandType DEF Fix
<1>2. /\ pc'[p] = "idle" /\ fix'[p] = 0
      /\ \A q \in Run \ {p} : pc'[q] = pc[q] /\ fix'[q] = fix[q]
      /\ \A k \in Fix : InHand(k)' <=> InHand(k) /\ k # fix[p]
  BY <1>1, LeaveFacts
<1>3. /\ \A k \in Fix \ {fix[p]} : /\ row'[k] = row[k]
                                   /\ k \in opened' <=> k \in opened
                                   /\ k \in cut' <=> k \in cut
                                   /\ k \in killed' <=> k \in killed
      /\ \A k \in Fix : row'[k] # row[k] => row'[k] \in {"opened", "failed"}
  BY <1>1 DEF Inv, TypeOK
<1>4. ASSUME NEW k \in Fix PROVE FixOK(k)'
  <2>1. FixOK(k)
    BY InvParts
  <2>2. CASE k = fix[p]
    <3>1. fixes \in Nat /\ k \in Nat /\ ~(k > fixes)
      BY <1>1, <2>2 DEF Inv, TypeOK, Tip, Fix
    <3>2. row'[k] = "opened" => k \in opened'
      BY <1>1, <2>2 DEF Inv, TypeOK
    <3>3. row'[k] = "failed" => k \notin opened' \ doubted'
      BY <1>1, <2>2 DEF Inv, TypeOK
    <3>4. row'[k] = "none" => k \in cut'
      BY <1>1, <2>2 DEF Inv, TypeOK
    <3>5. row'[k] # "none" => k \notin cut'
      BY <1>1, <2>2 DEF Inv, TypeOK
    <3>6. (k \in doubted' => k \in opened') /\ (k \in killed' => k \in cut')
      BY <2>1, <2>2 DEF FixOK
    <3> QED
      BY <3>1, <3>2, <3>3, <3>4, <3>5, <3>6 DEF FixOK
  <2>3. CASE k # fix[p]
    BY <1>2, <1>3, <2>1, <2>3 DEF FixOK
  <2> QED
    BY <2>2, <2>3
<1>5. ASSUME NEW q \in Run PROVE RunOK(q)'
  <2>1. RunOK(q)
    BY InvParts
  <2>2. CASE q = p
    BY <1>2, <2>2 DEF RunOK
  <2>3. CASE q # p
    <3>1. pc'[q] = pc[q] /\ fix'[q] = fix[q] /\ fix[q] # fix[p]
      BY <1>1, <1>2, <2>3
    <3>2. CASE fix[q] = 0
      BY <2>1, <3>1, <3>2 DEF RunOK
    <3>3. CASE fix[q] # 0
      <4>1. fix[q] \in Fix
        BY <3>3 DEF Inv, TypeOK, Tip, Fix
      <4>2. \A r \in Run : fix'[r] = fix'[q] => r = q
        BY <1>2, <2>1, <3>1, <3>3 DEF RunOK
      <4> QED
        BY <1>3, <2>1, <3>1, <3>3, <4>1, <4>2 DEF RunOK
    <3> QED
      BY <3>2, <3>3
  <2> QED
    BY <2>2, <2>3
<1> QED
  BY <1>4, <1>5, InvParts, IInvParts DEF IInv, RowsTellTheTruth, FixOK, RunOK

\* A proposal is made: a fresh number, in the hand of one process or of none.
LEMMA ProposePreserves ==
  ASSUME Inv, NEW p \in Run, Propose(p)
  PROVE  IInv'
<1> DEFINE new == fixes + 1
<1>1. /\ fixes \in Nat /\ new \in Fix /\ new \notin opened \cup cut /\ row[new] = "none"
      /\ new \notin doubted /\ new \notin killed
  <2>1. fixes \in Nat /\ new \in Fix /\ new > fixes
    BY DEF Propose, Inv, TypeOK, Tip, Fix
  <2> QED
    BY <2>1, InvParts DEF FixOK
<1>2. \A q \in Run : fix[q] # new
  BY <1>1, InvParts DEF RunOK, Inv, TypeOK, Tip
<1>3. /\ UNCHANGED <<row, opened, reopened, doubted, cut, killed>> /\ fixes' = new
      /\ fix[p] = 0 /\ fix'[p] \in {0, new}
      /\ fix'[p] = 0 => pc'[p] = "idle"
      /\ fix'[p] = new => pc'[p] = "token"
      /\ \A q \in Run \ {p} : pc'[q] = pc[q] /\ fix'[q] = fix[q]
  BY <1>1, InvParts DEF Propose, Goto, ghostVars, RunOK, Inv, TypeOK
<1>4. ASSUME NEW k \in Fix PROVE FixOK(k)'
  <2>1. FixOK(k) /\ (InHand(k) => InHand(k)')
    BY <1>3, InvParts DEF InHand, Fix
  <2>2. k \in Nat /\ (k > fixes' => k > fixes)
    BY <1>1, <1>3 DEF Fix
  <2> QED
    BY <1>1, <1>3, <2>1, <2>2 DEF FixOK
<1>5. ASSUME NEW q \in Run PROVE RunOK(q)'
  <2>1. RunOK(q) /\ fix[q] \in Nat
    BY InvParts DEF Inv, TypeOK, Tip
  <2>2. CASE q = p
    BY <1>1, <1>2, <1>3, <2>1, <2>2 DEF RunOK
  <2>3. CASE q # p
    <3>1. fix'[q] = fix[q] /\ pc'[q] = pc[q] /\ fix[q] # new
      BY <1>2, <1>3, <2>3
    <3>2. fix[q] <= fixes => fix'[q] <= fixes'
      BY <1>1, <1>3, <2>1, <3>1
    <3>3. ASSUME fix[q] # 0, NEW r \in Run, fix'[r] = fix'[q] PROVE r = q
      BY <1>3, <2>1, <3>1, <3>3 DEF RunOK
    <3> QED
      BY <1>3, <2>1, <3>1, <3>2, <3>3 DEF RunOK
  <2> QED
    BY <2>2, <2>3
<1> QED
  BY <1>3, <1>4, <1>5, InvParts, IInvParts DEF IInv, RowsTellTheTruth, FixOK, RunOK

\* The pull request a process opens is the first for its proposal.
LEMMA FirstOpening ==
  ASSUME Inv, NEW p \in Run, pc[p] = "open"
  PROVE  reopened \cup (opened \cap {fix[p]}) = {}
BY InvParts DEF RunOK

\* GitHub opens a pull request and its answer arrives, or an error does.
LEMMA OpenPreserves ==
  ASSUME Inv, NEW p \in Run, OpenAccepted(p)
  PROVE  IInv'
<1>1. /\ fix[p] \in Fix /\ fix[p] # 0 /\ fix[p] <= fixes
      /\ row[fix[p]] = "none" /\ fix[p] \notin cut
      /\ \A q \in Run \ {p} : fix[q] # fix[p]
  BY InHandType DEF OpenAccepted, Fix
<1>0. pc[p] = "open"
  BY DEF OpenAccepted
<1>2. /\ UNCHANGED <<row, fixes, fix, cut, killed>>
      /\ opened' = opened \cup {fix[p]} /\ reopened' = reopened \cup (opened \cap {fix[p]})
      /\ \/ pc'[p] = "read" /\ doubted' = doubted
         \/ pc'[p] = "report" /\ doubted' = doubted \cup {fix[p]}
      /\ \A q \in Run \ {p} : pc'[q] = pc[q]
  BY DEF OpenAccepted, OpensPullRequest, Cited, Goto, durableVars, madeVars, Inv, TypeOK
<1>3. ASSUME NEW k \in Fix PROVE FixOK(k)'
  <2>1. FixOK(k) /\ (InHand(k)' <=> InHand(k)) /\ InHand(fix[p])
    BY <1>2, InvParts DEF InHand
  <2>2. k \in Nat /\ fixes \in Nat
    BY DEF Fix, Inv, TypeOK, Tip
  <2> QED
    BY <1>1, <1>2, <2>1, <2>2 DEF FixOK
<1>4. ASSUME NEW q \in Run PROVE RunOK(q)'
  BY <1>1, <1>2, InvParts DEF RunOK
<1>5. reopened' = {}
  BY <1>0, <1>2, FirstOpening
<1> QED
  BY <1>3, <1>4, <1>5, IInvParts DEF IInv, RowsTellTheTruth, FixOK, RunOK

LEMMA InitIInv == Init => IInv
BY DEF Init, IInv, RowsTellTheTruth, InHand, Fix

LEMMA DeliverPreserves ==
  ASSUME Inv, NEW p \in Run, Deliver(p)
  PROVE  IInv'
<1> USE DEF repoVars, durableVars, madeVars, ghostVars, recordVars
<1>1. CASE TakeToken(p)
  BY <1>1, MovePreserves DEF TakeToken, Pc
<1>2. CASE FindSlug(p)
  BY <1>2, MovePreserves DEF FindSlug, Pc
<1>3. CASE PushAccepted(p)
  BY <1>3, MovePreserves DEF PushAccepted, Pc
<1>4. CASE PushFails(p)
  BY <1>4, MovePreserves DEF PushFails, Pc
<1>5. CASE OpenAccepted(p)
  BY <1>5, OpenPreserves
<1>6. CASE OpenFails(p)
  BY <1>6, MovePreserves DEF OpenFails, Pc
<1>7. CASE AnswerLost(p)
  <2>1. /\ reopened' = reopened /\ opened' \in {opened, opened \cup {fix[p]}}
        /\ pc[p] = "open"
    BY <1>7, FirstOpening, InvParts DEF AnswerLost, OpensPullRequest, Cited
  <2> QED
    BY <1>7, <2>1, EndPreserves DEF AnswerLost
<1>8. CASE ReadSection(p)
  BY <1>8, MovePreserves DEF ReadSection, Pc
<1>9. CASE WriteSection(p)
  BY <1>9, MovePreserves DEF WriteSection, Pc
<1>10. CASE LogOpened(p)
  <2>1. fix[p] \in opened
    BY <1>10, InvParts DEF LogOpened, RunOK
  <2> QED
    BY <1>10, <2>1, EndPreserves DEF LogOpened
<1>11. CASE LogFailed(p)
  <2>1. fix[p] \notin opened \ doubted
    BY <1>11, InvParts DEF LogFailed, RunOK
  <2> QED
    BY <1>11, <2>1, EndPreserves DEF LogFailed
<1> QED
  BY <1>1, <1>2, <1>3, <1>4, <1>5, <1>6, <1>7, <1>8, <1>9, <1>10, <1>11 DEF Deliver

LEMMA RunPreserves ==
  ASSUME Inv, NEW p \in Run, Begin(p) \/ EndWithout(p) \/ Propose(p) \/ Die(p)
  PROVE  IInv'
<1> USE DEF repoVars, durableVars, madeVars, ghostVars, recordVars
<1>1. CASE Begin(p)
  BY <1>1, MovePreserves DEF Begin, Pc
<1>2. CASE EndWithout(p)
  BY <1>2, MovePreserves DEF EndWithout, Pc
<1>3. CASE Propose(p)
  BY <1>3, ProposePreserves
<1>4. CASE Die(p)
  BY <1>4, EndPreserves DEF Die
<1> QED
  BY <1>1, <1>2, <1>3, <1>4

\* What people do, and stuttering, is about branches only.
LEMMA PeoplePreserve ==
  ASSUME Inv, People \/ UNCHANGED vars
  PROVE  IInv'
<1>1. UNCHANGED <<recordVars, pc>>
  BY DEF People, AdvanceBase, Review, DeleteRemote, vars, recordVars, repoVars,
         durableVars, madeVars, runVars, ghostVars
<1> QED
  BY <1>1 DEF Inv, IInv, RowsTellTheTruth, InHand, recordVars

\* Types, and the strengthening behind RowsTellTheTruth.
THEOREM DeliveryInductive == Spec => []Inv
<1>1. Init => Inv
  BY InitType, InitIInv DEF Inv
<1>2. ASSUME Inv, [Next]_vars PROVE Inv'
  <2>1. TypeOK'
    BY <1>2, TypeStep
  <2>2. IInv'
    BY <1>2, DeliverPreserves, RunPreserves, PeoplePreserve DEF Next
  <2> QED
    BY <2>1, <2>2 DEF Inv
<1> QED
  BY <1>1, <1>2, PTL DEF Spec

\* Every variable keeps its type, for any number of processes and proposals.
THEOREM DeliveryTypeCorrect == Spec => []TypeOK
<1>1. Inv => TypeOK
  BY DEF Inv
<1> QED
  BY <1>1, DeliveryInductive, PTL

\* Unless a process died or lost GitHub's answer, the row of a proposal says
\* whether it has a pull request, however many processes overlap.
THEOREM DeliveryRowsTellTheTruth == Spec => []RowsTellTheTruth
<1>1. Inv => RowsTellTheTruth
  BY DEF Inv, IInv
<1> QED
  BY <1>1, DeliveryInductive, PTL

-----------------------------------------------------------------------------
(* The refinement of Handoff.                                              *)

\* What has become of proposal k.
Fate(k) ==
  IF k > fixes THEN "none"
  ELSE IF k \in opened THEN "delivered"
  ELSE IF row[k] = "failed" THEN "declined"
  ELSE IF k \in cut THEN "dropped"
  ELSE "offered"

LEMMA StatusIsFate == status = [k \in Fix |-> Fate(k)]
BY DEF status, Fate

\* With no proposal opened twice, the delivered ones were handed over once.
LEMMA HandedIsFate ==
  ASSUME Inv
  PROVE  handed = [k \in Fix |-> IF Fate(k) = "delivered" THEN 1 ELSE 0]
<1>1. ASSUME NEW k \in Fix PROVE k \in opened <=> Fate(k) = "delivered"
  BY InvParts DEF Fate, FixOK
<1> QED
  BY <1>1, InvParts DEF handed

\* The same of the state a step leads to.
LEMMA HandedIsFateThen ==
  ASSUME Inv'
  PROVE  handed' = [k \in Fix |-> IF Fate(k)' = "delivered" THEN 1 ELSE 0]
<1>1. reopened' = {} /\ \A k \in Fix : k > fixes' => k \notin opened'
  BY DEF Inv, IInv
<1>2. ASSUME NEW k \in Fix PROVE k \in opened' <=> Fate(k)' = "delivered"
  BY <1>1 DEF Fate
<1> QED
  BY <1>1, <1>2 DEF handed

\* Fates of all proposals but one stand still: that is a step of Handoff if the
\* one takes a step of its own.
LEMMA OneMoves ==
  ASSUME Inv, Inv', NEW k \in Fix,
         \A j \in Fix \ {k} : Fate(j)' = Fate(j),
         \/ Fate(k)' = Fate(k)
         \/ Fate(k) = "none" /\ Fate(k)' = "offered"
         \/ Fate(k) = "offered" /\ Fate(k)' \in {"delivered", "declined", "dropped"}
  PROVE  [Promise!Next]_<<status, handed>>
<1>1. /\ status = [j \in Fix |-> Fate(j)] /\ status' = [j \in Fix |-> Fate(j)']
      /\ handed = [j \in Fix |-> IF Fate(j) = "delivered" THEN 1 ELSE 0]
      /\ handed' = [j \in Fix |-> IF Fate(j)' = "delivered" THEN 1 ELSE 0]
  BY StatusIsFate, HandedIsFate, HandedIsFateThen DEF status, Fate
<1>2. CASE Fate(k)' = Fate(k)
  BY <1>1, <1>2
<1>3. CASE Fate(k)' # Fate(k)
  <2>1. /\ status[k] = Fate(k)
        /\ status' = [status EXCEPT ![k] = Fate(k)']
    BY <1>1
  <2>2. handed' = IF Fate(k)' = "delivered" THEN [handed EXCEPT ![k] = @ + 1] ELSE handed
    BY <1>1, <1>3
  <2> QED
    BY <1>3, <2>1, <2>2 DEF Promise!Next, Promise!Offer, Promise!Deliver, Promise!Decline,
                            Promise!Drop, Promise!Moves
<1> QED
  BY <1>2, <1>3

LEMMA AllStand ==
  ASSUME Inv, Inv', \A k \in Fix : Fate(k)' = Fate(k)
  PROVE  UNCHANGED <<status, handed>>
<1>1. status' = status
  BY DEF status, Fate
<1>2. /\ handed = [j \in Fix |-> IF Fate(j) = "delivered" THEN 1 ELSE 0]
      /\ handed' = [j \in Fix |-> IF Fate(j)' = "delivered" THEN 1 ELSE 0]
  BY HandedIsFate, HandedIsFateThen
<1> QED
  BY <1>1, <1>2

\* A step about the proposal a process has in hand, which stood "offered" unless
\* its pull request is open already.
LEMMA InHandMoves ==
  ASSUME Inv, Inv', NEW p \in Run, pc[p] \notin {"idle", "make"}, UNCHANGED fixes,
         \A k \in Fix \ {fix[p]} : /\ row'[k] = row[k]
                                   /\ k \in opened' <=> k \in opened
                                   /\ k \in cut' <=> k \in cut,
         fix[p] \in opened => fix[p] \in opened'
  PROVE  [Promise!Next]_<<status, handed>>
<1>1. PICK k \in Fix : k = fix[p]
  BY InHandType
<1>2. /\ ~(k > fixes) /\ row[k] = "none" /\ k \notin cut
      /\ k \in opened => k \in opened'
  BY <1>1, InHandType DEF Fix, Inv, TypeOK, Tip
<1>3. \A j \in Fix \ {k} : Fate(j)' = Fate(j)
  BY <1>1 DEF Fate
<1>4. CASE k \in opened
  <2>1. Fate(k)' = Fate(k)
    BY <1>2, <1>4 DEF Fate
  <2> QED
    BY <1>3, <2>1, OneMoves
<1>5. CASE k \notin opened
  <2>1. Fate(k) = "offered"
    BY <1>2, <1>5 DEF Fate
  <2>2. Fate(k)' \in {"offered", "delivered", "declined", "dropped"}
    BY <1>2 DEF Fate
  <2> QED
    BY <1>3, <2>1, <2>2, OneMoves
<1> QED
  BY <1>4, <1>5

LEMMA HandoffStep ==
  ASSUME Inv, Inv', [Next]_vars
  PROVE  [Promise!Next]_<<status, handed>>
<1> USE DEF repoVars, durableVars, madeVars, runVars, ghostVars
<1>1. ASSUME NEW p \in Run, Propose(p) PROVE [Promise!Next]_<<status, handed>>
  <2>1. /\ fixes \in Nat /\ fixes + 1 \in Fix /\ fixes' = fixes + 1
        /\ UNCHANGED <<row, opened, cut>>
    BY <1>1 DEF Propose, Inv, TypeOK, Tip, Fix
  <2>2. PICK k \in Fix : k = fixes + 1
    BY <2>1
  <2>3. row[k] = "none" /\ k \notin opened \cup cut /\ k > fixes /\ ~(k > fixes')
    BY <2>1, <2>2, InvParts DEF FixOK
  <2>4. Fate(k) = "none" /\ Fate(k)' = "offered"
    BY <2>1, <2>3 DEF Fate
  <2>5. \A j \in Fix \ {k} : Fate(j)' = Fate(j)
    BY <2>1, <2>2 DEF Fate, Fix
  <2> QED
    BY <2>4, <2>5, OneMoves
<1>2. ASSUME NEW p \in Run, Deliver(p) \/ Die(p) PROVE [Promise!Next]_<<status, handed>>
  <2>1. /\ pc[p] \notin {"idle", "make"} /\ UNCHANGED fixes
        /\ \A k \in Fix \ {fix[p]} : /\ row'[k] = row[k]
                                     /\ k \in opened' <=> k \in opened
                                     /\ k \in cut' <=> k \in cut
        /\ fix[p] \in opened => fix[p] \in opened'
    BY <1>2 DEF Deliver, TakeToken, FindSlug, PushAccepted, PushFails, OpenAccepted,
                OpenFails, AnswerLost, ReadSection, WriteSection, LogOpened, LogFailed,
                Die, OpensPullRequest, Cited, Inv, TypeOK
  <2> QED
    BY <2>1, InHandMoves
<1>3. ASSUME NEW p \in Run, Begin(p) \/ EndWithout(p) PROVE [Promise!Next]_<<status, handed>>
  BY <1>3, AllStand DEF Begin, EndWithout, Fate
<1>4. CASE People \/ UNCHANGED vars
  BY <1>4, AllStand DEF People, AdvanceBase, Review, DeleteRemote, vars, Fate
<1> QED
  BY <1>1, <1>2, <1>3, <1>4 DEF Next

\* The delivery is an attempt made once, for any number of processes, proposals,
\* failures and kills: what became of a proposal is final, and no second pull
\* request is opened for it.
THEOREM HandoffImplemented == Spec => ImplementsHandoff
<1>1. Init => Promise!Init
  BY DEF Init, Promise!Init, status, handed, Fix
<1>2. Inv /\ Inv' /\ [Next]_vars => [Promise!Next]_<<status, handed>>
  BY HandoffStep
<1> QED
  BY <1>1, <1>2, DeliveryInductive, PTL DEF Spec, ImplementsHandoff, Promise!Spec, Promise!handoffVars

-----------------------------------------------------------------------------
(* The branch under review.                                                *)

\* Branches that are deleted, set back to their base or pushed still hold
\* proposals made off their base.
LEMMA BranchesKept ==
  ASSUME BranchesOK, UNCHANGED madeVars, open' \subseteq Made,
         \A n \in Base : /\ local'[n] \in {None, 0, local[n]}
                         /\ remote'[n] \in {None, 0, remote[n], local[n]}
  PROVE  BranchesOK'
BY DEF BranchesOK, Holds, Made, madeVars

\* A step of p while nobody else is busy: what is left to show is about p.
LEMMA OneDelivers ==
  ASSUME NEW p \in Run, DeliversOK(p)',
         \A q \in Run \ {p} : pc'[q] = "idle"
  PROVE  /\ (\A q, r \in Run : pc[q] # "idle" /\ pc[r] # "idle" => q = r)'
         /\ (\A q \in Run : DeliversOK(q))'
<1>1. ASSUME NEW q \in Run, q # p PROVE DeliversOK(q)'
  BY <1>1 DEF DeliversOK
<1> QED
  BY <1>1

\* A process that idles has nothing to deliver.
LEMMA LeaveDelivers ==
  ASSUME TypeOK, NEW p \in Run, Leave(p) PROVE DeliversOK(p)'
BY DEF Leave, Goto, DeliversOK, TypeOK

LEMMA BusyAlone ==
  ASSUME TypeOK, EvidenceOK, orderly, NEW p \in Run, pc[p] # "idle"
  PROVE  /\ \A q \in Run \ {p} : pc[q] = "idle"
         /\ DeliversOK(p)
BY DEF EvidenceOK

LEMMA GotoPc ==
  ASSUME TypeOK, NEW p \in Run, NEW label, Goto(p, label)
  PROVE  /\ pc'[p] = label /\ \A q \in Run \ {p} : pc'[q] = pc[q]
BY DEF TypeOK, Goto

LEMMA LeavePc ==
  ASSUME TypeOK, NEW p \in Run, Leave(p)
  PROVE  /\ pc'[p] = "idle" /\ \A q \in Run \ {p} : pc'[q] = pc[q]
BY GotoPc DEF Leave

LEMMA InitEvidence == Init => EvidenceOK
BY DEF Init, EvidenceOK, BranchesOK, Holds, EvidenceMatchesBranch, DeliversOK

\* A run that takes the branch or ends without a proposal.
LEMMA RunEvidence ==
  ASSUME Inv, EvidenceOK, NEW p \in Run, Begin(p) \/ EndWithout(p)
  PROVE  EvidenceOK'
<1> USE DEF Inv
<1>1. /\ pc[p] \in {"idle", "make"} /\ pc'[p] \in {"idle", "make"}
      /\ \A q \in Run \ {p} : pc'[q] = pc[q]
      /\ UNCHANGED <<remote, open, madeVars>>
      /\ section'.pr \in {0, section'.commit} \/ section' = section
      /\ orderly' => orderly /\ (pc[p] # "make" => Alone(p))
  <2>1. CASE Begin(p)
    BY <2>1, GotoPc DEF Begin, durableVars, madeVars
  <2>2. CASE EndWithout(p)
    <3>1. pc'[p] = "idle" /\ \A q \in Run \ {p} : pc'[q] = pc[q]
      BY <2>2, GotoPc DEF EndWithout
    <3>2. section'.pr = 0 /\ UNCHANGED <<remote, open, madeVars>>
      BY <2>2 DEF EndWithout, Finished, madeVars
    <3>3. /\ pc[p] \in {"idle", "make"}
          /\ orderly' => orderly /\ (pc[p] # "make" => Alone(p))
      <4>1. CASE pc[p] = "make" /\ orderly' = orderly
        BY <4>1
      <4>2. CASE pc[p] = "idle" /\ orderly' = (orderly /\ Alone(p))
        BY <4>2
      <4> QED
        BY <2>2, <4>1, <4>2 DEF EndWithout
    <3> QED
      BY <3>1, <3>2, <3>3
  <2> QED
    BY <2>1, <2>2
<1>2. \A n \in Base : local'[n] \in {None, 0, local[n]}
  BY DEF Begin, EndWithout, TypeOK
<1>3. BranchesOK'
  <2>1. open' \subseteq Made
    BY <1>1 DEF EvidenceOK, BranchesOK
  <2> QED
    BY <1>1, <1>2, <2>1, BranchesKept DEF EvidenceOK
<1>4. EvidenceMatchesBranch'
  BY <1>1 DEF EvidenceOK, EvidenceMatchesBranch, madeVars
<1>5. ASSUME orderly'
      PROVE  /\ (\A q, r \in Run : pc[q] # "idle" /\ pc[r] # "idle" => q = r)'
             /\ (\A q \in Run : DeliversOK(q))'
  <2>1. \A q \in Run \ {p} : pc'[q] = "idle"
    BY <1>1, <1>5, BusyAlone DEF Alone
  <2>2. DeliversOK(p)'
    BY <1>1 DEF DeliversOK
  <2> QED
    BY <2>1, <2>2, OneDelivers
<1> QED
  BY <1>3, <1>4, <1>5 DEF EvidenceOK

LEMMA ProposeEvidence ==
  ASSUME Inv, EvidenceOK, NEW p \in Run, Propose(p)
  PROVE  EvidenceOK'
<1> USE DEF Inv
<1>1. PICK k \in Fix : /\ k = fixes + 1 /\ fixes \in Nat
                       /\ k \notin Made /\ Made' = Made \cup {k}
  BY DEF Propose, TypeOK, Tip, Fix, Made
<1>2. PICK n \in Base : n = name[p]
  BY DEF TypeOK
<1>3. /\ pc[p] = "make" /\ UNCHANGED <<remote, open, orderly, name>>
      /\ off' = [off EXCEPT ![k] = n] /\ local' = [local EXCEPT ![n] = k]
      /\ section' = [commit |-> k, pr |-> 0]
      /\ \/ pc'[p] = "idle"
         \/ pc'[p] = "token" /\ fix' = [fix EXCEPT ![p] = k]
      /\ \A q \in Run \ {p} : pc'[q] = pc[q]
  BY <1>1, <1>2, GotoPc DEF Propose, Finished
<1>4. /\ off'[k] = n /\ \A j \in Fix \ {k} : off'[j] = off[j]
      /\ local'[n] = k /\ \A m \in Base \ {n} : local'[m] = local[m]
  BY <1>3 DEF TypeOK
<1>5. open \subseteq Made /\ Made \subseteq Fix
  BY DEF EvidenceOK, BranchesOK, Made, Fix, TypeOK, Tip
<1>6. BranchesOK'
  <2>1. \A m \in Base, t \in Tip \cup {None} : Holds(m, t) => Holds(m, t)'
    BY <1>1, <1>4, <1>5 DEF Holds
  <2>2. \A m \in Base : Holds(m, local[m]) /\ Holds(m, remote[m])
    BY DEF EvidenceOK, BranchesOK
  <2>3. ASSUME NEW m \in Base PROVE Holds(m, local[m])' /\ Holds(m, remote[m])'
    <3>1. Holds(m, remote[m])'
      <4>1. PICK t \in Tip \cup {None} : t = remote[m]
        BY DEF TypeOK
      <4>2. Holds(m, t)'
        BY <2>1, <2>2, <4>1
      <4> QED
        BY <1>3, <4>1, <4>2 DEF Holds
    <3>2. CASE m = n
      BY <1>1, <1>4, <3>1, <3>2 DEF Holds
    <3>3. CASE m # n
      <4>1. PICK t \in Tip \cup {None} : t = local[m]
        BY DEF TypeOK
      <4>2. Holds(m, t)'
        BY <2>1, <2>2, <4>1
      <4> QED
        BY <1>4, <3>1, <3>3, <4>1, <4>2 DEF Holds
    <3> QED
      BY <3>2, <3>3
  <2> QED
    BY <1>1, <1>3, <1>5, <2>3 DEF BranchesOK
<1>7. EvidenceMatchesBranch'
  BY <1>1, <1>3, <1>4, <1>5 DEF EvidenceOK, EvidenceMatchesBranch
<1>8. ASSUME orderly'
      PROVE  /\ (\A q, r \in Run : pc[q] # "idle" /\ pc[r] # "idle" => q = r)'
             /\ (\A q \in Run : DeliversOK(q))'
  <2>1. \A q \in Run \ {p} : pc'[q] = "idle"
    BY <1>3, <1>8, BusyAlone
  <2>2. fix' = [fix EXCEPT ![p] = k] => fix'[p] = k
    BY DEF TypeOK
  <2>3. DeliversOK(p)'
    BY <1>2, <1>3, <1>4, <2>2 DEF DeliversOK
  <2> QED
    BY <2>1, <2>3, OneDelivers
<1> QED
  BY <1>6, <1>7, <1>8 DEF EvidenceOK

\* What a step of a delivery leaves to show.
LEMMA DeliverEvidence ==
  ASSUME Inv, EvidenceOK, NEW p \in Run, UNCHANGED <<local, madeVars, orderly>>,
         pc[p] \notin {"idle", "make"},
         \A q \in Run \ {p} : pc'[q] = pc[q],
         \A n \in Base : remote'[n] \in {remote[n], local[n]},
         open' \subseteq Made,
         orderly => /\ \A k \in open' : remote'[off[k]] = k
                    /\ section'.pr \in {0, section'.commit}
                    /\ DeliversOK(p)'
  PROVE  EvidenceOK'
<1>1. BranchesOK'
  BY BranchesKept DEF EvidenceOK
<1>2. EvidenceMatchesBranch'
  BY DEF EvidenceMatchesBranch, madeVars
<1>3. ASSUME orderly
      PROVE  /\ (\A q, r \in Run : pc[q] # "idle" /\ pc[r] # "idle" => q = r)'
             /\ (\A q \in Run : DeliversOK(q))'
  <2>1. \A q \in Run \ {p} : pc'[q] = "idle"
    BY <1>3, BusyAlone DEF Inv
  <2> QED
    BY <1>3, <2>1, OneDelivers
<1> QED
  BY <1>1, <1>2, <1>3 DEF EvidenceOK

LEMMA DeliverSteps ==
  ASSUME Inv, EvidenceOK, NEW p \in Run, Deliver(p) \/ Die(p)
  PROVE  EvidenceOK'
<1>1. TypeOK
  BY DEF Inv
<1>2. /\ pc[p] \notin {"idle", "make"} /\ fix[p] \in Made /\ fix[p] \in Fix
  BY InHandType DEF Deliver, TakeToken, FindSlug, PushAccepted, PushFails, OpenAccepted,
       OpenFails, AnswerLost, ReadSection, WriteSection, LogOpened, LogFailed, Die,
       Made, Fix, Inv, TypeOK, Tip
<1>3. /\ open \subseteq Made
      /\ orderly => /\ \A k \in open : remote[off[k]] = k
                    /\ section.pr \in {0, section.commit}
                    /\ DeliversOK(p)
  BY <1>2 DEF EvidenceOK, BranchesOK, EvidenceMatchesBranch
<1> USE DEF repoVars, durableVars, madeVars, ghostVars
<1>4. ASSUME TakeToken(p) \/ FindSlug(p) \/ PushFails(p) \/ OpenFails(p) \/ ReadSection(p)
      PROVE  EvidenceOK'
  <2>1. /\ UNCHANGED <<local, remote, open, madeVars, orderly, section, name, fix>>
        /\ \A q \in Run \ {p} : pc'[q] = pc[q]
        /\ \/ pc[p] = "token" /\ pc'[p] \in {"slug", "report"} /\ sec' = sec
           \/ pc[p] = "slug" /\ pc'[p] \in {"push", "report"} /\ sec' = sec
           \/ pc'[p] = "report" /\ sec' = sec
           \/ pc'[p] = "write" /\ sec'[p] = section
    BY <1>1, <1>4, GotoPc DEF TakeToken, FindSlug, PushFails, OpenFails, ReadSection, TypeOK
  <2>2. orderly => DeliversOK(p)'
    BY <1>2, <1>3, <2>1 DEF DeliversOK
  <2> QED
    BY <1>2, <1>3, <2>1, <2>2, DeliverEvidence
<1>5. ASSUME PushAccepted(p) PROVE EvidenceOK'
  <2>1. PICK n \in Base : n = name[p]
    BY <1>1 DEF TypeOK
  <2>2. /\ UNCHANGED <<local, open, madeVars, orderly, section, name, fix, sec>>
        /\ pc[p] = "push" /\ pc'[p] \in {"open", "report"}
        /\ \A q \in Run \ {p} : pc'[q] = pc[q]
        /\ remote[n] \in {None, 0, local[n]}
        /\ remote'[n] = local[n] /\ \A m \in Base \ {n} : remote'[m] = remote[m]
    BY <1>1, <1>5, <2>1, GotoPc DEF PushAccepted, MayPush, TypeOK
  <2>3. ASSUME orderly, NEW k \in open' PROVE remote'[off[k]] = k
    <3>1. k \in Fix /\ off[k] \in Base /\ remote[off[k]] = k
      BY <1>1, <1>3, <2>2, <2>3 DEF TypeOK
    <3>2. k # None /\ k # 0
      BY <3>1 DEF Fix
    <3> QED
      BY <2>2, <3>1, <3>2
  <2>4. orderly => DeliversOK(p)'
    BY <1>3, <2>1, <2>2 DEF DeliversOK
  <2> QED
    BY <1>2, <1>3, <2>2, <2>3, <2>4, DeliverEvidence
<1>6. ASSUME OpenAccepted(p) PROVE EvidenceOK'
  <2>1. /\ UNCHANGED <<local, remote, madeVars, orderly, section, name, fix, sec>>
        /\ pc[p] = "open" /\ pc'[p] \in {"read", "report"}
        /\ \A q \in Run \ {p} : pc'[q] = pc[q]
        /\ open' = open \cup {fix[p]} /\ remote[name[p]] \notin {None, 0}
    BY <1>1, <1>6, GotoPc DEF OpenAccepted, OpensPullRequest, MayOpen, Cited
  <2>2. orderly => remote[off[fix[p]]] = fix[p]
    BY <1>3, <2>1 DEF DeliversOK
  <2>3. orderly => DeliversOK(p)'
    BY <1>3, <2>1 DEF DeliversOK
  <2> QED
    BY <1>2, <1>3, <2>1, <2>2, <2>3, DeliverEvidence
<1>7. ASSUME AnswerLost(p) PROVE EvidenceOK'
  <2>1. /\ UNCHANGED <<local, remote, madeVars, orderly, section>>
        /\ pc[p] = "open" /\ \A q \in Run \ {p} : pc'[q] = pc[q]
        /\ \/ open' = open \cup {fix[p]} /\ remote[name[p]] \notin {None, 0}
           \/ open' = open
    BY <1>1, <1>7, LeavePc DEF AnswerLost, OpensPullRequest, MayOpen, Cited
  <2>2. orderly /\ remote[name[p]] \notin {None, 0} => remote[off[fix[p]]] = fix[p]
    BY <1>3, <2>1 DEF DeliversOK
  <2>3. DeliversOK(p)'
    BY <1>1, <1>7, LeaveDelivers DEF AnswerLost
  <2> QED
    BY <1>2, <1>3, <2>1, <2>2, <2>3, DeliverEvidence
<1>8. ASSUME WriteSection(p) PROVE EvidenceOK'
  <2>1. /\ UNCHANGED <<local, remote, open, madeVars, orderly, name, fix, sec>>
        /\ pc[p] = "write" /\ pc'[p] = "row"
        /\ \A q \in Run \ {p} : pc'[q] = pc[q]
        /\ section'.commit = sec[p].commit /\ section'.pr = fix[p]
    BY <1>1, <1>8, GotoPc DEF WriteSection
  <2>2. orderly => sec[p].commit = fix[p] /\ DeliversOK(p)'
    BY <1>3, <2>1 DEF DeliversOK
  <2> QED
    BY <1>2, <1>3, <2>1, <2>2, DeliverEvidence
<1>9. ASSUME LogOpened(p) \/ LogFailed(p) \/ Die(p) PROVE EvidenceOK'
  <2>1. Leave(p) /\ UNCHANGED <<local, remote, open, madeVars, orderly, section>>
    BY <1>9 DEF LogOpened, LogFailed, Die
  <2>2. DeliversOK(p)' /\ \A q \in Run \ {p} : pc'[q] = pc[q]
    BY <1>1, <2>1, LeaveDelivers, LeavePc
  <2> QED
    BY <1>2, <1>3, <2>1, <2>2, DeliverEvidence
<1> QED
  BY <1>4, <1>5, <1>6, <1>7, <1>8, <1>9 DEF Deliver

LEMMA PeopleEvidence ==
  ASSUME Inv, EvidenceOK, People \/ UNCHANGED vars
  PROVE  EvidenceOK'
<1>1. /\ UNCHANGED <<local, madeVars, runVars, section, orderly>>
      /\ open' \subseteq open
      /\ \A n \in Base : remote'[n] \in {None, remote[n]}
      /\ \A k \in open' : remote'[off[k]] = remote[off[k]]
  BY DEF People, AdvanceBase, Review, DeleteRemote, vars, repoVars, durableVars,
         madeVars, runVars, ghostVars, Inv, TypeOK
<1>2. BranchesOK'
  BY <1>1, BranchesKept DEF EvidenceOK, BranchesOK
<1>3. EvidenceMatchesBranch'
  BY <1>1 DEF EvidenceOK, EvidenceMatchesBranch, madeVars
<1>4. ASSUME NEW p \in Run, DeliversOK(p) PROVE DeliversOK(p)'
  <2>1. pc[p] = "open" => name[p] \in Base
    BY DEF Inv, TypeOK
  <2> QED
    BY <1>1, <1>4, <2>1 DEF DeliversOK, runVars, madeVars
<1> QED
  BY <1>1, <1>2, <1>3, <1>4 DEF EvidenceOK, runVars

\* For any number of processes, bases, proposals and kills: while processes do
\* not overlap, a pull request's branch holds the commit its body cites, and the
\* section never pairs a commit with another's pull request.
THEOREM DeliveryEvidence == Spec => []EvidenceMatchesBranch
<1>1. EvidenceOK => EvidenceMatchesBranch
  BY DEF EvidenceOK
<1>2. Inv /\ EvidenceOK /\ [Next]_vars => EvidenceOK'
  BY RunEvidence, ProposeEvidence, DeliverSteps, PeopleEvidence DEF Next
<1> QED
  BY <1>1, <1>2, InitEvidence, DeliveryInductive, PTL DEF Spec
=============================================================================
