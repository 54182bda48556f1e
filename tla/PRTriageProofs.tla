--------------------------- MODULE PRTriageProofs ---------------------------
(***************************************************************************)
(* Proofs about PRTriage for any pull requests, page size and number of    *)
(* overlapping runs: while the open pull requests fit one page, no update  *)
(* that has a second to itself falls behind the cursor unreported; while   *)
(* runs do not overlap, no update is reported twice and the cursor never   *)
(* goes back.                                                              *)
(***************************************************************************)
EXTENDS PRTriage, TLAPS

USE PRAssumption, NoneAssumption, PageAssumption, BoundsAssumption
USE DEF PRAssumption, NoneAssumption, PageAssumption, BoundsAssumption

LEMMA SecondType == Second \subseteq Stamp /\ Stamp \subseteq Nat
  BY DEF Second, Stamp

LEMMA NoneStamp == None \notin Stamp
  BY DEF Stamp

LEMMA ListingType ==
  ASSUME TypeOK
  PROVE  Listing \subseteq Version
<1> SUFFICES ASSUME NEW n \in Page PROVE <<n, stamp[n]>> \in Version
  BY DEF Listing
<1>1. n \in PR /\ stamp[n] \in Second
  BY DEF Page, Open, TypeOK, Stamp, Second
<1> QED
  BY <1>1 DEF Version

\* The model's variables keep their types, given that a run about to write has
\* settled on a cursor.
TypeInv == TypeOK /\ \A p \in Run : pc[p] = "write" => newest[p] # None

LEMMA TypeInit == Init => TypeInv
<1> SUFFICES ASSUME Init PROVE TypeInv
  OBVIOUS
<1>1. now \in Second /\ 0 \in Stamp
  BY DEF Init, Second, Stamp
<1>2. stamp \in [PR -> Stamp] /\ cursor \in [Run -> Stamp]
        /\ newest \in [Run -> Stamp \cup {None}]
  BY <1>1 DEF Init
<1>3. section \in [cursor : Stamp, result : Result, found : SUBSET Version]
  BY <1>1 DEF Init, Result
<1>4. pc \in [Run -> {"idle", "read", "fetch", "sort", "finish", "write", "log"}]
        /\ prs \in [Run -> SUBSET Version] /\ listed \in [Run -> SUBSET Version]
        /\ res \in [Run -> Result] /\ row \in Result
  BY DEF Init, Result
<1>5. faults \in 0 .. MaxFaults /\ crashes \in 0 .. MaxCrashes
  BY DEF Init
<1>6. \A p \in Run : pc[p] = "write" => newest[p] # None
  BY DEF Init
<1> QED
  BY <1>1, <1>2, <1>3, <1>4, <1>5, <1>6 DEF Init, TypeInv, TypeOK

LEMMA TypeStep == TypeInv /\ [Next]_vars => TypeInv'
<1> SUFFICES ASSUME TypeInv, [Next]_vars PROVE TypeInv'
  OBVIOUS
<1> USE SecondType, NoneStamp DEF TypeInv, TypeOK, Goto, Result, github, durable, bounds, ghosts
<1>0. 0 \in Stamp /\ \A v \in Version : v[2] \in Stamp
  BY DEF Stamp, Version, Second
<1>1. ASSUME NEW p \in Run, Start(p) PROVE TypeInv'
  BY <1>1 DEF Start, Decide
<1>2. ASSUME NEW p \in Run, ReadState(p) PROVE TypeInv'
  BY <1>2 DEF ReadState
<1>3. ASSUME NEW p \in Run, Fetch(p) \/ FetchUnscanned(p) PROVE TypeInv'
  <2>1. Listing \subseteq Version
    BY ListingType
  <2>2. faults' \in 0 .. MaxFaults
    BY <1>3 DEF Fetch, FetchUnscanned
  <2> QED
    BY <1>3, <2>1, <2>2 DEF Fetch, FetchUnscanned, Receive
<1>3r. ASSUME NEW p \in Run, FetchRefused(p) PROVE TypeInv'
  BY <1>3r DEF FetchRefused, Decide
<1>4. ASSUME NEW p \in Run, FetchFails(p) PROVE TypeInv'
  BY <1>4 DEF FetchFails, Decide
<1>5. ASSUME NEW p \in Run, Sort(p) PROVE TypeInv'
  <2>1. Fresh(prs[p], cursor[p]) \subseteq Version
    BY DEF Fresh
  <2> QED
    BY <1>5, <2>1 DEF Sort, Decide
<1>6. ASSUME NEW p \in Run, Finish(p) PROVE TypeInv'
  <2>1. CursorToWrite(p) \in Stamp
    BY DEF CursorToWrite
  <2> QED
    BY <1>6, <2>1 DEF Finish
<1>7. ASSUME NEW p \in Run, Write(p) PROVE TypeInv'
  BY <1>7 DEF Write
<1>8. ASSUME NEW p \in Run, AppendLog(p) PROVE TypeInv'
  BY <1>0, <1>8 DEF AppendLog, Forget
<1>9. ASSUME NEW p \in Run, Crash(p) PROVE TypeInv'
  BY <1>0, <1>9 DEF Crash, Forget
<1>10. ASSUME NEW n \in PR, Update(n) PROVE TypeInv'
  BY <1>10 DEF Update, locals
<1>11. ASSUME NEW n \in PR, Close(n) PROVE TypeInv'
  BY <1>0, <1>11 DEF Close, locals
<1>12. CASE TimePasses
  BY <1>12 DEF TimePasses, locals, Second
<1>13. CASE TogglePause
  BY <1>13 DEF TogglePause, locals
<1>14. CASE UNCHANGED vars
  BY <1>14 DEF vars, locals
<1> QED
  BY <1>1, <1>2, <1>3, <1>3r, <1>4, <1>5, <1>6, <1>7, <1>8, <1>9, <1>10, <1>11,
     <1>12, <1>13, <1>14 DEF Next, RunStep

\* Every variable keeps its type for any pull requests, runs and bounds.
THEOREM PRTypeCorrect == Spec => []TypeOK
<1>1. TypeInv => TypeOK
  BY DEF TypeInv
<1> QED
  BY <1>1, TypeInit, TypeStep, PTL DEF Spec

-----------------------------------------------------------------------------
Inv == TypeInv /\ IInv

\* A bystander's part of the invariant survives a step that leaves GitHub and
\* its own locals alone and forgets no report.
LEMMA BystanderOK ==
  ASSUME NEW q \in Run, RunOK(q), UNCHANGED <<now, stamp, crowded>>,
         reported \subseteq reported', overflow => overflow',
         overflow \in BOOLEAN, overflow' \in BOOLEAN,
         pc'[q] = pc[q], cursor'[q] = cursor[q], prs'[q] = prs[q],
         newest'[q] = newest[q], listed'[q] = listed[q]
  PROVE  RunOK(q)'
BY DEF RunOK, Past, Covers, Open

\* No cursor covers nothing, so an empty one is always in order.
LEMMA NoCursorOK ==
  ASSUME TypeOK
  PROVE  Past(0) /\ \A S : Covers(0, S)
BY DEF Past, Covers, Open, TypeOK, Second, Stamp

\* What an update does: the clock has not moved, and a stamp of this second
\* that some cursor may hold is now shared.
LEMMA UpdateOK ==
  ASSUME TypeOK, NEW n \in PR, Update(n), NEW t \in Stamp, Past(t)
  PROVE  Past(t)' /\ \A S : Covers(t, S) => Covers(t, S)'
<1>1. Past(t)'
  BY DEF Update, Past, TypeOK
<1>2. ASSUME NEW S, Covers(t, S), NEW m \in Open' \ Draft,
             stamp'[m] <= t, stamp'[m] \notin crowded'
      PROVE  <<m, stamp'[m]>> \in S
  <2>1. CASE m = n
    <3>1. stamp'[m] = now /\ now \in Nat
      BY <2>1 DEF Update, TypeOK, Second
    <3>2. t = now
      BY <1>2, <3>1, SecondType DEF Past, Update
    <3> QED
      BY <1>2, <3>1, <3>2 DEF Past, Update
  <2>2. CASE m # n
    <3>1. stamp'[m] = stamp[m] /\ m \in Open \ Draft /\ stamp[m] \notin crowded
      BY <1>2, <2>2 DEF Update, TypeOK, Open
    <3> QED
      BY <1>2, <3>1 DEF Covers
  <2> QED
    BY <2>1, <2>2
<1>3. \A S : Covers(t, S) => Covers(t, S)'
  BY <1>2 DEF Covers
<1> QED
  BY <1>1, <1>3

\* Closing only takes obligations away.
LEMMA CloseOK ==
  ASSUME TypeOK, NEW n \in PR, Close(n), NEW t \in Stamp, Past(t)
  PROVE  Past(t)' /\ \A S : Covers(t, S) => Covers(t, S)'
<1>1. Past(t)'
  BY DEF Close, Past, TypeOK
<1>2. \A m \in Open' : m \in Open /\ stamp'[m] = stamp[m]
  BY DEF Close, TypeOK, Open
<1>3. crowded \subseteq crowded'
  BY DEF Close
<1> QED
  BY <1>1, <1>2, <1>3 DEF Covers

\* A step of GitHub that keeps what every past cursor covers keeps the whole
\* invariant.
LEMMA GitHubOK ==
  ASSUME Inv, \A n \in PR : (stamp[n] <= now)', UNCHANGED <<durable, locals, reported, overflow>>,
         \A t \in Stamp : Past(t) => Past(t)',
         \A t \in Stamp : \A S : Past(t) /\ Covers(t, S) => Covers(t, S)'
  PROVE  IInv'
<1>0. UNCHANGED <<overflow, reported>>
  OBVIOUS
<1>1. section.cursor \in Stamp /\ section'.cursor = section.cursor
  BY DEF Inv, TypeInv, TypeOK, durable
<1>2. Past(section.cursor)' /\ (~overflow' => Covers(section.cursor, reported)')
  BY <1>1 DEF Inv, IInv
<1>3. ASSUME NEW p \in Run PROVE RunOK(p)'
  <2>1. cursor[p] \in Stamp /\ newest[p] \in Stamp \cup {None}
          /\ \A v \in prs[p] : v[2] \in Stamp
    BY DEF Inv, TypeInv, TypeOK, Version, Second, Stamp
  <2>2. RunOK(p)
    BY DEF Inv, IInv
  <2>3. /\ pc' = pc /\ cursor' = cursor /\ prs' = prs /\ newest' = newest
        /\ listed' = listed /\ overflow' = overflow /\ reported' = reported
    BY DEF locals
  <2>4. Past(cursor[p])' /\ (~overflow => Covers(cursor[p], reported))'
    BY <2>1, <2>2, <2>3 DEF RunOK
  <2>5. (newest[p] # None => Past(newest[p]))'
    BY <2>1, <2>2, <2>3 DEF RunOK
  <2>6. (\A v \in prs[p] : Past(v[2]))'
    BY <2>1, <2>2, <2>3 DEF RunOK
  <2>7. (~overflow /\ pc[p] = "sort" =>
           \A v \in prs[p] : Covers(v[2], prs[p] \cup reported))'
    <3>1. ASSUME ~overflow, pc[p] = "sort", NEW v \in prs[p]
          PROVE  Covers(v[2], prs[p] \cup reported)'
      <4>1. v[2] \in Stamp /\ Past(v[2]) /\ Covers(v[2], prs[p] \cup reported)
        BY <2>1, <2>2, <3>1 DEF RunOK
      <4>2. Covers(v[2], prs[p] \cup reported)' =
              (\A n \in (Open \ Draft)' :
                 stamp'[n] <= v[2] /\ stamp'[n] \notin crowded'
                   => <<n, stamp'[n]>> \in prs[p] \cup reported)
        BY <2>3 DEF Covers
      <4> QED
        BY <4>1, <4>2 DEF Covers
    <3>2. prs'[p] = prs[p] /\ pc'[p] = pc[p] /\ overflow' = overflow
      BY <2>3
    <3> QED
      BY <3>1, <3>2
  <2>8. (~overflow /\ pc[p] \in {"finish", "write"} /\ newest[p] # None =>
           Covers(newest[p], reported \cup listed[p]))'
    BY <2>1, <2>2, <2>3 DEF RunOK
  <2>9. (pc[p] = "write" => newest[p] # None)'
    BY <2>2, <2>3 DEF RunOK
  <2> QED
    BY <2>4, <2>5, <2>6, <2>7, <2>8, <2>9 DEF RunOK
<1> QED
  BY <1>2, <1>3 DEF IInv

\* A run that decides on no cursor, or forgets everything, is in order.
LEMMA QuietOK ==
  ASSUME TypeOK, NEW p \in Run,
         UNCHANGED <<now, stamp, crowded, reported>>, overflow' \in BOOLEAN,
         overflow => overflow', RunOK(p),
         cursor'[p] \in {0, cursor[p]}, prs'[p] \in {{}, prs[p]},
         newest'[p] = None \/ (newest'[p] \in {0, newest[p]} /\ pc'[p] \notin {"finish", "write"}),
         pc'[p] \notin {"sort", "write"}
  PROVE  RunOK(p)'
<1>1. Past(0) /\ \A S : Covers(0, S)
  BY NoCursorOK
<1>3. Past(cursor[p])'
  <2>1. Past(cursor[p])
    BY DEF RunOK
  <2>2. CASE cursor'[p] = 0
    BY <1>1, <2>2 DEF Past
  <2>3. CASE cursor'[p] = cursor[p]
    BY <2>1, <2>3 DEF Past
  <2> QED
    BY <2>2, <2>3
<1>4. ~overflow' => Covers(cursor[p], reported)'
  <2> SUFFICES ASSUME ~overflow' PROVE Covers(cursor[p], reported)'
    OBVIOUS
  <2>1. ~overflow /\ Covers(cursor[p], reported)
    BY DEF RunOK
  <2>2. CASE cursor'[p] = 0
    BY <1>1, <2>2 DEF Covers, Open
  <2>3. CASE cursor'[p] = cursor[p]
    BY <2>1, <2>3 DEF Covers, Open
  <2> QED
    BY <2>2, <2>3
<1>5. \A v \in prs'[p] : Past(v[2])'
  <2>1. \A v \in prs[p] : Past(v[2])
    BY DEF RunOK
  <2> SUFFICES ASSUME NEW v \in prs[p] PROVE Past(v[2])'
    OBVIOUS
  <2> QED
    BY <2>1 DEF Past
<1>6. (newest[p] # None => Past(newest[p]))'
  <2> SUFFICES ASSUME newest'[p] # None PROVE Past(newest[p])'
    OBVIOUS
  <2>1. CASE newest'[p] = 0
    BY <1>1, <2>1 DEF Past
  <2>2. CASE newest'[p] = newest[p]
    <3>1. Past(newest[p])
      BY <2>2 DEF RunOK
    <3> QED
      BY <2>2, <3>1 DEF Past
  <2> QED
    BY <2>1, <2>2
<1>7. (pc[p] = "write" => newest[p] # None)' /\ (pc[p] # "sort")'
  OBVIOUS
<1>8. (pc[p] \in {"finish", "write"} => newest[p] = None)'
  OBVIOUS
<1> QED
  BY <1>3, <1>4, <1>5, <1>6, <1>7, <1>8 DEF RunOK

LEMMA InvInit == Init => Inv
<1> SUFFICES ASSUME Init PROVE Inv
  OBVIOUS
<1>1. TypeInv
  BY TypeInit
<1>2. Past(0) /\ \A S : Covers(0, S)
  BY <1>1, NoCursorOK DEF TypeInv
<1>3. \A p \in Run : RunOK(p)
  BY <1>2 DEF Init, RunOK
<1>4. \A n \in PR : stamp[n] <= now
  BY DEF Init
<1> QED
  BY <1>1, <1>2, <1>3, <1>4 DEF Init, Inv, IInv

LEMMA InvStep == Inv /\ [Next]_vars => Inv'
<1> SUFFICES ASSUME Inv, [Next]_vars PROVE IInv'
  BY TypeStep DEF Inv
<1> USE SecondType, NoneStamp
<1>0. TypeOK /\ IInv /\ TypeOK'
  BY TypeStep DEF Inv, TypeInv
<1>a. overflow \in BOOLEAN /\ overflow' \in BOOLEAN
  BY <1>0 DEF TypeOK
\* What is left to show of a step of run p that writes nothing.
<1>b. ASSUME NEW p \in Run, UNCHANGED <<github, section, reported, crowded>>,
             overflow => overflow', RunOK(p)',
             \A q \in Run \ {p} :
               /\ pc'[q] = pc[q] /\ cursor'[q] = cursor[q] /\ prs'[q] = prs[q]
               /\ newest'[q] = newest[q] /\ listed'[q] = listed[q]
      PROVE  IInv'
  <2>1. \A q \in Run : RunOK(q)'
    <3> SUFFICES ASSUME NEW q \in Run \ {p} PROVE RunOK(q)'
      BY <1>b
    <3> QED
      BY <1>0, <1>a, <1>b, BystanderOK DEF IInv, github
  <2> QED
    BY <1>0, <1>a, <1>b, <2>1 DEF IInv, Past, Covers, Open, github
<1>1. ASSUME NEW p \in Run, Start(p) PROVE IInv'
  <2>1. RunOK(p)
    BY <1>0 DEF IInv
  <2>2. RunOK(p)'
    BY <1>0, <1>a, <1>1, <2>1, QuietOK
       DEF Start, Decide, Goto, github, bounds, ghosts, TypeOK
  <2> QED
    BY <1>0, <1>b, <1>1, <2>2 DEF Start, Decide, Goto, github, durable, ghosts, TypeOK
<1>2. ASSUME NEW p \in Run, ReadState(p) PROVE IInv'
  <2>1. RunOK(p)'
    BY <1>0, <1>2 DEF ReadState, Goto, github, durable, ghosts, TypeOK, IInv,
                      RunOK, Past, Covers, Open
  <2> QED
    BY <1>0, <1>b, <1>2, <2>1 DEF ReadState, Goto, github, durable, ghosts, TypeOK
<1>4. ASSUME NEW p \in Run, FetchFails(p) PROVE IInv'
  <2>1. RunOK(p)
    BY <1>0 DEF IInv
  <2>2. RunOK(p)'
    BY <1>0, <1>a, <1>4, <2>1, QuietOK
       DEF FetchFails, Decide, Goto, github, ghosts, TypeOK
  <2> QED
    BY <1>0, <1>b, <1>4, <2>2 DEF FetchFails, Decide, Goto, github, durable, ghosts, TypeOK
<1>9. ASSUME NEW p \in Run, Crash(p) PROVE IInv'
  <2>1. RunOK(p)
    BY <1>0 DEF IInv
  <2>2. RunOK(p)'
    BY <1>0, <1>a, <1>9, <2>1, QuietOK
       DEF Crash, Forget, Goto, github, ghosts, TypeOK
  <2> QED
    BY <1>0, <1>b, <1>9, <2>2 DEF Crash, Forget, Goto, github, durable, ghosts, TypeOK
<1>8. ASSUME NEW p \in Run, AppendLog(p) PROVE IInv'
  <2>1. RunOK(p)
    BY <1>0 DEF IInv
  <2>2. RunOK(p)'
    BY <1>0, <1>a, <1>8, <2>1, QuietOK
       DEF AppendLog, Forget, Goto, github, ghosts, TypeOK
  <2> QED
    BY <1>0, <1>b, <1>8, <2>2 DEF AppendLog, Forget, Goto, github, ghosts, TypeOK
<1>3. ASSUME NEW p \in Run, Fetch(p) \/ FetchUnscanned(p) PROVE IInv'
  <2>1. RunOK(p) /\ Receive(p)
    BY <1>0, <1>3 DEF IInv, Fetch, FetchUnscanned
  <2>2. /\ UNCHANGED <<now, stamp, crowded, reported, cursor, section, newest, listed>>
        /\ overflow => overflow'
    BY <2>1, <1>a DEF Receive, github, durable
  <2>3. \A v \in Listing : Past(v[2])
    <3> SUFFICES ASSUME NEW n \in Page PROVE Past(stamp[n])
      BY DEF Listing
    <3> QED
      BY <1>0 DEF Past, IInv, Page, Open
  <2>4. ~overflow' => \A t, S : Covers(t, Listing \cup S)
    BY <2>1 DEF Receive, Covers, Listing
  <2>5. prs' = [prs EXCEPT ![p] = Listing] /\ pc' = [pc EXCEPT ![p] = "sort"]
    BY <2>1 DEF Receive, Goto
  <2> DEFINE got == Listing
  <2>6. prs'[p] = got /\ pc'[p] = "sort" /\ newest'[p] = newest[p]
    BY <1>0, <2>2, <2>5 DEF TypeOK
  <2>7. (\A v \in got : Past(v[2])) /\ (~overflow' => \A t, S : Covers(t, got \cup S))
    BY <2>3, <2>4
  <2> HIDE DEF got
  <2>8. RunOK(p)'
    BY <1>a, <2>1, <2>2, <2>6, <2>7 DEF RunOK, Past, Covers, Open
  <2> QED
    BY <1>0, <1>b, <2>2, <2>5, <2>8 DEF github, TypeOK
<1>3r. ASSUME NEW p \in Run, FetchRefused(p) PROVE IInv'
  <2>1. RunOK(p)
    BY <1>0 DEF IInv
  <2>2. RunOK(p)'
    BY <1>0, <1>a, <1>3r, <2>1, QuietOK
       DEF FetchRefused, Decide, Goto, github, bounds, ghosts, TypeOK
  <2> QED
    BY <1>0, <1>b, <1>3r, <2>2
       DEF FetchRefused, Decide, Goto, github, durable, ghosts, TypeOK
<1>5. ASSUME NEW p \in Run, Sort(p) PROVE IInv'
  <2>1. RunOK(p) /\ pc[p] = "sort"
    BY <1>0, <1>5 DEF IInv, Sort
  <2>2. PICK top \in Stamp :
          /\ IsNewest(top, prs[p], cursor[p])
          /\ LET fresh == Fresh(prs[p], cursor[p])
             IN  \/ HasActionable(fresh) /\ Decide(p, "found", fresh, top)
                 \/ ~HasActionable(fresh) /\ Decide(p, "clean", {}, top)
    BY <1>5 DEF Sort
  <2>3. UNCHANGED <<now, stamp, crowded, reported, cursor, prs, section, overflow>>
    BY <1>5 DEF Sort, github, durable, ghosts
  <2>4. top = cursor[p] \/ \E v \in prs[p] : top = v[2]
    BY <2>2 DEF IsNewest
  <2>5. Past(top)
    BY <2>1, <2>4 DEF RunOK
  <2>6. ~overflow => Covers(cursor[p], reported) /\ Covers(top, prs[p] \cup reported)
    BY <2>1, <2>4 DEF RunOK, Covers
  <2>7. pc'[p] = "finish" /\ newest'[p] = top
    BY <1>0, <2>2 DEF Decide, Goto, TypeOK
  <2>8. ASSUME ~overflow, NEW n \in Open \ Draft, stamp[n] <= top, stamp[n] \notin crowded
        PROVE  <<n, stamp[n]>> \in reported \cup listed'[p]
    <3>1. CASE <<n, stamp[n]>> \in reported
      BY <3>1
    <3>2. CASE <<n, stamp[n]>> \in prs[p] /\ stamp[n] <= cursor[p]
      BY <2>6, <2>8, <3>2 DEF Covers
    <3>3. CASE <<n, stamp[n]>> \in prs[p] /\ ~(stamp[n] <= cursor[p])
      <4>1. stamp[n] \in Nat /\ cursor[p] \in Nat
        BY <1>0 DEF TypeOK, Open
      <4>2. <<n, stamp[n]>> \in Fresh(prs[p], cursor[p])
        BY <3>3, <4>1 DEF Fresh
      <4>3. HasActionable(Fresh(prs[p], cursor[p]))
        BY <4>2 DEF HasActionable
      <4>4. listed'[p] = Fresh(prs[p], cursor[p])
        BY <1>0, <2>2, <4>3 DEF Decide, TypeOK
      <4> QED
        BY <4>2, <4>4
    <3> QED
      BY <2>6, <2>8, <3>1, <3>2, <3>3 DEF Covers
  <2>9. ~overflow => Covers(top, reported \cup listed'[p])
    BY <2>8 DEF Covers
  <2>10. RunOK(p)'
    BY <2>1, <2>3, <2>5, <2>7, <2>9 DEF RunOK, Past, Covers, Open
  <2>11. \A q \in Run \ {p} : /\ pc'[q] = pc[q] /\ newest'[q] = newest[q]
                              /\ listed'[q] = listed[q]
    BY <1>0, <2>2 DEF Decide, Goto, TypeOK
  <2> QED
    BY <1>b, <2>3, <2>10, <2>11 DEF github
<1>6. ASSUME NEW p \in Run, Finish(p) PROVE IInv'
  <2>1. RunOK(p) /\ pc[p] = "finish" /\ section.cursor \in Stamp
    BY <1>0, <1>6 DEF IInv, Finish, TypeOK
  <2>2. /\ newest'[p] = CursorToWrite(p) /\ pc'[p] = "write"
        /\ UNCHANGED <<now, stamp, crowded, reported, cursor, prs, section, listed, overflow>>
    BY <1>0, <1>6 DEF Finish, Goto, github, durable, ghosts, TypeOK
  <2>3. CursorToWrite(p) # None /\ Past(CursorToWrite(p))
    BY <1>0, <2>1 DEF CursorToWrite, IInv, RunOK
  <2>4. ~overflow => Covers(CursorToWrite(p), reported \cup listed[p])
    BY <1>0, <2>1 DEF CursorToWrite, IInv, RunOK, Covers
  <2>5. RunOK(p)'
    BY <2>1, <2>2, <2>3, <2>4 DEF RunOK, Past, Covers, Open
  <2>6. \A q \in Run \ {p} : pc'[q] = pc[q] /\ newest'[q] = newest[q]
    BY <1>0, <1>6 DEF Finish, Goto, TypeOK
  <2> QED
    BY <1>b, <2>2, <2>5, <2>6 DEF github
<1>7. ASSUME NEW p \in Run, Write(p) PROVE IInv'
  <2>1. RunOK(p) /\ pc[p] = "write" /\ newest[p] # None
    BY <1>0, <1>7 DEF IInv, Write, RunOK
  <2>2. /\ section'.cursor = newest[p] /\ reported' = reported \cup listed[p]
        /\ UNCHANGED <<now, stamp, crowded, cursor, prs, newest, listed, overflow>>
        /\ pc'[p] = "log" /\ \A q \in Run \ {p} : pc'[q] = pc[q]
    BY <1>0, <1>7 DEF Write, Goto, github, TypeOK
  <2>3. RunOK(p)'
    BY <2>1, <2>2 DEF RunOK, Past, Covers, Open
  <2>4. \A q \in Run \ {p} : RunOK(q)'
    BY <1>0, <1>a, <2>2, BystanderOK DEF IInv
  <2>5. (\A n \in PR : stamp[n] <= now)' /\ Past(newest[p])'
    BY <1>0, <2>1, <2>2 DEF IInv, RunOK, Past
  <2>6. ~overflow' => Covers(newest[p], reported)'
    BY <2>1, <2>2 DEF RunOK, Covers, Open
  <2> QED
    BY <2>2, <2>3, <2>4, <2>5, <2>6 DEF IInv, Past, Covers, Open
<1>10. ASSUME NEW n \in PR, Update(n) PROVE IInv'
  <2>1. (\A m \in PR : stamp[m] <= now)'
    BY <1>0, <1>10 DEF Update, IInv, TypeOK
  <2> QED
    BY <1>0, <1>10, <2>1, UpdateOK, GitHubOK DEF Update, durable
<1>11. ASSUME NEW n \in PR, Close(n) PROVE IInv'
  <2>1. (\A m \in PR : stamp[m] <= now)'
    BY <1>0, <1>11 DEF Close, IInv, TypeOK
  <2> QED
    BY <1>0, <1>11, <2>1, CloseOK, GitHubOK DEF Close, durable
<1>12. CASE TimePasses
  <2>1. now \in Nat /\ now' = now + 1 /\ UNCHANGED <<stamp, crowded>>
    BY <1>0, <1>12 DEF TimePasses, ghosts, TypeOK
  <2>2. (\A m \in PR : stamp[m] <= now)'
    <3> SUFFICES ASSUME NEW m \in PR PROVE stamp[m] <= now + 1
      BY <2>1
    <3>1. stamp[m] \in Nat /\ stamp[m] <= now
      BY <1>0, SecondType DEF IInv, TypeOK
    <3> QED
      BY <2>1, <3>1
  <2>3. \A t \in Stamp : Past(t) => Past(t)'
    BY <2>1 DEF Past
  <2>4. \A t \in Stamp : \A S : Covers(t, S) => Covers(t, S)'
    BY <2>1 DEF Covers, Open
  <2> QED
    BY <1>12, <2>2, <2>3, <2>4, GitHubOK DEF TimePasses, ghosts
<1>13. CASE TogglePause \/ UNCHANGED vars
  BY <1>0, <1>13 DEF TogglePause, vars, github, durable, locals, ghosts, IInv,
                     RunOK, Past, Covers, Open
<1> QED
  BY <1>1, <1>2, <1>3, <1>3r, <1>4, <1>5, <1>6, <1>7, <1>8, <1>9, <1>10, <1>11,
     <1>12, <1>13 DEF Next, RunStep

\* For any pull requests, page size and number of overlapping, failing and
\* dying runs: while the open pull requests fit one page, an update that has a
\* second to itself and is not to a draft never falls behind the durable cursor
\* before some written state lists it.
THEOREM PRNoUpdateMissed == Spec => []NoUpdateMissed
<1>1. Inv => NoUpdateMissed
  BY DEF Inv, IInv, Covers, NoUpdateMissed
<1> QED
  BY <1>1, InvInit, InvStep, PTL DEF Spec

-----------------------------------------------------------------------------
(* One run at a time.                                                      *)

\* One run at a time, every step of a run keeps what relates it to the file.
LEMMA RunSerial ==
  ASSUME TypeInv, TypeInv', SerialOK, OneAtATime, OneAtATime', NEW p \in Run,
         RunStep(p) \/ Crash(p)
  PROVE  SerialOK'
<1> USE SecondType, NoneStamp
<1>0. TypeOK /\ TypeOK' /\ SerialRunOK(p) /\ section.cursor \in Nat
  BY DEF TypeInv, TypeOK, SerialOK
<1>1. /\ \A q \in Run \ {p} : pc'[q] = pc[q]
      /\ pc[p] # "idle" \/ pc'[p] # "idle"
  BY <1>0
  DEF RunStep, Start, ReadState, Fetch, FetchUnscanned, FetchRefused, FetchFails,
      Receive, Sort, Finish, Write, AppendLog, Crash, Decide, Forget, Goto, TypeOK
<1>2. \A q \in Run \ {p} : SerialRunOK(q)'
  BY <1>1 DEF OneAtATime, SerialRunOK
<1>3. ASSUME UNCHANGED <<section, reported>>, SerialRunOK(p)' PROVE SerialOK'
  BY <1>2, <1>3 DEF SerialOK
\* A run that ends without a cursor lists nothing.
<1>4. ASSUME NEW result, Decide(p, result, {}, None) PROVE SerialRunOK(p)'
  BY <1>0, <1>4 DEF Decide, Goto, TypeOK, SerialRunOK
<1>5. CASE Start(p)
  <2>1. CASE Decide(p, "clean", {}, None) \/ Decide(p, "escalated", {}, None)
    BY <1>3, <1>4, <1>5, <2>1 DEF Start, durable, ghosts
  <2>2. CASE Goto(p, "read")
    BY <1>0, <1>3, <1>5, <2>2 DEF Start, Goto, TypeOK, SerialRunOK, durable, ghosts
  <2> QED
    BY <1>5, <2>1, <2>2 DEF Start
<1>6. CASE ReadState(p)
  BY <1>0, <1>3, <1>6 DEF ReadState, Goto, TypeOK, SerialRunOK, durable, ghosts
<1>7. CASE Fetch(p) \/ FetchUnscanned(p)
  BY <1>0, <1>3, <1>7
  DEF Fetch, FetchUnscanned, Receive, Goto, TypeOK, SerialRunOK, durable
<1>8. CASE FetchRefused(p) \/ FetchFails(p)
  BY <1>3, <1>4, <1>8 DEF FetchRefused, FetchFails, durable, ghosts
<1>9. CASE Sort(p)
  <2>1. /\ pc[p] = "sort" /\ cursor[p] = section.cursor
        /\ UNCHANGED <<section, reported>>
    BY <1>0, <1>9 DEF Sort, SerialRunOK, durable, ghosts
  <2>2. PICK top \in Stamp :
          /\ IsNewest(top, prs[p], cursor[p])
          /\ LET fresh == Fresh(prs[p], cursor[p])
             IN  \/ HasActionable(fresh) /\ Decide(p, "found", fresh, top)
                 \/ ~HasActionable(fresh) /\ Decide(p, "clean", {}, top)
    BY <1>9 DEF Sort
  <2>3. /\ pc'[p] = "finish" /\ newest'[p] = top
        /\ listed'[p] \subseteq Fresh(prs[p], cursor[p])
    BY <1>0, <2>2 DEF Decide, Goto, TypeOK
  <2>4. top >= cursor[p] /\ \A v \in prs[p] : v[2] <= top
    BY <1>0, <2>2 DEF IsNewest, TypeOK
  <2>5. \A v \in listed'[p] : v[2] > cursor[p] /\ v[2] <= top
    BY <2>3, <2>4 DEF Fresh
  <2> QED
    BY <1>3, <2>1, <2>2, <2>3, <2>4, <2>5 DEF SerialRunOK
<1>10. CASE Finish(p)
  <2>1. /\ pc[p] = "finish" /\ pc'[p] = "write" /\ newest'[p] = CursorToWrite(p)
        /\ UNCHANGED <<section, reported, listed>>
    BY <1>0, <1>10 DEF Finish, Goto, TypeOK, durable, ghosts
  <2> QED
    BY <1>0, <1>3, <2>1 DEF SerialRunOK, CursorToWrite, TypeOK
<1>11. CASE Write(p)
  <2>1. /\ pc[p] = "write" /\ pc'[p] = "log" /\ section'.cursor = newest[p]
        /\ reported' = reported \cup listed[p]
    BY <1>0, <1>11 DEF Write, Goto, TypeOK
  <2>2. /\ newest[p] \in Nat /\ newest[p] >= section.cursor
        /\ \A v \in listed[p] : v[2] <= newest[p]
    BY <1>0, <2>1 DEF SerialRunOK, TypeInv, TypeOK
  <2>3. \A v \in reported : v[2] \in Nat /\ v[2] <= section.cursor
    BY <1>0 DEF SerialOK, TypeOK, Version
  <2>4. \A v \in reported' : v[2] <= section'.cursor
    BY <1>0, <2>1, <2>2, <2>3
  <2> QED
    BY <1>2, <2>1, <2>4 DEF SerialOK, SerialRunOK
<1>12. CASE AppendLog(p) \/ Crash(p)
  <2>1. pc'[p] = "idle" /\ UNCHANGED <<section, reported>>
    BY <1>0, <1>12 DEF AppendLog, Crash, Forget, Goto, TypeOK, durable, ghosts
  <2> QED
    BY <1>3, <2>1 DEF SerialRunOK
<1> QED
  BY <1>5, <1>6, <1>7, <1>8, <1>9, <1>10, <1>11, <1>12 DEF RunStep

\* While runs do not overlap, whatever they meet with and wherever they are
\* killed, what was reported lies at or before the durable cursor and what a
\* run is about to report lies past it.
THEOREM PRSerial == Spec /\ []OneAtATime => []SerialOK
<1>1. Init => SerialOK
  BY DEF Init, SerialOK, SerialRunOK
<1>2. ASSUME TypeInv, TypeInv', OneAtATime, OneAtATime', SerialOK, [Next]_vars
      PROVE  SerialOK'
  <2>1. CASE UNCHANGED <<durable, locals, reported>>
    BY <1>2, <2>1 DEF durable, locals, SerialOK, SerialRunOK
  <2> QED
    BY <1>2, <2>1, RunSerial
    DEF Next, Update, Close, TimePasses, TogglePause, vars, ghosts
<1> QED
  BY <1>1, <1>2, TypeInit, TypeStep, PTL DEF Spec

\* The state file changes only when a run writes it.
LEMMA SectionFrame ==
  ASSUME [Next]_vars, section' # section
  PROVE  \E p \in Run : Write(p)
BY DEF Next, RunStep, Start, ReadState, Fetch, FetchUnscanned, FetchRefused,
       FetchFails, Receive, Sort, Finish, AppendLog, Crash, Update, Close,
       TimePasses, TogglePause, vars, durable

\* One run at a time, no version of a pull request is listed twice: a quiet day
\* is a clean run.
THEOREM PRReportedOnce == Spec /\ []OneAtATime => NeverReReports
<1>1. ASSUME TypeInv, SerialOK, [Next]_vars
      PROVE  [section'.found \cap reported = {}]_section
  <2> SUFFICES ASSUME NEW p \in Run, Write(p) PROVE section'.found \cap reported = {}
    BY <1>1, SectionFrame
  <2>1. section'.found = listed[p] /\ pc[p] = "write"
    BY DEF Write
  <2>2. \A v \in listed[p] : v[2] > section.cursor
    BY <1>1, <2>1 DEF SerialOK, SerialRunOK
  <2>3. section.cursor \in Nat /\ \A v \in reported : v[2] \in Nat
    BY <1>1, SecondType DEF TypeInv, TypeOK, Version
  <2> QED
    BY <1>1, <2>1, <2>2, <2>3 DEF SerialOK
<1> QED
  BY <1>1, PRSerial, TypeInit, TypeStep, PTL DEF Spec, NeverReReports

\* One run at a time, no outcome takes the durable cursor back or forgets it.
THEOREM PRCursorAdvances == Spec /\ []OneAtATime => CursorNeverRetreats
<1>1. ASSUME TypeInv, SerialOK, [Next]_vars
      PROVE  [section'.cursor >= section.cursor]_section
  <2> SUFFICES ASSUME NEW p \in Run, Write(p) PROVE section'.cursor >= section.cursor
    BY <1>1, SectionFrame
  <2> QED
    BY <1>1 DEF Write, SerialOK, SerialRunOK, TypeInv
<1> QED
  BY <1>1, PRSerial, TypeInit, TypeStep, PTL DEF Spec, CursorNeverRetreats
=============================================================================
