--------------------------- MODULE SchedulerProofs ---------------------------
(***************************************************************************)
(* Proofs about Scheduler for any set of loops, priorities, cadences,      *)
(* targets and results: what holds of overlapping ticks, and the bound on  *)
(* blind retries, the halt and the cadence of one tick at a time.          *)
(***************************************************************************)
EXTENDS Scheduler, SequenceTheorems, TLAPS

\* What the proofs use of the assumptions on the constants.
LEMMA Constants ==
  /\ Cadence \in [Loop -> Nat] /\ Outcome \in [Loop -> SUBSET Result]
  /\ Writers \subseteq Loop /\ Pausable \subseteq Loop /\ None \notin Loop
  /\ AnomalyHistory \in Nat /\ AnomalyHistory >= 4
  /\ MaxTickAge \in Nat /\ MaxCrashes \in Nat /\ AgeCap \in Nat
<1>1. /\ Cadence \in [Loop -> Nat] /\ Outcome \in [Loop -> SUBSET Result]
      /\ Writers \subseteq Loop /\ Pausable \subseteq Loop /\ None \notin Loop
  BY LoopAssumption, Zenon DEF LoopAssumption
<1>2. AnomalyHistory \in Nat /\ AnomalyHistory >= 4
  BY HistoryAssumption DEF HistoryAssumption, OSCILLATION_N
<1>3. MaxTickAge \in Nat /\ MaxCrashes \in Nat /\ AgeCap \in Nat
  BY BoundsAssumption, Zenon DEF BoundsAssumption
<1> QED
  BY <1>1, <1>2, <1>3

USE Constants

LEMMA CadenceFits == \A l \in Loop : Cadence[l] <= AgeCap
<1>1. \A l \in Loop : Cadence[l] + MaxTickAge <= AgeCap
  BY BoundsAssumption, Zenon DEF BoundsAssumption
<1> QED
  BY <1>1

-----------------------------------------------------------------------------
(* The operators on histories.                                             *)

\* The last n results of a history that has as many.
LEMMA LastNFacts ==
  ASSUME NEW s \in Seq(Result), NEW n \in Nat, n <= Len(s)
  PROVE  /\ LastN(s, n) \in Seq(Result) /\ Len(LastN(s, n)) = n
         /\ \A i \in 1 .. n : LastN(s, n)[i] = s[Len(s) - n + i]
<1> DEFINE m == Len(s) - n + 1
<1>1. m \in Int /\ Len(s) \in Int /\ \A i \in m .. Len(s) : s[i] \in Result
  OBVIOUS
<1>2. /\ SubSeq(s, m, Len(s)) \in Seq(Result)
      /\ Len(SubSeq(s, m, Len(s))) = IF m <= Len(s) THEN Len(s) - m + 1 ELSE 0
      /\ \A i \in 1 .. Len(s) - m + 1 : SubSeq(s, m, Len(s))[i] = s[m + i - 1]
  BY <1>1, SubSeqProperties
<1> QED
  BY <1>2 DEF LastN

\* Push adds the result at the end and keeps at most AnomalyHistory of them;
\* four are enough for a run of results that ends a history to end the new one.
LEMMA PushFacts ==
  ASSUME NEW h \in Seq(Result), Len(h) <= AnomalyHistory, NEW r \in Result
  PROVE  /\ Push(h, r) \in Seq(Result) /\ Len(Push(h, r)) <= AnomalyHistory
         /\ \A n \in Int : n < 4 /\ EndsWith(h, r, n) => EndsWith(Push(h, r), r, n + 1)
         /\ \A s : EndsWith(Push(h, r), s, 0)
<1> DEFINE longer == Append(h, r)
<1>1. /\ longer \in Seq(Result) /\ Len(longer) = Len(h) + 1
      /\ \A i \in 1 .. Len(h) : longer[i] = h[i]
      /\ longer[Len(h) + 1] = r
  OBVIOUS
<1>2. CASE Len(longer) > AnomalyHistory
  <2>1. /\ Push(h, r) = LastN(longer, AnomalyHistory)
        /\ Push(h, r) \in Seq(Result) /\ Len(Push(h, r)) = AnomalyHistory
        /\ \A i \in 1 .. AnomalyHistory :
             Push(h, r)[i] = longer[Len(longer) - AnomalyHistory + i]
    <3>1. Push(h, r) = LastN(longer, AnomalyHistory)
      BY <1>2 DEF Push
    <3>2. AnomalyHistory <= Len(longer)
      BY <1>1, <1>2
    <3>3. /\ LastN(longer, AnomalyHistory) \in Seq(Result)
          /\ Len(LastN(longer, AnomalyHistory)) = AnomalyHistory
          /\ \A i \in 1 .. AnomalyHistory :
               LastN(longer, AnomalyHistory)[i] = longer[Len(longer) - AnomalyHistory + i]
      BY <1>1, <3>2, LastNFacts
    <3> QED
      BY <3>1, <3>3
  <2>2. Len(longer) = AnomalyHistory + 1 /\ Len(h) = AnomalyHistory
    BY <1>1, <1>2
  <2>3. /\ \A i \in 1 .. AnomalyHistory - 1 : Push(h, r)[i] = h[i + 1]
        /\ Push(h, r)[AnomalyHistory] = r
    <3>1. \A i \in 1 .. AnomalyHistory : Push(h, r)[i] = longer[i + 1]
      <4>1. TAKE i \in 1 .. AnomalyHistory
      <4>2. Len(longer) - AnomalyHistory + i = i + 1
        BY <2>2
      <4> QED
        BY <2>1, <4>2
    <3> QED
      BY <1>1, <2>2, <3>1
  <2>4. ASSUME NEW n \in Int, n < 4, EndsWith(h, r, n)
        PROVE  EndsWith(Push(h, r), r, n + 1)
    <3>1. \A i \in 1 .. AnomalyHistory : i > AnomalyHistory - n => h[i] = r
      BY <2>2, <2>4 DEF EndsWith
    <3>2. ASSUME NEW i \in 1 .. AnomalyHistory, i > AnomalyHistory - (n + 1)
          PROVE  Push(h, r)[i] = r
      BY <2>3, <3>1, <3>2
    <3> QED
      BY <2>1, <2>4, <3>2 DEF EndsWith
  <2> QED
    BY <2>1, <2>4 DEF EndsWith
<1>3. CASE ~(Len(longer) > AnomalyHistory)
  <2>1. Push(h, r) = longer
    BY <1>3 DEF Push
  <2>2. ASSUME NEW n \in Int, n < 4, EndsWith(h, r, n)
        PROVE  EndsWith(longer, r, n + 1)
    BY <1>1, <2>2 DEF EndsWith
  <2> QED
    BY <1>1, <1>3, <2>1, <2>2 DEF EndsWith
<1> QED
  BY <1>2, <1>3

\* Three equal failures at the end of a history are a stall.
LEMMA StallFound ==
  ASSUME NEW h \in Seq(Result), NEW r \in STUCK_RESULTS, NEW n \in Int,
         n >= 3, EndsWith(h, r, n)
  PROVE  DetectAnomaly(h) # "none"
<1>1. 3 <= Len(h) /\ \A i \in 1 .. Len(h) : i > Len(h) - 3 => h[i] = r
  BY DEF EndsWith
<1>2. \A i \in 1 .. 3 : LastN(h, 3)[i] = h[Len(h) - 3 + i]
  BY <1>1, LastNFacts
<1>3. \A i \in 1 .. 3 : LastN(h, 3)[i] = r
  <2>1. \A i \in 1 .. 3 : Len(h) - 3 + i \in 1 .. Len(h) /\ Len(h) - 3 + i > Len(h) - 3
    BY <1>1
  <2> QED
    BY <1>1, <1>2, <2>1
<1>4. IsStall(h)
  BY <1>1, <1>3 DEF IsStall, STALL_N
<1> QED
  BY <1>4 DEF DetectAnomaly

-----------------------------------------------------------------------------
(* Types.                                                                  *)

LEMMA ResetType ==
  ASSUME TypeOK, NEW t \in Tick, ResetTick(t)
  PROVE  /\ pc' \in [Tick -> {"idle", "consider", "run", "history", "record"}]
         /\ left' \in [Tick -> SUBSET Loop] /\ off' \in [Tick -> SUBSET Loop]
         /\ tickAge' \in [Tick -> 0 .. MaxTickAge]
         /\ claimed' \in [Tick -> SUBSET {Target[l] : l \in Loop}]
         /\ current' \in [Tick -> Loop \cup {None}]
         /\ result' \in [Tick -> Result \cup {"none"}]
         /\ read' \in [Tick -> Seq(Result)]
         /\ \A u \in Tick : Len(read'[u]) <= AnomalyHistory
         /\ wrote' \in [Tick -> SUBSET Writers]
<1>1. tickAge' \in [Tick -> 0 .. MaxTickAge]
  BY DEF ResetTick, TypeOK
<1>2. read' \in [Tick -> Seq(Result)] /\ \A u \in Tick : Len(read'[u]) <= AnomalyHistory
  <2>1. read' = [read EXCEPT ![t] = <<>>] /\ <<>> \in Seq(Result) /\ Len(<<>>) = 0
    BY DEF ResetTick
  <2> QED
    BY <2>1 DEF TypeOK
<1> QED
  BY <1>1, <1>2 DEF ResetTick, TypeOK

LEMMA ResetFacts ==
  ASSUME TypeOK, NEW t \in Tick, ResetTick(t)
  PROVE  /\ pc'[t] = "idle" /\ wrote'[t] = {}
         /\ \A u \in Tick \ {t} :
              /\ pc'[u] = pc[u] /\ wrote'[u] = wrote[u] /\ claimed'[u] = claimed[u]
              /\ current'[u] = current[u] /\ result'[u] = result[u] /\ read'[u] = read[u]
BY DEF ResetTick, TypeOK

LEMMA ExtendFacts ==
  ASSUME NEW s \in [of : Result \cup {"none"}, len : Nat], NEW r \in Result
  PROVE  /\ Extend(s, r) \in [of : Result \cup {"none"}, len : Nat]
         /\ Extend(s, r).of = r
         /\ Extend(s, r).len > 0 => r \in STUCK_RESULTS
         /\ s.of # r => Extend(s, r).len <= 1
         /\ Extend(s, r).len <= s.len + 1
<1>1. CASE r \notin STUCK_RESULTS
  BY <1>1 DEF Extend
<1>2. CASE r \in STUCK_RESULTS /\ s.of # r
  BY <1>2 DEF Extend
<1>3. CASE r \in STUCK_RESULTS /\ s.of = r
  <2>1. CASE s.len > STALL_N + MaxCrashes
    <3>1. Extend(s, r) = [s EXCEPT !.len = s.len]
      BY <1>3, <2>1 DEF Extend
    <3> QED
      BY <1>3, <3>1
  <2>2. CASE ~(s.len > STALL_N + MaxCrashes)
    <3>1. Extend(s, r) = [s EXCEPT !.len = s.len + 1]
      BY <1>3, <2>2 DEF Extend
    <3> QED
      BY <1>3, <3>1
  <2> QED
    BY <2>1, <2>2
<1> QED
  BY <1>1, <1>2, <1>3

LEMMA AbandonType ==
  ASSUME TypeOK, NEW t \in Tick, TickOK(t), Abandon(t)
  PROVE  sinceStart' \in [Loop -> 0 .. AgeCap]
<1>1. AgeCap \in 0 .. AgeCap /\ sinceStart \in [Loop -> 0 .. AgeCap]
  BY DEF TypeOK
<1>2. CASE pc[t] = "run"
  BY <1>1, <1>2 DEF Abandon
<1>3. CASE pc[t] # "run"
  BY <1>1, <1>3 DEF Abandon
<1> QED
  BY <1>2, <1>3

LEMMA DetectType == \A h : DetectAnomaly(h) \in {"none", "stall", "oscillation"}
BY DEF DetectAnomaly

Inv == TypeOK /\ IInv

LEMMA InitInv == Init => Inv
<1> SUFFICES ASSUME Init PROVE Inv
  OBVIOUS
<1>1. /\ age \in [Loop -> 0 .. AgeCap] /\ sinceStart \in [Loop -> 0 .. AgeCap]
      /\ tickAge \in [Tick -> 0 .. MaxTickAge] /\ crashes \in 0 .. MaxCrashes
  BY DEF Init
<1>2. /\ history \in [Loop -> Seq(Result)] /\ read \in [Tick -> Seq(Result)]
      /\ \A l \in Loop : Len(history[l]) <= AnomalyHistory
  BY DEF Init
<1>3. streak \in [Loop -> [of : Result \cup {"none"}, len : Nat]]
  BY DEF Init
<1>4. TypeOK
  BY <1>1, <1>2, <1>3 DEF Init, TypeOK
<1>5. IInv
  BY DEF Init, IInv, OneWriterPerTarget, SpacingOK, TickOK, Busy
<1> QED
  BY <1>4, <1>5 DEF Inv

LEMMA TypeStep ==
  ASSUME Inv, [Next]_vars
  PROVE  TypeOK'
<1> USE DEF Inv, TypeOK, durable, world, locals, ghosts
<1>1. ASSUME NEW t \in Tick, Begin(t) PROVE TypeOK'
  BY <1>1 DEF Begin
<1>2. ASSUME NEW t \in Tick, NEW l \in Loop, Skip(t, l) PROVE TypeOK'
  BY <1>2 DEF Skip
<1>3. ASSUME NEW t \in Tick, NEW l \in Loop, Launch(t, l) PROVE TypeOK'
  <2>1. sinceStart' \in [Loop -> 0 .. AgeCap]
    BY <1>3 DEF Launch
  <2>2. /\ claimed' \in [Tick -> SUBSET {Target[m] : m \in Loop}]
        /\ wrote' \in [Tick -> SUBSET Writers]
    BY <1>3 DEF Launch
  <2> QED
    BY <1>3, <2>1, <2>2 DEF Launch
<1>4. ASSUME NEW t \in Tick, NEW r \in Result, Returns(t, r) PROVE TypeOK'
  <2>1. current[t] \in Loop
    BY <1>4 DEF Returns, IInv, TickOK, Busy
  <2>2. age' \in [Loop -> 0 .. AgeCap]
    <3>1. age' = [age EXCEPT ![current[t]] = 0] /\ 0 \in 0 .. AgeCap
      BY <1>4 DEF Returns
    <3> QED
      BY <3>1
  <2>3. streak' \in [Loop -> [of : Result \cup {"none"}, len : Nat]]
    BY <1>4, <2>1, ExtendFacts DEF Returns
  <2> QED
    BY <1>4, <2>2, <2>3 DEF Returns
<1>5. ASSUME NEW t \in Tick, Raises(t) PROVE TypeOK'
  <2>1. sinceStart' \in [Loop -> 0 .. AgeCap]
    BY <1>5, AbandonType DEF Raises, IInv
  <2> QED
    BY <1>5, <2>1, ResetType DEF Raises
<1>6. ASSUME NEW t \in Tick, ReadHistory(t) PROVE TypeOK'
  <2>1. history[current[t]] \in Seq(Result)
    BY <1>6 DEF ReadHistory, IInv, TickOK, Busy
  <2>2. read' \in [Tick -> Seq(Result)] /\ \A u \in Tick : Len(read'[u]) <= AnomalyHistory
    BY <1>6, <2>1 DEF ReadHistory, IInv, TickOK, Busy
  <2> QED
    BY <1>6, <2>2 DEF ReadHistory
<1>7. ASSUME NEW t \in Tick, Record(t) PROVE TypeOK'
  <2> DEFINE h == Push(read[t], result[t])
  <2>1. /\ history' = [history EXCEPT ![current[t]] = h]
        /\ anomaly' = [anomaly EXCEPT ![current[t]] = DetectAnomaly(h)]
    BY <1>7 DEF Record
  <2>2. h \in Seq(Result) /\ Len(h) <= AnomalyHistory
    <3>1. result[t] \in Result /\ read[t] \in Seq(Result) /\ Len(read[t]) <= AnomalyHistory
      BY <1>7 DEF Record, IInv, TickOK
    <3> QED
      BY <3>1, PushFacts
  <2>3. /\ history' \in [Loop -> Seq(Result)]
        /\ \A l \in Loop : Len(history'[l]) <= AnomalyHistory
    BY <2>1, <2>2
  <2>4. anomaly' \in [Loop -> {"none", "stall", "oscillation"}]
    BY <2>1, DetectType
  <2>5. read' \in [Tick -> Seq(Result)] /\ \A u \in Tick : Len(read'[u]) <= AnomalyHistory
    BY <1>7 DEF Record
  <2> QED
    BY <1>7, <2>3, <2>4, <2>5 DEF Record
<1>8. ASSUME NEW t \in Tick, End(t) PROVE TypeOK'
  BY <1>8, ResetType DEF End
<1>9. ASSUME NEW t \in Tick, Crash(t) PROVE TypeOK'
  <2>1. sinceStart' \in [Loop -> 0 .. AgeCap]
    BY <1>9, AbandonType DEF Crash, IInv
  <2>2. crashes' \in 0 .. MaxCrashes
    BY <1>9 DEF Crash
  <2> QED
    BY <1>9, <2>1, <2>2, ResetType DEF Crash
<1>10. CASE TimePasses
  <2>1. \A n \in 0 .. AgeCap : Older(n) \in 0 .. AgeCap
    BY DEF Older
  <2>2. age' \in [Loop -> 0 .. AgeCap] /\ sinceStart' \in [Loop -> 0 .. AgeCap]
    BY <1>10, <2>1 DEF TimePasses
  <2>3. tickAge' \in [Tick -> 0 .. MaxTickAge]
    BY <1>10 DEF TimePasses
  <2> QED
    BY <1>10, <2>2, <2>3 DEF TimePasses
<1>11. ASSUME NEW l \in Loop, TogglePause(l) PROVE TypeOK'
  BY <1>11 DEF TogglePause
<1>12. ASSUME NEW l \in Loop, Resume(l) PROVE TypeOK'
  <2>1. /\ history' \in [Loop -> Seq(Result)]
        /\ \A m \in Loop : Len(history'[m]) <= AnomalyHistory
    BY <1>12 DEF Resume
  <2>2. streak' \in [Loop -> [of : Result \cup {"none"}, len : Nat]]
    BY <1>12 DEF Resume
  <2>3. anomaly' \in [Loop -> {"none", "stall", "oscillation"}]
    BY <1>12 DEF Resume
  <2> QED
    BY <1>12, <2>1, <2>2, <2>3 DEF Resume
<1>13. CASE UNCHANGED vars
  BY <1>13 DEF vars
<1> QED
  BY <1>1, <1>2, <1>3, <1>4, <1>5, <1>6, <1>7, <1>8, <1>9, <1>10, <1>11, <1>12, <1>13
  DEF Next, TickStep

-----------------------------------------------------------------------------
(* Overlapping ticks: targets and stamps.                                  *)

OthersIdleBy(t) ==
  \A u \in Tick \ {t} :
    /\ pc'[u] = pc[u] /\ wrote'[u] = wrote[u] /\ claimed'[u] = claimed[u]
    /\ current'[u] = current[u] /\ result'[u] = result[u]

\* A tick's step, by what it does to its own claims and to the stamps.
LEMMA StepOK ==
  ASSUME Inv, NEW t \in Tick, OthersIdleBy(t), TickOK(t)', SpacingOK',
         \A l, m \in wrote'[t] : Target[l] = Target[m] => l = m
  PROVE  IInv'
<1>1. \A u \in Tick \ {t} : TickOK(u) => TickOK(u)'
  BY DEF OthersIdleBy, TickOK
<1>2. OneWriterPerTarget'
  BY DEF Inv, IInv, OneWriterPerTarget, OthersIdleBy
<1> QED
  BY <1>1, <1>2 DEF Inv, IInv

\* A step that neither starts nor ends a run leaves the stamps' order alone.
LEMMA SpacingKept ==
  ASSUME Inv, NEW t \in Tick, OthersIdleBy(t), pc[t] # "run",
         UNCHANGED <<age, sinceStart>>
  PROVE  SpacingOK'
BY DEF Inv, IInv, SpacingOK, OthersIdleBy

\* A run cut short leaves its loop as if it had never begun.
LEMMA SpacingReset ==
  ASSUME Inv, NEW t \in Tick, ResetTick(t), Abandon(t), UNCHANGED age
  PROVE  SpacingOK'
<1> SUFFICES ASSUME NEW l \in Loop
             PROVE  \/ sinceStart'[l] >= age'[l]
                    \/ \E u \in Tick : pc'[u] = "run" /\ current'[u] = l
  BY DEF SpacingOK
<1>1. \A u \in Tick \ {t} : pc'[u] = pc[u] /\ current'[u] = current[u]
  BY ResetFacts DEF Inv
<1>2. CASE pc[t] = "run" /\ current[t] = l
  <2>1. sinceStart'[l] = AgeCap
    BY <1>2 DEF Abandon, Inv, TypeOK
  <2>2. age'[l] \in 0 .. AgeCap
    BY DEF Inv, TypeOK
  <2> QED
    BY <2>1, <2>2
<1>3. CASE ~(pc[t] = "run" /\ current[t] = l)
  <2>1. sinceStart'[l] = sinceStart[l]
    BY <1>3 DEF Abandon, Inv, TypeOK
  <2> QED
    BY <1>1, <1>3, <2>1 DEF Inv, IInv, SpacingOK
<1> QED
  BY <1>2, <1>3

LEMMA SpacingAged ==
  ASSUME Inv, TimePasses
  PROVE  SpacingOK'
<1> SUFFICES ASSUME NEW l \in Loop
             PROVE  \/ sinceStart'[l] >= age'[l]
                    \/ \E u \in Tick : pc'[u] = "run" /\ current'[u] = l
  BY DEF SpacingOK
<1>1. /\ sinceStart'[l] = Older(sinceStart[l]) /\ age'[l] = Older(age[l])
      /\ UNCHANGED <<pc, current>>
  BY DEF TimePasses
<1>2. sinceStart[l] \in 0 .. AgeCap /\ age[l] \in 0 .. AgeCap
  BY DEF Inv, TypeOK
<1>3. sinceStart[l] >= age[l] => Older(sinceStart[l]) >= Older(age[l])
  BY <1>2 DEF Older
<1> QED
  BY <1>1, <1>3 DEF Inv, IInv, SpacingOK

LEMMA IInvStep ==
  ASSUME Inv, [Next]_vars
  PROVE  IInv'
<1> USE DEF durable, world, locals, ghosts
<1>0. /\ \A t \in Tick : TickOK(t)
      /\ \A t \in Tick : \A l, m \in wrote[t] : Target[l] = Target[m] => l = m
  BY DEF Inv, IInv, OneWriterPerTarget
<1>1. ASSUME NEW t \in Tick, Begin(t) PROVE IInv'
  <2>1. /\ pc[t] = "idle" /\ pc'[t] = "consider" /\ OthersIdleBy(t)
        /\ UNCHANGED <<age, sinceStart, wrote, claimed>>
    BY <1>1 DEF Begin, OthersIdleBy, Inv, TypeOK
  <2>2. TickOK(t)'
    BY <1>0, <2>1 DEF TickOK, Busy
  <2> QED
    BY <1>0, <2>1, <2>2, SpacingKept, StepOK
<1>2. ASSUME NEW t \in Tick, NEW l \in Loop, Skip(t, l) PROVE IInv'
  <2>1. /\ pc[t] = "consider" /\ OthersIdleBy(t)
        /\ UNCHANGED <<pc, age, sinceStart, wrote, claimed, current, result>>
    BY <1>2 DEF Skip, OthersIdleBy
  <2>2. TickOK(t)'
    BY <1>0, <2>1 DEF TickOK
  <2> QED
    BY <1>0, <2>1, <2>2, SpacingKept, StepOK
<1>3. ASSUME NEW t \in Tick, NEW l \in Loop, Launch(t, l) PROVE IInv'
  <2>1. /\ pc[t] = "consider" /\ pc'[t] = "run" /\ current'[t] = l
        /\ OthersIdleBy(t) /\ age' = age
    BY <1>3 DEF Launch, OthersIdleBy, Inv, TypeOK
  <2>2. /\ l \in Writers => /\ Target[l] \notin claimed[t]
                            /\ claimed'[t] = claimed[t] \cup {Target[l]}
                            /\ wrote'[t] = wrote[t] \cup {l}
        /\ l \notin Writers => claimed'[t] = claimed[t] /\ wrote'[t] = wrote[t]
    BY <1>3 DEF Launch, Collides, Inv, TypeOK
  <2>3. TickOK(t)'
    BY <1>0, <2>1, <2>2 DEF TickOK
  <2>4. \A k, m \in wrote'[t] : Target[k] = Target[m] => k = m
    BY <1>0, <2>2 DEF TickOK
  <2>5. SpacingOK'
    <3>1. \A k \in Loop \ {l} : sinceStart'[k] = sinceStart[k]
      BY <1>3 DEF Launch, Inv, TypeOK
    <3> QED
      BY <2>1, <3>1 DEF Inv, IInv, SpacingOK, OthersIdleBy
  <2> QED
    BY <2>1, <2>3, <2>4, <2>5, StepOK
<1>4. ASSUME NEW t \in Tick, NEW r \in Result, Returns(t, r) PROVE IInv'
  <2>1. /\ pc[t] = "run" /\ pc'[t] = "history" /\ OthersIdleBy(t) /\ result'[t] = r
        /\ UNCHANGED <<sinceStart, wrote, claimed, current>>
    BY <1>4 DEF Returns, OthersIdleBy, Inv, TypeOK
  <2>2. TickOK(t)'
    BY <1>0, <2>1 DEF TickOK, Busy
  <2>3. SpacingOK'
    <3>1. /\ age'[current[t]] = 0 /\ sinceStart[current[t]] >= 0
          /\ \A k \in Loop \ {current[t]} : age'[k] = age[k]
      BY <1>0, <1>4, <2>1 DEF Returns, TickOK, Busy, Inv, TypeOK
    <3>2. ASSUME NEW k \in Loop, k # current[t]
          PROVE  \/ sinceStart'[k] >= age'[k]
                 \/ \E u \in Tick : pc'[u] = "run" /\ current'[u] = k
      <4>1. CASE sinceStart[k] >= age[k]
        BY <2>1, <3>1, <3>2, <4>1
      <4>2. CASE \E u \in Tick : pc[u] = "run" /\ current[u] = k
        BY <2>1, <3>2, <4>2 DEF OthersIdleBy
      <4> QED
        BY <4>1, <4>2 DEF Inv, IInv, SpacingOK
    <3> QED
      BY <2>1, <3>1, <3>2 DEF SpacingOK
  <2> QED
    BY <1>0, <2>1, <2>2, <2>3, StepOK
<1>5. ASSUME NEW t \in Tick, Raises(t) \/ Crash(t) PROVE IInv'
  <2>1. ResetTick(t) /\ Abandon(t) /\ UNCHANGED age
    BY <1>5 DEF Raises, Crash
  <2>2. OthersIdleBy(t) /\ pc'[t] = "idle" /\ wrote'[t] = {}
    BY <2>1, ResetFacts DEF OthersIdleBy, Inv
  <2>3. TickOK(t)'
    BY <2>2 DEF TickOK, Busy
  <2> QED
    BY <2>1, <2>2, <2>3, SpacingReset, StepOK
<1>6. ASSUME NEW t \in Tick, ReadHistory(t) PROVE IInv'
  <2>1. /\ pc[t] = "history" /\ pc'[t] = "record" /\ OthersIdleBy(t)
        /\ UNCHANGED <<age, sinceStart, wrote, claimed, current, result>>
    BY <1>6 DEF ReadHistory, OthersIdleBy, Inv, TypeOK
  <2>2. TickOK(t)'
    BY <1>0, <2>1 DEF TickOK, Busy
  <2> QED
    BY <1>0, <2>1, <2>2, SpacingKept, StepOK
<1>7. ASSUME NEW t \in Tick, Record(t) PROVE IInv'
  <2>1. /\ pc[t] = "record" /\ pc'[t] = "consider" /\ OthersIdleBy(t)
        /\ UNCHANGED <<age, sinceStart, wrote, claimed>>
    BY <1>7 DEF Record, OthersIdleBy, Inv, TypeOK
  <2>2. TickOK(t)'
    BY <1>0, <2>1 DEF TickOK, Busy
  <2> QED
    BY <1>0, <2>1, <2>2, SpacingKept, StepOK
<1>8. ASSUME NEW t \in Tick, End(t) PROVE IInv'
  <2>1. pc[t] = "consider" /\ ResetTick(t) /\ UNCHANGED <<age, sinceStart>>
    BY <1>8 DEF End
  <2>2. OthersIdleBy(t) /\ pc'[t] = "idle" /\ wrote'[t] = {}
    BY <2>1, ResetFacts DEF OthersIdleBy, Inv
  <2>3. TickOK(t)'
    BY <2>2 DEF TickOK, Busy
  <2> QED
    BY <2>1, <2>2, <2>3, SpacingKept, StepOK
<1>9. CASE TimePasses
  <2>1. UNCHANGED <<pc, current, result, claimed, wrote>>
    BY <1>9 DEF TimePasses
  <2> QED
    BY <1>0, <1>9, <2>1, SpacingAged DEF IInv, OneWriterPerTarget, TickOK
<1>10. CASE (\E l \in Loop : TogglePause(l) \/ Resume(l)) \/ UNCHANGED vars
  <2>1. UNCHANGED <<pc, current, result, claimed, wrote, age, sinceStart>>
    BY <1>10 DEF TogglePause, Resume, vars
  <2> QED
    BY <1>0, <2>1 DEF Inv, IInv, OneWriterPerTarget, SpacingOK, TickOK
<1> QED
  BY <1>1, <1>2, <1>3, <1>4, <1>5, <1>6, <1>7, <1>8, <1>9, <1>10 DEF Next, TickStep

THEOREM SchedulerInductive == Spec => []Inv
<1>1. Inv /\ [Next]_vars => Inv'
  BY TypeStep, IInvStep DEF Inv
<1> QED
  BY InitInv, <1>1, PTL DEF Spec

\* Every variable keeps its type, and no history outgrows its cut, for any
\* number of loops and overlapping ticks.
THEOREM SchedulerTypeCorrect == Spec => []TypeOK
<1>1. Inv => TypeOK
  BY DEF Inv
<1> QED
  BY <1>1, SchedulerInductive, PTL

\* Whatever loops a tick skips, launches and loses, it never starts two writers
\* of one target.
THEOREM SchedulerOneWriter == Spec => []OneWriterPerTarget
<1>1. Inv => OneWriterPerTarget
  BY DEF Inv, IInv
<1> QED
  BY <1>1, SchedulerInductive, PTL

\* Alone, a tick starts a run of a loop no sooner than a cadence after the start
\* of its last one that was not cut short, at whatever moment of a long tick
\* either began.
THEOREM SchedulerCadence ==
  ASSUME \A s, t \in Tick : s = t
  PROVE  Spec => CadenceSpacing
<1>1. ASSUME Inv, [Next]_vars, NEW t \in Tick, NEW l \in Loop,
             current[t] # l, current'[t] = l
      PROVE  sinceStart[l] >= Cadence[l]
  <2>1. Launch(t, l)
    <3> USE DEF durable, world, locals, ghosts
    <3>1. \A u \in Tick : u = t
      OBVIOUS
    <3>2. ASSUME Begin(t) \/ ReadHistory(t) \/ (\E k \in Loop : Skip(t, k))
                   \/ (\E r \in Result : Returns(t, r))
          PROVE  FALSE
      BY <1>1, <3>2 DEF Begin, ReadHistory, Skip, Returns
    <3>3. ASSUME Raises(t) \/ Crash(t) \/ End(t) \/ Record(t)
          PROVE  FALSE
      BY <1>1, <3>3 DEF Raises, Crash, End, Record, ResetTick, Inv, TypeOK
    <3>4. ASSUME TimePasses \/ (\E k \in Loop : TogglePause(k) \/ Resume(k)) \/ UNCHANGED vars
          PROVE  FALSE
      BY <1>1, <3>4 DEF TimePasses, TogglePause, Resume, vars
    <3>5. ASSUME NEW k \in Loop, Launch(t, k)
          PROVE  k = l
      BY <1>1, <3>5 DEF Launch, Inv, TypeOK
    <3> QED
      BY <1>1, <3>1, <3>2, <3>3, <3>4, <3>5 DEF Next, TickStep
  <2>2. sinceStart[l] >= age[l]
    BY <1>1, <2>1 DEF Launch, Inv, IInv, SpacingOK
  <2>3. /\ sinceStart[l] \in 0 .. AgeCap /\ age[l] \in 0 .. AgeCap
        /\ tickAge[t] \in 0 .. MaxTickAge /\ Cadence[l] \in Nat
    BY <1>1 DEF Inv, TypeOK
  <2>4. Cadence[l] = 0 \/ age[l] = AgeCap \/ age[l] - tickAge[t] >= Cadence[l]
    BY <2>1 DEF Launch, Due
  <2> QED
    BY <2>2, <2>3, <2>4, CadenceFits
<1>2. Inv /\ [Next]_vars =>
        [\A t \in Tick, l \in Loop :
           current[t] # l /\ current'[t] = l => sinceStart[l] >= Cadence[l]]_vars
  BY <1>1
<1> QED
  BY <1>2, SchedulerInductive, PTL DEF Spec, CadenceSpacing

-----------------------------------------------------------------------------
(* One halting tick at a time: anomalies and streaks.                      *)

LEMMA InitOneTick == Init => OneTickInv
<1> SUFFICES ASSUME Init PROVE OneTickInv
  OBVIOUS
<1>1. DetectAnomaly(<<>>) = "none"
  BY DEF DetectAnomaly, IsStall, IsOscillation, STALL_N, OSCILLATION_N
<1>2. HaltOK
  BY <1>1 DEF Init, HaltOK, Busy, Recording
<1>3. StreakOK
  <2>1. \A l \in Loop : Recorded(l) <= 0
    BY DEF Init, Recorded, Recording
  <2> QED
    BY <2>1 DEF Init, StreakOK, EndsWith
<1>4. StallBound
  BY DEF Init, StallBound, STALL_N
<1> QED
  BY <1>2, <1>3, <1>4 DEF OneTickInv

LEMMA EndsWithNone ==
  ASSUME NEW h \in Seq(Result), NEW r, NEW n \in Int, n <= 0
  PROVE  EndsWith(h, r, n)
BY DEF EndsWith

\* Fewer results of the same kind end the history, too.
LEMMA EndsWithFewer ==
  ASSUME NEW h \in Seq(Result), NEW r, NEW n \in Int, NEW m \in Int, m <= n,
         EndsWith(h, r, n)
  PROVE  EndsWith(h, r, m)
BY DEF EndsWith

\* What is counted of a loop, seen from the only tick there is.
LEMMA RecordedIs ==
  ASSUME NEW t \in Tick, \A u \in Tick : u = t, NEW l \in Loop
  PROVE  /\ Recorded(l) = streak[l].len - crashes
                            - IF Recording(t) /\ current[t] = l THEN 1 ELSE 0
         /\ Recorded(l)' = streak'[l].len - crashes'
                             - IF Recording(t)' /\ current'[t] = l THEN 1 ELSE 0
BY DEF Recorded

\* Steps that touch none of what the invariant is about.
LEMMA Elsewhere ==
  ASSUME OneTickInv,
         UNCHANGED <<pc, current, result, read, history, anomaly, streak, crashes>>
  PROVE  OneTickInv'
BY DEF OneTickInv, HaltOK, StreakOK, StallBound, Recorded, Recording

\* Steps of a tick that has nothing to record, before and after.
LEMMA NothingToRecord ==
  ASSUME Inv, OneTickInv, NEW t \in Tick, \A u \in Tick : u = t,
         UNCHANGED <<history, anomaly, streak, crashes>>,
         ~Recording(t), ~Recording(t)',
         pc'[t] = "run" => anomaly[current'[t]] = "none"
  PROVE  OneTickInv'
<1>1. \A l \in Loop : Recorded(l)' = Recorded(l)
  BY RecordedIs
<1>2. StreakOK' /\ StallBound'
  BY <1>1 DEF OneTickInv, StreakOK, StallBound
<1>3. HaltOK'
  BY DEF OneTickInv, HaltOK, Recording, Busy
<1> QED
  BY <1>2, <1>3 DEF OneTickInv

\* A loop that is not halted has recorded at most two failures in a row.
LEMMA RoomForOne ==
  ASSUME Inv, HaltOK, StreakOK, NEW l \in Loop, anomaly[l] = "none"
  PROVE  Recorded(l) \in Int /\ Recorded(l) <= 2
<1>1. /\ history[l] \in Seq(Result) /\ streak[l].len \in Nat /\ crashes \in Nat
      /\ DetectAnomaly(history[l]) = "none"
  BY DEF Inv, TypeOK, HaltOK
<1>2. Recorded(l) \in Int /\ Recorded(l) <= streak[l].len
  BY <1>1 DEF Recorded
<1>3. CASE Recorded(l) >= 3
  <2>1. streak[l].of \in STUCK_RESULTS /\ EndsWith(history[l], streak[l].of, Recorded(l))
    BY <1>1, <1>2, <1>3 DEF StreakOK
  <2>2. PICK n \in Int : n = Recorded(l)
    BY <1>2
  <2>3. DetectAnomaly(history[l]) # "none"
    BY <1>1, <1>3, <2>1, <2>2, StallFound
  <2> QED
    BY <1>1, <2>3
<1> QED
  BY <1>2, <1>3

LEMMA ReturnsOK ==
  ASSUME Inv, OneTickInv, NEW t \in Tick, \A u \in Tick : u = t,
         NEW r \in Result, Returns(t, r)
  PROVE  OneTickInv'
<1> DEFINE l == current[t]
<1>1. /\ l \in Loop /\ pc[t] = "run" /\ pc'[t] = "history" /\ result'[t] = r
      /\ UNCHANGED <<history, anomaly, crashes, current>>
      /\ streak' = [streak EXCEPT ![l] = Extend(streak[l], r)]
      /\ anomaly[l] = "none"
  BY DEF Returns, Inv, IInv, TickOK, Busy, TypeOK, OneTickInv, HaltOK, world
<1>2. /\ streak[l] \in [of : Result \cup {"none"}, len : Nat]
      /\ streak'[l] = Extend(streak[l], r) /\ crashes \in Nat
      /\ \A k \in Loop \ {l} : streak'[k] = streak[k]
  BY <1>1 DEF Inv, TypeOK
<1>3. /\ streak'[l].of = r /\ streak'[l].len \in Nat
      /\ streak'[l].len > 0 => r \in STUCK_RESULTS
      /\ streak[l].of # r => streak'[l].len <= 1
      /\ streak'[l].len <= streak[l].len + 1
  BY <1>2, ExtendFacts
<1>4. /\ Recorded(l) = streak[l].len - crashes
      /\ Recorded(l)' = streak'[l].len - crashes - 1
      /\ \A k \in Loop \ {l} : Recorded(k)' = Recorded(k)
  <2>1. ~Recording(t) /\ Recording(t)'
    BY <1>1 DEF Recording
  <2>2. \A k \in Loop : streak[k].len - crashes \in Int
    BY DEF Inv, TypeOK
  <2> QED
    BY <1>1, <1>2, <1>3, <2>1, <2>2, RecordedIs
<1>5. HaltOK'
  BY <1>1, <1>3 DEF OneTickInv, HaltOK, Busy, Recording
<1>6. StallBound'
  <2>1. streak[l].len - crashes <= 2 /\ streak[l].len \in Nat
    BY <1>1, <1>2, <1>4, RoomForOne DEF OneTickInv
  <2>2. streak'[l].len <= 3 + crashes
    BY <1>2, <1>3, <2>1
  <2> QED
    BY <1>1, <1>2, <2>2 DEF OneTickInv, StallBound, STALL_N
<1>7. EndsWith(history'[l], streak'[l].of, Recorded(l)')
  <2>1. history[l] \in Seq(Result) /\ streak[l].len \in Nat
    BY <1>1, <1>2 DEF Inv, TypeOK
  <2>2. PICK n \in Int, m \in Int : n = Recorded(l) /\ m = Recorded(l)'
    BY <1>2, <1>3, <1>4, <2>1
  <2>3. CASE streak[l].of = r
    <3>1. EndsWith(history[l], r, n)
      BY <1>1, <2>2, <2>3 DEF OneTickInv, StreakOK
    <3>2. m <= n
      BY <1>2, <1>3, <1>4, <2>1, <2>2
    <3> QED
      BY <1>1, <1>3, <2>1, <2>2, <3>1, <3>2, EndsWithFewer
  <2>4. CASE streak[l].of # r
    <3>1. m <= 0
      BY <1>2, <1>3, <1>4, <2>2, <2>4
    <3> QED
      BY <1>1, <1>3, <2>1, <2>2, <3>1, EndsWithNone
  <2> QED
    BY <2>3, <2>4
<1>8. StreakOK'
  BY <1>1, <1>2, <1>3, <1>4, <1>7 DEF OneTickInv, StreakOK
<1> QED
  BY <1>5, <1>6, <1>8 DEF OneTickInv

LEMMA RecordOK ==
  ASSUME Inv, OneTickInv, NEW t \in Tick, \A u \in Tick : u = t, Record(t)
  PROVE  OneTickInv'
<1> DEFINE h == Push(read[t], result[t])
<1>0. PICK l \in Loop : l = current[t]
  BY DEF Record, Inv, IInv, TickOK, Busy
<1>1. /\ l = current[t] /\ pc[t] = "record" /\ pc'[t] = "consider"
      /\ result[t] \in Result /\ streak[l].of = result[t]
      /\ read[t] = history[l] /\ UNCHANGED <<streak, crashes>>
  BY <1>0 DEF Record, Inv, IInv, TickOK, Busy, TypeOK, OneTickInv, HaltOK, Recording, world, ghosts
<1>2. /\ history'[l] = h /\ anomaly'[l] = DetectAnomaly(h)
      /\ \A k \in Loop \ {l} : history'[k] = history[k] /\ anomaly'[k] = anomaly[k]
  BY <1>1 DEF Record, Inv, TypeOK
<1>3. HaltOK'
  BY <1>1, <1>2 DEF OneTickInv, HaltOK, Busy, Recording
<1>4. /\ streak[l].len \in Nat /\ crashes \in Nat /\ streak[l].len <= 3 + crashes
      /\ history[l] \in Seq(Result) /\ Len(history[l]) <= AnomalyHistory
  BY <1>1 DEF Inv, TypeOK, OneTickInv, StallBound, STALL_N
<1>5. /\ Recorded(l) = streak[l].len - crashes - 1
      /\ Recorded(l)' = streak[l].len - crashes
      /\ \A k \in Loop \ {l} : Recorded(k)' = Recorded(k)
  <2>1. Recording(t) /\ ~Recording(t)'
    BY <1>1 DEF Recording
  <2>2. \A k \in Loop : streak[k].len - crashes \in Int
    BY DEF Inv, TypeOK
  <2>3. \A k \in Loop :
          /\ Recorded(k) = streak[k].len - crashes - IF l = k THEN 1 ELSE 0
          /\ Recorded(k)' = streak[k].len - crashes - 0
    BY <1>1, <2>1, RecordedIs
  <2> QED
    BY <1>1, <2>2, <2>3
<1>6. EndsWith(history'[l], streak'[l].of, Recorded(l)')
  <2>1. PICK n \in Int : n = streak[l].len - crashes - 1
    BY <1>4
  <2>2. EndsWith(history[l], result[t], n) /\ n < 4
    BY <1>1, <1>4, <1>5, <2>1 DEF OneTickInv, StreakOK
  <2>3. EndsWith(h, result[t], n + 1)
    BY <1>1, <1>4, <2>2, PushFacts
  <2>4. Recorded(l)' = n + 1
    BY <1>4, <1>5, <2>1
  <2> QED
    BY <1>1, <1>2, <2>3, <2>4
<1>7. StreakOK'
  <2>1. ASSUME NEW k \in Loop, k # l
        PROVE  EndsWith(history'[k], streak'[k].of, Recorded(k)')
    BY <1>1, <1>2, <1>5, <2>1 DEF OneTickInv, StreakOK
  <2>2. \A k \in Loop : streak'[k].len > 0 => streak'[k].of \in STUCK_RESULTS
    BY <1>1 DEF OneTickInv, StreakOK
  <2> QED
    BY <1>6, <2>1, <2>2 DEF StreakOK
<1>8. StallBound'
  BY <1>1 DEF OneTickInv, StallBound
<1> QED
  BY <1>3, <1>7, <1>8 DEF OneTickInv

\* A kill loses at most the one result that was being recorded.
LEMMA CrashOK ==
  ASSUME Inv, OneTickInv, NEW t \in Tick, \A u \in Tick : u = t, Crash(t)
  PROVE  OneTickInv'
<1>1. /\ pc'[t] = "idle" /\ crashes' = crashes + 1 /\ crashes \in Nat
      /\ UNCHANGED <<history, anomaly, streak>>
  BY ResetFacts DEF Crash, Inv, TypeOK, durable
<1>2. \A l \in Loop : /\ streak[l].len \in Nat /\ history[l] \in Seq(Result)
                      /\ Recorded(l) \in Int /\ Recorded(l)' \in Int
                      /\ Recorded(l)' <= Recorded(l)
  <2>1. TAKE l \in Loop
  <2>2. streak[l].len \in Nat /\ history[l] \in Seq(Result)
    BY DEF Inv, TypeOK
  <2>3. /\ Recorded(l) \in {streak[l].len - crashes, streak[l].len - crashes - 1}
        /\ Recorded(l)' = streak[l].len - (crashes + 1)
    <3>1. ~Recording(t)'
      BY <1>1 DEF Recording
    <3>2. streak[l].len - crashes \in Int /\ streak[l].len - (crashes + 1) \in Int
      BY <1>1, <2>2
    <3> QED
      BY <1>1, <3>1, <3>2, RecordedIs
  <2> QED
    BY <1>1, <2>2, <2>3
<1>3. StreakOK'
  <2>1. SUFFICES ASSUME NEW l \in Loop
                 PROVE  EndsWith(history'[l], streak'[l].of, Recorded(l)')
    BY <1>1 DEF OneTickInv, StreakOK
  <2>2. PICK n \in Int, m \in Int : n = Recorded(l) /\ m = Recorded(l)' /\ m <= n
    BY <1>2
  <2>3. EndsWith(history[l], streak[l].of, n)
    BY <2>2 DEF OneTickInv, StreakOK
  <2> QED
    BY <1>1, <1>2, <2>2, <2>3, EndsWithFewer
<1>4. HaltOK'
  BY <1>1 DEF OneTickInv, HaltOK, Busy, Recording
<1>5. StallBound'
  BY <1>1, <1>2 DEF OneTickInv, StallBound, STALL_N
<1> QED
  BY <1>3, <1>4, <1>5 DEF OneTickInv

LEMMA ResumeOK ==
  ASSUME Inv, OneTickInv, \A s, t \in Tick : s = t, NEW l \in Loop, Resume(l)
  PROVE  OneTickInv'
<1>1. /\ anomaly[l] # "none" /\ history'[l] = <<>> /\ anomaly'[l] = "none"
      /\ streak'[l] = [of |-> "none", len |-> 0]
      /\ \A k \in Loop \ {l} : /\ history'[k] = history[k] /\ anomaly'[k] = anomaly[k]
                               /\ streak'[k] = streak[k]
      /\ UNCHANGED <<pc, current, result, read, crashes>>
  BY DEF Resume, Inv, TypeOK, world, locals
<1>2. \A t \in Tick : pc[t] \in Busy => current[t] \in Loop \ {l}
  BY <1>1 DEF Inv, IInv, TickOK, OneTickInv, HaltOK
<1>3. HaltOK'
  <2>1. DetectAnomaly(<<>>) = "none"
    BY DEF DetectAnomaly, IsStall, IsOscillation, STALL_N, OSCILLATION_N
  <2> QED
    BY <1>1, <1>2, <2>1 DEF OneTickInv, HaltOK, Recording, Busy
<1>4. StallBound'
  <2>1. crashes \in Nat
    BY DEF Inv, TypeOK
  <2> QED
    BY <1>1, <2>1 DEF OneTickInv, StallBound, STALL_N
<1>5. StreakOK'
  <2>1. Recorded(l)' \in Int /\ Recorded(l)' <= 0
    BY <1>1 DEF Recorded, Inv, TypeOK
  <2>2. EndsWith(<<>>, "none", Recorded(l)')
    BY <2>1 DEF EndsWith
  <2>3. \A k \in Loop \ {l} : Recorded(k)' = Recorded(k)
    BY <1>1 DEF Recorded, Recording
  <2> QED
    BY <1>1, <2>2, <2>3 DEF OneTickInv, StreakOK
<1> QED
  BY <1>3, <1>4, <1>5 DEF OneTickInv

LEMMA OneTickStep ==
  ASSUME Inv, OneTickInv, [Next]_vars, HaltOnAnomaly, \A s, t \in Tick : s = t
  PROVE  OneTickInv'
<1> USE DEF durable, world, locals, ghosts
<1>1. ASSUME NEW t \in Tick,
             Begin(t) \/ Raises(t) \/ End(t) \/ (\E l \in Loop : Skip(t, l) \/ Launch(t, l))
      PROVE  OneTickInv'
  <2>1. ~Recording(t) /\ UNCHANGED <<history, anomaly, streak, crashes>>
    BY <1>1 DEF Begin, Raises, End, Skip, Launch, Recording
  <2>2. \/ pc'[t] \in {"idle", "consider"}
        \/ pc'[t] = "run" /\ anomaly[current'[t]] = "none"
    <3>1. CASE Begin(t) \/ \E l \in Loop : Skip(t, l)
      BY <3>1 DEF Begin, Skip, Inv, TypeOK
    <3>2. CASE Raises(t) \/ End(t)
      BY <3>2, ResetFacts DEF Raises, End, Inv
    <3>3. ASSUME NEW l \in Loop, Launch(t, l)
          PROVE  pc'[t] = "run" /\ anomaly[current'[t]] = "none"
      BY <3>3 DEF Launch, Halted, Inv, TypeOK
    <3> QED
      BY <1>1, <3>1, <3>2, <3>3
  <2> QED
    BY <2>1, <2>2, NothingToRecord DEF Recording
<1>2. ASSUME NEW t \in Tick, NEW r \in Result, Returns(t, r) PROVE OneTickInv'
  BY <1>2, ReturnsOK
<1>3. ASSUME NEW t \in Tick, ReadHistory(t) PROVE OneTickInv'
  <2>1. /\ pc[t] = "history" /\ pc'[t] = "record" /\ read'[t] = history[current[t]]
        /\ UNCHANGED <<current, result, history, anomaly, streak, crashes>>
    BY <1>3 DEF ReadHistory, Inv, TypeOK
  <2>2. \A l \in Loop : Recorded(l)' = Recorded(l)
    BY <2>1, RecordedIs DEF Recording
  <2>3. HaltOK'
    BY <2>1 DEF OneTickInv, HaltOK, Recording, Busy
  <2> QED
    BY <2>1, <2>2, <2>3 DEF OneTickInv, StreakOK, StallBound
<1>4. ASSUME NEW t \in Tick, Record(t) PROVE OneTickInv'
  BY <1>4, RecordOK
<1>5. ASSUME NEW t \in Tick, Crash(t) PROVE OneTickInv'
  BY <1>5, CrashOK
<1>6. ASSUME NEW l \in Loop, Resume(l) PROVE OneTickInv'
  BY <1>6, ResumeOK
<1>7. CASE TimePasses \/ (\E l \in Loop : TogglePause(l)) \/ UNCHANGED vars
  BY <1>7, Elsewhere DEF TimePasses, TogglePause, vars
<1> QED
  BY <1>1, <1>2, <1>3, <1>4, <1>5, <1>6, <1>7 DEF Next, TickStep

\* While the scheduler halts and runs one tick at a time, its flags, histories
\* and streaks agree: what StallBound and OnlyAPersonResumes rest on.
THEOREM SchedulerOneTick ==
  ASSUME HaltOnAnomaly, \A s, t \in Tick : s = t
  PROVE  Spec => []OneTickInv
<1>1. Inv /\ OneTickInv /\ [Next]_vars => OneTickInv'
  BY OneTickStep
<1> QED
  BY InitOneTick, <1>1, SchedulerInductive, PTL DEF Spec

\* For any number of loops, any results and any number of kills, no loop
\* returns one failure more often in a row than three times and once per kill.
THEOREM SchedulerStallBound ==
  ASSUME HaltOnAnomaly, \A s, t \in Tick : s = t
  PROVE  Spec => []StallBound
<1>1. OneTickInv => StallBound
  BY DEF OneTickInv
<1> QED
  BY <1>1, SchedulerOneTick, PTL

\* And no recorded result clears a flag: only a person does.
THEOREM SchedulerOnlyAPersonResumes ==
  ASSUME HaltOnAnomaly, \A s, t \in Tick : s = t
  PROVE  Spec => OnlyAPersonResumes
<1>1. ASSUME Inv, OneTickInv, [Next]_vars, NEW l \in Loop, anomaly[l] # "none"
      PROVE  anomaly'[l] # "none" \/ history'[l] = <<>>
  <2> USE DEF durable, world, locals, ghosts
  <2>1. ASSUME NEW t \in Tick, Record(t) PROVE anomaly'[l] = anomaly[l]
    BY <1>1, <2>1 DEF Record, Busy, OneTickInv, HaltOK, Inv, TypeOK
  <2>2. ASSUME NEW k \in Loop, Resume(k)
        PROVE  history'[l] = <<>> \/ anomaly'[l] = anomaly[l]
    BY <1>1, <2>2 DEF Resume, Inv, TypeOK
  <2>3. ASSUME NEW t \in Tick,
               \/ Begin(t) \/ Raises(t) \/ ReadHistory(t) \/ End(t) \/ Crash(t)
               \/ \E k \in Loop : Skip(t, k) \/ Launch(t, k)
               \/ \E r \in Result : Returns(t, r)
        PROVE  anomaly' = anomaly
    BY <2>3 DEF Begin, Raises, ReadHistory, End, Crash, Skip, Launch, Returns
  <2>4. CASE TimePasses \/ (\E k \in Loop : TogglePause(k)) \/ UNCHANGED vars
    BY <1>1, <2>4 DEF TimePasses, TogglePause, vars
  <2> QED
    BY <1>1, <2>1, <2>2, <2>3, <2>4 DEF Next, TickStep
<1>2. Inv /\ OneTickInv /\ [Next]_vars =>
        [\A l \in Loop :
           anomaly[l] # "none" => anomaly'[l] # "none" \/ history'[l] = <<>>]_vars
  BY <1>1
<1> QED
  BY <1>2, SchedulerInductive, SchedulerOneTick, PTL DEF Spec, OnlyAPersonResumes
=============================================================================
