------------------------------ MODULE Scheduler ------------------------------
(***************************************************************************)
(* The multi-loop scheduler, loopengine/scheduler.py: run_once over a set  *)
(* of loop specs, the cadence test, the collision and anomaly guards and   *)
(* the bookkeeping in the "<id>::sched" sections, together with the        *)
(* `loopengine schedule` command that invokes one tick per process.        *)
(*                                                                         *)
(* What a loop's own run does is abstracted to the result it returns, or   *)
(* to the exception it raises; Triage and AssistedFix model the runs.      *)
(* Time is the age of each loop's last_run stamp, so the model runs for    *)
(* ever; a tick keeps the `now` it was given when it began.                *)
(***************************************************************************)
EXTENDS Integers, Sequences, FiniteSets

CONSTANTS
  Loop,            \* the loops of the specs directory
  Priority,        \* spec.priority of each loop, smaller first
  Position,        \* order of the spec files, which breaks ties
  Cadence,         \* spec.cadence of each loop, 0 when it has none
  Target,          \* spec.target.repo of each loop
  Writers,         \* loops whose kind is in WRITING_KINDS
  Outcome,         \* the results each loop's runner may return
  Raising,         \* loops whose runner may raise instead of returning
  Pausable,        \* bound: loops whose spec a person may pause
  Tick,            \* processes running `loopengine schedule`
  HaltOnAnomaly,   \* Scheduler(halt_on_anomaly=...)
  AnomalyHistory,  \* ANOMALY_HISTORY, 8 in the code
  MaxTickAge,      \* bound: time that passes while a tick runs
  MaxCrashes,      \* bound: ticks killed half-way
  AgeCap,          \* ages saturate here
  None             \* "no loop"

Result == {"clean", "found", "proposed", "merged", "error", "escalated"}
STUCK_RESULTS == {"error", "escalated"}
STALL_N == 3
OSCILLATION_N == 4

ASSUME LoopAssumption ==
  /\ IsFiniteSet(Loop)
  /\ Priority \in [Loop -> Nat] /\ Position \in [Loop -> Nat]
  /\ Cadence \in [Loop -> Nat] /\ Outcome \in [Loop -> SUBSET Result]
  /\ Writers \subseteq Loop /\ Raising \subseteq Loop
  /\ Pausable \subseteq Loop
  /\ None \notin Loop
  /\ \A l, m \in Loop : Position[l] = Position[m] => l = m
ASSUME HistoryAssumption == AnomalyHistory \in Nat /\ AnomalyHistory >= OSCILLATION_N
ASSUME BoundsAssumption ==
  /\ MaxTickAge \in Nat /\ MaxCrashes \in Nat /\ AgeCap \in Nat
  /\ HaltOnAnomaly \in BOOLEAN
  /\ \A l \in Loop : Cadence[l] + MaxTickAge <= AgeCap

VARIABLES
  (* durable state *)
  age,        \* time since the loop's last_run stamp, AgeCap if none or longer
  history,    \* history[l], most recent last
  anomaly,    \* anomaly[l]: "none", "stall" or "oscillation"
  (* the world *)
  paused,     \* loops whose spec file says paused
  crashes,
  (* locals of each tick *)
  pc, left, off, tickAge, claimed, current, result, read,
  (* history variables *)
  streak,     \* length of the run of equal failing results since a person
              \* last resumed the loop, and that result
  sinceStart, \* time since the loop's last run began, AgeCap if it was cut short
  wrote       \* writers a tick has started

durable == <<age, history, anomaly>>
world == <<paused, crashes>>
locals == <<pc, left, off, tickAge, claimed, current, result, read>>
ghosts == <<streak, sinceStart, wrote>>
vars == <<durable, world, locals, ghosts>>

-----------------------------------------------------------------------------
(* Pure parts.                                                             *)

\* sorted(specs, key=priority): a stable sort
Before(l, m) ==
  \/ Priority[l] < Priority[m]
  \/ Priority[l] = Priority[m] /\ Position[l] <= Position[m]

\* Mutant: the age is judged by the clock, with the tick's delay added.
DueEarly(t, l) ==
  Cadence[l] = 0 \/ age[l] = AgeCap \/ age[l] + tickAge[t] >= Cadence[l]

\* Mutant: a loop without a stamp is not due.
DueOnlyIfStamped(t, l) ==
  Cadence[l] = 0 \/ (age[l] # AgeCap /\ age[l] - tickAge[t] >= Cadence[l])

\* _due: no cadence, never run, or now - last_run >= cadence.  `now` is when
\* the tick began, so it may precede the stamp.
Due(t, l) ==
  Cadence[l] = 0 \/ age[l] = AgeCap \/ age[l] - tickAge[t] >= Cadence[l]

LastN(s, n) == SubSeq(s, Len(s) - n + 1, Len(s))

\* Mutant: a stall takes one result more.
IsStallOffByOne(results) ==
  /\ Len(results) >= STALL_N + 1
  /\ \E r \in STUCK_RESULTS :
       \A i \in 1 .. STALL_N + 1 : LastN(results, STALL_N + 1)[i] = r

IsStall(results) ==
  /\ Len(results) >= STALL_N
  /\ \E r \in STUCK_RESULTS :
       \A i \in 1 .. STALL_N : LastN(results, STALL_N)[i] = r

IsOscillation(results) ==
  /\ Len(results) >= OSCILLATION_N
  /\ LET tail == LastN(results, OSCILLATION_N)
     IN  /\ tail[1] # tail[2]
         /\ \A i \in 3 .. OSCILLATION_N : tail[i] = tail[i - 2]

DetectAnomaly(results) ==
  IF IsStall(results) THEN "stall"
  ELSE IF IsOscillation(results) THEN "oscillation"
  ELSE "none"

\* Mutant: the history is never cut.
PushUncut(h, r) == Append(h, r)

\* history.append(result); history[-ANOMALY_HISTORY:]
Push(h, r) ==
  LET longer == Append(h, r)
  IN  IF Len(longer) > AnomalyHistory
      THEN LastN(longer, AnomalyHistory) ELSE longer

\* Mutant: the collision guard forgets the claims of loops that already ran.
CollidesNow(t, l) == l \in Writers /\ \E m \in {current[t]} \cap Writers : Target[m] = Target[l]

Collides(t, l) == l \in Writers /\ Target[l] \in claimed[t]

\* Mutant: only a stall halts a loop.
HaltedByStall(l) == HaltOnAnomaly /\ anomaly[l] = "stall"

Halted(l) == HaltOnAnomaly /\ anomaly[l] # "none"

-----------------------------------------------------------------------------
ResetTick(t) ==
  /\ pc' = [pc EXCEPT ![t] = "idle"]
  /\ left' = [left EXCEPT ![t] = {}]
  /\ off' = [off EXCEPT ![t] = {}]
  /\ tickAge' = [tickAge EXCEPT ![t] = 0]
  /\ claimed' = [claimed EXCEPT ![t] = {}]
  /\ current' = [current EXCEPT ![t] = None]
  /\ result' = [result EXCEPT ![t] = "none"]
  /\ read' = [read EXCEPT ![t] = <<>>]
  /\ wrote' = [wrote EXCEPT ![t] = {}]

Init ==
  /\ age = [l \in Loop |-> AgeCap]
  /\ history = [l \in Loop |-> <<>>]
  /\ anomaly = [l \in Loop |-> "none"]
  /\ paused = {} /\ crashes = 0
  /\ pc = [t \in Tick |-> "idle"]
  /\ left = [t \in Tick |-> {}]
  /\ off = [t \in Tick |-> {}]
  /\ tickAge = [t \in Tick |-> 0]
  /\ claimed = [t \in Tick |-> {}]
  /\ current = [t \in Tick |-> None]
  /\ result = [t \in Tick |-> "none"]
  /\ read = [t \in Tick |-> <<>>]
  /\ streak = [l \in Loop |-> [of |-> "none", len |-> 0]]
  /\ sinceStart = [l \in Loop |-> AgeCap]
  /\ wrote = [t \in Tick |-> {}]

\* cmd_schedule loads every spec, takes the time and calls run_once.
Begin(t) ==
  /\ pc[t] = "idle"
  /\ pc' = [pc EXCEPT ![t] = "consider"]
  /\ left' = [left EXCEPT ![t] = Loop]
  /\ off' = [off EXCEPT ![t] = paused]
  /\ UNCHANGED <<durable, world, tickAge, claimed, current, result, read, ghosts>>

Upcoming(t, l) == l \in left[t] /\ \A m \in left[t] : Before(l, m)

\* paused, halted, not due, or its target already claimed: the loop is noted
\* in the summary and skipped.
Skip(t, l) ==
  /\ pc[t] = "consider" /\ Upcoming(t, l)
  /\ \/ l \in off[t]
     \/ Halted(l)
     \/ ~Due(t, l)
     \/ Collides(t, l)
  /\ left' = [left EXCEPT ![t] = @ \ {l}]
  /\ UNCHANGED <<durable, world, pc, off, tickAge, claimed, current, result, read, ghosts>>

\* Otherwise a writer claims its target and the runner is called.
Launch(t, l) ==
  /\ pc[t] = "consider" /\ Upcoming(t, l)
  /\ l \notin off[t] /\ ~Halted(l) /\ Due(t, l) /\ ~Collides(t, l)
  /\ pc' = [pc EXCEPT ![t] = "run"]
  /\ left' = [left EXCEPT ![t] = @ \ {l}]
  /\ current' = [current EXCEPT ![t] = l]
  /\ claimed' = [claimed EXCEPT ![t] = IF l \in Writers THEN @ \cup {Target[l]} ELSE @]
  /\ sinceStart' = [sinceStart EXCEPT ![l] = 0]
  /\ wrote' = [wrote EXCEPT ![t] = IF l \in Writers THEN @ \cup {l} ELSE @]
  /\ UNCHANGED <<durable, world, off, tickAge, result, read, streak>>

Extend(s, r) ==
  IF r \notin STUCK_RESULTS THEN [of |-> r, len |-> 0]
  ELSE IF s.of # r THEN [of |-> r, len |-> 1]
  ELSE [s EXCEPT !.len = IF @ > STALL_N + MaxCrashes THEN @ ELSE @ + 1]

\* The runner returns: its loop stamped last_run as it finished.
Returns(t, r) ==
  LET l == current[t]
  IN  /\ pc[t] = "run"
      /\ r \in Outcome[l]
      /\ pc' = [pc EXCEPT ![t] = "history"]
      /\ result' = [result EXCEPT ![t] = r]
      /\ age' = [age EXCEPT ![l] = 0]
      /\ streak' = [streak EXCEPT ![l] = Extend(@, r)]
      /\ UNCHANGED <<history, anomaly, world, left, off, tickAge, claimed,
                     current, read, sinceStart, wrote>>

\* A run cut short leaves no stamp: the loop stays due.
Abandon(t) ==
  sinceStart' = IF pc[t] = "run" THEN [sinceStart EXCEPT ![current[t]] = AgeCap]
                ELSE sinceStart

\* The runner raises: nothing in run_once catches it and the process exits.
Raises(t) ==
  /\ pc[t] = "run"
  /\ current[t] \in Raising
  /\ ResetTick(t)
  /\ Abandon(t)
  /\ UNCHANGED <<durable, world, streak>>

\* _record_result reads the sibling section ...
ReadHistory(t) ==
  /\ pc[t] = "history"
  /\ read' = [read EXCEPT ![t] = history[current[t]]]
  /\ pc' = [pc EXCEPT ![t] = "record"]
  /\ UNCHANGED <<durable, world, left, off, tickAge, claimed, current, result, ghosts>>

\* ... and writes it back with the result and the verdict on the history.
Record(t) ==
  LET l == current[t]
      h == Push(read[t], result[t])
  IN  /\ pc[t] = "record"
      /\ history' = [history EXCEPT ![l] = h]
      /\ anomaly' = [anomaly EXCEPT ![l] = DetectAnomaly(h)]
      /\ pc' = [pc EXCEPT ![t] = "consider"]
      /\ current' = [current EXCEPT ![t] = None]
      /\ result' = [result EXCEPT ![t] = "none"]
      /\ read' = [read EXCEPT ![t] = <<>>]
      /\ UNCHANGED <<age, world, left, off, tickAge, claimed, ghosts>>

End(t) ==
  /\ pc[t] = "consider" /\ left[t] = {}
  /\ ResetTick(t)
  /\ UNCHANGED <<durable, world, streak, sinceStart>>

TickStep(t) ==
  \/ Begin(t)
  \/ \E l \in Loop : Skip(t, l) \/ Launch(t, l)
  \/ \E r \in Result : Returns(t, r)
  \/ Raises(t) \/ ReadHistory(t) \/ Record(t) \/ End(t)

-----------------------------------------------------------------------------
Crash(t) ==
  /\ pc[t] # "idle"
  /\ crashes < MaxCrashes
  /\ crashes' = crashes + 1
  /\ ResetTick(t)
  /\ Abandon(t)
  /\ UNCHANGED <<durable, paused, streak>>

Older(n) == IF n < AgeCap THEN n + 1 ELSE n

TimePasses ==
  /\ \A t \in Tick : pc[t] # "idle" => tickAge[t] < MaxTickAge
  /\ tickAge' = [t \in Tick |-> IF pc[t] = "idle" THEN 0 ELSE tickAge[t] + 1]
  /\ age' = [l \in Loop |-> Older(age[l])]
  /\ sinceStart' = [l \in Loop |-> Older(sinceStart[l])]
  /\ UNCHANGED <<history, anomaly, world, pc, left, off, claimed, current,
                 result, read, streak, wrote>>

TogglePause(l) ==
  /\ l \in Pausable
  /\ paused' = IF l \in paused THEN paused \ {l} ELSE paused \cup {l}
  /\ UNCHANGED <<durable, crashes, locals, ghosts>>

\* "clear the section to resume" (docs/conventions/STATE.md)
Resume(l) ==
  /\ anomaly[l] # "none"
  /\ anomaly' = [anomaly EXCEPT ![l] = "none"]
  /\ history' = [history EXCEPT ![l] = <<>>]
  /\ streak' = [streak EXCEPT ![l] = [of |-> "none", len |-> 0]]
  /\ UNCHANGED <<age, world, locals, sinceStart, wrote>>

Next ==
  \/ \E t \in Tick : TickStep(t) \/ Crash(t)
  \/ TimePasses
  \/ \E l \in Loop : TogglePause(l) \/ Resume(l)

Spec == Init /\ [][Next]_vars

\* The trigger keeps invoking the scheduler, a tick keeps executing and time
\* passes.  Nothing is asked of people or crashes.
FairSpec ==
  Spec /\ WF_vars(TimePasses) /\ \A t \in Tick : WF_vars(TickStep(t))

-----------------------------------------------------------------------------
TypeOK ==
  /\ age \in [Loop -> 0 .. AgeCap]
  /\ history \in [Loop -> Seq(Result)]
  /\ \A l \in Loop : Len(history[l]) <= AnomalyHistory
  /\ anomaly \in [Loop -> {"none", "stall", "oscillation"}]
  /\ paused \subseteq Loop
  /\ crashes \in 0 .. MaxCrashes
  /\ pc \in [Tick -> {"idle", "consider", "run", "history", "record"}]
  /\ left \in [Tick -> SUBSET Loop] /\ off \in [Tick -> SUBSET Loop]
  /\ tickAge \in [Tick -> 0 .. MaxTickAge]
  /\ claimed \in [Tick -> SUBSET {Target[l] : l \in Loop}]
  /\ current \in [Tick -> Loop \cup {None}]
  /\ result \in [Tick -> Result \cup {"none"}]
  /\ read \in [Tick -> Seq(Result)]
  /\ \A t \in Tick : Len(read[t]) <= AnomalyHistory
  /\ sinceStart \in [Loop -> 0 .. AgeCap]
  /\ wrote \in [Tick -> SUBSET Writers]
  /\ streak \in [Loop -> [of : Result \cup {"none"}, len : Nat]]

\* No blind retries: one tick at a time, no loop returns the same failure more
\* than three times before a person resumes it, except for results a killed
\* tick never recorded.
StallBound == \A l \in Loop : streak[l].len <= STALL_N + crashes

\* A flagged loop stays flagged until a person clears it: no recorded result
\* talks the scheduler out of a halt.
OnlyAPersonResumes ==
  [][\A l \in Loop :
        anomaly[l] # "none" => anomaly'[l] # "none" \/ history'[l] = <<>>]_vars

\* After a run that was not cut short the next one of that loop begins at least
\* a cadence later, however late in a long tick the first was reached and
\* whatever `now` the second was judged by.
CadenceSpacing ==
  [][\A t \in Tick, l \in Loop :
        current[t] # l /\ current'[t] = l => sinceStart[l] >= Cadence[l]]_vars

\* In one tick no target is handed to two writers, even when the first has
\* long finished or failed.
OneWriterPerTarget ==
  \A t \in Tick : \A l, m \in wrote[t] : Target[l] = Target[m] => l = m

(* The strengthenings every step preserves.                                *)

Busy == {"run", "history", "record"}

TickOK(t) ==
  /\ pc[t] \in Busy => current[t] \in Loop
  /\ pc[t] \in {"history", "record"} => result[t] \in Result
  /\ \A l \in wrote[t] : Target[l] \in claimed[t]

\* A stamp is no older than the start of the run it belongs to.
SpacingOK ==
  \A l \in Loop : \/ sinceStart[l] >= age[l]
                  \/ \E t \in Tick : pc[t] = "run" /\ current[t] = l

IInv == OneWriterPerTarget /\ SpacingOK /\ \A t \in Tick : TickOK(t)

(* And those that hold of one halting tick at a time.                      *)

Recording(t) == pc[t] \in {"history", "record"}

HaltOK ==
  /\ \A l \in Loop : anomaly[l] = DetectAnomaly(history[l])
  /\ \A t \in Tick :
       /\ pc[t] \in Busy => anomaly[current[t]] = "none"
       /\ pc[t] = "record" => read[t] = history[current[t]]
       /\ Recording(t) => streak[current[t]].of = result[t]

\* The results of l that reached its history: not the one being recorded, nor
\* those of killed ticks.
Recorded(l) ==
  streak[l].len - crashes
    - IF \E t \in Tick : Recording(t) /\ current[t] = l THEN 1 ELSE 0

EndsWith(h, r, n) ==
  n <= Len(h) /\ \A i \in 1 .. Len(h) : i > Len(h) - n => h[i] = r

StreakOK ==
  \A l \in Loop :
    /\ streak[l].len > 0 => streak[l].of \in STUCK_RESULTS
    /\ EndsWith(history[l], streak[l].of, Recorded(l))

OneTickInv == HaltOK /\ StreakOK /\ StallBound

\* A tick that is not killed considers every loop ("Run every due loop once").
TickVisitsAll ==
  [][\A t \in Tick :
        pc[t] # "idle" /\ pc'[t] = "idle" /\ crashes' = crashes
          => left[t] = {}]_vars

\* Provided runners do not keep raising before a tick reaches its end, every
\* loop that falls due is run, or a person paused it, or it is halted, or
\* another writer has its target.
EveryDueLoopRuns ==
  ([]<>(\E t \in Tick : pc[t] = "consider" /\ left[t] = {}))
    => \A l \in Loop :
         age[l] >= Cadence[l] /\ age[l] > 0
           ~> \/ age[l] = 0 \/ l \in paused \/ anomaly[l] # "none"
              \/ \E m \in Writers \ {l} : Target[m] = Target[l] /\ age[m] = 0
=============================================================================
