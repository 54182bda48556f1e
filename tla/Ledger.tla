-------------------------------- MODULE Ledger --------------------------------
(***************************************************************************)
(* The two budget ledgers side by side: the Python one the runtime uses    *)
(* (loopengine/budget.py) and the Rust one that "owns the authoritative    *)
(* cap semantics" (crates/loopguard/src/budget.rs).  Every call is made to *)
(* both.  Python's integers grow; Rust's token counter is a u64, its       *)
(* iteration counter a u32, and a sum that does not fit wraps in a release *)
(* build and panics in a debug build.  Python reads a clock of its own, in *)
(* fractions of a second; Rust is told a whole number of seconds.          *)
(***************************************************************************)
EXTENDS Naturals

CONSTANTS
  TokenLimit,  \* 2^64: the values of a u64 are below it
  IterLimit,   \* 2^32
  Caps,        \* values a spec may give to max_tokens and max_iterations
  ClockCaps,   \* values it may give to wall_clock_secs
  Uncapped,    \* None
  MaxRequest,  \* bound: tokens asked for at a time
  MaxSpent,    \* bound: tokens granted
  MaxTicks,    \* bound: iterations granted
  Second,      \* the clock's readings are this many to a second
  MaxElapsed   \* bound: readings of the clock

ASSUME LedgerAssumption ==
  /\ TokenLimit \in Nat \ {0} /\ IterLimit \in Nat \ {0}
  /\ Caps \subseteq Nat /\ ClockCaps \subseteq Nat /\ Uncapped \notin Nat
  /\ MaxRequest \in Nat \ {0} /\ MaxRequest < TokenLimit /\ IterLimit > 1
  /\ MaxSpent \in Nat /\ MaxTicks \in Nat
  /\ Second \in Nat \ {0} /\ MaxElapsed \in Nat

Cap == Caps \cup {Uncapped}
ClockCap == ClockCaps \cup {Uncapped}
Build == {"release", "debug"}
Answer == {"ok", "refused", "panic"}

VARIABLES
  maxTokens, maxIterations, wallClock, build,  \* fixed when the run starts
  pyTokens, pyIterations,
  rsTokens, rsIterations,
  elapsed,              \* time since the start, in readings of the clock
  call, asked,          \* the last call, and the time at which it was made
  pyAnswer, rsAnswer,   \* what it returned
  granted, ticked       \* history: tokens and ticks Rust has let through

config == <<maxTokens, maxIterations, wallClock, build>>
py == <<pyTokens, pyIterations>>
rs == <<rsTokens, rsIterations>>
history == <<granted, ticked>>
vars == <<config, py, rs, elapsed, call, asked, pyAnswer, rsAnswer, history>>

-----------------------------------------------------------------------------
\* a + b in an unsigned type with this many values
Wrapped(a, b, limit) == (a + b) % limit
Overflows(a, b, limit) == a + b >= limit

\* self.tokens_spent + tokens > self.budget.max_tokens, and the same for ticks
PyRefuses(now, more, cap) == cap # Uncapped /\ now + more > cap

\* Mutant: the ceiling is checked before the request is added.
RsRefusesLate(now, more, cap, limit) == cap # Uncapped /\ now > cap

\* the same comparison, on the sum the machine computes
RsRefuses(now, more, cap, limit) == cap # Uncapped /\ Wrapped(now, more, limit) > cap

\* Refused calls record nothing.
After(answer, now, more, limit) ==
  IF answer = "ok" THEN Wrapped(now, more, limit) ELSE now

PyCall(now, more, cap) == IF PyRefuses(now, more, cap) THEN "refused" ELSE "ok"

\* A sum that overflows is computed on both branches: to compare it with a cap,
\* or to store it.
RsCall(now, more, cap, limit) ==
  IF build = "debug" /\ Overflows(now, more, limit) THEN "panic"
  ELSE IF RsRefuses(now, more, cap, limit) THEN "refused" ELSE "ok"

\* time.monotonic() - self._start > self.budget.wall_clock_secs
PyClockRefuses(time) == wallClock # Uncapped /\ time > wallClock * Second

\* elapsed_secs: u64 is what a caller makes of the time, who drops a fraction of a
\* second or counts it as one.
WholeSeconds(time) ==
  {time \div Second} \cup (IF time % Second = 0 THEN {} ELSE {time \div Second + 1})

\* Mutant: the last second counts as over when it begins.
RsClockRefusesEarly(secs) == wallClock # Uncapped /\ secs >= wallClock

\* elapsed_secs > limit
RsClockRefuses(secs) == wallClock # Uncapped /\ secs > wallClock

\* Ledger.exhausted: some axis is used up.
Exhausted(secs) ==
  \/ maxIterations = rsIterations
  \/ maxTokens # Uncapped /\ rsTokens >= maxTokens
  \/ RsClockRefuses(secs)

-----------------------------------------------------------------------------
Init ==
  /\ maxTokens \in Cap /\ maxIterations \in Cap /\ wallClock \in ClockCap
  /\ maxIterations # Uncapped => maxIterations < IterLimit
  /\ maxTokens # Uncapped => maxTokens < TokenLimit
  /\ build \in Build
  /\ pyTokens = 0 /\ pyIterations = 0
  /\ rsTokens = 0 /\ rsIterations = 0
  /\ elapsed = 0
  /\ call = "none" /\ asked = 0 /\ pyAnswer = "ok" /\ rsAnswer = "ok"
  /\ granted = 0 /\ ticked = 0

Called(what) == call' = what /\ asked' = elapsed

\* spend and try_spend
Spend(t) ==
  /\ rsAnswer # "panic"
  /\ granted + t <= MaxSpent
  /\ Called("spend")
  /\ pyAnswer' = PyCall(pyTokens, t, maxTokens)
  /\ rsAnswer' = RsCall(rsTokens, t, maxTokens, TokenLimit)
  /\ pyTokens' = IF pyAnswer' = "ok" THEN pyTokens + t ELSE pyTokens
  /\ rsTokens' = After(rsAnswer', rsTokens, t, TokenLimit)
  /\ granted' = IF rsAnswer' = "ok" THEN granted + t ELSE granted
  /\ UNCHANGED <<config, pyIterations, rsIterations, elapsed, ticked>>

Tick ==
  /\ rsAnswer # "panic"
  /\ ticked < MaxTicks
  /\ Called("tick")
  /\ pyAnswer' = PyCall(pyIterations, 1, maxIterations)
  /\ rsAnswer' = RsCall(rsIterations, 1, maxIterations, IterLimit)
  /\ pyIterations' = IF pyAnswer' = "ok" THEN pyIterations + 1 ELSE pyIterations
  /\ rsIterations' = After(rsAnswer', rsIterations, 1, IterLimit)
  /\ ticked' = IF rsAnswer' = "ok" THEN ticked + 1 ELSE ticked
  /\ UNCHANGED <<config, pyTokens, rsTokens, elapsed, granted>>

\* check_wall_clock of both, Rust's with the seconds its caller counts
CheckWallClock(secs) ==
  /\ rsAnswer # "panic"
  /\ Called("clock")
  /\ pyAnswer' = IF PyClockRefuses(elapsed) THEN "refused" ELSE "ok"
  /\ rsAnswer' = IF RsClockRefuses(secs) THEN "refused" ELSE "ok"
  /\ UNCHANGED <<config, py, rs, elapsed, history>>

TimePasses ==
  /\ elapsed < MaxElapsed
  /\ elapsed' = elapsed + 1
  /\ UNCHANGED <<config, py, rs, call, asked, pyAnswer, rsAnswer, history>>

\* The panic ended the process that held the Rust ledger.
Dead == rsAnswer = "panic" /\ UNCHANGED vars

Next ==
  \/ \E t \in 0 .. MaxRequest : Spend(t)
  \/ Tick
  \/ \E secs \in WholeSeconds(elapsed) : CheckWallClock(secs)
  \/ TimePasses
  \/ Dead

Spec == Init /\ [][Next]_vars

-----------------------------------------------------------------------------
TypeOK ==
  /\ maxTokens \in Cap /\ maxIterations \in Cap /\ wallClock \in ClockCap
  /\ build \in Build
  /\ pyTokens \in Nat /\ pyIterations \in Nat
  /\ rsTokens \in 0 .. TokenLimit - 1 /\ rsIterations \in 0 .. IterLimit - 1
  /\ elapsed \in Nat
  /\ call \in {"none", "spend", "tick", "clock"} /\ asked \in Nat
  /\ pyAnswer \in Answer /\ rsAnswer \in Answer
  /\ granted \in Nat /\ ticked \in Nat

\* A cap leaves room for a request above it: then no sum up to it can wrap.
RoomAbove(cap, more, limit) == cap # Uncapped /\ cap + more < limit
TokenRoom == RoomAbove(maxTokens, MaxRequest, TokenLimit)
IterRoom == RoomAbove(maxIterations, 1, IterLimit)

\* "The runtime must not be able to exceed its caps even if the agent's logic
\* says try again" (budget.rs): whatever is asked, refused and asked again on any
\* axis, what was let through stays below a cap that leaves room - and in a
\* debug build, which panics instead, below any cap.
CapsHold ==
  /\ TokenRoom \/ (build = "debug" /\ maxTokens # Uncapped) => granted <= maxTokens
  /\ IterRoom \/ (build = "debug" /\ maxIterations # Uncapped) => ticked <= maxIterations

\* The two answers to a look at the clock differ in one way only: Python refuses
\* and Rust does not, in the second that begins when the cap is reached and whose
\* fraction the caller dropped.
ClocksAgree(time) ==
  \/ pyAnswer = rsAnswer
  \/ /\ pyAnswer = "refused" /\ rsAnswer = "ok"
     /\ time > wallClock * Second /\ time < wallClock * Second + Second

\* "Mirrors the Rust budget module" (budget.py): under a cap with room above it
\* the two ledgers have the same counter and give the same answer to every call,
\* on the clock up to that fraction of a second; and when every cap leaves room
\* or is absent, the Rust ledger calls itself exhausted exactly when it would
\* refuse some next call - a token, a tick, a look at the clock - and then the
\* Python one would too.
LedgersAgree ==
  /\ TokenRoom => pyTokens = rsTokens /\ (call = "spend" => pyAnswer = rsAnswer)
  /\ IterRoom => pyIterations = rsIterations /\ (call = "tick" => pyAnswer = rsAnswer)
  /\ call = "clock" => ClocksAgree(asked)
  /\ (TokenRoom \/ maxTokens = Uncapped) /\ (IterRoom \/ maxIterations = Uncapped) =>
       \A secs \in WholeSeconds(elapsed) :
         /\ Exhausted(secs) <=>
              \/ RsCall(rsTokens, 1, maxTokens, TokenLimit) = "refused"
              \/ RsCall(rsIterations, 1, maxIterations, IterLimit) = "refused"
              \/ RsClockRefuses(secs)
         /\ Exhausted(secs) =>
              \/ PyRefuses(pyTokens, 1, maxTokens)
              \/ PyRefuses(pyIterations, 1, maxIterations)
              \/ PyClockRefuses(elapsed)

\* The strengthening of both every step preserves.
IInv ==
  /\ maxTokens # Uncapped => maxTokens < TokenLimit
  /\ maxIterations # Uncapped => maxIterations < IterLimit
  /\ TokenRoom \/ build = "debug" => granted = rsTokens
  /\ IterRoom \/ build = "debug" => ticked = rsIterations
  /\ CapsHold
  /\ TokenRoom => pyTokens = rsTokens /\ (call = "spend" => pyAnswer = rsAnswer)
  /\ IterRoom => pyIterations = rsIterations /\ (call = "tick" => pyAnswer = rsAnswer)
  /\ call = "clock" => ClocksAgree(asked)

\* CapsHold with any caps and any build.
CapsAlwaysHold == maxTokens # Uncapped => granted <= maxTokens
=============================================================================
