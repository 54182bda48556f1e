------------------------------- MODULE PRTriage -------------------------------
(***************************************************************************)
(* The read-only loop over open pull requests: PRTriageLoop.run and        *)
(* _finish (loopengine/prtriage.py), the GuardedConnector and the GitHub   *)
(* transport it reads through (loopengine/connectors.py).                  *)
(*                                                                         *)
(* GitHub stamps an update with the second it happened in, and the loop    *)
(* keeps the newest stamp it has seen as its cursor.  A version of a pull  *)
(* request is the pair of its number and its stamp.                        *)
(***************************************************************************)
EXTENDS Naturals, FiniteSets

CONSTANTS
  PR,          \* numbers, in the order they are opened
  Run,         \* processes that execute this loop
  PageSize,    \* per_page, 100 in the code
  Draft,       \* drafts, the "noise" bucket
  Hostile,     \* pull requests whose body scan_injection rates high
  MaxIterations,
  MaxTime,     \* bound: seconds that pass
  MaxFaults,   \* bound: API calls that fail, scanners that die
  MaxCrashes,  \* bound: runs killed half-way
  None         \* a result without a cursor

ASSUME PRAssumption == PR \subseteq Nat /\ Draft \subseteq PR /\ Hostile \subseteq PR
ASSUME NoneAssumption == None \notin Nat
ASSUME PageAssumption == PageSize \in Nat \ {0}
ASSUME BoundsAssumption ==
  /\ MaxIterations \in Nat /\ MaxTime \in Nat \ {0}
  /\ MaxFaults \in Nat /\ MaxCrashes \in Nat

\* Seconds start at 1.  As a cursor 0 is none, or the "" that is stored when
\* there was no pull request at all; as a stamp it is "not open".
Second == 1 .. MaxTime
Stamp == 0 .. MaxTime
Version == PR \X Second
Result == {"none", "clean", "found", "escalated"}

VARIABLES
  (* GitHub *)
  now,
  stamp,     \* stamp[n]: updated_at of pull request n, 0 when it is not open
  (* the loop's spec and durable state *)
  paused, section, row,
  (* locals of each run *)
  pc, cursor, prs, res, newest, listed,
  faults, crashes,
  (* history variables *)
  reported,  \* versions in the findings of some state written so far
  crowded,   \* seconds in which more than one update happened
  overflow   \* some listing a run received was one page of several

github == <<now, stamp>>
durable == <<section, row>>
locals == <<pc, cursor, prs, res, newest, listed>>
bounds == <<faults, crashes>>
ghosts == <<reported, crowded, overflow>>
vars == <<github, paused, durable, locals, bounds, ghosts>>

-----------------------------------------------------------------------------
Open == {n \in PR : stamp[n] # 0}

\* GET /pulls?state=open&per_page=...: the first page, newest numbers first
Page == {n \in Open : Cardinality({m \in Open : m > n}) < PageSize}
Listing == {<<n, stamp[n]>> : n \in Page}

\* Mutant: updates of the cursor's own second are listed again.
FreshInclusive(versions, c) == {v \in versions : v[2] >= c}

\* if cursor is not None and updated <= cursor: continue
Fresh(versions, c) == {v \in versions : v[2] > c}

\* Mutant: the cursor is the time of the run.
NewestIsNow(top, versions, c) == top = now

\* the newest updated_at among the cursor and everything fetched
IsNewest(top, versions, c) ==
  LET stamps == {c} \cup {v[2] : v \in versions}
  IN  top \in stamps /\ \A t \in stamps : t <= top

HasActionable(versions) == \E v \in versions : v[1] \notin Draft

\* call_tool scans the whole return, fresh or not, and raises on high severity
Refuses(versions) == \E v \in versions : v[1] \in Hostile

Goto(p, label) == pc' = [pc EXCEPT ![p] = label]

Forget(p) ==
  /\ Goto(p, "idle")
  /\ cursor' = [cursor EXCEPT ![p] = 0]
  /\ prs' = [prs EXCEPT ![p] = {}]
  /\ res' = [res EXCEPT ![p] = "none"]
  /\ newest' = [newest EXCEPT ![p] = 0]
  /\ listed' = [listed EXCEPT ![p] = {}]

\* return self._finish(RunResult(result, findings, {"cursor": top}))
Decide(p, result, findings, top) ==
  /\ Goto(p, "finish")
  /\ res' = [res EXCEPT ![p] = result]
  /\ listed' = [listed EXCEPT ![p] = findings]
  /\ newest' = [newest EXCEPT ![p] = top]

Init ==
  /\ now = 1 /\ stamp = [n \in PR |-> 0]
  /\ paused = FALSE
  /\ section = [cursor |-> 0, result |-> "none", found |-> {}]
  /\ row = "none"
  /\ pc = [p \in Run |-> "idle"]
  /\ cursor = [p \in Run |-> 0]
  /\ prs = [p \in Run |-> {}]
  /\ res = [p \in Run |-> "none"]
  /\ newest = [p \in Run |-> 0]
  /\ listed = [p \in Run |-> {}]
  /\ faults = 0 /\ crashes = 0
  /\ reported = {} /\ crowded = {} /\ overflow = FALSE

-----------------------------------------------------------------------------
(* One run.                                                                *)

\* The kill switch, then the iteration cap of a ledger that starts at zero.
Start(p) ==
  /\ pc[p] = "idle"
  /\ IF paused THEN Decide(p, "clean", {}, None)
     ELSE IF MaxIterations < 1 THEN Decide(p, "escalated", {}, None)
     ELSE Goto(p, "read") /\ UNCHANGED <<res, listed, newest>>
  /\ UNCHANGED <<github, paused, durable, cursor, prs, bounds, ghosts>>

ReadState(p) ==
  /\ pc[p] = "read"
  /\ cursor' = [cursor EXCEPT ![p] = section.cursor]
  /\ Goto(p, "fetch")
  /\ UNCHANGED <<github, paused, durable, prs, res, newest, listed, bounds, ghosts>>

\* connector.call_tool returns what the transport got to the loop.
Receive(p) ==
  /\ prs' = [prs EXCEPT ![p] = Listing]
  /\ overflow' = (overflow \/ Page # Open)
  /\ Goto(p, "sort")
  /\ UNCHANGED <<github, paused, durable, cursor, res, newest, listed, crashes,
                 reported, crowded>>

\* The transport's GET, and a scan that finds nothing to object to ...
Fetch(p) ==
  /\ pc[p] = "fetch"
  /\ ~Refuses(Listing)
  /\ Receive(p)
  /\ UNCHANGED faults

\* ... or a scanner that dies: scan_injection reads no output as severity none.
FetchUnscanned(p) ==
  /\ pc[p] = "fetch"
  /\ faults < MaxFaults
  /\ faults' = faults + 1
  /\ Receive(p)

\* ConnectorError: high-severity injection somewhere on the page.
FetchRefused(p) ==
  /\ pc[p] = "fetch"
  /\ Refuses(Listing)
  /\ Decide(p, "escalated", {}, None)
  /\ UNCHANGED <<github, paused, durable, cursor, prs, bounds, ghosts>>

\* The API is unreachable or answers something that is not a list.  A time-out
\* while the answer is read, or an answer that is no JSON, is no ConnectorError
\* (connectors.py): the run dies without a row, as in Crash.
FetchFails(p) ==
  /\ pc[p] = "fetch"
  /\ faults < MaxFaults
  /\ faults' = faults + 1
  /\ Decide(p, "escalated", {}, None)
  /\ UNCHANGED <<github, paused, durable, cursor, prs, crashes, ghosts>>

\* The loop over the pull requests, and its two outcomes.
Sort(p) ==
  /\ pc[p] = "sort"
  /\ \E top \in Stamp :
       /\ IsNewest(top, prs[p], cursor[p])
       /\ LET fresh == Fresh(prs[p], cursor[p])
          IN  \/ HasActionable(fresh) /\ Decide(p, "found", fresh, top)
              \/ ~HasActionable(fresh) /\ Decide(p, "clean", {}, top)
  /\ UNCHANGED <<github, paused, durable, cursor, prs, bounds, ghosts>>

\* Mutant: a result without a cursor stores none.
CursorUnresolved(p) == newest[p]

\* Mutant: a result without a cursor erases the one in the state file.
CursorNoFallback(p) == IF newest[p] = None THEN 0 ELSE newest[p]

\* _finish: the result's cursor or, when it has none, the one in the file.
CursorToWrite(p) == IF newest[p] = None THEN section.cursor ELSE newest[p]

Finish(p) ==
  /\ pc[p] = "finish"
  /\ newest' = [newest EXCEPT ![p] = CursorToWrite(p)]
  /\ Goto(p, "write")
  /\ UNCHANGED <<github, paused, durable, cursor, prs, res, listed, bounds, ghosts>>

Write(p) ==
  /\ pc[p] = "write"
  /\ section' = [cursor |-> newest[p], result |-> res[p], found |-> listed[p]]
  /\ reported' = reported \cup listed[p]
  /\ Goto(p, "log")
  /\ UNCHANGED <<github, paused, row, cursor, prs, res, newest, listed, bounds,
                 crowded, overflow>>

AppendLog(p) ==
  /\ pc[p] = "log"
  /\ row' = res[p]
  /\ Forget(p)
  /\ UNCHANGED <<github, paused, section, bounds, ghosts>>

RunStep(p) ==
  \/ Start(p) \/ ReadState(p) \/ Fetch(p) \/ FetchUnscanned(p)
  \/ FetchRefused(p) \/ FetchFails(p) \/ Sort(p) \/ Finish(p) \/ Write(p) \/ AppendLog(p)

Crash(p) ==
  /\ pc[p] # "idle"
  /\ crashes < MaxCrashes
  /\ crashes' = crashes + 1
  /\ Forget(p)
  /\ UNCHANGED <<github, paused, durable, faults, ghosts>>

-----------------------------------------------------------------------------
(* People on GitHub.                                                       *)

\* Someone opens n, pushes to it or comments on it.
Update(n) ==
  /\ stamp' = [stamp EXCEPT ![n] = now]
  /\ crowded' = IF \E m \in PR : stamp[m] = now THEN crowded \cup {now} ELSE crowded
  /\ UNCHANGED <<now, paused, durable, locals, bounds, reported, overflow>>

Close(n) ==
  /\ stamp[n] # 0
  /\ stamp' = [stamp EXCEPT ![n] = 0]
  /\ crowded' = IF stamp[n] = now THEN crowded \cup {now} ELSE crowded
  /\ UNCHANGED <<now, paused, durable, locals, bounds, reported, overflow>>

TimePasses ==
  /\ now < MaxTime
  /\ now' = now + 1
  /\ UNCHANGED <<stamp, paused, durable, locals, bounds, ghosts>>

TogglePause ==
  /\ paused' = ~paused
  /\ UNCHANGED <<github, durable, locals, bounds, ghosts>>

Next ==
  \/ \E p \in Run : RunStep(p) \/ Crash(p)
  \/ \E n \in PR : Update(n) \/ Close(n)
  \/ TimePasses \/ TogglePause

Spec == Init /\ [][Next]_vars

-----------------------------------------------------------------------------
TypeOK ==
  /\ now \in Second /\ stamp \in [PR -> Stamp]
  /\ paused \in BOOLEAN
  /\ section \in [cursor : Stamp, result : Result, found : SUBSET Version]
  /\ row \in Result
  /\ pc \in [Run -> {"idle", "read", "fetch", "sort", "finish", "write", "log"}]
  /\ cursor \in [Run -> Stamp] /\ prs \in [Run -> SUBSET Version]
  /\ res \in [Run -> Result]
  /\ newest \in [Run -> Stamp \cup {None}] /\ listed \in [Run -> SUBSET Version]
  /\ faults \in 0 .. MaxFaults /\ crashes \in 0 .. MaxCrashes
  /\ reported \subseteq Version /\ crowded \subseteq Second
  /\ overflow \in BOOLEAN

\* As long as the open pull requests fit one page, the cursor never passes an
\* update the loop has not reported, unless another update shares its second
\* or it is to a draft.  Runs may overlap, fail and die.
NoUpdateMissed ==
  ~overflow =>
    \A n \in Open \ Draft :
      stamp[n] <= section.cursor /\ stamp[n] \notin crowded
        => <<n, stamp[n]>> \in reported

\* Versions a cursor skips from now on are in `versions`.
Covers(c, versions) ==
  \A n \in Open \ Draft :
    stamp[n] <= c /\ stamp[n] \notin crowded => <<n, stamp[n]>> \in versions

\* No stamp is ahead of the clock, and one of this very second was left by an
\* update that is still to be seen or that shares the second with another.
Past(t) ==
  /\ t <= now
  /\ t = now => now \in crowded \/ \E n \in PR : stamp[n] = now

\* The strengthening of NoUpdateMissed every step preserves: the cursors runs
\* hold cover what was reported, what a run fetched covers what the newest of
\* it will skip, and a result covers what it will report.
RunOK(p) ==
  /\ pc[p] = "write" => newest[p] # None
  /\ Past(cursor[p])
  /\ newest[p] # None => Past(newest[p])
  /\ \A v \in prs[p] : Past(v[2])
  /\ ~overflow =>
       /\ Covers(cursor[p], reported)
       /\ pc[p] = "sort" =>
            \A v \in prs[p] : Covers(v[2], prs[p] \cup reported)
       /\ pc[p] \in {"finish", "write"} /\ newest[p] # None =>
            Covers(newest[p], reported \cup listed[p])

IInv ==
  /\ \A n \in PR : stamp[n] <= now
  /\ Past(section.cursor)
  /\ ~overflow => Covers(section.cursor, reported)
  /\ \A p \in Run : RunOK(p)

\* Runs of this loop do not overlap.
OneAtATime == \A p, q \in Run : pc[p] # "idle" /\ pc[q] # "idle" => p = q

\* What then relates a run to the state file: it sorts by the stored cursor,
\* and lists what lies past it and up to the cursor it will store.
SerialRunOK(p) ==
  /\ pc[p] \in {"fetch", "sort"} => cursor[p] = section.cursor
  /\ pc[p] \in {"finish", "write"} =>
       /\ newest[p] = None => listed[p] = {}
       /\ newest[p] # None => /\ newest[p] >= section.cursor
                              /\ \A v \in listed[p] : v[2] <= newest[p]
       /\ \A v \in listed[p] : v[2] > section.cursor

SerialOK ==
  /\ \A v \in reported : v[2] <= section.cursor
  /\ \A p \in Run : SerialRunOK(p)

\* "only reports PRs updated since" (prtriage.py), without the two conditions.
NoUpdateMissedEver ==
  \A n \in Open \ Draft :
    stamp[n] <= section.cursor => <<n, stamp[n]>> \in reported

\* "every tool return injection-scanned before the loop acts on it"
\* (prtriage.py): no finding is about a pull request that carries an injection.
NothingHostileListed == \A v \in section.found : v[1] \notin Hostile

\* "a quiet day is a clean run, not a re-report of every open PR"
\* (prtriage.py): one run at a time never lists a version twice.
NeverReReports == [][section'.found \cap reported = {}]_section

\* No outcome takes the cursor back or forgets it (one run at a time).
CursorNeverRetreats == [][section'.cursor >= section.cursor]_section
=============================================================================
