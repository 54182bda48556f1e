------------------------------- MODULE Triage -------------------------------
(***************************************************************************)
(* The git-commit-triage loop: LoopRuntime.run and _finish                 *)
(* (loopengine/runtime.py), the read-only git calls it makes               *)
(* (loopengine/gitscan.py) and the grounded verification of the SHAs it    *)
(* cites (loopengine/verifier.py over crates/loopguard/src/verifier.rs).   *)
(*                                                                         *)
(* Each git call, state-file access and verifier call of a run is a step   *)
(* of its own: people push, repositories vanish, other runs of the same    *)
(* loop proceed and other loops rewrite the state file they all share      *)
(* between any two of them.                                                *)
(*                                                                         *)
(* The commit graph is kept as the set of ancestors of each commit, so     *)
(* `git log a..b` is anc[b] \ anc[a].                                      *)
(***************************************************************************)
EXTENDS Naturals

CONSTANTS
  Commit,         \* commits that may ever exist
  Root,           \* the commit every watched branch starts at
  NRefs,          \* target.refs has this many entries, 1 is refs[0]
  Run,            \* processes that execute this loop (cron, a person, CI)
  Other,          \* processes of other loops that write the same state file
  Noise,          \* commits `classify` puts in the "noise" bucket
  Old,            \* commits dated before the first_run_since window
  Ambiguous,      \* commits whose first 7 hex digits name another commit too
  MaxIterations,  \* budget.max_iterations
  MaxFaults,      \* bound: times the repository breaks or loopguard crashes
  MaxCrashes,     \* bound: runs killed half-way
  MaxRewrites,    \* bound: force-pushes and prunes
  None            \* "no such commit"

ASSUME NRefsAssumption == NRefs \in Nat \ {0}
ASSUME RootAssumption == Root \in Commit
ASSUME NoneAssumption == None \notin Commit
ASSUME BucketsAssumption == Noise \subseteq Commit /\ Old \subseteq Commit
ASSUME BoundsAssumption ==
  /\ MaxIterations \in Nat /\ MaxFaults \in Nat
  /\ MaxCrashes \in Nat /\ MaxRewrites \in Nat

Ref == 1 .. NRefs
NoCursors == [r \in Ref |-> None]
Cursors == [Ref -> Commit \cup {None}]
Result == {"none", "clean", "found", "error", "escalated"}
Pc == {"idle", "probe", "read", "resolve", "list", "compare", "tip", "judge",
       "finish", "write", "log"}

VARIABLES
  (* the target repository *)
  made,      \* commits that exist
  anc,       \* anc[c]: c and its ancestors
  tip,       \* tip[r]: the commit ref r points at
  gone,      \* commits pruned from the object store
  repo,      \* "ok", "missing" (no such directory) or "nogit" (no .git in it)
  (* the loop's spec and durable state *)
  paused,    \* spec.paused, the kill switch a person edits
  section,   \* the loop's section of the state file
  row,       \* last row of the append-only run log
  (* locals of each run *)
  pc, prior, new, idx, found, cite, res, out,
  checked,   \* commits whose `git cat-file` verify_batch has run
  failures,  \* the ways in which some of these calls failed
  (* what other loops hold of the state file: this loop's section in the copy
     of the file they loaded, and who has yet to write such a copy back *)
  copy, holding,
  (* bookkeeping of the environment's bounds, and a history variable *)
  faults, crashes, rewrites,
  reported   \* commits listed in the findings of some state written so far

repoVars == <<made, anc, tip, gone, repo>>
durableVars == <<section, row, reported>>
localVars == <<pc, prior, new, idx, found, cite, checked, failures, res, out>>
boundVars == <<faults, crashes, rewrites>>
world == <<paused, copy, holding>>
vars == <<repoVars, world, durableVars, localVars, boundVars>>

-----------------------------------------------------------------------------
(* The pieces of the code that compute something.                          *)

\* Mutant: the first run starts at the head and lists nothing.
NewCommitsNoFirstRun(r, cursor) ==
  IF cursor = None THEN {} ELSE anc[tip[r]] \ anc[cursor]

\* Mutant: every run scans the first-run window, cursor or not.
NewCommitsNoCursor(r, cursor) == anc[tip[r]] \ Old

\* Mutant: what the first ref has is left to the first ref.
NewCommitsNotOnFirst(r, cursor) ==
  (IF cursor = None THEN anc[tip[r]] \ Old ELSE anc[tip[r]] \ anc[cursor])
    \ (IF r = 1 THEN {} ELSE anc[tip[1]])

\* gitscan.commits: cursor..ref, or the first-run window without a cursor.
NewCommits(r, cursor) ==
  IF cursor = None THEN anc[tip[r]] \ Old ELSE anc[tip[r]] \ anc[cursor]

\* Mutant: a missing cursor is formatted into the range.
ReadableNeedsCursor(cursor) == repo = "ok" /\ cursor \notin gone \cup {None}

\* Does `git log cursor..ref` run at all?
Readable(cursor) == repo = "ok" /\ cursor \notin gone

\* gitscan.ahead_behind(target, refs[-1], refs[0]): refs[0] has commits
\* refs[-1] lacks.
FirstIsAhead == anc[tip[1]] \ anc[tip[NRefs]] # {}

\* The findings of buckets "high" and "watch"; the divergence finding is high.
Actionable(p) == found[p] \ Noise
HasActionable(p) == Actionable(p) # {} \/ cite[p] # None

\* verify_commit_sha: `git cat-file` of one SHA.  A missing directory is
\* recognised as an environment failure.  Git reports a directory without .git
\* as "not a git repository" in lower case, which is_env_error's "Not a git
\* repository" does not match.
ShaVerdict(absent) ==
  IF repo = "missing" THEN {"unverifiable"}
  ELSE IF repo = "nogit" \/ absent THEN {"fabricated"} ELSE {}

\* Mutant: a result without cursors erases those in the state file.
CursorsToWriteNoFallback(p) == out[p]

\* Mutant: the heads are resolved again when the state is written.
CursorsToWriteResolvedAgain(p) ==
  IF out[p] = NoCursors THEN section.cursors ELSE tip

\* _finish: res.cursors, or those in the state file when res has none.
CursorsToWrite(p) == IF out[p] = NoCursors THEN section.cursors ELSE out[p]

-----------------------------------------------------------------------------
Fresh(p) ==
  /\ prior' = [prior EXCEPT ![p] = NoCursors]
  /\ new' = [new EXCEPT ![p] = NoCursors]
  /\ idx' = [idx EXCEPT ![p] = 1]
  /\ found' = [found EXCEPT ![p] = {}]
  /\ cite' = [cite EXCEPT ![p] = None]
  /\ checked' = [checked EXCEPT ![p] = {}]
  /\ failures' = [failures EXCEPT ![p] = {}]
  /\ res' = [res EXCEPT ![p] = "none"]
  /\ out' = [out EXCEPT ![p] = NoCursors]

Goto(p, label) == pc' = [pc EXCEPT ![p] = label]

\* return self._finish(RunResult(result, cursors))
Decide(p, result, cursors) ==
  /\ Goto(p, "finish")
  /\ res' = [res EXCEPT ![p] = result]
  /\ out' = [out EXCEPT ![p] = cursors]
  /\ UNCHANGED <<prior, new, idx, found, cite, checked, failures>>

EmptySection == [cursors |-> NoCursors, result |-> "none", found |-> {}]

Init ==
  /\ made = {Root} /\ gone = {} /\ repo = "ok"
  /\ anc = [c \in Commit |-> IF c = Root THEN {Root} ELSE {}]
  /\ tip = [r \in Ref |-> Root]
  /\ paused = FALSE
  /\ section = EmptySection
  /\ row = "none"
  /\ copy = [o \in Other |-> EmptySection] /\ holding = {}
  /\ pc = [p \in Run |-> "idle"]
  /\ prior = [p \in Run |-> NoCursors]
  /\ new = [p \in Run |-> NoCursors]
  /\ idx = [p \in Run |-> 1]
  /\ found = [p \in Run |-> {}]
  /\ cite = [p \in Run |-> None]
  /\ checked = [p \in Run |-> {}] /\ failures = [p \in Run |-> {}]
  /\ res = [p \in Run |-> "none"]
  /\ out = [p \in Run |-> NoCursors]
  /\ faults = 0 /\ crashes = 0 /\ rewrites = 0
  /\ reported = {}

-----------------------------------------------------------------------------
(* One run.                                                                *)

\* The kill switch, then ledger.tick() of a ledger that starts at zero.
Start(p) ==
  /\ pc[p] = "idle"
  /\ IF paused THEN Decide(p, "clean", NoCursors)
     ELSE IF MaxIterations < 1 THEN Decide(p, "escalated", NoCursors)
     ELSE /\ Goto(p, "probe")
          /\ UNCHANGED <<prior, new, idx, found, cite, checked, failures, res, out>>
  /\ UNCHANGED <<repoVars, world, durableVars, boundVars>>

\* is_git_repo(target)
Probe(p) ==
  /\ pc[p] = "probe"
  /\ IF repo # "ok" THEN Decide(p, "escalated", NoCursors)
     ELSE /\ Goto(p, "read")
          /\ UNCHANGED <<prior, new, idx, found, cite, checked, failures, res, out>>
  /\ UNCHANGED <<repoVars, world, durableVars, boundVars>>

ReadState(p) ==
  /\ pc[p] = "read"
  /\ prior' = [prior EXCEPT ![p] = section.cursors]
  /\ Goto(p, "resolve")
  /\ UNCHANGED <<new, idx, found, cite, checked, failures, res, out>>
  /\ UNCHANGED <<repoVars, world, durableVars, boundVars>>

\* head = resolve(target, ref); new_cursors[ref] = head
Resolve(p) ==
  /\ pc[p] = "resolve"
  /\ IF repo # "ok" THEN Decide(p, "escalated", NoCursors)
     ELSE /\ new' = [new EXCEPT ![p][idx[p]] = tip[idx[p]]]
          /\ Goto(p, "list")
          /\ UNCHANGED <<prior, idx, found, cite, checked, failures, res, out>>
  /\ UNCHANGED <<repoVars, world, durableVars, boundVars>>

\* for c in commits(...): the set `found` is the code's `seen` and findings
List(p) ==
  /\ pc[p] = "list"
  /\ LET r == idx[p]
         cursor == prior[p][r]
     IN  IF ~Readable(cursor) THEN Decide(p, "escalated", NoCursors)
         ELSE /\ found' = [found EXCEPT ![p] = @ \cup NewCommits(r, cursor)]
              /\ IF r < NRefs
                 THEN idx' = [idx EXCEPT ![p] = r + 1] /\ Goto(p, "resolve")
                 ELSE /\ Goto(p, IF NRefs >= 2 THEN "compare" ELSE "judge")
                      /\ UNCHANGED idx
              /\ UNCHANGED <<prior, new, cite, checked, failures, res, out>>
  /\ UNCHANGED <<repoVars, world, durableVars, boundVars>>

\* the divergence finding: ahead_behind ...
Compare(p) ==
  /\ pc[p] = "compare"
  /\ IF repo # "ok" THEN Decide(p, "escalated", NoCursors)
     ELSE /\ Goto(p, IF FirstIsAhead THEN "tip" ELSE "judge")
          /\ UNCHANGED <<prior, new, idx, found, cite, checked, failures, res, out>>
  /\ UNCHANGED <<repoVars, world, durableVars, boundVars>>

\* ... then resolve(target, refs[0]), of which it cites the first seven digits
CiteTip(p) ==
  /\ pc[p] = "tip"
  /\ IF repo # "ok" THEN Decide(p, "escalated", NoCursors)
     ELSE /\ cite' = [cite EXCEPT ![p] = tip[1]]
          /\ Goto(p, "judge")
          /\ UNCHANGED <<prior, new, idx, found, checked, failures, res, out>>
  /\ UNCHANGED <<repoVars, world, durableVars, boundVars>>

\* if not actionable: a clean run, which does advance the cursors
Clean(p) ==
  /\ pc[p] = "judge"
  /\ ~HasActionable(p)
  /\ Decide(p, "clean", new[p])
  /\ UNCHANGED <<repoVars, world, durableVars, boundVars>>

\* verify_batch checks one SHA after the other.  Commits are cited by git's own
\* abbreviation, which names one commit ...
CheckSha(p, c) ==
  /\ pc[p] = "judge"
  /\ c \notin checked[p]
  /\ checked' = [checked EXCEPT ![p] = @ \cup {c}]
  /\ failures' = [failures EXCEPT ![p] = @ \cup ShaVerdict(c \in gone)]
  /\ UNCHANGED <<pc, prior, new, idx, found, cite, res, out>>
  /\ UNCHANGED <<repoVars, world, durableVars, boundVars>>

\* ... the diverging tip, which comes last, by seven digits that need not.
TipVerdict(p) ==
  IF cite[p] = None THEN {} ELSE ShaVerdict(cite[p] \in gone \cup Ambiguous)

\* verify_commit_claims and the three ways it can end: any unverifiable SHA
\* (exit code 4) outweighs the fabricated ones (3).
Verify(p) ==
  /\ pc[p] = "judge"
  /\ HasActionable(p)
  /\ Actionable(p) \subseteq checked[p]
  /\ LET all == failures[p] \cup TipVerdict(p)
     IN  \/ "unverifiable" \in all /\ Decide(p, "escalated", NoCursors)
         \/ all = {"fabricated"} /\ Decide(p, "error", prior[p])
         \/ all = {} /\ Decide(p, "found", new[p])
  /\ UNCHANGED <<repoVars, world, durableVars, boundVars>>

\* loopguard dies without output: Loopguard.verify_shas substitutes
\* {"valid": false, "claims": []} and the run ends as an invalid one.
GuardCrash(p) ==
  /\ pc[p] = "judge"
  /\ HasActionable(p)
  /\ faults < MaxFaults
  /\ faults' = faults + 1
  /\ Decide(p, "error", prior[p])
  /\ UNCHANGED <<repoVars, world, durableVars, crashes, rewrites>>

\* _finish builds the section ...
Finish(p) ==
  /\ pc[p] = "finish"
  /\ out' = [out EXCEPT ![p] = CursorsToWrite(p)]
  /\ Goto(p, "write")
  /\ UNCHANGED <<prior, new, idx, found, cite, checked, failures, res>>
  /\ UNCHANGED <<repoVars, world, durableVars, boundVars>>

\* Mutant: the divergence finding is stored whether or not there is one.
FindingsWithTip(p) ==
  IF res[p] = "found" THEN found[p] \cup {cite[p]} ELSE {}

\* ... overwrites the loop's section with it ...
Findings(p) == IF res[p] = "found" THEN found[p] ELSE {}

Write(p) ==
  /\ pc[p] = "write"
  /\ section' = [cursors |-> out[p], result |-> res[p], found |-> Findings(p)]
  /\ reported' = reported \cup Findings(p)
  /\ Goto(p, "log")
  /\ UNCHANGED <<prior, new, idx, found, cite, checked, failures, res, out>>
  /\ UNCHANGED <<repoVars, world, row, boundVars>>

\* ... and appends the run-log row.
AppendLog(p) ==
  /\ pc[p] = "log"
  /\ row' = res[p]
  /\ Goto(p, "idle")
  /\ Fresh(p)
  /\ UNCHANGED <<repoVars, world, section, reported, boundVars>>

RunStep(p) ==
  \/ Start(p) \/ Probe(p) \/ ReadState(p) \/ Resolve(p) \/ List(p)
  \/ Compare(p) \/ CiteTip(p) \/ Clean(p)
  \/ \E c \in Actionable(p) : CheckSha(p, c)
  \/ Verify(p) \/ Finish(p) \/ Write(p) \/ AppendLog(p)

\* The process is killed: its memory goes, what it wrote stays.
Crash(p) ==
  /\ pc[p] # "idle"
  /\ crashes < MaxCrashes
  /\ crashes' = crashes + 1
  /\ Goto(p, "idle")
  /\ Fresh(p)
  /\ UNCHANGED <<repoVars, world, durableVars, faults, rewrites>>

-----------------------------------------------------------------------------
(* Everyone else.                                                          *)

otherThanRepo == <<world, durableVars, localVars>>

\* Someone commits, on any branch: parents are commits that exist.
CommitObject(c, parents) ==
  /\ c \notin made
  /\ parents # {}
  /\ made' = made \cup {c}
  /\ anc' = [anc EXCEPT ![c] = {c} \cup UNION {anc[d] : d \in parents}]
  /\ UNCHANGED <<tip, gone, repo, otherThanRepo, boundVars>>

\* An ordinary push or merge: the ref moves to a descendant.
Advance(r, c) ==
  /\ c # tip[r]
  /\ tip[r] \in anc[c]
  /\ tip' = [tip EXCEPT ![r] = c]
  /\ UNCHANGED <<made, anc, gone, repo, otherThanRepo, boundVars>>

\* A force-push: the ref moves anywhere else.
Rewrite(r, c) ==
  /\ rewrites < MaxRewrites
  /\ rewrites' = rewrites + 1
  /\ tip[r] \notin anc[c]
  /\ tip' = [tip EXCEPT ![r] = c]
  /\ UNCHANGED <<made, anc, gone, repo, otherThanRepo, faults, crashes>>

\* git gc drops a commit no watched ref reaches (with nothing built on it).
Prune(c) ==
  /\ rewrites < MaxRewrites
  /\ rewrites' = rewrites + 1
  /\ \A r \in Ref : c \notin anc[tip[r]]
  /\ \A d \in made \ gone : c \in anc[d] => d = c
  /\ gone' = gone \cup {c}
  /\ UNCHANGED <<made, anc, tip, repo, otherThanRepo, faults, crashes>>

Break(how) ==
  /\ repo = "ok"
  /\ faults < MaxFaults
  /\ faults' = faults + 1
  /\ repo' = how
  /\ UNCHANGED <<made, anc, tip, gone, otherThanRepo, crashes, rewrites>>

Repair ==
  /\ repo # "ok"
  /\ repo' = "ok"
  /\ UNCHANGED <<made, anc, tip, gone, otherThanRepo, boundVars>>

TogglePause ==
  /\ paused' = ~paused
  /\ UNCHANGED <<repoVars, copy, holding, durableVars, localVars, boundVars>>

\* write_section of another loop loads the file ...
OtherLoads(o) ==
  /\ o \notin holding
  /\ copy' = [copy EXCEPT ![o] = section]
  /\ holding' = holding \cup {o}
  /\ UNCHANGED <<repoVars, paused, durableVars, localVars, boundVars>>

\* ... and writes it back, with this loop's section as it was then.
OtherStores(o) ==
  /\ o \in holding
  /\ section' = copy[o]
  /\ copy' = [copy EXCEPT ![o] = EmptySection]
  /\ holding' = holding \ {o}
  /\ UNCHANGED <<repoVars, paused, row, reported, localVars, boundVars>>

Environment ==
  \/ \E c \in Commit : \E parents \in SUBSET (made \ gone) :
        CommitObject(c, parents)
  \/ \E r \in Ref, c \in made \ gone : Advance(r, c) \/ Rewrite(r, c)
  \/ \E c \in made \ gone : Prune(c)
  \/ \E how \in {"missing", "nogit"} : Break(how)
  \/ Repair
  \/ TogglePause
  \/ \E o \in Other : OtherLoads(o) \/ OtherStores(o)

Next ==
  \/ \E p \in Run : RunStep(p) \/ GuardCrash(p) \/ Crash(p)
  \/ Environment

Spec == Init /\ [][Next]_vars

\* The trigger fires again and again and a started run keeps executing; no
\* fairness is asked of people, of repositories or of crashes.
FairSpec == Spec /\ \A p \in Run : WF_vars(RunStep(p))

-----------------------------------------------------------------------------
TypeOK ==
  /\ made \subseteq Commit /\ gone \subseteq Commit
  /\ anc \in [Commit -> SUBSET Commit]
  /\ tip \in [Ref -> Commit]
  /\ repo \in {"ok", "missing", "nogit"}
  /\ paused \in BOOLEAN
  /\ section \in [cursors : Cursors, result : Result, found : SUBSET Commit]
  /\ copy \in [Other -> [cursors : Cursors, result : Result, found : SUBSET Commit]]
  /\ holding \subseteq Other
  /\ row \in Result
  /\ pc \in [Run -> Pc]
  /\ prior \in [Run -> Cursors] /\ new \in [Run -> Cursors]
  /\ idx \in [Run -> Ref]
  /\ found \in [Run -> SUBSET Commit]
  /\ cite \in [Run -> Commit \cup {None}]
  /\ checked \in [Run -> SUBSET Commit]
  /\ failures \in [Run -> SUBSET {"fabricated", "unverifiable"}]
  /\ res \in [Run -> Result]
  /\ out \in [Run -> Cursors]
  /\ faults \in 0 .. MaxFaults
  /\ crashes \in 0 .. MaxCrashes
  /\ rewrites \in 0 .. MaxRewrites
  /\ reported \subseteq Commit

\* Commits a cursor excludes from every later scan of its ref.
Behind(cursor) == IF cursor = None THEN {} ELSE anc[cursor]

Accounted == reported \cup Noise \cup Old

\* A durable cursor never moves past a commit no run has reported: whatever
\* `cursor..ref` will skip from now on was listed in a written state, is
\* noise, or predates the first-run window.  Pushes may land between
\* resolve() and log, runs may overlap and die, verification may fail, and
\* another loop may write back the copy of the file it loaded long ago.  It is
\* so until somebody force-pushes (or gc prunes): see NoRefCommitLost.
NoCommitLost ==
  rewrites = 0 => \A r \in Ref : Behind(section.cursors[r]) \subseteq Accounted

\* The same for the commits that are on the ref right now, which is all a
\* reader can ask of a repository whose history people rewrite: the loop
\* "classifies new commits ... and cites each one's SHA" (runtime.py).
NoRefCommitLost ==
  \A r \in Ref :
    Behind(section.cursors[r]) \cap anc[tip[r]] \subseteq Accounted

\* The strengthening of NoCommitLost that every step preserves when history
\* is never rewritten.  The graph is closed under ancestors ...
GraphOK ==
  /\ made \subseteq Commit
  /\ \A c \in made : c \in anc[c]
  /\ \A c \in Commit : anc[c] \subseteq made
  /\ \A c \in Commit : \A d \in anc[c] : anc[d] \subseteq anc[c]
  /\ \A r \in Ref : tip[r] \in made

\* ... cursors, in the file or in a run's memory, cover accounted commits ...
CoversOnly(cursors, commits) ==
  \A r \in Ref : /\ cursors[r] \in made \cup {None}
                 /\ Behind(cursors[r]) \subseteq commits

\* ... the heads a run has scanned cover what it found or was accounted for,
\* and the one it resolved but has not listed yet is still on its ref; a run
\* starts at the first ref.
ScannedOK(p) ==
  \A r \in Ref :
    r < idx[p] \/ pc[p] \in {"compare", "tip", "judge"}
      => /\ new[p][r] \in made
         /\ anc[new[p][r]] \subseteq found[p] \cup Accounted

RunOK(p) ==
  /\ found[p] \subseteq made
  /\ CoversOnly(prior[p], Accounted)
  /\ pc[p] \in {"idle", "probe", "read"} => idx[p] = 1
  /\ pc[p] \in {"resolve", "list", "compare", "tip", "judge"} => ScannedOK(p)
  /\ pc[p] = "list" => new[p][idx[p]] \in anc[tip[idx[p]]]
  /\ pc[p] \in {"finish", "write"}
       => CoversOnly(out[p], Findings(p) \cup Accounted)

IInv ==
  /\ GraphOK
  /\ CoversOnly(section.cursors, Accounted)
  /\ \A o \in Other : CoversOnly(copy[o].cursors, Accounted)
  /\ \A p \in Run : RunOK(p)

\* Runs of this loop do not overlap, and no other loop is between loading the
\* state file and writing it back while one executes.
OneAtATime ==
  /\ \A p, q \in Run : pc[p] # "idle" /\ pc[q] # "idle" => p = q
  /\ holding # {} => \A p \in Run : pc[p] = "idle"

\* Every cursor and head names a commit that was made ...
KnownCursors(cursors) == \A r \in Ref : cursors[r] \in made \cup {None}

KnownOK ==
  /\ \A r \in Ref : tip[r] \in made
  /\ KnownCursors(section.cursors)
  /\ \A o \in Other : KnownCursors(copy[o].cursors)
  /\ \A p \in Run : /\ KnownCursors(prior[p]) /\ KnownCursors(new[p])
                    /\ KnownCursors(out[p])

\* ... a run's findings lie ahead of some cursor in the file ...
Unreported(p) ==
  \A c \in found[p] : \E r \in Ref : c \notin Behind(section.cursors[r])

\* ... and what it read at its start is what the file still says: one at a
\* time, a run starts from the durable cursors and a failed one returns them.
SerialRunOK(p) ==
  /\ pc[p] \in {"idle", "probe", "read"} => found[p] = {}
  /\ pc[p] \in {"resolve", "list", "compare", "tip", "judge"}
       => prior[p] = section.cursors /\ Unreported(p)
  /\ pc[p] \in {"finish", "write"} /\ res[p] = "found" => Unreported(p)
  /\ pc[p] = "finish" /\ res[p] \in {"error", "escalated"}
       => out[p] \in {NoCursors, section.cursors}
  /\ pc[p] = "write" /\ res[p] \in {"error", "escalated"}
       => out[p] = section.cursors

SerialOK ==
  /\ KnownOK
  /\ \A p \in Run : SerialRunOK(p)
  /\ \A o \in holding : copy[o] = section

\* When history is append-only besides, the cursors in the file and those a
\* run is about to put there lie on their refs, one behind the other.
Onward(cursors) ==
  \A r \in Ref : /\ Behind(section.cursors[r]) \subseteq Behind(cursors[r])
                 /\ Behind(cursors[r]) \subseteq anc[tip[r]]

ResolvedBy(p, r) ==
  \/ pc[p] \in {"compare", "tip", "judge"}
  \/ pc[p] \in {"resolve", "list"} /\ r < idx[p]
  \/ pc[p] = "list" /\ r = idx[p]

OnwardRunOK(p) ==
  /\ \A r \in Ref : ResolvedBy(p, r)
                      => /\ new[p][r] \in made
                         /\ Behind(section.cursors[r]) \subseteq anc[new[p][r]]
                         /\ anc[new[p][r]] \subseteq anc[tip[r]]
  /\ pc[p] = "finish" => out[p] = NoCursors \/ Onward(out[p])
  /\ pc[p] = "write" => Onward(out[p])

OnwardOK == Onward(section.cursors) /\ \A p \in Run : OnwardRunOK(p)

\* Neither the repository nor the spec changes under a run, as on a machine with
\* a checkout of its own.
Undisturbed ==
  [][(\E p \in Run : pc[p] # "idle") => UNCHANGED <<repoVars, paused>>]_vars

\* Then a run is one function of the cursors it starts from and the heads.
Ahead(cursors, refs) == UNION {NewCommits(r, cursors[r]) : r \in refs}

WorthReporting ==
  ~(Ahead(section.cursors, Ref) \subseteq Noise) \/ FirstIsAhead

Outcome ==
  IF paused
  THEN [cursors |-> section.cursors, result |-> "clean", found |-> {}]
  ELSE IF WorthReporting
  THEN [cursors |-> tip, result |-> "found", found |-> Ahead(section.cursors, Ref)]
  ELSE [cursors |-> tip, result |-> "clean", found |-> {}]

WholeRunOK(p) ==
  /\ paused => pc[p] \in {"idle", "finish", "write", "log"}
  /\ pc[p] \in {"idle", "probe", "read"} => idx[p] = 1
  /\ pc[p] \in {"idle", "probe", "read", "resolve", "list", "compare", "tip"}
       => cite[p] = None
  /\ pc[p] = "tip" => FirstIsAhead
  /\ \A r \in Ref : ResolvedBy(p, r) => new[p][r] = tip[r]
  /\ pc[p] \in {"resolve", "list"}
       => found[p] = Ahead(section.cursors, 1 .. idx[p] - 1)
  /\ pc[p] \in {"compare", "tip", "judge"} => found[p] = Ahead(section.cursors, Ref)
  /\ pc[p] = "judge" => (cite[p] # None <=> FirstIsAhead)
  /\ pc[p] = "finish" /\ res[p] \in {"clean", "found"} =>
       Outcome = [cursors |-> CursorsToWrite(p), result |-> res[p], found |-> Findings(p)]
  /\ pc[p] = "write" /\ res[p] \in {"clean", "found"} =>
       Outcome = [cursors |-> out[p], result |-> res[p], found |-> Findings(p)]

WholeRun == \A p \in Run : WholeRunOK(p)

\* An undisturbed run that ends as clean or found reports exactly the commits its
\* refs have and its cursors do not cover, and moves every cursor to its head; a
\* paused one leaves both alone.
WholeReport ==
  [][section'.result \in {"clean", "found"} => section' = Outcome]_section

\* A run never writes a finding that every durable cursor already covers, so
\* while the refs stand still nothing is reported again (one run at a time, no
\* other writer).  A commit reported through one ref is reported again when
\* another ref gets it, or when its ref is forced away from it and back.
CoveredNotReported ==
  [][\A c \in section'.found :
        \E r \in Ref : c \notin Behind(section.cursors[r])]_section

\* A run that failed leaves the cursors as they were, whatever was force-pushed
\* or pruned under it (one run at a time, no other writer).
FailedRunKeepsCursors ==
  [][section'.result \in {"error", "escalated"}
       => section'.cursors = section.cursors]_section

\* Without force-pushes, with one run at a time and no other writer, no outcome
\* - clean, found, error, escalated, paused - takes a cursor back or forgets one.
CursorsNeverRetreat ==
  [][\A r \in Ref : Behind(section.cursors[r])
                      \subseteq Behind(section.cursors[r])']_vars

\* Every commit that reaches a watched ref is reported, provided the kill
\* switch is eventually off and the repository eventually readable for good.
EveryCommitReported ==
  \A c \in Commit, r \in Ref :
    (<>[](~paused) /\ <>[](repo = "ok"))
      => (c \in anc[tip[r]] ~> c \in Accounted)

\* The loop implements an at-least-once feed of the repository's commits.
Promise ==
  INSTANCE Feed WITH
    Item <- Commit,
    Exempt <- Noise \cup Old,
    available <- made,
    covered <- UNION {Behind(section.cursors[r]) : r \in Ref}
ImplementsFeed == Promise!Spec

\* "the repository couldn't be read (not a git repo ...) - must escalate as
\* Unverifiable, never be mistaken for a fabricated SHA" (verifier.rs)
UnreadableRepoEscalates ==
  [][\A p \in Run : res[p] # "error" /\ res'[p] = "error" => repo = "ok"]_vars
=============================================================================
