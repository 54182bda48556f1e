----------------------------- MODULE AssistedFix -----------------------------
(***************************************************************************)
(* The L2/L3 assisted-fix loop, AssistedFixLoop.run, _maybe_auto_merge and *)
(* _finish (loopengine/assisted.py), over the git worktrees and branches   *)
(* of loopengine/worktree.py.                                              *)
(*                                                                         *)
(* Every git command and state write of a run is a step: people push to    *)
(* the base branch, other runs of the same loop proceed, and processes die *)
(* between any two.  The branch of a run is loop/<id>-<first 7 digits of   *)
(* the base>, so branches are named here by the base commit.  What an edit *)
(* contains is reduced to what the gates can tell: nothing, a change whose *)
(* tests pass, one whose tests fail, one that tampers with the verifier.   *)
(***************************************************************************)
EXTENDS Naturals, FiniteSets

CONSTANTS
  Commit,          \* commits that may ever exist
  Root,            \* the first tip of base_ref
  Run,             \* processes running this loop
  Phases,          \* what the spec may say: "L2", "L3", "L3 without allowlist"
  MaxAttempts,     \* budget.max_iterations
  MakerCommits,    \* may the maker run `git commit` in its worktree?
  GuardMayDie,     \* may loopguard exit without output while it scans a diff?
  PeoplePush,      \* do people push to base_ref meanwhile?
  MaxCrashes,      \* bound: processes killed half-way
  MaxWriteFaults,  \* bound: state-file writes that raise
  None

ASSUME CommitAssumption == IsFiniteSet(Commit) /\ Root \in Commit /\ None \notin Commit
ASSUME PhasesAssumption == Phases \subseteq {"L2", "L3", "L3 without allowlist"}
ASSUME BoundsAssumption ==
  /\ MaxAttempts \in Nat /\ MaxCrashes \in Nat /\ MaxWriteFaults \in Nat
  /\ MakerCommits \in BOOLEAN /\ PeoplePush \in BOOLEAN
  /\ GuardMayDie \in BOOLEAN

Pc == {"idle", "resolve", "drop", "add", "make", "judge", "test", "commit",
       "gate", "reread", "move", "unlink", "delete", "write", "log"}
Result == {"none", "clean", "proposed", "merged", "escalated", "error"}

VARIABLES
  (* the target repository *)
  made,       \* commits that exist
  anc,        \* anc[c]: c and its ancestors
  base,       \* the tip of base_ref
  branch,     \* branch[n]: tip of loop/<id>-n, None when there is none
  stale,      \* branches held by the worktree of a dead process
  (* durable state *)
  section, row,
  (* locals of each run *)
  pc, wt, name, from, phase, attempt, edit, commit, old, res, keep, guarded,
  crashes, writeFaults,
  (* history variables *)
  scanned,    \* commits whose diff passed the integrity scan and the tests
  byLoop,     \* commits made in a worktree
  awaiting,   \* awaiting[n]: the commit a finished run left for review on n
  audited     \* commits some "merged" row of the run log names

repoVars == <<made, anc, base, branch, stale>>
durableVars == <<section, row>>
gitLocals == <<wt, name, from>>
runLocals == <<phase, attempt, edit, commit, old>>
endLocals == <<res, keep, guarded>>
boundVars == <<crashes, writeFaults>>
ghostVars == <<scanned, byLoop, awaiting, audited>>
vars == <<repoVars, durableVars, pc, gitLocals, runLocals, endLocals,
          boundVars, ghostVars>>

-----------------------------------------------------------------------------
\* git refuses to delete a branch some worktree has checked out, the worktree
\* of a dead process included.
CheckedOut(n) == n \in stale \/ \E p \in Run : wt[p] = n

\* git branch -D, failures ignored
BranchAfterDelete(n) == IF CheckedOut(n) THEN branch[n] ELSE None

\* n commits are still to be had besides one for every edit that will need one
\* (the pool of commits is the bound on how much happens).
SpareFor(n) == Cardinality(Commit \ made)
                 >= n + Cardinality({p \in Run : edit[p] = "good"})

NewCommit(c, parent) ==
  /\ c \notin made
  /\ made' = made \cup {c}
  /\ anc' = [anc EXCEPT ![c] = {c} \cup anc[parent]]

Goto(p, label) == pc' = [pc EXCEPT ![p] = label]

\* return self._finish(AssistedResult(result, ...), wt, keep_branch=kept)
Decide(p, result, kept) ==
  /\ Goto(p, "unlink")
  /\ res' = [res EXCEPT ![p] = result]
  /\ keep' = [keep EXCEPT ![p] = kept]
  /\ UNCHANGED guarded

\* Mutant: the handler keeps the branch.
FailKeeping(p) ==
  /\ Goto(p, "unlink")
  /\ res' = [res EXCEPT ![p] = "error"]
  /\ keep' = [keep EXCEPT ![p] = TRUE]
  /\ guarded' = [guarded EXCEPT ![p] = FALSE]

\* except Exception: self._finish(AssistedResult("error"), wt, False).  What
\* this second _finish raises nobody catches.
Fail(p) ==
  /\ Goto(p, "unlink")
  /\ res' = [res EXCEPT ![p] = "error"]
  /\ keep' = [keep EXCEPT ![p] = FALSE]
  /\ guarded' = [guarded EXCEPT ![p] = FALSE]

Forget(p) ==
  /\ Goto(p, "idle")
  /\ wt' = [wt EXCEPT ![p] = None]
  /\ name' = [name EXCEPT ![p] = None]
  /\ from' = [from EXCEPT ![p] = None]
  /\ phase' = [phase EXCEPT ![p] = "none"]
  /\ attempt' = [attempt EXCEPT ![p] = 0]
  /\ edit' = [edit EXCEPT ![p] = "none"]
  /\ commit' = [commit EXCEPT ![p] = None]
  /\ old' = [old EXCEPT ![p] = None]
  /\ res' = [res EXCEPT ![p] = "none"]
  /\ keep' = [keep EXCEPT ![p] = FALSE]
  /\ guarded' = [guarded EXCEPT ![p] = FALSE]

Init ==
  /\ made = {Root} /\ base = Root /\ stale = {}
  /\ anc = [c \in Commit |-> IF c = Root THEN {Root} ELSE {}]
  /\ branch = [n \in Commit |-> None]
  /\ section = [result |-> "none", commit |-> None]
  /\ row = "none"
  /\ pc = [p \in Run |-> "idle"]
  /\ wt = [p \in Run |-> None]
  /\ name = [p \in Run |-> None]
  /\ from = [p \in Run |-> None]
  /\ phase = [p \in Run |-> "none"]
  /\ attempt = [p \in Run |-> 0]
  /\ edit = [p \in Run |-> "none"]
  /\ commit = [p \in Run |-> None]
  /\ old = [p \in Run |-> None]
  /\ res = [p \in Run |-> "none"]
  /\ keep = [p \in Run |-> FALSE]
  /\ guarded = [p \in Run |-> FALSE]
  /\ crashes = 0 /\ writeFaults = 0
  /\ scanned = {} /\ byLoop = {} /\ audited = {}
  /\ awaiting = [n \in Commit |-> None]

-----------------------------------------------------------------------------
(* A run up to its worktree.                                               *)

\* Wrong phase, paused, target not a repository or injection in the brief:
\* nothing is touched but the state.
Refuse(p) ==
  /\ pc[p] = "idle"
  /\ Goto(p, "write")
  /\ \E r \in {"clean", "escalated", "error"} : res' = [res EXCEPT ![p] = r]
  /\ UNCHANGED <<repoVars, durableVars, gitLocals, runLocals, keep, guarded,
                 boundVars, ghostVars>>

Start(p) ==
  /\ pc[p] = "idle"
  /\ Goto(p, "resolve")
  /\ \E ph \in Phases : phase' = [phase EXCEPT ![p] = ph]
  /\ UNCHANGED <<repoVars, durableVars, gitLocals, attempt, edit, commit, old,
                 endLocals, boundVars, ghostVars>>

\* base_sha names the branch; from here on exceptions are caught
Resolve(p) ==
  /\ pc[p] = "resolve"
  /\ name' = [name EXCEPT ![p] = base]
  /\ guarded' = [guarded EXCEPT ![p] = TRUE]
  /\ Goto(p, "drop")
  /\ UNCHANGED <<repoVars, durableVars, wt, from, runLocals, res, keep,
                 boundVars, ghostVars>>

\* git cannot resolve base_ref: nobody catches the GitError, nothing is written
ResolveFails(p) ==
  /\ pc[p] = "resolve"
  /\ Forget(p)
  /\ UNCHANGED <<repoVars, durableVars, boundVars, ghostVars>>

\* Worktree.create: clear a branch of the same name if git lets us ...
DropStale(p) ==
  /\ pc[p] = "drop"
  /\ branch' = [branch EXCEPT ![name[p]] = BranchAfterDelete(name[p])]
  /\ Goto(p, "add")
  /\ UNCHANGED <<made, anc, base, stale, durableVars, gitLocals, runLocals,
                 endLocals, boundVars, ghostVars>>

\* ... and `git worktree add -b`, off base_ref as it is now.
AddWorktree(p) ==
  /\ pc[p] = "add"
  /\ branch[name[p]] = None
  /\ branch' = [branch EXCEPT ![name[p]] = base]
  /\ wt' = [wt EXCEPT ![p] = name[p]]
  /\ from' = [from EXCEPT ![p] = base]
  /\ IF MaxAttempts > 0
     THEN /\ attempt' = [attempt EXCEPT ![p] = 1]
          /\ Goto(p, "make") /\ UNCHANGED endLocals
     ELSE Decide(p, "escalated", FALSE) /\ UNCHANGED attempt
  /\ UNCHANGED <<made, anc, base, stale, durableVars, name, phase, edit,
                 commit, old, boundVars, ghostVars>>

AddFails(p) ==
  /\ pc[p] = "add"
  /\ branch[name[p]] # None
  /\ Fail(p)
  /\ UNCHANGED <<repoVars, durableVars, gitLocals, runLocals, boundVars, ghostVars>>

-----------------------------------------------------------------------------
(* Attempts.                                                               *)

Make(p) ==
  /\ pc[p] = "make"
  /\ \E e \in {"none", "good", "bad", "tamper"} :
       /\ e = "good" => SpareFor(1)
       /\ edit' = [edit EXCEPT ![p] = e]
  /\ Goto(p, "judge")
  /\ UNCHANGED <<repoVars, durableVars, gitLocals, phase, attempt, commit, old,
                 endLocals, boundVars, ghostVars>>

\* A maker_command is any shell command the denylist does not match, and the
\* denylist does not match `git commit`; it may leave more to stage.
MakeAndCommit(p) ==
  /\ MakerCommits
  /\ pc[p] = "make"
  /\ \E c \in Commit :
       /\ NewCommit(c, branch[name[p]])
       /\ branch' = [branch EXCEPT ![name[p]] = c]
       /\ byLoop' = byLoop \cup {c}
  /\ \E e \in {"none", "good", "bad", "tamper"} :
       /\ SpareFor(IF e = "good" THEN 2 ELSE 1)
       /\ edit' = [edit EXCEPT ![p] = e]
  /\ Goto(p, "judge")
  /\ UNCHANGED <<base, stale, durableVars, gitLocals, phase, attempt, commit,
                 old, endLocals, boundVars, scanned, awaiting, audited>>

\* Anything inside the try may raise: git, the maker, the guard, the shell.
InfraFails(p) ==
  /\ pc[p] \in {"make", "judge", "test", "commit", "gate", "reread", "move"}
  /\ Fail(p)
  /\ UNCHANGED <<repoVars, durableVars, gitLocals, runLocals, boundVars, ghostVars>>

\* Mutants: the attempt is not counted; one attempt too many.
NextAttemptUncounted(p) ==
  /\ edit' = [edit EXCEPT ![p] = "none"]
  /\ Goto(p, "make") /\ UNCHANGED <<attempt, endLocals>>

NextAttemptTooMany(p) ==
  /\ edit' = [edit EXCEPT ![p] = "none"]
  /\ IF attempt[p] <= MaxAttempts
     THEN /\ attempt' = [attempt EXCEPT ![p] = @ + 1]
          /\ Goto(p, "make") /\ UNCHANGED endLocals
     ELSE Decide(p, "escalated", FALSE) /\ UNCHANGED attempt

\* reset --hard; clean; the next attempt or, after the last, escalate.
NextAttempt(p) ==
  /\ edit' = [edit EXCEPT ![p] = "none"]
  /\ IF attempt[p] < MaxAttempts
     THEN /\ attempt' = [attempt EXCEPT ![p] = @ + 1]
          /\ Goto(p, "make") /\ UNCHANGED endLocals
     ELSE Decide(p, "escalated", FALSE) /\ UNCHANGED attempt

\* Mutant: an edit flagged by the integrity scan goes on to the tests.
TamperedNever(p) == FALSE

\* guard.scan_diff(staged diff) finds verifier tampering
Tampered(p) == edit[p] = "tamper"

\* The staged diff: empty, tampering or fit to be tested.  For a loopguard that
\* printed nothing Loopguard.scan_diff substitutes {"clean": true}.
Judge(p) ==
  /\ pc[p] = "judge"
  /\ \/ edit[p] = "none" /\ NextAttempt(p)
     \/ Tampered(p) /\ Decide(p, "escalated", FALSE) /\ UNCHANGED <<attempt, edit>>
     \/ /\ edit[p] # "none"
        /\ Tampered(p) => GuardMayDie
        /\ Goto(p, "test") /\ UNCHANGED <<attempt, edit, endLocals>>
  /\ UNCHANGED <<repoVars, durableVars, gitLocals, phase, commit, old,
                 boundVars, ghostVars>>

\* Tampering makes any test pass: that is what it is for.
Passes(p) == edit[p] \in {"good", "tamper"}

Test(p) ==
  /\ pc[p] = "test"
  /\ IF Passes(p) THEN Goto(p, "commit") /\ UNCHANGED <<attempt, edit, endLocals>>
     ELSE NextAttempt(p)
  /\ UNCHANGED <<repoVars, durableVars, gitLocals, phase, commit, old,
                 boundVars, ghostVars>>

\* wt.commit, then L2 proposes the branch and L3 goes on to its gate.
CommitEdit(p) ==
  /\ pc[p] = "commit"
  /\ \E c \in Commit :
       /\ NewCommit(c, branch[name[p]])
       /\ branch' = [branch EXCEPT ![name[p]] = c]
       /\ commit' = [commit EXCEPT ![p] = c]
       /\ byLoop' = byLoop \cup {c}
       /\ scanned' = IF edit[p] = "good" THEN scanned \cup {c} ELSE scanned
  /\ edit' = [edit EXCEPT ![p] = "none"]
  /\ IF phase[p] = "L2" THEN Decide(p, "proposed", TRUE)
     ELSE Goto(p, "gate") /\ UNCHANGED endLocals
  /\ UNCHANGED <<base, stale, durableVars, gitLocals, phase, attempt, old,
                 boundVars, awaiting, audited>>

-----------------------------------------------------------------------------
(* L3: _maybe_auto_merge.                                                  *)

\* No policy; outside the allowlist or base_ref checked out; or go ahead.
Gate(p) ==
  /\ pc[p] = "gate"
  /\ \/ phase[p] # "L3" /\ Decide(p, "escalated", TRUE)
     \/ phase[p] = "L3" /\ Decide(p, "proposed", TRUE)
     \/ phase[p] = "L3" /\ Goto(p, "reread") /\ UNCHANGED endLocals
  /\ UNCHANGED <<repoVars, durableVars, gitLocals, runLocals, boundVars, ghostVars>>

\* old_base = resolve(target, base_ref)
ReadOldBase(p) ==
  /\ pc[p] = "reread"
  /\ old' = [old EXCEPT ![p] = base]
  /\ Goto(p, "move")
  /\ UNCHANGED <<repoVars, durableVars, gitLocals, phase, attempt, edit, commit,
                 endLocals, boundVars, ghostVars>>

\* Mutant: update-ref without the expected old value.
OldBaseUnchecked(p) == TRUE

\* update-ref compares the ref with the old value it is given
OldBaseMatches(p) == base = old[p]

\* update-ref refs/heads/<base_ref> <commit> <old_base>
MoveBase(p) ==
  /\ pc[p] = "move"
  /\ IF OldBaseMatches(p)
     THEN base' = commit[p] /\ Decide(p, "merged", FALSE)
     ELSE Fail(p) /\ UNCHANGED base
  /\ UNCHANGED <<made, anc, branch, stale, durableVars, gitLocals, runLocals,
                 boundVars, ghostVars>>

-----------------------------------------------------------------------------
(* _finish: cleanup, state section, run-log row.                           *)

\* git worktree remove --force
RemoveWorktree(p) ==
  /\ pc[p] = "unlink"
  /\ wt' = [wt EXCEPT ![p] = None]
  /\ Goto(p, "delete")
  /\ UNCHANGED <<repoVars, durableVars, name, from, runLocals, endLocals,
                 boundVars, ghostVars>>

\* if not keep_branch
DeletesBranch(p) == ~keep[p]

DeleteBranch(p) ==
  /\ pc[p] = "delete"
  /\ branch' = [branch EXCEPT ![name[p]] =
                  IF DeletesBranch(p) THEN BranchAfterDelete(name[p]) ELSE @]
  /\ Goto(p, "write")
  /\ UNCHANGED <<made, anc, base, stale, durableVars, gitLocals, runLocals,
                 endLocals, boundVars, ghostVars>>

WriteState(p) ==
  /\ pc[p] = "write"
  /\ section' = [result |-> res[p],
                  commit |-> IF res[p] = "error" THEN None ELSE commit[p]]
  /\ Goto(p, "log")
  /\ UNCHANGED <<repoVars, row, gitLocals, runLocals, endLocals, boundVars, ghostVars>>

\* The state file or the run log cannot be written.  Inside run()'s try the
\* handler calls _finish a second time, as an error that keeps nothing; the
\* second failure, and any before the try, ends the process.
WriteFails(p) ==
  /\ pc[p] \in {"write", "log"}
  /\ writeFaults < MaxWriteFaults
  /\ writeFaults' = writeFaults + 1
  /\ IF guarded[p] THEN Fail(p) /\ UNCHANGED <<gitLocals, runLocals>>
     ELSE Forget(p)
  /\ UNCHANGED <<repoVars, durableVars, crashes, ghostVars>>

AppendLog(p) ==
  /\ pc[p] = "log"
  /\ row' = res[p]
  /\ audited' = IF res[p] = "merged" THEN audited \cup {commit[p]} ELSE audited
  /\ awaiting' = IF keep[p] THEN [awaiting EXCEPT ![name[p]] = commit[p]] ELSE awaiting
  /\ Forget(p)
  /\ UNCHANGED <<repoVars, section, boundVars, scanned, byLoop>>

RunStep(p) ==
  \/ Start(p) \/ Refuse(p) \/ Resolve(p) \/ ResolveFails(p) \/ DropStale(p)
  \/ AddWorktree(p) \/ AddFails(p) \/ Make(p) \/ MakeAndCommit(p)
  \/ InfraFails(p) \/ Judge(p) \/ Test(p) \/ CommitEdit(p) \/ Gate(p) \/ ReadOldBase(p) \/ MoveBase(p)
  \/ RemoveWorktree(p) \/ DeleteBranch(p) \/ WriteState(p) \/ AppendLog(p)

-----------------------------------------------------------------------------
(* Everyone else.                                                          *)

\* The process dies; its worktree stays on disk and keeps its branch.
Crash(p) ==
  /\ pc[p] # "idle"
  /\ crashes < MaxCrashes
  /\ crashes' = crashes + 1
  /\ stale' = IF wt[p] # None THEN stale \cup {wt[p]} ELSE stale
  /\ Forget(p)
  /\ UNCHANGED <<made, anc, base, branch, durableVars, writeFaults, ghostVars>>

\* Someone pushes to base_ref.
Push(c) ==
  /\ PeoplePush
  /\ SpareFor(1)
  /\ NewCommit(c, base)
  /\ base' = c
  /\ UNCHANGED <<branch, stale, durableVars, pc, gitLocals, runLocals,
                 endLocals, boundVars, ghostVars>>

\* Someone reviews a proposal and deletes its branch.
Review(n) ==
  /\ awaiting[n] # None
  /\ branch[n] # None /\ ~CheckedOut(n)
  /\ branch' = [branch EXCEPT ![n] = None]
  /\ awaiting' = [awaiting EXCEPT ![n] = None]
  /\ UNCHANGED <<made, anc, base, stale, durableVars, pc, gitLocals, runLocals,
                 endLocals, boundVars, scanned, byLoop, audited>>

Next ==
  \/ \E p \in Run : RunStep(p) \/ WriteFails(p) \/ Crash(p)
  \/ \E c \in Commit : Push(c)
  \/ \E n \in Commit : Review(n)

Spec == Init /\ [][Next]_vars

\* A started process keeps executing; nothing is asked of people.
FairSpec == Spec /\ \A p \in Run : WF_vars(pc[p] # "idle" /\ RunStep(p))

-----------------------------------------------------------------------------
TypeOK ==
  /\ made \subseteq Commit /\ anc \in [Commit -> SUBSET Commit]
  /\ base \in Commit /\ branch \in [Commit -> Commit \cup {None}]
  /\ stale \subseteq Commit
  /\ section \in [result : Result, commit : Commit \cup {None}]
  /\ row \in Result
  /\ pc \in [Run -> Pc]
  /\ wt \in [Run -> Commit \cup {None}] /\ name \in [Run -> Commit \cup {None}]
  /\ from \in [Run -> Commit \cup {None}]
  /\ phase \in [Run -> Phases \cup {"none"}]
  /\ attempt \in [Run -> 0 .. MaxAttempts]
  /\ edit \in [Run -> {"none", "good", "bad", "tamper"}]
  /\ commit \in [Run -> Commit \cup {None}] /\ old \in [Run -> Commit \cup {None}]
  /\ res \in [Run -> Result] /\ keep \in [Run -> BOOLEAN] /\ guarded \in [Run -> BOOLEAN]
  /\ crashes \in 0 .. MaxCrashes /\ writeFaults \in 0 .. MaxWriteFaults
  /\ scanned \subseteq Commit /\ byLoop \subseteq Commit /\ audited \subseteq Commit
  /\ awaiting \in [Commit -> Commit \cup {None}]

\* Nothing a loop made reaches base_ref unless its own diff passed the
\* integrity scan and the tests, and no ancestor slipped in under it.
OnlyScannedMerges == anc[base] \cap byLoop \subseteq scanned

\* However runs interleave, fail and retry, once none is running every
\* loop branch is one a finished run left for review.
NoLitter ==
  (\A p \in Run : pc[p] = "idle") /\ crashes = 0
    => \A n \in Commit : branch[n] # None => awaiting[n] # None

(* The strengthening every step preserves.                                 *)

Working == {"make", "judge", "test", "commit", "gate", "reread", "move"}

\* The worktree of a run holds the run's own branch, which grew from `from`.
RunOK(p) ==
  /\ wt[p] # None => /\ wt[p] = name[p] /\ branch[name[p]] # None
                     /\ pc[p] \in Working \cup {"unlink"}
  /\ pc[p] \in Working => /\ wt[p] # None /\ from[p] \in made
                          /\ anc[from[p]] \subseteq anc[branch[name[p]]]
  /\ pc[p] \in {"gate", "reread", "move"} => commit[p] = branch[name[p]]
  /\ pc[p] = "move" => old[p] # None
  /\ pc[p] \notin {"idle", "resolve", "write", "log"} => name[p] # None
  /\ keep[p] => /\ guarded[p] /\ commit[p] # None
                /\ pc[p] \in {"unlink", "delete", "write", "log"}
  /\ guarded[p] => name[p] # None
  /\ pc[p] \in Working \cup {"drop", "add"} => guarded[p]
  /\ res[p] = "merged" => commit[p] # None

\* The run that will delete branch n or leave it for review.
Owns(p, n) ==
  /\ name[p] = n
  /\ \/ pc[p] \in Working \cup {"unlink", "delete"}
     \/ pc[p] \in {"write", "log"} /\ keep[p]

LitterOK ==
  crashes = 0 =>
    /\ stale = {}
    /\ \A n \in Commit : branch[n] # None => awaiting[n] # None \/ \E p \in Run : Owns(p, n)

IInv ==
  /\ base \in made /\ \A n \in Commit : branch[n] \in made \cup {None}
  /\ \A p \in Run : RunOK(p)
  /\ \A p, q \in Run : wt[p] = wt[q] /\ wt[p] # None => p = q
  /\ LitterOK

\* With makers that leave commits to the loop and a scanner that answers.
AllScanned ==
  ~MakerCommits /\ ~GuardMayDie =>
    /\ byLoop \subseteq scanned
    /\ \A p \in Run : /\ pc[p] = "test" => edit[p] # "tamper"
                      /\ pc[p] = "commit" => edit[p] = "good"

\* base_ref only ever loses commits to an auto-merge that itself read back a
\* base other than the one its worktree was taken from.  The compare-and-swap
\* of update-ref closes the window after that read; nothing closes the longer
\* one before it (BaseOnlyFastForwards).
LossOnlyWhenOvertaken ==
  [][anc[base] \subseteq (anc[base])'
       \/ \E p \in Run : pc[p] = "move" /\ pc'[p] # "move" /\ old[p] # from[p]]_vars

\* "Auto-merge is a fast-forward of base_ref - never a force-push, never a
\* history rewrite" (assisted.py)
BaseOnlyFastForwards == [][anc[base] \subseteq (anc[base])']_vars

\* "leave it for a human to review" (assisted.py), "the branch is kept, so a
\* human can review and merge it" (worktree.py)
ProposalSurvives ==
  \A n \in Commit : awaiting[n] # None => branch[n] = awaiting[n]

\* "clear a stale branch of the same name so create is idempotent"
\* (worktree.py): create fails only while another live run has the branch.
CreateIsIdempotent ==
  [][\A p \in Run :
        pc[p] = "add" /\ pc'[p] = "unlink" => \E q \in Run : wt[q] = name[p]]_vars

\* "it is the audit trail you reconstruct history from" (state.py): when no
\* run is in progress, every auto-merge on base_ref has its row.
EveryMergeIsAudited ==
  (\A p \in Run : pc[p] = "idle") => anc[base] \cap byLoop \subseteq audited

\* The steps a run has before it at most: what is left of the pipeline, three per
\* attempt that remains, and the four of the second _finish run()'s handler calls
\* when the first one cannot write.
StepsLeft(p) ==
  LET attempts == IF pc[p] \in {"resolve", "drop", "add"} THEN 3 * MaxAttempts
                  ELSE IF pc[p] \in {"make", "judge", "test"}
                  THEN 3 * (MaxAttempts - attempt[p]) ELSE 0
      again == IF pc[p] \in {"unlink", "delete", "write", "log"} /\ guarded[p]
               THEN 4 ELSE 0
      stage == CASE pc[p] = "resolve" -> 18 [] pc[p] = "drop" -> 17
                 [] pc[p] = "add" -> 16 [] pc[p] = "make" -> 15
                 [] pc[p] = "judge" -> 14 [] pc[p] = "test" -> 13
                 [] pc[p] = "commit" -> 12 [] pc[p] = "gate" -> 11
                 [] pc[p] = "reread" -> 10 [] pc[p] = "move" -> 9
                 [] pc[p] = "unlink" -> 4 [] pc[p] = "delete" -> 3
                 [] pc[p] = "write" -> 2 [] pc[p] = "log" -> 1
                 [] OTHER -> 0
  IN  stage + attempts + again

\* Failed attempts, exceptions and failing writes send a run back, but never for
\* more than its iterations: whatever a busy run does takes it nearer its end,
\* and nobody else's step puts it off.
EveryStepCounts ==
  [][\A p \in Run :
       /\ StepsLeft(p) \in 0 .. 18 + 3 * MaxAttempts
       /\ pc[p] # "idle" => StepsLeft(p)' < StepsLeft(p)
                               \/ UNCHANGED <<pc[p], attempt[p], guarded[p]>>
       /\ RunStep(p) /\ pc[p] # "idle" => StepsLeft(p)' < StepsLeft(p)]_vars

\* Every run ends, and with it its worktree.
EveryRunEnds == \A p \in Run : pc[p] # "idle" ~> pc[p] = "idle"
=============================================================================
