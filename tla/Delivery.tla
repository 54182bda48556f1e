------------------------------- MODULE Delivery -------------------------------
(***************************************************************************)
(* The last mile of an assisted-fix proposal: `loopengine run` of a spec   *)
(* with a "proposer" (cmd_run and _deliver_proposal, loopengine/cli.py),   *)
(* which pushes the loop/* branch and opens a pull request                 *)
(* (GitHubProposer and GitHubRestAPI, loopengine/proposer.py), and then    *)
(* amends the section _finish left.  `loopengine schedule` runs the same   *)
(* spec (default_runner, scheduler.py) and delivers nothing.               *)
(*                                                                         *)
(* The run up to its result is the subject of module AssistedFix; here it  *)
(* takes a branch and leaves a proposal or nothing.  Branches are named by *)
(* their base, as in loop/<id>-<base7>, and proposed commits are numbered  *)
(* as they are made: a tip is 0 (the base itself) or a proposal.  Every    *)
(* push, API call and state access is a step.                              *)
(***************************************************************************)
EXTENDS Naturals

CONSTANTS
  Run,         \* processes running this spec
  Scheduled,   \* those of them that are `loopengine schedule`
  MaxBases,    \* bound: tips base_ref has over time
  MaxFixes,    \* bound: proposals made
  MaxFaults,   \* bound: kills and state accesses that raise
  None         \* "no such branch"

ASSUME DeliveryAssumption ==
  /\ Scheduled \subseteq Run
  /\ MaxBases \in Nat \ {0} /\ MaxFixes \in Nat /\ MaxFaults \in Nat
  /\ None \notin Nat

Base == 1 .. MaxBases
Fix == 1 .. MaxFixes
Tip == 0 .. MaxFixes
Section == [commit : Tip, pr : Tip]
Pc == {"idle", "make", "token", "slug", "push", "open", "read", "write", "row", "report"}

VARIABLES
  (* the target repository and its remote *)
  base,     \* the tip of base_ref
  local,    \* local[n]: what the local branch loop/<id>-n points at
  remote,   \* remote[n]: what the branch of that name on GitHub points at
  open,     \* proposals cited by the body of a pull request that is open
  (* durable state *)
  section,  \* "commit" and "pr_url" of the loop's section, 0 when not there
  row,      \* row[k]: the run-log row about the delivery of proposal k
  (* the proposals made so far, and locals of each process *)
  fixes, off, pc, name, fix, sec,
  faults,
  (* history variables *)
  opened,   \* proposals some pull request was ever opened for
  reopened, \* those of them another was opened for after the first
  doubted,  \* those GitHub answered with an error after opening them
  cut,      \* proposals whose delivery ended without a row
  killed,   \* those of them that a kill or a state fault cut short
  orderly   \* no two processes have overlapped

repoVars == <<base, local, remote, open>>
durableVars == <<section, row>>
madeVars == <<fixes, off>>
runVars == <<pc, name, fix, sec>>
ghostVars == <<opened, reopened, doubted, cut, killed>>
vars == <<repoVars, durableVars, madeVars, runVars, faults, ghostVars, orderly>>

-----------------------------------------------------------------------------
\* Mutant: the refspec is "+branch:branch".
MayPushForced(n) == local[n] # None

\* git takes the push of an existing branch over an ancestor only: the same
\* commit, or the base the proposal was made off.
MayPush(n) == local[n] # None /\ remote[n] \in {None, 0, local[n]}

\* GitHub opens one pull request per head branch, and none without commits.
MayOpen(n) == remote[n] \notin {None, 0} /\ \A k \in open : off[k] # n

\* A worktree has branch n checked out.
CheckedOut(n) == \E q \in Run : pc[q] = "make" /\ name[q] = n

Alone(p) == \A q \in Run \ {p} : pc[q] = "idle"

Goto(p, label) == pc' = [pc EXCEPT ![p] = label]

\* The process is through with its proposal.
Leave(p) ==
  /\ Goto(p, "idle")
  /\ fix' = [fix EXCEPT ![p] = 0]
  /\ sec' = [sec EXCEPT ![p] = [commit |-> 0, pr |-> 0]]
  /\ UNCHANGED name

Init ==
  /\ base = 1 /\ open = {}
  /\ local = [n \in Base |-> None]
  /\ remote = [n \in Base |-> None]
  /\ section = [commit |-> 0, pr |-> 0]
  /\ row = [k \in Fix |-> "none"]
  /\ fixes = 0
  /\ off = [k \in Fix |-> 1]
  /\ pc = [p \in Run |-> "idle"]
  /\ name = [p \in Run |-> 1]
  /\ fix = [p \in Run |-> 0]
  /\ sec = [p \in Run |-> [commit |-> 0, pr |-> 0]]
  /\ faults = 0
  /\ opened = {} /\ reopened = {} /\ doubted = {} /\ cut = {} /\ killed = {}
  /\ orderly = TRUE

-----------------------------------------------------------------------------
(* The run.                                                                *)

\* Worktree.create deletes a branch of the same name and takes it anew.
Begin(p) ==
  /\ pc[p] = "idle"
  /\ fixes < MaxFixes
  /\ ~CheckedOut(base)
  /\ local' = [local EXCEPT ![base] = 0]
  /\ name' = [name EXCEPT ![p] = base]
  /\ Goto(p, "make")
  /\ orderly' = (orderly /\ Alone(p))
  /\ UNCHANGED <<base, remote, open, durableVars, madeVars, fix, sec, faults, ghostVars>>

\* the section _finish composes: no pr_url in it
Finished(k) == [commit |-> k, pr |-> 0]

\* A clean, escalated or failed run removes its branch, if it got that far.
EndWithout(p) ==
  /\ \/ /\ pc[p] = "make"
        /\ local' = [local EXCEPT ![name[p]] = None]
        /\ UNCHANGED orderly
     \/ /\ pc[p] = "idle"
        /\ orderly' = (orderly /\ Alone(p))
        /\ UNCHANGED local
  /\ section' = Finished(0)
  /\ Goto(p, "idle")
  /\ UNCHANGED <<base, remote, open, row, madeVars, name, fix, sec, faults, ghostVars>>

\* A verified commit is left on the branch.
Propose(p) ==
  /\ pc[p] = "make"
  /\ fixes < MaxFixes
  /\ fixes' = fixes + 1
  /\ off' = [off EXCEPT ![fixes + 1] = name[p]]
  /\ local' = [local EXCEPT ![name[p]] = fixes + 1]
  /\ section' = Finished(fixes + 1)
  /\ IF p \in Scheduled THEN Goto(p, "idle") /\ UNCHANGED fix
     ELSE Goto(p, "token") /\ fix' = [fix EXCEPT ![p] = fixes + 1]
  /\ UNCHANGED <<base, remote, open, row, name, sec, faults, ghostVars, orderly>>

-----------------------------------------------------------------------------
(* The delivery.                                                           *)

\* GitHubRestAPI finds a token in the environment, or a ProposeError.
TakeToken(p) ==
  /\ pc[p] = "token"
  /\ Goto(p, "slug") \/ Goto(p, "report")
  /\ UNCHANGED <<repoVars, durableVars, madeVars, name, fix, sec, faults, ghostVars, orderly>>

\* A proposed result on a loop/ branch passes; the slug is the spec's, or is
\* read from the remote's URL, which git may not have or which is no GitHub's.
FindSlug(p) ==
  /\ pc[p] = "slug"
  /\ Goto(p, "push") \/ Goto(p, "report")
  /\ UNCHANGED <<repoVars, durableVars, madeVars, name, fix, sec, faults, ghostVars, orderly>>

PushAccepted(p) ==
  /\ pc[p] = "push"
  /\ MayPush(name[p])
  /\ remote' = [remote EXCEPT ![name[p]] = local[name[p]]]
  \* `git push` may fail after the remote has moved
  /\ Goto(p, "open") \/ Goto(p, "report")
  /\ UNCHANGED <<base, local, open, durableVars, madeVars, name, fix, sec, faults,
                 ghostVars, orderly>>

\* not a fast-forward, no such branch any more, or no connection
PushFails(p) ==
  /\ pc[p] = "push"
  /\ Goto(p, "report")
  /\ UNCHANGED <<repoVars, durableVars, madeVars, name, fix, sec, faults, ghostVars, orderly>>

\* render_pr_body: the commit the evidence in the body is about
Cited(p) == fix[p]

\* GitHub opens a pull request under the title and body of p's proposal.
OpensPullRequest(p) ==
  /\ MayOpen(name[p])
  /\ open' = open \cup {Cited(p)}
  /\ opened' = opened \cup {Cited(p)}
  /\ reopened' = reopened \cup (opened \cap {Cited(p)})

\* GitHub opens the pull request; its answer arrives, or is a gateway's error.
OpenAccepted(p) ==
  /\ pc[p] = "open"
  /\ OpensPullRequest(p)
  /\ \/ Goto(p, "read") /\ UNCHANGED doubted
     \/ Goto(p, "report") /\ doubted' = doubted \cup {fix[p]}
  /\ UNCHANGED <<base, local, remote, durableVars, madeVars, name, fix, sec, faults,
                 cut, killed, orderly>>

\* HTTPError and URLError become a ProposeError.
OpenFails(p) ==
  /\ pc[p] = "open"
  /\ Goto(p, "report")
  /\ UNCHANGED <<repoVars, durableVars, madeVars, name, fix, sec, faults, ghostVars, orderly>>

\* A connection cut or timed out while the answer is awaited, or an answer that
\* is no JSON, is neither: it passes _deliver_proposal's `except ProposeError`.
AnswerLost(p) ==
  /\ pc[p] = "open"
  /\ OpensPullRequest(p) \/ UNCHANGED <<open, opened, reopened>>
  /\ cut' = cut \cup {fix[p]}
  /\ Leave(p)
  /\ UNCHANGED <<base, local, remote, durableVars, madeVars, faults, doubted,
                 killed, orderly>>

ReadSection(p) ==
  /\ pc[p] = "read"
  /\ sec' = [sec EXCEPT ![p] = section]
  /\ Goto(p, "write")
  /\ UNCHANGED <<repoVars, durableVars, madeVars, name, fix, faults, ghostVars, orderly>>

\* section["pr_url"] = ...; state.write_section
WriteSection(p) ==
  /\ pc[p] = "write"
  /\ section' = [commit |-> sec[p].commit, pr |-> fix[p]]
  /\ Goto(p, "row")
  /\ UNCHANGED <<repoVars, row, madeVars, name, fix, sec, faults, ghostVars, orderly>>

LogOpened(p) ==
  /\ pc[p] = "row"
  /\ row' = [row EXCEPT ![fix[p]] = "opened"]
  /\ Leave(p)
  /\ UNCHANGED <<repoVars, section, madeVars, faults, ghostVars, orderly>>

\* Mutants: a failed delivery is tried again; its row is not written.
LogFailedAndRetry(p) ==
  /\ pc[p] = "report"
  /\ row' = [row EXCEPT ![fix[p]] = "failed"]
  /\ Goto(p, "push")
  /\ UNCHANGED <<repoVars, section, madeVars, name, fix, sec, faults, ghostVars, orderly>>

LogNothing(p) ==
  /\ pc[p] = "report"
  /\ Leave(p)
  /\ UNCHANGED <<repoVars, durableVars, madeVars, faults, ghostVars, orderly>>

\* except ProposeError: the row "pr-delivery-failed", and no second attempt
LogFailed(p) ==
  /\ pc[p] = "report"
  /\ row' = [row EXCEPT ![fix[p]] = "failed"]
  /\ Leave(p)
  /\ UNCHANGED <<repoVars, section, madeVars, faults, ghostVars, orderly>>

Deliver(p) ==
  \/ TakeToken(p) \/ FindSlug(p) \/ PushAccepted(p) \/ PushFails(p)
  \/ OpenAccepted(p) \/ OpenFails(p) \/ AnswerLost(p)
  \/ ReadSection(p) \/ WriteSection(p) \/ LogOpened(p) \/ LogFailed(p)

-----------------------------------------------------------------------------
(* Kills, and everyone else.                                               *)

\* The process is killed, or a state access raises: nobody catches it.
Die(p) ==
  /\ pc[p] \notin {"idle", "make"}
  /\ faults < MaxFaults
  /\ faults' = faults + 1
  /\ cut' = cut \cup {fix[p]}
  /\ killed' = killed \cup {fix[p]}
  /\ Leave(p)
  /\ UNCHANGED <<repoVars, durableVars, madeVars, opened, reopened, doubted, orderly>>

AdvanceBase ==
  /\ base < MaxBases
  /\ base' = base + 1
  /\ UNCHANGED <<local, remote, open, durableVars, madeVars, runVars, faults,
                 ghostVars, orderly>>

\* A reviewer merges or closes a pull request ...
Review(k) ==
  /\ k \in open
  /\ open' = open \ {k}
  /\ UNCHANGED <<base, local, remote, durableVars, madeVars, runVars, faults,
                 ghostVars, orderly>>

\* ... and deletes branches on GitHub, which closes what is open for them.
DeleteRemote(n) ==
  /\ remote[n] # None
  /\ remote' = [remote EXCEPT ![n] = None]
  /\ open' = {k \in open : off[k] # n}
  /\ UNCHANGED <<base, local, durableVars, madeVars, runVars, faults, ghostVars, orderly>>

People ==
  \/ AdvanceBase
  \/ \E k \in Fix : Review(k)
  \/ \E n \in Base : DeleteRemote(n)

Next ==
  \/ \E p \in Run : Begin(p) \/ EndWithout(p) \/ Propose(p) \/ Deliver(p) \/ Die(p)
  \/ People

Spec == Init /\ [][Next]_vars

\* A process that has a proposal to deliver keeps executing; nothing is asked
\* of runs, of people or of GitHub's answers.
FairSpec == Spec /\ \A p \in Run : WF_vars(Deliver(p))

-----------------------------------------------------------------------------
TypeOK ==
  /\ base \in Base
  /\ local \in [Base -> Tip \cup {None}] /\ remote \in [Base -> Tip \cup {None}]
  /\ open \subseteq Fix
  /\ section \in Section
  /\ row \in [Fix -> {"none", "opened", "failed"}]
  /\ fixes \in Tip /\ off \in [Fix -> Base]
  /\ pc \in [Run -> Pc]
  /\ name \in [Run -> Base] /\ fix \in [Run -> Tip] /\ sec \in [Run -> Section]
  /\ faults \in 0 .. MaxFaults
  /\ opened \subseteq Fix /\ reopened \subseteq Fix /\ doubted \subseteq Fix
  /\ cut \subseteq Fix /\ killed \subseteq Fix
  /\ orderly \in BOOLEAN

Made == 1 .. fixes
InHand(k) == \E p \in Run : fix[p] = k

\* "Logs pr-delivery-failed to the run log, and stops" (docs/safety.md): once a
\* process is through with a proposal, and neither died nor lost GitHub's
\* answer, the log says what became of it - a pull request exists exactly when
\* its row says so, gateway errors apart - however processes overlapped.
RowsTellTheTruth ==
  \A k \in Fix \ cut :
    /\ row[k] = "opened" => k \in opened
    /\ row[k] = "failed" => k \notin opened \ doubted
    /\ k \in opened /\ ~InHand(k) => row[k] # "none"

\* The strengthening every step preserves: what a process has in hand is its
\* own, has no row yet, and has a pull request exactly from `open` on - and no
\* proposal ever has two.
IInv ==
  /\ RowsTellTheTruth
  /\ reopened = {}
  /\ \A k \in Fix :
       /\ k > fixes => row[k] = "none" /\ k \notin opened \cup cut
       /\ k \in doubted => k \in opened
       /\ k \in killed => k \in cut
       /\ row[k] # "none" => k \notin cut
  /\ \A p \in Run :
       /\ pc[p] \in {"idle", "make"} <=> fix[p] = 0
       /\ fix[p] # 0 =>
            /\ fix[p] <= fixes
            /\ row[fix[p]] = "none"
            /\ fix[p] \notin cut
            /\ \A q \in Run : fix[q] = fix[p] => q = p
       /\ pc[p] \in {"token", "slug", "push", "open"} => fix[p] \notin opened
       /\ pc[p] \in {"read", "write", "row"} => fix[p] \in opened
       /\ pc[p] = "report" => fix[p] \notin opened \ doubted

\* "The PR body carries the verifier evidence (... commit SHA) so the reviewer
\* sees what was checked, not just what changed" (docs/safety.md): while no two
\* processes overlap, the branch under review holds the commit the body cites,
\* whatever was pushed before, failed half-way or was re-created meanwhile, and
\* the section never pairs a commit with the pull request of another.
EvidenceMatchesBranch ==
  orderly =>
    /\ \A k \in open : remote[off[k]] = k
    /\ section.pr \in {0, section.commit}

\* The strengthening of EvidenceMatchesBranch.  Branches hold proposals made
\* off their base, or the base itself, ...
Holds(n, tip) == tip \in {None, 0} \cup {k \in Made : off[k] = n}

BranchesOK ==
  /\ open \subseteq Made
  /\ \A n \in Base : Holds(n, local[n]) /\ Holds(n, remote[n])

\* ... and while processes do not overlap, the branch and the section are about
\* what the one process delivers.
DeliversOK(p) ==
  /\ pc[p] \notin {"idle", "make"} =>
       /\ off[fix[p]] = name[p]
       /\ section.commit = fix[p]
  /\ pc[p] \in {"token", "slug", "push", "open"} => local[name[p]] = fix[p]
  /\ pc[p] = "open" => remote[name[p]] \in {None, fix[p]}
  /\ pc[p] = "write" => sec[p].commit = fix[p]

EvidenceOK ==
  /\ BranchesOK
  /\ EvidenceMatchesBranch
  /\ orderly => /\ \A p, q \in Run : pc[p] # "idle" /\ pc[q] # "idle" => p = q
                /\ \A p \in Run : DeliversOK(p)

\* The refinement: what has become of each proposal.
status == [k \in Fix |->
  IF k > fixes THEN "none"
  ELSE IF k \in opened THEN "delivered"
  ELSE IF row[k] = "failed" THEN "declined"
  ELSE IF k \in cut THEN "dropped"
  ELSE "offered"]

handed == [k \in Fix |->
  IF k \in reopened THEN 2 ELSE IF k \in opened THEN 1 ELSE 0]

Promise == INSTANCE Handoff WITH Item <- Fix

\* "... and stops - no retry loop" (docs/safety.md): a proposal is delivered,
\* declined or dropped once and for all, and no second pull request is ever
\* opened for one.
ImplementsHandoff == Promise!Spec

\* No proposal is left hanging: once a process has one in hand its row appears,
\* or the delivery was cut short.
EveryDeliveryEnds ==
  \A k \in Fix : InHand(k) ~> row[k] # "none" \/ k \in cut

-----------------------------------------------------------------------------
(* What the documents say and the code does not keep: see the README.      *)

\* "A delivery failure leaves the local branch intact" (docs/safety.md), said
\* again by the message "branch is still local" (cli.py).
FailureKeepsBranch ==
  [][\A k \in Fix :
        row[k] = "none" /\ row'[k] = "failed" => local[off[k]] = k]_vars

\* "... logs pr-delivery-failed to the run log" (docs/safety.md): a delivery
\* that was not killed ends with a row.
EveryFailureIsLogged == cut \subseteq killed

\* EvidenceMatchesBranch with overlapping processes.
EvidenceAlwaysMatches == \A k \in open : remote[off[k]] = k

\* "Deliver a 'proposed' result as a GitHub PR" (schemas/loop.schema.json): every
\* proposal is at least attempted.
EveryProposalAttempted ==
  \A k \in Made : InHand(k) \/ row[k] # "none" \/ k \in cut
=============================================================================
