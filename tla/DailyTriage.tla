----------------------------- MODULE DailyTriage -----------------------------
(***************************************************************************)
(* The daily-triage job (.github/workflows/ci.yml): on a fresh machine,    *)
(* restore .loop-state from the loop-state branch, run the triage loop     *)
(* over the checked-out main, publish the report to the rolling issue      *)
(* (cli.cmd_report, report.py), and push .loop-state back to the branch.   *)
(* Each step runs only when the ones before it exited with 0; but the      *)
(* first call of `loopengine report` is the condition of an `if`, and      *)
(* there a report that dies looks like a report with nothing to publish.   *)
(*                                                                         *)
(* The concurrency group runs one job at a time and the checkout does not  *)
(* move under a run, so a run of the loop is one step here; module Triage  *)
(* is that run in detail.  Commits of main are numbered in order; 0 is     *)
(* "no cursor yet".                                                        *)
(***************************************************************************)
EXTENDS Naturals

CONSTANTS
  MaxCommits,        \* bound: commits pushed to main
  Noise,             \* commits classify() finds not worth a report
  CloseAfter,        \* --close-after, 7 in the workflow
  MaxReruns,         \* bound: jobs re-run at an old commit
  MaxFaults,         \* bound: steps that fail
  MaxDeadReports,    \* bound: first calls of `loopengine report` that die
  MaxRestoreFaults   \* bound: fetches of an existing loop-state branch that fail

ASSUME DailyAssumption ==
  /\ MaxCommits \in Nat \ {0} /\ Noise \subseteq Nat
  /\ CloseAfter \in Nat \ {0}
  /\ MaxReruns \in Nat /\ MaxFaults \in Nat
  /\ MaxDeadReports \in Nat /\ MaxRestoreFaults \in Nat

Commit == 1 .. MaxCommits
Cursor == 0 .. MaxCommits

\* .loop-state: the section of the loop, and how many of the run log's last
\* rows are clean (counted up to CloseAfter).
State == [cursor : Cursor, result : {"none", "clean", "found"},
          found : SUBSET Commit, streak : 0 .. CloseAfter]
NoState == [cursor |-> 0, result |-> "none", found |-> {}, streak |-> 0]

VARIABLES
  head,    \* the newest commit of main
  aged,    \* commits up to this one are older than first_run_since
  paused,  \* spec.paused on main
  pc, tip, off, work, num, \* the machine: its step, main, spec.paused,
                           \* .loop-state and whether it saw an open issue
  saved,   \* .loop-state on the loop-state branch
  issue,   \* the rolling issue: is it open, and the commits its body lists
  faults, deadReports, restoreFaults, reruns,
  (* history variables *)
  published,  \* commits listed in a body of the issue so far
  outside,    \* commits a run without a cursor left out for their age
  missed,     \* commits found by a job whose report died with no issue
              \* open, and not published since
  through,    \* the last job went through
  closed      \* a person closed the issue since it started

repo == <<head, aged, paused>>
machine == <<pc, tip, off, work, num>>
bounds == <<faults, deadReports, restoreFaults, reruns>>
ghosts == <<published, outside, missed, through, closed>>
vars == <<repo, machine, saved, issue, bounds, ghosts>>

-----------------------------------------------------------------------------
\* Mutant: the cursor's own commit is passed over too.
NewCommitsSkipping(c) ==
  IF c = 0 THEN {i \in 1 .. tip : i > aged} ELSE {i \in 1 .. tip : i > c + 1}

\* git log cursor..main, or --since first_run_since when there is no cursor
NewCommits(c) == IF c = 0 THEN {i \in 1 .. tip : i > aged} ELSE {i \in 1 .. tip : i > c}

\* trailing_clean of the log with one more clean row
OneMore(streak) == IF streak < CloseAfter THEN streak + 1 ELSE CloseAfter

Clean(cursor) ==
  [cursor |-> cursor, result |-> "clean", found |-> {}, streak |-> OneMore(work.streak)]

\* Mutant: the cursor is one ahead of the checked-out commit.
FoundAhead(commits) == [cursor |-> tip + 1, result |-> "found", found |-> commits, streak |-> 0]

Found(commits) == [cursor |-> tip, result |-> "found", found |-> commits, streak |-> 0]

\* What the run step leaves in .loop-state.
AfterRun ==
  IF off THEN Clean(work.cursor)
  ELSE LET new == NewCommits(work.cursor)
       IN  IF new \subseteq Noise THEN Clean(tip) ELSE Found(new)

\* The findings go into the issue that was found or into a new one.
IssueAfter(report) ==
  IF num THEN [issue EXCEPT !.body = report.found]
  ELSE [open |-> TRUE, body |-> report.found]

\* consecutive_clean >= close_after
Closes(report) == report.streak >= CloseAfter

\* The job ends: GitHub throws the machine away.
Discard ==
  /\ pc' = "idle" /\ tip' = 0 /\ off' = FALSE /\ work' = NoState /\ num' = FALSE

Init ==
  /\ head = 1 /\ aged = 0 /\ paused = FALSE
  /\ pc = "idle" /\ tip = 0 /\ off = FALSE /\ work = NoState /\ num = FALSE
  /\ saved = NoState
  /\ issue = [open |-> FALSE, body |-> {}]
  /\ faults = 0 /\ deadReports = 0 /\ restoreFaults = 0 /\ reruns = 0
  /\ published = {} /\ outside = {} /\ missed = {}
  /\ through = FALSE /\ closed = FALSE

-----------------------------------------------------------------------------
(* One job.                                                                *)

\* cron or a person starts the job on main as it is.
Checkout ==
  /\ pc = "idle"
  /\ pc' = "restore" /\ tip' = head /\ off' = paused
  /\ through' = FALSE /\ closed' = FALSE
  /\ UNCHANGED <<repo, work, num, saved, issue, bounds, published, outside, missed>>

\* A person re-runs an earlier job: the machine gets the main of that time.
Rerun(t) ==
  /\ pc = "idle"
  /\ reruns < MaxReruns
  /\ reruns' = reruns + 1
  /\ pc' = "restore" /\ tip' = t /\ off' \in BOOLEAN
  /\ through' = FALSE /\ closed' = FALSE
  /\ UNCHANGED <<repo, work, num, saved, issue, faults, deadReports, restoreFaults,
                 published, outside, missed>>

\* git fetch origin loop-state && git checkout origin/loop-state -- .loop-state
Restore ==
  /\ pc = "restore"
  /\ work' = saved
  /\ pc' = "run"
  /\ UNCHANGED <<repo, tip, off, num, saved, issue, bounds, ghosts>>

\* Any failure of the fetch is taken for "no loop-state branch yet".
RestoreFails ==
  /\ pc = "restore"
  /\ saved # NoState
  /\ restoreFaults < MaxRestoreFaults
  /\ restoreFaults' = restoreFaults + 1
  /\ work' = NoState
  /\ pc' = "run"
  /\ UNCHANGED <<repo, tip, off, num, saved, issue, faults, deadReports, reruns, ghosts>>

\* loopengine run, with a result that exits 0.
RunLoop ==
  /\ pc = "run"
  /\ work' = AfterRun
  /\ outside' = IF work.cursor = 0 /\ ~off THEN outside \cup 1 .. aged ELSE outside
  /\ pc' = "find"
  /\ UNCHANGED <<repo, tip, off, num, saved, issue, bounds, published, missed,
                 through, closed>>

\* loopengine run ends as escalated or error and exits 1: the job is over, and
\* what the run wrote goes with the machine.
RunFails ==
  /\ pc = "run"
  /\ faults < MaxFaults
  /\ faults' = faults + 1
  /\ Discard
  /\ UNCHANGED <<repo, saved, issue, deadReports, restoreFaults, reruns, ghosts>>

\* num=$(gh issue list --label loop-report --state open ...)
FindIssue ==
  /\ pc = "find"
  /\ num' = issue.open
  /\ pc' = "publish"
  /\ UNCHANGED <<repo, tip, off, work, saved, issue, bounds, ghosts>>

\* if body=$(loopengine report ...) is true: gh issue edit or create
PublishFindings ==
  /\ pc = "publish"
  /\ work.result = "found"
  /\ issue' = IssueAfter(work)
  /\ published' = published \cup work.found
  /\ missed' = missed \ work.found
  /\ pc' = "persist"
  /\ UNCHANGED <<repo, tip, off, work, num, saved, bounds, outside, through, closed>>

\* Mutant: the else branch ends the step, issue or no issue.
NoFindingsSilent ==
  /\ pc = "publish"
  /\ \/ work.result # "found" /\ UNCHANGED deadReports
     \/ deadReports < MaxDeadReports /\ deadReports' = deadReports + 1
  /\ pc' = "persist"
  /\ missed' = missed \cup work.found
  /\ UNCHANGED <<repo, tip, off, work, num, saved, issue, faults, restoreFaults, reruns,
                 published, outside, through, closed>>

\* The else branch: the report exits with 1 because there is nothing to publish,
\* or with anything else because it died.  With no issue open the step is over.
NoFindings ==
  /\ pc = "publish"
  /\ \/ work.result # "found" /\ UNCHANGED deadReports
     \/ deadReports < MaxDeadReports /\ deadReports' = deadReports + 1
  /\ IF num THEN pc' = "banner" /\ UNCHANGED missed
     ELSE pc' = "persist" /\ missed' = missed \cup work.found
  /\ UNCHANGED <<repo, tip, off, work, num, saved, issue, faults, restoreFaults, reruns,
                 published, outside, through, closed>>

\* banner=$(loopengine report ... --resolved) and gh issue edit: cmd_report prints
\* the findings if there are any, whatever its flags, and else the banner, which
\* carries the close marker when the streak is long enough.
EditIssue ==
  /\ pc = "banner"
  /\ issue' = [issue EXCEPT !.body = work.found]
  /\ published' = published \cup work.found
  /\ missed' = missed \ work.found
  /\ pc' = IF work.result # "found" /\ Closes(work) THEN "close" ELSE "persist"
  /\ UNCHANGED <<repo, tip, off, work, num, saved, bounds, outside, through, closed>>

\* gh issue close
CloseIssue ==
  /\ pc = "close"
  /\ issue' = [issue EXCEPT !.open = FALSE]
  /\ pc' = "persist"
  /\ UNCHANGED <<repo, tip, off, work, num, saved, bounds, ghosts>>

\* git push origin loop-state
Persist ==
  /\ pc = "persist"
  /\ saved' = work
  /\ through' = TRUE
  /\ Discard
  /\ UNCHANGED <<repo, issue, bounds, published, outside, missed, closed>>

\* Mutant: the persist step runs whatever the publish step did.
StepFailsPersisting ==
  /\ pc \in {"restore", "find", "publish", "banner", "close", "persist"}
  /\ faults < MaxFaults
  /\ faults' = faults + 1
  /\ IF pc \in {"publish", "banner"} THEN pc' = "persist" /\ UNCHANGED <<tip, off, work, num>>
     ELSE Discard
  /\ UNCHANGED <<repo, saved, issue, deadReports, restoreFaults, reruns, ghosts>>

\* Any other call fails, under `set -e` or as a step, or the machine is lost.
StepFails ==
  /\ pc \in {"restore", "find", "publish", "banner", "close", "persist"}
  /\ faults < MaxFaults
  /\ faults' = faults + 1
  /\ Discard
  /\ UNCHANGED <<repo, saved, issue, deadReports, restoreFaults, reruns, ghosts>>

JobStep ==
  \/ Checkout \/ Restore \/ RestoreFails \/ RunLoop \/ RunFails \/ FindIssue
  \/ PublishFindings \/ NoFindings \/ EditIssue \/ CloseIssue \/ Persist \/ StepFails

-----------------------------------------------------------------------------
(* People and time.                                                        *)

Push ==
  /\ head < MaxCommits
  /\ head' = head + 1
  /\ UNCHANGED <<aged, paused, machine, saved, issue, bounds, ghosts>>

TwoWeeksPass ==
  /\ aged < head
  /\ aged' = head
  /\ UNCHANGED <<head, paused, machine, saved, issue, bounds, ghosts>>

TogglePause ==
  /\ paused' = ~paused
  /\ UNCHANGED <<head, aged, machine, saved, issue, bounds, ghosts>>

PersonCloses ==
  /\ issue.open
  /\ issue' = [issue EXCEPT !.open = FALSE]
  /\ closed' = TRUE
  /\ UNCHANGED <<repo, machine, saved, bounds, published, outside, missed, through>>

Next ==
  \/ JobStep \/ \E t \in 1 .. head : Rerun(t)
  \/ Push \/ TwoWeeksPass \/ TogglePause \/ PersonCloses

Spec == Init /\ [][Next]_vars

\* cron starts a job every day and GitHub runs it; failures are finitely many.
FairSpec == Spec /\ WF_vars(JobStep)

-----------------------------------------------------------------------------
TypeOK ==
  /\ head \in Commit /\ aged \in 0 .. head /\ paused \in BOOLEAN
  /\ pc \in {"idle", "restore", "run", "find", "publish", "banner", "close", "persist"}
  /\ tip \in 0 .. head /\ off \in BOOLEAN /\ num \in BOOLEAN /\ work \in State
  /\ saved \in State
  /\ issue \in [open : BOOLEAN, body : SUBSET Commit]
  /\ faults \in 0 .. MaxFaults /\ deadReports \in 0 .. MaxDeadReports
  /\ restoreFaults \in 0 .. MaxRestoreFaults /\ reruns \in 0 .. MaxReruns
  /\ published \subseteq Commit /\ outside \subseteq Commit /\ missed \subseteq Commit
  /\ through \in BOOLEAN /\ closed \in BOOLEAN

\* Commits a cursor c skips from now on are in `commits` or need no report.
Covers(c, commits) ==
  \A i \in 1 .. c : i \in Noise \cup commits

\* Commits the cursor may pass: those some report published, those a run without
\* a cursor found too old, and those lost to a report that died.
Excused ==
  published \cup outside \cup (IF deadReports > 0 THEN missed ELSE {})

\* The cursor on the branch never passes a commit no published report listed,
\* whatever step failed and whichever old job was re-run - with two exceptions:
\* commits older than the window of a run without a cursor, and those found by
\* a job whose report died (ci.yml:106) while no issue was open.
NothingSkippedUnpublished == Covers(saved.cursor, Excused)

\* The strengthening every step preserves: what the machine is about to
\* publish is covered too.
IInv ==
  /\ NothingSkippedUnpublished
  /\ missed # {} => deadReports > 0
  /\ pc \in {"find", "publish"} /\ work.result # "found" => work.found = {}
  /\ pc = "run" => Covers(work.cursor, Excused)
  /\ pc \in {"find", "publish", "banner"} => Covers(work.cursor, Excused \cup work.found)
  /\ pc \in {"close", "persist"} => Covers(work.cursor, Excused)

\* The issue lists the findings and is open, unless a person has shut it or the
\* report that should have opened it died; an open issue lists nothing else.
Shows(state) ==
  /\ state.result = "found" =>
       \/ issue.body = state.found /\ (issue.open \/ closed)
       \/ state.found \subseteq missed
  /\ issue.open => issue.body = state.found

\* "so the inbox reflects reality" (docs/SESSION_HANDOFF.md): after a job that
\* went through the open issue lists what the state on the branch lists, a
\* person who closes it at any moment of the job included.
InboxReflectsState == pc = "idle" /\ through => Shows(saved)

\* The strengthening of InboxReflectsState: an open issue was open when the job
\* looked, and a person explains why one it saw is not; from the publish step on
\* the issue shows what the job will save.
InboxOK ==
  /\ through => pc = "idle" /\ Shows(saved)
  /\ pc \in {"publish", "banner"} => (issue.open => num) /\ (num => issue.open \/ closed)
  /\ pc = "banner" => num
  /\ pc \in {"close", "persist"} => Shows(work)
  /\ pc = "close" => work.result # "found"

\* Every pushed commit worth a report is published, was too old for a run without
\* a cursor, or was lost to a report that died, once the kill switch stays off.
EveryCommitPublished ==
  <>[]~paused =>
    \A i \in Commit \ Noise : i <= head ~> i \in published \cup outside \cup missed

\* "Clean run: don't leave stale findings live" (ci.yml): what the job goes on
\* without publishing is clean, and the cursor passes published commits only.
CursorCoversPublished == Covers(saved.cursor, published \cup outside)

\* "restore loop state (cursors) from the loop-state branch" (ci.yml): commits
\* are left out for their age only before there is a cursor on the branch.
OnlyFirstRunLeavesOut == [][saved.cursor = 0]_outside

\* "no new commits need triage" (report.py): the banner is published only when
\* no commit the machine checked out is waiting.
ResolvedMeansNothingPending ==
  [][pc = "banner" /\ work.result = "clean" =>
       \A i \in 1 .. tip : i \in Noise \cup published \cup outside]_issue

\* "only actionable results (found / escalated / error / ...) produce a report"
\* (report.py): a run that fails goes on to the report, and leaves its row.
FailedRunIsReported == [][pc = "run" => pc' \in {"run", "find"}]_pc
=============================================================================
