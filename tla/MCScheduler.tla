----------------------------- MODULE MCScheduler -----------------------------
\* Instances of Scheduler for TLC: two fixers of one target, one of them
\* failing, and a directory that holds a pull-request triage.
EXTENDS Scheduler

CONSTANTS fix, fix2, repo, t1, t2

OneFix == {fix}
TwoFix == {fix, fix2}
NoLoops == {}
OneTick == {t1}
TwoTicks == {t1, t2}

ByName == [l \in Loop |-> IF l = fix THEN 1 ELSE 2]
SamePriority == [l \in Loop |-> 100]
NoCadence == [l \in Loop |-> 0]
SecondSlow == [l \in Loop |-> IF l = fix2 THEN 2 ELSE 0]
SharedTarget == [l \in Loop |-> repo]
\* what the runners return: fix explores its failures, fix2 succeeds
FixerFails ==
  [l \in Loop |-> IF l = fix THEN {"proposed", "escalated"} ELSE {"merged"}]
=============================================================================
