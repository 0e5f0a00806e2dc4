----------------------------- MODULE MCRelease -----------------------------
(* Instances of Release for TLC: which runs there are, and what starts them. *)
EXTENDS Release

\* A nightly, a release candidate, a promotion and a push beta.
QueueEvent == <<"schedule", "workflow_dispatch", "workflow_dispatch", "push">>
QueueChannel == <<"nightly", "rc", "stable", "beta">>
QueueAttempt == <<1, 1, 1, 2>>

\* Two candidates whose reservations compete, and two promotions.
RacingEvent == [r \in Runs |-> "workflow_dispatch"]
RacingChannel == [r \in Runs |-> IF r < 3 THEN "rc" ELSE "stable"]
RacingAttempt == [r \in Runs |-> IF r % 2 = 1 THEN 2 ELSE 1]

\* One base version for every run.
OneBase == [r \in Runs |-> "v"]
=============================================================================
