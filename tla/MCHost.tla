------------------------------- MODULE MCHost -------------------------------
EXTENDS Host

Ask(mode, v) == [mode |-> mode, target |-> v, check |-> FALSE, force |-> FALSE]
Forced(p) == [p EXCEPT !.force = TRUE]
Checked(p) == [p EXCEPT !.check = TRUE]

OneTemplate == <<"t">>
TwoTemplates == <<"s", "t">>

\* Every kind of invocation but the check of a rollback.
MCPlans == {Ask("latest", 1), Checked(Ask("latest", 1)), Forced(Ask("named", 1)),
            Forced(Ask("rollback", 1))}
RollbackPlans == {Ask("named", 2), Ask("rollback", 1)}
CheckPlans == {Ask("named", 2), Checked(Ask("rollback", 1))}
=============================================================================
