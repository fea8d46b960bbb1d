------------------------ MODULE MCActionLifecycle ---------------------------
(* Small instances of ActionLifecycle.                                     *)
EXTENDS ActionLifecycle

CONSTANTS t1, t2, c1

OneTx == {t1}
TwoTxs == {t1, t2}
OneCoin == {c1}

Quiet == [tasks |-> TaskNames, rejections |-> FALSE, outages |-> FALSE,
          merges |-> FALSE, rivals |-> FALSE, crashes |-> {}]

\* Refusals, rivals and a stop anywhere; without CheckNoSends, rivals only; or BEEFs
\* that may not be merged and nothing else.
CompetingOrCalm ==
    {[Quiet EXCEPT !.rejections = TRUE, !.rivals = TRUE, !.crashes = {"call", "task"}],
     [Quiet EXCEPT !.rivals = TRUE, !.tasks = TaskNames \ {"CheckNoSends"}],
     [Quiet EXCEPT !.merges = TRUE, !.tasks = TaskNames \ {"CheckNoSends"}]}
\* Everything, with stops in calls only, and BEEFs that are merged or may not be.
Adverse == {[Quiet EXCEPT !.rejections = TRUE, !.outages = TRUE, !.rivals = TRUE,
                          !.merges = fail, !.crashes = {"call"}] : fail \in BOOLEAN}
OnlyQuiet == {Quiet}
=============================================================================
