------------------------- MODULE MCHypervisorRow -------------------------
(* Instances of HypervisorRow for TLC. *)
EXTENDS HypervisorRow

CONSTANTS pve, px  \* a hypervisor that is operated, and another

MCWizard == [h \in Hvs |-> <<"deploy", "register">>]

\* What may happen to the rows: jobs and requests, failures, drifts.
Course(rows, jobs, failing, drifting) ==
    [rows |-> rows, visits |-> MaxVisits - jobs, failures |-> MaxFailures - failing,
     drifts |-> MaxDrifts - drifting]
MCStarts == {Course({pve}, 3, 0, 0), Course({pve}, 2, 1, 1), Course({pve, px}, 1, 1, 1)}
=============================================================================
