\* Two sessions at a time beside the monitor, on one hypervisor or on one of two.
SPECIFICATION Spec
CONSTANTS
    pve = pve
    px = px
    Hvs = {pve, px}
    Operated = {pve}
    Offered = {"deploy", "teardown", "teardown_nfs", "reconcile", "assess"}
    Keeps = {pve}
    Watchable = {pve, px}
    ReportsRemoval = {pve}
    Sessions = {s1, s2}
    Wizard <- MCWizard
    MaxVisits = 3
    MaxFailures = 1
    MaxDrifts = 1
    Starts <- MCStarts
INVARIANTS TypeOK RowIsTrue
PROPERTY AssessmentSettles
CHECK_DEADLOCK FALSE
