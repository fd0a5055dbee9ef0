---------------------------- MODULE HypervisorRow ----------------------------
(***************************************************************************)
(* The database row of a hypervisor and everybody who writes to it: the    *)
(* operations and the wizard (run_operation and run_wizard_job of          *)
(* phif/api/service.py), the requests of phif/api/hypervisors.py and the   *)
(* monitor's cycle (phif/jobs/monitor.py).                                 *)
(*                                                                         *)
(* Each has a session of its own: it reads the row, awaits its connector,  *)
(* and on commit the columns whose values it changed are written whole.    *)
(* Nothing locks the row or checks that it is still what was read.         *)
(***************************************************************************)
EXTENDS Integers, Sequences, FiniteSets

CONSTANTS
    Hvs,            \* the hypervisors
    Operated,       \* those an operator works with
    Offered,        \* the operations of their connectors
    Watchable,      \* those whose connector has RECONCILE_CLUSTER
    ReportsRemoval, \* those whose teardown reports status "not_deployed"
    Keeps,          \* those whose teardown may pass over what it removes (HPE VME
                    \* keeps all of it, vSphere a plugin whose server is not named)
    Sessions,       \* the sessions of jobs and requests
    Wizard,         \* wizard_steps of each hypervisor's connector
    MaxVisits,      \* bound: jobs and requests
    MaxFailures,    \* bound: failures of connectors, and restarts
    MaxDrifts,      \* bound: changes of the clusters' members
    Starts          \* which rows there are at first, and how much of each bound is
                    \* used up

\* teardown_nfs, XCP-ng's, removes an NFS SR and reports "not_deployed" too.
Steps == {"deploy", "register", "reconcile", "assess", "teardown", "teardown_nfs"}

ASSUME SetAssumption ==
    /\ Hvs /= {} /\ Operated \subseteq Hvs /\ Watchable \subseteq Hvs
    /\ ReportsRemoval \subseteq Hvs /\ Keeps \subseteq Hvs /\ Offered \subseteq Steps
\* A wizard of a connector whose teardown removes the integration deploys it.
ASSUME WizardAssumption ==
    /\ Wizard \in [Hvs -> Seq({"deploy", "register"})]
    /\ \A h \in ReportsRemoval : \E i \in 1..Len(Wizard[h]) : Wizard[h][i] = "deploy"
ASSUME BoundAssumption ==
    /\ MaxVisits \in Nat /\ MaxFailures \in Nat /\ MaxDrifts \in Nat
    /\ Starts \subseteq [rows: SUBSET Hvs, visits: 0..MaxVisits,
                         failures: 0..MaxFailures, drifts: 0..MaxDrifts]

VARIABLES
    row,     \* the rows
    world,   \* the clusters: what of the integration is on them, have their members
             \* changed
    visit,   \* what each session is doing
    monitor, \* the monitor's cycle
    history, \* for the properties: what was asked for, and what came in between
    visits, failures, drifts

vars == <<row, world, visit, monitor, history, visits, failures, drifts>>

-----------------------------------------------------------------------------
Statuses == {"not_deployed", "deployed", "error"}
\* What is on a cluster of the integration, as much as a teardown is to remove.
Extents  == {"none", "part", "all"}
WorldType == [integration: Extents, drift: BOOLEAN]
Seen     == {"none", "settled", "drift"}  \* the recorded assessment
\* The columns; of the state JSON the opt-out, the assessment and the last inputs.
StateType == [optout: BOOLEAN, seen: Seen, inputs: 1..2]
RowType   == [live: BOOLEAN, status: Statuses, state: StateType]

Requests == {"opt_out", "opt_in", "validate"}
Acts     == Offered \union {"wizard"} \union Requests
VisitType == [act: Acts \union {"none"}, h: Hvs, todo: Seq(Steps \union {"probe"}),
              copy: RowType, new: RowType]

NewRow(status) ==
    [live |-> TRUE, status |-> status,
     state |-> [optout |-> FALSE, seen |-> "none", inputs |-> 1]]
NoRow == [NewRow("not_deployed") EXCEPT !.live = FALSE]
NoVisit ==
    [act |-> "none", h |-> CHOOSE h \in Hvs : TRUE, todo |-> << >>,
     copy |-> NewRow("not_deployed"), new |-> NewRow("not_deployed")]
\* Rows the cycle is done with are not read again.
NoCycle ==
    [pc |-> "sleep", at |-> CHOOSE h \in Hvs : TRUE, todo |-> {},
     copy |-> [h \in Hvs |-> NewRow("not_deployed")], found |-> "none"]
Done(cycle, h) ==
    [NoCycle EXCEPT !.pc = "cycle", !.todo = cycle.todo \ {h},
                    !.copy = [cycle.copy EXCEPT ![h] = NoCycle.copy[h]]]
\* Why a status may be wrong of a cluster, since a deploy or a teardown last did
\* all of its work:
Causes == {"cleared",   \* an error was cleared by a success that deployed nothing
           "raised",    \* a deploy or a wizard raised and left the status as it was
           "undone",    \* a teardown failed, and left it too
           "missed",    \* a call failed and the step answered with success
           "kept",      \* a teardown passed over what it was to remove
           "equipped",  \* a reconciliation put the plugin on nodes
           "nfs"}       \* the NFS SR was removed, not the integration
NoHistory ==
    [optout |-> FALSE, firm |-> TRUE, causes |-> {}, disturbed |-> FALSE]

Init ==
    /\ \E there \in {f \in [Hvs -> BOOLEAN] : \A h \in Hvs \ Operated : f[h]} :
          /\ world = [h \in Hvs |-> [integration |-> IF there[h] THEN "all" ELSE "none",
                                 drift |-> FALSE]]
          /\ \E start \in Starts :
                /\ row = [h \in Hvs |->
                      IF h \notin start.rows THEN NoRow
                      ELSE NewRow(IF there[h] THEN "deployed" ELSE "not_deployed")]
                /\ visits = start.visits /\ failures = start.failures /\ drifts = start.drifts
    /\ visit = [v \in Sessions |-> NoVisit]
    /\ monitor = NoCycle
    /\ history = [h \in Hvs |-> NoHistory]

VisitorsOf(h) == {v \in Sessions : visit[v].act /= "none" /\ visit[v].h = h}
Idle(h) == VisitorsOf(h) = {}
Fail == failures < MaxFailures /\ failures' = failures + 1

-----------------------------------------------------------------------------
(* The database.                                                           *)

\* Fault: a commit writes every column, whether or not it was changed.
WrittenWhole(current, copy, new) == new
\* A commit writes the columns whose values differ from those read.
Written(current, copy, new) ==
    [current EXCEPT !.status = IF new.status = copy.status THEN @ ELSE new.status,
                    !.state = IF new.state = copy.state THEN @ ELSE new.state]

Delete(h) ==
    /\ row[h].live
    /\ row' = [row EXCEPT ![h] = NoRow]
    /\ history' = [history EXCEPT ![h] = NoHistory]
    /\ UNCHANGED <<world, visit, monitor, visits, failures, drifts>>

-----------------------------------------------------------------------------
(* Jobs and requests.                                                      *)

\* What the connector is asked to do.
StepsOf(h, act) ==
    CASE act = "wizard"   -> Wizard[h]
      [] act \in Steps    -> <<act>>
      [] act = "validate" -> <<"probe">>
      [] OTHER            -> << >>

\* A request that only writes: the row as it will be.
Wished(r, act) ==
    CASE act = "opt_out" -> [r EXCEPT !.state.optout = TRUE]
      [] act = "opt_in"  -> [r EXCEPT !.state.optout = FALSE]
      [] OTHER           -> r

\* A session, the next that is free, reads the row.
Free == {v \in Sessions : visit[v].act = "none"}
Load(v, h, act) ==
    /\ Free /= {} /\ v = (CHOOSE u \in Free : TRUE) /\ row[h].live
    /\ visits < MaxVisits /\ visits' = visits + 1
    /\ visit' = [visit EXCEPT ![v] =
          [act |-> act, h |-> h, todo |-> StepsOf(h, act), copy |-> row[h],
           new |-> Wished(row[h], act)]]
    /\ history' = [history EXCEPT ![h].disturbed = @ \/ ~Idle(h)]
    /\ UNCHANGED <<row, world, monitor, failures, drifts>>

\* What of the integration a step leaves on the cluster: one that stops on the
\* way, or one of whose calls fails unnoticed ...
Less(extent) == {extent, "none"} \union (IF extent = "none" THEN {} ELSE {"part"})
Stopped(step, extent) ==
    CASE step = "deploy"    -> {extent, "part", "all"}
      [] step = "teardown"  -> Less(extent)
      [] step = "reconcile" -> {extent} \union (IF extent = "none" THEN {"part"} ELSE {})
      [] OTHER              -> {extent}
\* ... and one that does all that it does.
Left(h, step, extent) ==
    CASE step = "deploy"   -> {"all"}
      [] step = "teardown" -> IF h \in Keeps THEN Less(extent) ELSE {"none"}
      [] OTHER             -> Stopped(step, extent)

\* Why the status may be wrong from then on: a deploy or a teardown that did its
\* work settles it.
After(causes, step, extent, new) ==
    CASE step = "deploy"       -> {}
      [] step = "teardown"     -> IF new = "none" THEN {} ELSE {"kept"}
      [] step = "teardown_nfs" -> causes \union {"nfs"}
      [] new /= extent         -> causes \union {"equipped"}
      [] OTHER                 -> causes
AfterFailure(causes, step, raised, extent, new) ==
    causes \union (IF raised THEN {"raised"} ELSE {})
           \union (IF step = "teardown" THEN {"undone"} ELSE {})
           \union (IF step = "reconcile" /\ new /= extent THEN {"equipped"} ELSE {})

\* What a step that succeeds does to the cluster ...
Changed(w, step, extent) ==
    [integration |-> extent, drift |-> w.drift /\ step /= "reconcile"]
Assessment(w) == IF w.drift THEN "drift" ELSE "settled"

\* Fault: whatever the connector reports is taken for a status, nothing too.
ReportedAsIs(h, step, status) ==
    CASE step = "deploy" -> "deployed"
      [] step = "teardown" -> IF h \in ReportsRemoval THEN "not_deployed" ELSE "removed"
      [] step = "teardown_nfs" -> "not_deployed"
      [] OTHER -> "none"
\* Fault: a removal is not recorded.
ReportedNever(h, step, status) ==
    IF step = "deploy" \/ status = "error" THEN "deployed" ELSE status
\* The status after an operation: reported, or of a deploy, or an error cleared.
Reported(h, step, status) ==
    IF step = "teardown_nfs" \/ (step = "teardown" /\ h \in ReportsRemoval)
    THEN "not_deployed"
    ELSE IF step = "deploy" \/ status = "error" THEN "deployed" ELSE status

\* The status after a validation that succeeded: an error is cleared.
Recovered(status) == IF status = "error" THEN "deployed" ELSE status

\* Fault: the recorded state is made anew.
StateAnew(state) == [optout |-> FALSE, seen |-> state.seen, inputs |-> state.inputs]
StateFrom(state) == state

\* ... and to the session's row: the inputs, and for an operation the status and
\* the assessment, which a reconciliation made before it changed anything.
Recorded(x, step, w, inputs) ==
    LET kept == [x.new EXCEPT !.state = [StateFrom(@) EXCEPT !.inputs = inputs]]
    IN CASE step = "probe" ->
              [x.new EXCEPT !.status = Recovered(@)]
         [] x.act = "wizard" ->
              IF Len(x.todo) = 1 THEN [kept EXCEPT !.status = "deployed"] ELSE kept
         [] OTHER ->
              [kept EXCEPT
                  !.status = Reported(x.h, step, @),
                  !.state.seen = IF step \in {"assess", "reconcile"} THEN Assessment(w) ELSE @]

\* A step that fails ends the job. That of a deploy or a wizard is recorded, if
\* it answered: what it raised ends the job without a commit.
Refusals(x) ==
    {x.copy} \union
    (IF x.act \in {"deploy", "wizard"} THEN {[x.new EXCEPT !.status = "error"]} ELSE {})

\* The answer of success: all was done, or a call of a deploy or of a teardown
\* failed unnoticed.
Answer(v) ==
    LET x == visit[v]
        h == x.h
        step == Head(x.todo)
        was == world[h].integration
    IN /\ \E inputs \in IF x.act \in {"deploy", "wizard"} THEN 1..2 ELSE {x.new.state.inputs} :
             visit' = [visit EXCEPT ![v].todo = Tail(@),
                          ![v].new = Recorded(x, step, world[h], inputs)]
       /\ \/ \E extent \in Left(h, step, was) :
                /\ world' = [world EXCEPT ![h] = Changed(@, step, extent)]
                /\ history' = [history EXCEPT ![h].causes = After(@, step, was, extent)]
                /\ UNCHANGED failures
          \/ \E extent \in Stopped(step, was) :
                /\ step \in {"deploy", "teardown"} /\ Fail
                /\ world' = [world EXCEPT ![h] = Changed(@, step, extent)]
                /\ history' = [history EXCEPT ![h].causes = @ \union {"missed"}]
\* It fails, with some of its work done.
Refuse(v) ==
    LET x == visit[v]
        h == x.h
        step == Head(x.todo)
        was == world[h].integration
    IN \E new \in Refusals(x), extent \in Stopped(step, was) :
          /\ Fail
          /\ visit' = [visit EXCEPT ![v].todo = << >>, ![v].new = new]
          /\ world' = [world EXCEPT ![h].integration = extent]
          /\ history' = [history EXCEPT ![h].causes =
                AfterFailure(@, step, x.act \in {"deploy", "wizard"} /\ new = x.copy, was, extent)]

Dispatch(v) ==
    /\ visit[v].act /= "none" /\ visit[v].todo /= << >>
    /\ Answer(v) \/ Refuse(v)
    /\ UNCHANGED <<row, monitor, visits, drifts>>

\* Nobody has written the row since it was read, or is going to on older terms.
Undisturbed(v) ==
    /\ row[visit[v].h] = visit[v].copy /\ VisitorsOf(visit[v].h) = {v}
    /\ monitor.pc = "sleep"

\* The operator's wish is on record.
Noted(x, v) ==
    IF x.act \notin {"opt_out", "opt_in"} THEN history[x.h]
    ELSE [history[x.h] EXCEPT !.optout = x.act = "opt_out", !.firm = Undisturbed(v)]

\* An error is cleared by a success that deployed nothing.
Clears(x) ==
    /\ x.act \notin {"deploy", "wizard"}
    /\ x.copy.status = "error" /\ x.new.status = "deployed"

\* The commit; that of a row that has been deleted raises.
Commit(v) ==
    LET x == visit[v] IN
    /\ x.act /= "none" /\ x.todo = << >>
    /\ visit' = [visit EXCEPT ![v] = NoVisit]
    /\ IF row[x.h].live
       THEN /\ row' = [row EXCEPT ![x.h] = Written(@, x.copy, x.new)]
            /\ history' = [history EXCEPT ![x.h] = [Noted(x, v) EXCEPT !.causes =
                              @ \union (IF Clears(x) THEN {"cleared"} ELSE {})]]
       ELSE UNCHANGED <<row, history>>
    /\ UNCHANGED <<world, monitor, visits, failures, drifts>>

-----------------------------------------------------------------------------
(* The monitor: one session for a whole cycle.                             *)

BeginCycle ==
    /\ monitor.pc = "sleep"
    /\ monitor' = [NoCycle EXCEPT !.pc = "cycle", !.todo = {h \in Hvs : row[h].live},
                                      !.copy = row]
    /\ UNCHANGED <<row, world, visit, history, visits, failures, drifts>>

Eligible(h) ==
    /\ monitor.copy[h].status = "deployed" /\ ~monitor.copy[h].state.optout
    /\ h \in Watchable

\* Who is not to be monitored is passed over, and so is who cannot be assessed.
Skip(h) ==
    /\ monitor.pc = "cycle" /\ h \in monitor.todo
    /\ IF Eligible(h) THEN Fail ELSE UNCHANGED failures
    /\ monitor' = Done(monitor, h)
    /\ UNCHANGED <<row, world, visit, history, visits, drifts>>

\* An assessment that fails without raising names no hosts.
Assess(h) ==
    /\ monitor.pc = "cycle" /\ h \in monitor.todo /\ Eligible(h)
    /\ \E found \in {Assessment(world[h]), "none"} :
          /\ IF found = "none" THEN Fail ELSE UNCHANGED failures
          /\ monitor' = [monitor EXCEPT !.pc = "store", !.at = h, !.todo = @ \ {h}, !.found = found]
    /\ UNCHANGED <<row, world, visit, history, visits, drifts>>

\* Fault: only drift is stored, never its end.
StoresDrift(seen, found) == seen /= found /\ found = "drift"
Stores(seen, found) == seen /= found

\* An unchanged assessment is not written; a deleted row ends the cycle.
Store ==
    LET h == monitor.at
        new == [monitor.copy[h] EXCEPT !.state = [StateFrom(@) EXCEPT !.seen = monitor.found]]
    IN /\ monitor.pc = "store"
       /\ IF ~Stores(monitor.copy[h].state.seen, monitor.found)
          THEN monitor' = Done(monitor, h) /\ UNCHANGED row
          ELSE IF ~row[h].live THEN monitor' = NoCycle /\ UNCHANGED row
          ELSE /\ row' = [row EXCEPT ![h] = Written(@, monitor.copy[h], new)]
               /\ monitor' = Done(monitor, h)
       /\ UNCHANGED <<world, visit, history, visits, failures, drifts>>

EndCycle ==
    /\ monitor.pc = "cycle" /\ monitor.todo = {}
    /\ monitor' = NoCycle
    /\ UNCHANGED <<row, world, visit, history, visits, failures, drifts>>

-----------------------------------------------------------------------------
(* The outside.                                                            *)

Drift(h) ==
    /\ row[h].live /\ drifts < MaxDrifts /\ drifts' = drifts + 1
    /\ world' = [world EXCEPT ![h].drift = ~@]
    /\ UNCHANGED <<row, visit, monitor, history, visits, failures>>

\* A restart of the process: every session is gone.
Restart ==
    /\ Fail
    /\ visit' = [v \in Sessions |-> NoVisit]
    /\ monitor' = NoCycle
    /\ history' = [h \in Hvs |-> [history[h] EXCEPT !.disturbed = @ \/ ~Idle(h)]]
    /\ UNCHANGED <<row, world, visits, drifts>>

SessionStep(v) == Dispatch(v) \/ Commit(v)
MonitorStep ==
    \/ BeginCycle \/ Store \/ EndCycle
    \/ \E h \in Hvs : Assess(h) \/ Skip(h)

Next ==
    \/ \E v \in Sessions, h \in Operated, act \in Acts : Load(v, h, act)
    \/ \E v \in Sessions : SessionStep(v)
    \/ MonitorStep
    \/ \E h \in Hvs : Delete(h)
    \/ \E h \in Operated : Drift(h)
    \/ Restart

\* Jobs and the monitor go on; nobody has to ask for anything.
Spec ==
    /\ Init /\ [][Next]_vars
    /\ \A v \in Sessions : WF_vars(SessionStep(v))
    /\ WF_vars(MonitorStep)

-----------------------------------------------------------------------------
(* Properties.                                                             *)

\* The variables' types.
TypeOK ==
    /\ row \in [Hvs -> RowType]
    /\ world \in [Hvs -> WorldType]
    /\ visit \in [Sessions -> VisitType]
    /\ monitor \in [pc: {"sleep", "cycle", "store"}, at: Hvs, todo: SUBSET Hvs,
                    copy: [Hvs -> RowType], found: Seen]
    /\ visits \in 0..MaxVisits /\ failures \in 0..MaxFailures /\ drifts \in 0..MaxDrifts

\* What the operator asked for while nobody was at work on the row stands, through
\* any operations, wizards, cycles and restarts that begin later.
WishesStand ==
    \A h \in Hvs : row[h].live /\ history[h].firm =>
        row[h].state.optout = history[h].optout

\* The status tells what is on the cluster once its jobs have ended, unless two
\* overlapped or one was cut off by a restart.  A row is "deployed" only with all
\* of the integration there, but for an error that a success elsewhere cleared, a
\* deploy that raised, a teardown that failed, and a call that failed unnoticed.
\* It is "not_deployed" only with nothing there, but for a deploy or a wizard that
\* raised, a call that failed unnoticed, a teardown that kept something, a
\* reconciliation that brought the plugin, and the removal of an NFS SR.
StatusTells ==
    \A h \in ReportsRemoval : row[h].live /\ Idle(h) /\ ~history[h].disturbed =>
        /\ row[h].status = "deployed" =>
              \/ world[h].integration = "all"
              \/ history[h].causes \cap {"cleared", "raised", "undone", "missed"} /= {}
        /\ row[h].status = "not_deployed" =>
              \/ world[h].integration = "none"
              \/ history[h].causes \cap {"raised", "missed", "kept", "equipped", "nfs"} /= {}

\* The row is true to what its operator asked for and to what is on the cluster.
RowIsTrue == WishesStand /\ StatusTells

\* The recorded assessment of a cluster that is monitored settles on what is the
\* case, whatever stale rows were written before, failed, or were deleted under
\* the monitor's cycle.
AssessmentSettles ==
    \A h \in Watchable :
        <>[](row[h].live /\ row[h].status = "deployed" /\ ~row[h].state.optout)
            => <>[](row[h].state.seen = Assessment(world[h]))
=============================================================================
