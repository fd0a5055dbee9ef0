--------------------------- MODULE HypervisorRowProofs ---------------------------
(***************************************************************************)
(* Theorems about HypervisorRow, for every number of sessions and          *)
(* hypervisors, every set of operations and every wizard: the row of a     *)
(* hypervisor is true to its operator and to its cluster.                  *)
(***************************************************************************)
EXTENDS HypervisorRow, SequenceTheorems, TLAPS

Switches == {"opt_out", "opt_in"}

\* What a session has left to do fits what it was asked.
Shape(x) ==
    /\ x.act \in Switches => x.todo = << >> /\ x.new = Wished(x.copy, x.act)
    /\ x.act = "validate" => x.todo \in {<< >>, <<"probe">>}
    /\ x.act \in Offered => x.todo \in {<< >>, <<x.act>>}
    /\ x.act = "wizard" => x.todo \in Seq({"deploy", "register"})

HistoryType ==
    [optout: BOOLEAN, firm: BOOLEAN, causes: SUBSET Causes, disturbed: BOOLEAN]
HistoryOK == history \in [Hvs -> HistoryType]
Shapely == HistoryOK /\ \A v \in Sessions : Shape(visit[v])

\* The cycle has a row of h that it may still write.
Holds(h) ==
    monitor.pc /= "sleep" /\ (h \in monitor.todo \/ (monitor.pc = "store" /\ monitor.at = h))

\* Every copy of a row that may be written agrees with the operator's wish.
WishKept(h) ==
    row[h].live /\ history[h].firm =>
        /\ row[h].state.optout = history[h].optout
        /\ \A v \in VisitorsOf(h) :
              /\ visit[v].copy.state.optout = history[h].optout
              /\ visit[v].act \notin Switches => visit[v].new.state.optout = history[h].optout
        /\ Holds(h) => monitor.copy[h].state.optout = history[h].optout
WishesKept == \A h \in Hvs : WishKept(h)

\* A status that may be told of the cluster, and why.
DeployedTold(h) ==
    \/ world[h].integration = "all"
    \/ history[h].causes \cap {"cleared", "raised", "undone", "missed"} /= {}
RemovedTold(h)  ==
    \/ world[h].integration = "none"
    \/ history[h].causes \cap {"raised", "missed", "kept", "equipped", "nfs"} /= {}
Told(h, status) ==
    /\ status = "deployed" => DeployedTold(h)
    /\ status = "not_deployed" => RemovedTold(h)

\* What a session at work, and one about to commit, knows of the cluster.
Working(h, x) ==
    /\ x.new.status = x.copy.status
    /\ x.copy.status = "deployed" => DeployedTold(h)
    /\ x.act /= "wizard" /\ x.copy.status = "not_deployed" => RemovedTold(h)
    /\ x.act = "wizard" => DeployedTold(h) \/ \E i \in 1..Len(x.todo) : x.todo[i] = "deploy"
Ended(h, x) ==
    /\ x.new.status = "deployed" => DeployedTold(h) \/ Clears(x)
    /\ x.new.status = "not_deployed" => RemovedTold(h)

\* At most one session is at work on an undisturbed row, on the row as it is.
StatusKept(h) ==
    row[h].live /\ ~history[h].disturbed =>
        /\ Idle(h) => Told(h, row[h].status)
        /\ \A v \in VisitorsOf(h) :
              /\ \A u \in VisitorsOf(h) : u = v
              /\ visit[v].copy.status = row[h].status
              /\ visit[v].todo /= << >> => Working(h, visit[v])
              /\ visit[v].todo = << >> => Ended(h, visit[v])
StatusesKept == \A h \in ReportsRemoval : StatusKept(h)

IInv == TypeOK /\ Shapely /\ WishesKept /\ StatusesKept

-----------------------------------------------------------------------------
(* Lemmas about the operators.                                             *)

\* The first of the steps left, and the rest.
LEMMA HeadTail ==
    ASSUME NEW S, NEW s \in Seq(S), s /= << >>
    PROVE  /\ Head(s) = s[1] /\ Head(s) \in S /\ Tail(s) \in Seq(S)
           /\ Len(s) \in Nat \ {0} /\ Len(Tail(s)) = Len(s) - 1
           /\ \A i \in 1..Len(Tail(s)) : Tail(s)[i] = s[i + 1]
BY HeadTailProperties, LenProperties, EmptySeq

\* The one step of an operation, and nothing after it.
LEMMA OnlyStep ==
    ASSUME NEW a PROVE Head(<<a>>) = a /\ Tail(<<a>>) = << >> /\ <<a>> /= << >>
OBVIOUS

\* A new row, and the states of nobody, are of their types.
LEMMA Nobody ==
    /\ \A status \in Statuses : NewRow(status) \in RowType
    /\ NoVisit \in VisitType
    /\ NoCycle \in [pc: {"sleep", "cycle", "store"}, at: Hvs, todo: SUBSET Hvs,
                    copy: [Hvs -> RowType], found: Seen]
<1>1. \A status \in Statuses : NewRow(status) \in RowType
    BY DEF NewRow, RowType, StateType, Seen
<1>2. (CHOOSE h \in Hvs : TRUE) \in Hvs
    BY SetAssumption
<1>3. NewRow("not_deployed") \in RowType
    BY <1>1 DEF Statuses
<1>4. << >> \in Seq(Steps \union {"probe"})
    BY EmptySeq
<1>5. NoVisit \in VisitType
    BY <1>2, <1>3, <1>4 DEF NoVisit, VisitType
<1>6. NoCycle \in [pc: {"sleep", "cycle", "store"}, at: Hvs, todo: SUBSET Hvs,
                   copy: [Hvs -> RowType], found: Seen]
    BY <1>2, <1>3 DEF NoCycle, Seen
<1> QED
    BY <1>1, <1>5, <1>6

\* What a commit makes of a row: each column is the committed or the current one.
LEMMA WrittenFacts ==
    ASSUME NEW current \in RowType, NEW copy \in RowType, NEW new \in RowType
    PROVE  /\ Written(current, copy, new) \in RowType
           /\ Written(current, copy, new).live = current.live
           /\ Written(current, copy, new).status
                 = IF new.status = copy.status THEN current.status ELSE new.status
           /\ Written(current, copy, new).state
                 = IF new.state = copy.state THEN current.state ELSE new.state
BY DEF Written, RowType

\* What is recorded of a step that succeeds.
LEMMA RecordedFacts ==
    ASSUME NEW x \in VisitType, NEW step \in Steps \union {"probe"}, NEW inputs \in 1..2,
           NEW w \in WorldType,
           x.act = "wizard" => step /= "probe"
    PROVE  /\ Recorded(x, step, w, inputs) \in RowType
           /\ Recorded(x, step, w, inputs).state.optout = x.new.state.optout
           /\ Recorded(x, step, w, inputs).status =
                 IF step = "probe" THEN Recovered(x.new.status)
                 ELSE IF x.act = "wizard"
                      THEN IF Len(x.todo) = 1 THEN "deployed" ELSE x.new.status
                      ELSE Reported(x.h, step, x.new.status)
<1>1. x.new \in RowType
    BY DEF VisitType
<1>2. Reported(x.h, step, x.new.status) \in Statuses /\ Recovered(x.new.status) \in Statuses
    BY <1>1 DEF RowType, Reported, Recovered, Statuses
<1>3. Assessment(w) \in Seen
    BY DEF Assessment, Seen
<1> DEFINE kept == [x.new EXCEPT !.state = [StateFrom(@) EXCEPT !.inputs = inputs]]
<1>4. /\ kept \in RowType /\ kept.state.optout = x.new.state.optout
      /\ kept.status = x.new.status
    BY <1>1 DEF RowType, StateType, StateFrom
<1>5. CASE step = "probe"
  <2>1. Recorded(x, step, w, inputs) = [x.new EXCEPT !.status = Recovered(@)]
      BY <1>5 DEF Recorded
  <2> QED
      BY <1>1, <1>2, <1>5, <2>1 DEF RowType
<1>6. CASE step /= "probe" /\ x.act = "wizard"
  <2>1. Recorded(x, step, w, inputs) =
          IF Len(x.todo) = 1 THEN [kept EXCEPT !.status = "deployed"] ELSE kept
      BY <1>6 DEF Recorded
  <2> HIDE DEF kept
  <2> QED
      BY <1>4, <1>6, <2>1 DEF RowType, Statuses
<1>7. CASE step /= "probe" /\ x.act /= "wizard"
  <2> DEFINE status == Reported(x.h, step, kept.status)
             seen == IF step \in {"assess", "reconcile"} THEN Assessment(w) ELSE kept.state.seen
  <2>1. Recorded(x, step, w, inputs) = [kept EXCEPT !.status = status, !.state.seen = seen]
      BY <1>7 DEF Recorded
  <2>2. status \in Statuses /\ status = Reported(x.h, step, x.new.status)
      BY <1>2, <1>4
  <2>3. seen \in Seen
      BY <1>3, <1>4 DEF RowType, StateType
  <2> HIDE DEF kept, status, seen
  <2>4. PICK state \in StateType :
          /\ state.optout = kept.state.optout
          /\ Recorded(x, step, w, inputs) = [live |-> kept.live, status |-> status, state |-> state]
    <3>1. /\ [kept.state EXCEPT !.seen = seen] \in StateType
          /\ [kept.state EXCEPT !.seen = seen].optout = kept.state.optout
        BY <1>4, <2>3 DEF RowType, StateType
    <3>2. Recorded(x, step, w, inputs)
            = [live |-> kept.live, status |-> status, state |-> [kept.state EXCEPT !.seen = seen]]
        BY <1>4, <2>1 DEF RowType, StateType
    <3> QED
        BY <3>1, <3>2
  <2>5. Recorded(x, step, w, inputs) \in RowType
      BY <1>4, <2>2, <2>4 DEF RowType
  <2> QED
      BY <1>4, <1>7, <2>2, <2>4, <2>5
<1> QED
    BY <1>5, <1>6, <1>7

\* What may be recorded of one that fails.
LEMMA RefusalFacts ==
    ASSUME NEW x \in VisitType, NEW new \in Refusals(x)
    PROVE  /\ new \in RowType
           /\ new = x.copy \/ (new.status = "error" /\ new.state = x.new.state)
BY DEF Refusals, VisitType, RowType, Statuses

\* What a step leaves of the integration, done or stopped.
LEMMA ExtentFacts ==
    ASSUME NEW h, NEW step, NEW was \in Extents
    PROVE  /\ Stopped(step, was) \subseteq Extents /\ Left(h, step, was) \subseteq Extents
           /\ step = "deploy" => Left(h, step, was) = {"all"}
           /\ step = "teardown" /\ was = "none" => Stopped(step, was) = {"none"}
           /\ step \notin {"deploy", "teardown"} =>
                 /\ Left(h, step, was) = Stopped(step, was)
                 /\ \A extent \in Stopped(step, was) :
                       extent /= was => step = "reconcile" /\ was = "none"
BY DEF Stopped, Left, Less, Extents

\* Of the steps that may stop on the way without being a deploy or a teardown only a
\* reconciliation brings something.
LEMMA OnlyReconcileAdds ==
    ASSUME NEW step, NEW was, NEW is \in Stopped(step, was),
           step \notin {"deploy", "teardown"}, is /= was
    PROVE  step = "reconcile" /\ was = "none"
BY DEF Stopped

\* What is remembered of a step are causes.
LEMMA CauseFacts ==
    ASSUME NEW causes \in SUBSET Causes, NEW step, NEW raised \in BOOLEAN, NEW was, NEW extent
    PROVE  /\ After(causes, step, was, extent) \in SUBSET Causes
           /\ AfterFailure(causes, step, raised, was, extent) \in SUBSET Causes
           /\ causes \union {"missed"} \in SUBSET Causes
BY DEF After, AfterFailure, Causes

\* What a step does to a cluster.
LEMMA ChangedFacts ==
    ASSUME NEW w \in WorldType, NEW step, NEW extent \in Extents
    PROVE  Changed(w, step, extent) \in WorldType /\ Changed(w, step, extent).integration = extent
BY DEF Changed, WorldType

\* The row a switch wishes for.
LEMMA WishedFacts ==
    ASSUME NEW r \in RowType, NEW act
    PROVE  /\ Wished(r, act) \in RowType /\ Wished(r, act).status = r.status
           /\ act \notin Switches => Wished(r, act) = r
           /\ act = "opt_out" => Wished(r, act).state = [r.state EXCEPT !.optout = TRUE]
           /\ act = "opt_in" => Wished(r, act).state = [r.state EXCEPT !.optout = FALSE]
BY DEF Wished, Switches, RowType, StateType

\* The steps of an act.
LEMMA StepsOfFacts ==
    ASSUME NEW h \in Hvs, NEW act \in Acts
    PROVE  /\ StepsOf(h, act) \in Seq(Steps \union {"probe"})
           /\ act \in Switches => StepsOf(h, act) = << >>
           /\ act = "validate" => StepsOf(h, act) = <<"probe">>
           /\ act \in Offered => StepsOf(h, act) = <<act>>
           /\ act = "wizard" => StepsOf(h, act) = Wizard[h]
<1>1. Wizard[h] \in Seq({"deploy", "register"})
    BY WizardAssumption
<1>2. Wizard[h] \in Seq(Steps \union {"probe"})
    BY <1>1 DEF Steps
<1>3. Offered \subseteq Steps
    BY SetAssumption
<1>4. CASE act \in Steps
  <2>1. StepsOf(h, act) = <<act>> /\ <<act>> \in Seq(Steps \union {"probe"})
      BY <1>4 DEF StepsOf, Steps
  <2> QED
      BY <1>4, <2>1 DEF Steps, Switches
<1>5. CASE act = "wizard"
    BY <1>2, <1>3, <1>5 DEF StepsOf, Steps, Switches
<1>6. CASE act = "validate"
  <2>1. StepsOf(h, act) = <<"probe">> /\ <<"probe">> \in Seq(Steps \union {"probe"})
      BY <1>6 DEF StepsOf, Steps
  <2> QED
      BY <1>3, <1>6, <2>1 DEF Steps, Switches
<1>7. CASE act \in Switches
    BY <1>3, <1>7, EmptySeq DEF StepsOf, Steps, Switches
<1> QED
    BY <1>3, <1>4, <1>5, <1>6, <1>7 DEF Acts, Requests, Switches

-----------------------------------------------------------------------------
(* Types and shapes.                                                       *)

CycleType == [pc: {"sleep", "cycle", "store"}, at: Hvs, todo: SUBSET Hvs,
              copy: [Hvs -> RowType], found: Seen]

\* The monitor's cycle after one of its rows is done with.
LEMMA DoneFacts ==
    ASSUME NEW cycle \in CycleType, NEW h \in Hvs
    PROVE  /\ Done(cycle, h) \in CycleType
           /\ Done(cycle, h).pc = "cycle" /\ Done(cycle, h).todo = cycle.todo \ {h}
           /\ \A g \in Hvs \ {h} : Done(cycle, h).copy[g] = cycle.copy[g]
<1>1. NoCycle \in CycleType
    BY Nobody DEF CycleType
<1> QED
    BY <1>1 DEF Done, CycleType

\* A step on the history keeps its type.
LEMMA HistoryFields ==
    ASSUME NEW r \in HistoryType, NEW b \in BOOLEAN, NEW c \in BOOLEAN
    PROVE  /\ [r EXCEPT !.disturbed = b] \in HistoryType
           /\ \A causes \in SUBSET Causes : [r EXCEPT !.causes = causes] \in HistoryType
           /\ [r EXCEPT !.optout = b, !.firm = c] \in HistoryType
BY DEF HistoryType

\* One hypervisor's history is written.
LEMMA OneHistory ==
    ASSUME HistoryOK, NEW h \in Hvs, NEW r \in HistoryType, history' = [history EXCEPT ![h] = r]
    PROVE  HistoryOK'
BY DEF HistoryOK

\* What the cycle makes of its copy of a row.
LEMMA StoredFacts ==
    ASSUME NEW r \in RowType, NEW found \in Seen
    PROVE  LET new == [r EXCEPT !.state = [StateFrom(@) EXCEPT !.seen = found]]
           IN  /\ new \in RowType /\ new.status = r.status
               /\ new.state.optout = r.state.optout
BY DEF RowType, StateType, StateFrom

\* The types and shapes hold initially ...
LEMMA TypeInit == Init => TypeOK /\ Shapely
<1> SUFFICES ASSUME Init PROVE TypeOK /\ Shapely
    OBVIOUS
<1>1. PICK there \in [Hvs -> BOOLEAN], start \in Starts :
        /\ world = [h \in Hvs |-> [integration |-> IF there[h] THEN "all" ELSE "none", drift |-> FALSE]]
        /\ row = [h \in Hvs |->
              IF h \notin start.rows THEN NoRow
              ELSE NewRow(IF there[h] THEN "deployed" ELSE "not_deployed")]
        /\ visits = start.visits /\ failures = start.failures /\ drifts = start.drifts
    BY DEF Init
<1>2. row \in [Hvs -> RowType]
    BY <1>1, Nobody DEF Statuses, NoRow, RowType
<1>3. world \in [Hvs -> WorldType]
    BY <1>1 DEF WorldType, Extents
<1>4. visit \in [Sessions -> VisitType] /\ monitor \in CycleType
    BY Nobody DEF Init, CycleType
<1>5. visits \in 0..MaxVisits /\ failures \in 0..MaxFailures /\ drifts \in 0..MaxDrifts
    BY <1>1, BoundAssumption
<1>6. HistoryOK
    BY DEF Init, HistoryOK, HistoryType, NoHistory
<1>7. Shape(NoVisit)
    BY SetAssumption DEF Shape, NoVisit, Switches, Steps
<1>8. \A v \in Sessions : visit[v] = NoVisit
    BY DEF Init
<1> QED
    BY <1>2, <1>3, <1>4, <1>5, <1>6, <1>7, <1>8 DEF TypeOK, CycleType, Shapely

\* A session's next step.
LEMMA DispatchStep ==
    ASSUME TypeOK, Shapely, NEW v \in Sessions, visit[v].act /= "none", visit[v].todo /= << >>
    PROVE  LET x == visit[v] IN
           /\ x.act \in Acts \ Switches /\ x.h \in Hvs
           /\ Head(x.todo) \in Steps \union {"probe"}
           /\ x.act = "wizard" => Head(x.todo) \in {"deploy", "register"}
           /\ x.act = "validate" => Head(x.todo) = "probe" /\ Tail(x.todo) = << >>
           /\ x.act \in Offered => Head(x.todo) = x.act /\ Tail(x.todo) = << >>
           /\ Tail(x.todo) \in Seq(Steps \union {"probe"})
           /\ x.act = "wizard" => Tail(x.todo) \in Seq({"deploy", "register"})
<1> DEFINE x == visit[v]
<1>1. x \in VisitType /\ Shape(x)
    BY DEF TypeOK, Shapely
<1>2. x.act \in Acts \ Switches /\ x.h \in Hvs
    BY <1>1 DEF VisitType, Shape
<1>3. Head(x.todo) \in Steps \union {"probe"} /\ Tail(x.todo) \in Seq(Steps \union {"probe"})
    BY <1>1, HeadTail DEF VisitType
<1>4. x.act = "wizard" =>
        Head(x.todo) \in {"deploy", "register"} /\ Tail(x.todo) \in Seq({"deploy", "register"})
    BY <1>1, HeadTail DEF Shape
<1>5. x.act = "validate" => Head(x.todo) = "probe" /\ Tail(x.todo) = << >>
    BY <1>1, OnlyStep DEF Shape
<1>6. x.act \in Offered => Head(x.todo) = x.act /\ Tail(x.todo) = << >>
    BY <1>1, OnlyStep DEF Shape
<1> QED
    BY <1>2, <1>3, <1>4, <1>5, <1>6

\* What a step writes of the cluster and of its history.
LEMMA DispatchOutcome ==
    ASSUME NEW v \in Sessions, Dispatch(v),
           world[visit[v].h] \in WorldType, world[visit[v].h].integration \in Extents,
           history[visit[v].h].causes \in SUBSET Causes
    PROVE  \E causes \in SUBSET Causes, w \in WorldType :
             /\ history' = [history EXCEPT ![visit[v].h].causes = causes]
             /\ world' = [world EXCEPT ![visit[v].h] = w]
             /\ failures' = failures \/ Fail
<1> DEFINE h == visit[v].h
           step == Head(visit[v].todo)
           was == world[h].integration
           causes == history[h].causes
<1>0. world[h] \in WorldType /\ was \in Extents /\ causes \in SUBSET Causes
    OBVIOUS
<1> HIDE DEF h, step, was, causes
<1>3. Left(h, step, was) \subseteq Extents /\ Stopped(step, was) \subseteq Extents
    BY <1>0, ExtentFacts
<1>1. CASE Answer(v)
  <2>1. CASE \E extent \in Left(h, step, was) :
               /\ world' = [world EXCEPT ![h] = Changed(world[h], step, extent)]
               /\ history' = [history EXCEPT ![h].causes = After(causes, step, was, extent)]
               /\ UNCHANGED failures
    <3>1. PICK extent \in Left(h, step, was) :
               /\ world' = [world EXCEPT ![h] = Changed(world[h], step, extent)]
               /\ history' = [history EXCEPT ![h].causes = After(causes, step, was, extent)]
               /\ UNCHANGED failures
        BY <2>1
    <3>2. Changed(world[h], step, extent) \in WorldType
        BY <1>0, <1>3, ChangedFacts
    <3>3. After(causes, step, was, extent) \in SUBSET Causes
        BY <1>0, CauseFacts
    <3> QED
        BY <3>1, <3>2, <3>3 DEF h
  <2>2. CASE \E extent \in Stopped(step, was) :
               /\ Fail
               /\ world' = [world EXCEPT ![h] = Changed(world[h], step, extent)]
               /\ history' = [history EXCEPT ![h].causes = causes \union {"missed"}]
    <3>1. PICK extent \in Stopped(step, was) :
               /\ Fail
               /\ world' = [world EXCEPT ![h] = Changed(world[h], step, extent)]
               /\ history' = [history EXCEPT ![h].causes = causes \union {"missed"}]
        BY <2>2
    <3>2. Changed(world[h], step, extent) \in WorldType
        BY <1>0, <1>3, ChangedFacts
    <3>3. causes \union {"missed"} \in SUBSET Causes
        BY <1>0 DEF Causes
    <3> QED
        BY <3>1, <3>2, <3>3 DEF h
  <2> QED
      BY <1>1, <2>1, <2>2 DEF Answer, h, step, was, causes
<1>2. CASE Refuse(v)
  <2>1. PICK new \in Refusals(visit[v]), extent \in Stopped(step, was) :
          /\ Fail /\ world' = [world EXCEPT ![h].integration = extent]
          /\ history' = [history EXCEPT ![h].causes =
                AfterFailure(causes, step, visit[v].act \in {"deploy", "wizard"} /\ new = visit[v].copy,
                             was, extent)]
      BY <1>2 DEF Refuse, h, step, was, causes
  <2>2. PICK raised \in BOOLEAN :
          raised <=> (visit[v].act \in {"deploy", "wizard"} /\ new = visit[v].copy)
      BY Zenon
  <2>3. AfterFailure(causes, step, visit[v].act \in {"deploy", "wizard"} /\ new = visit[v].copy,
                     was, extent) = AfterFailure(causes, step, raised, was, extent)
      BY <2>2 DEF AfterFailure
  <2>4. AfterFailure(causes, step, raised, was, extent) \in SUBSET Causes
      BY <1>0, CauseFacts
  <2>5. extent \in Extents
      BY <1>3
  <2>6. [world[h] EXCEPT !.integration = extent] \in WorldType
      BY <1>0, <2>5 DEF WorldType
  <2> QED
      BY <2>1, <2>3, <2>4, <2>6 DEF h
<1> QED
    BY <1>1, <1>2 DEF Dispatch

\* ... and every step keeps them.
LEMMA TypeNext == TypeOK /\ Shapely /\ [Next]_vars => TypeOK' /\ Shapely'
<1> SUFFICES ASSUME TypeOK, Shapely, [Next]_vars PROVE TypeOK' /\ Shapely'
    OBVIOUS
<1> USE BoundAssumption, SetAssumption DEF CycleType
<1>t. /\ row \in [Hvs -> RowType]
      /\ world \in [Hvs -> WorldType]
      /\ visit \in [Sessions -> VisitType]
      /\ monitor \in CycleType
      /\ visits \in 0..MaxVisits /\ failures \in 0..MaxFailures /\ drifts \in 0..MaxDrifts
      /\ HistoryOK /\ \A v \in Sessions : Shape(visit[v])
    BY DEF TypeOK, Shapely
<1>f. Fail => failures' \in 0..MaxFailures
    BY <1>t DEF Fail
<1>n. NoVisit \in VisitType /\ Shape(NoVisit) /\ NoCycle \in CycleType
    BY Nobody DEF Shape, NoVisit, Switches, Steps
<1>1. ASSUME NEW v \in Sessions, NEW h \in Operated, NEW act \in Acts, Load(v, h, act)
      PROVE  TypeOK' /\ Shapely'
  <2> DEFINE x == [act |-> act, h |-> h, todo |-> StepsOf(h, act), copy |-> row[h],
                   new |-> Wished(row[h], act)]
  <2>1. visit' = [visit EXCEPT ![v] = x] /\ visits' \in 0..MaxVisits
      BY <1>1, <1>t DEF Load
  <2>2. row[h] \in RowType /\ h \in Hvs
      BY <1>t
  <2>3. x \in VisitType
      BY <2>2, StepsOfFacts, WishedFacts DEF VisitType
  <2>4. Shape(x)
      BY <2>2, StepsOfFacts, WizardAssumption DEF Shape
  <2>5. HistoryOK'
    <3>1. (history[h].disturbed \/ ~Idle(h)) \in BOOLEAN
        BY Zenon
    <3>2. \E b \in BOOLEAN : history' = [history EXCEPT ![h] = [@ EXCEPT !.disturbed = b]]
        BY <1>1, <3>1, Zenon DEF Load
    <3>3. \A b \in BOOLEAN : [history[h] EXCEPT !.disturbed = b] \in HistoryType
        BY <1>t, <2>2, HistoryFields DEF HistoryOK
    <3> QED
        BY <1>t, <2>2, <3>2, <3>3 DEF HistoryOK
  <2> HIDE DEF x
  <2> QED
      BY <1>1, <1>t, <2>1, <2>3, <2>4, <2>5 DEF Load, TypeOK, Shapely
<1>2. ASSUME NEW v \in Sessions, Dispatch(v)
      PROVE  TypeOK' /\ Shapely'
  <2> DEFINE x == visit[v]
             step == Head(x.todo)
  <2>1. x \in VisitType /\ x.act /= "none" /\ x.todo /= << >> /\ x.copy \in RowType
      BY <1>2, <1>t DEF Dispatch, VisitType
  <2>2. /\ x.act \in Acts \ Switches /\ x.h \in Hvs /\ step \in Steps \union {"probe"}
        /\ x.act = "wizard" => step \in {"deploy", "register"}
        /\ x.act = "validate" => Tail(x.todo) = << >>
        /\ x.act \in Offered => Tail(x.todo) = << >>
        /\ Tail(x.todo) \in Seq(Steps \union {"probe"})
        /\ x.act = "wizard" => Tail(x.todo) \in Seq({"deploy", "register"})
      BY <2>1, DispatchStep
  <2>w. /\ world[x.h] \in WorldType /\ world[x.h].integration \in Extents
        /\ history[x.h] \in HistoryType /\ history[x.h].causes \in SUBSET Causes
      BY <1>t, <2>2 DEF WorldType, HistoryOK, HistoryType
  <2>3. PICK causes \in SUBSET Causes, w \in WorldType :
          /\ history' = [history EXCEPT ![x.h].causes = causes]
          /\ world' = [world EXCEPT ![x.h] = w]
          /\ failures' = failures \/ Fail
      BY <1>2, <2>1, <2>w, DispatchOutcome
  <2>4. /\ world' \in [Hvs -> WorldType] /\ failures' \in 0..MaxFailures /\ HistoryOK'
    <3> HIDE DEF x
    <3>1. [history[x.h] EXCEPT !.causes = causes] \in HistoryType
        BY <2>w, HistoryFields
    <3>2. history' = [history EXCEPT ![x.h] = [history[x.h] EXCEPT !.causes = causes]]
        BY <2>3
    <3>3. HistoryOK'
        BY <1>t, <2>2, <3>1, <3>2, OneHistory
    <3> QED
        BY <1>t, <1>f, <2>3, <3>3
  <2>5. \E todo \in Seq(Steps \union {"probe"}), new \in RowType :
          /\ todo \in {<< >>, Tail(x.todo)}
          /\ visit' = [visit EXCEPT ![v].todo = todo, ![v].new = new]
    <3>1. \/ \E inputs \in 1..2 :
                visit' = [visit EXCEPT ![v].todo = Tail(x.todo),
                                       ![v].new = Recorded(x, step, world[x.h], inputs)]
          \/ \E new \in Refusals(x) : visit' = [visit EXCEPT ![v].todo = << >>, ![v].new = new]
        BY <1>2, <2>1 DEF Dispatch, Answer, Refuse, VisitType, RowType, StateType
    <3>2. world[x.h] \in WorldType
        BY <2>w
    <3>3. \A inputs \in 1..2 : Recorded(x, step, world[x.h], inputs) \in RowType
        BY <2>1, <2>2, <3>2, RecordedFacts
    <3>4. \A new \in Refusals(x) : new \in RowType
        BY <2>1, RefusalFacts
    <3>5. << >> \in Seq(Steps \union {"probe"})
        BY EmptySeq
    <3> QED
        BY <2>2, <3>1, <3>3, <3>4, <3>5
  <2>6. PICK todo \in Seq(Steps \union {"probe"}), new \in RowType :
          /\ todo \in {<< >>, Tail(x.todo)}
          /\ visit' = [visit EXCEPT ![v].todo = todo, ![v].new = new]
      BY <2>5
  <2>7. visit'[v] = [x EXCEPT !.todo = todo, !.new = new]
      BY <1>t, <2>6
  <2>8. /\ visit'[v] \in VisitType /\ visit'[v].act = x.act
        /\ visit'[v].todo \in {<< >>, Tail(x.todo)}
    <3> DEFINE y == visit'[v]
    <3>1. y = [x EXCEPT !.todo = todo, !.new = new]
        BY <2>7
    <3> HIDE DEF x, y
    <3>2. y \in VisitType /\ y.act = x.act /\ y.todo = todo
        BY <2>1, <3>1 DEF VisitType
    <3> QED
        BY <2>6, <3>2 DEF y
  <2>9. << >> \in Seq({"deploy", "register"})
      BY EmptySeq
  <2>10. Shape(visit'[v])
    <3> HIDE DEF x
    <3>1. x.act \notin Switches /\ (x.act = "wizard" => visit'[v].todo \in Seq({"deploy", "register"}))
        BY <2>2, <2>8, <2>9
    <3>2. x.act = "validate" \/ x.act \in Offered => visit'[v].todo = << >>
        BY <2>2, <2>8
    <3> QED
        BY <2>8, <3>1, <3>2 DEF Shape
  <2>11. /\ visit' \in [Sessions -> VisitType]
         /\ \A u \in Sessions : Shape(visit'[u])
    <3>1. \A u \in Sessions \ {v} : visit'[u] = visit[u]
        BY <1>t, <2>6
    <3>2. visit' = [u \in Sessions |-> visit'[u]]
        BY <1>t, <2>6
    <3> QED
        BY <1>t, <2>8, <2>10, <3>1, <3>2
  <2> QED
      BY <1>2, <1>t, <2>4, <2>11 DEF Dispatch, TypeOK, Shapely
<1>3. ASSUME NEW v \in Sessions, Commit(v)
      PROVE  TypeOK' /\ Shapely'
  <2> DEFINE x == visit[v]
  <2>1. x.h \in Hvs /\ x.copy \in RowType /\ x.new \in RowType
      BY <1>3, <1>t DEF Commit, VisitType
  <2>2. visit' \in [Sessions -> VisitType] /\ \A u \in Sessions : Shape(visit'[u])
      BY <1>3, <1>t, <1>n DEF Commit
  <2>3. row' \in [Hvs -> RowType]
      BY <1>3, <1>t, <2>1, WrittenFacts DEF Commit
  <2>4. HistoryOK'
    <3>1. history[x.h] \in HistoryType
        BY <1>t, <2>1 DEF HistoryOK
    <3>2. (x.act = "opt_out") \in BOOLEAN /\ Undisturbed(v) \in BOOLEAN
        BY Zenon DEF Undisturbed
    <3>3. Noted(x, v) \in HistoryType
        BY <3>1, <3>2, HistoryFields DEF Noted
    <3>4. Noted(x, v).causes \union (IF Clears(x) THEN {"cleared"} ELSE {}) \in SUBSET Causes
        BY <3>3 DEF HistoryType, Causes
    <3>5. \/ history' = history
          \/ \E causes \in SUBSET Causes :
                history' = [history EXCEPT ![x.h] = [Noted(x, v) EXCEPT !.causes = causes]]
        BY <1>3, <3>4 DEF Commit
    <3>6. \A causes \in SUBSET Causes : [Noted(x, v) EXCEPT !.causes = causes] \in HistoryType
        BY <3>3, HistoryFields
    <3>7. CASE history' = history
        BY <1>t, <3>7 DEF HistoryOK
    <3>8. CASE history' /= history
      <4> HIDE DEF x
      <4>1. PICK r \in HistoryType : history' = [history EXCEPT ![x.h] = r]
          BY <3>5, <3>6, <3>8, Zenon
      <4> QED
          BY <1>t, <2>1, <4>1, OneHistory
    <3> QED
        BY <3>7, <3>8
  <2> QED
      BY <1>3, <1>t, <2>2, <2>3, <2>4 DEF Commit, TypeOK, Shapely
<1>4. CASE BeginCycle
  <2>1. monitor' \in CycleType
      BY <1>4, <1>t, <1>n DEF BeginCycle
  <2> QED
      BY <1>4, <1>t, <2>1 DEF BeginCycle, TypeOK, Shapely, HistoryOK
<1>5. CASE EndCycle
    BY <1>5, <1>t, <1>n DEF EndCycle, TypeOK, Shapely, HistoryOK
<1>6. ASSUME NEW h \in Hvs, Assess(h)
      PROVE  TypeOK' /\ Shapely'
  <2>1. PICK found \in Seen :
          /\ monitor' = [monitor EXCEPT !.pc = "store", !.at = h, !.todo = @ \ {h}, !.found = found]
          /\ failures' = failures \/ Fail
      BY <1>6 DEF Assess, Assessment, Seen
  <2>2. monitor' \in CycleType /\ failures' \in 0..MaxFailures
      BY <1>t, <1>f, <2>1
  <2> QED
      BY <1>6, <1>t, <2>2 DEF Assess, TypeOK, Shapely, HistoryOK
<1>7. ASSUME NEW h \in Hvs, Skip(h)
      PROVE  TypeOK' /\ Shapely'
  <2>1. monitor' \in CycleType /\ failures' \in 0..MaxFailures
      BY <1>7, <1>t, <1>f, DoneFacts DEF Skip
  <2> QED
      BY <1>7, <1>t, <2>1 DEF Skip, TypeOK, Shapely, HistoryOK
<1>8. CASE Store
  <2> DEFINE h == monitor.at
             new == [monitor.copy[h] EXCEPT !.state = [StateFrom(@) EXCEPT !.seen = monitor.found]]
  <2>1. h \in Hvs /\ monitor.copy[h] \in RowType /\ new \in RowType
    <3>1. h \in Hvs /\ monitor.copy[h] \in RowType /\ monitor.found \in Seen
        BY <1>t
    <3> QED
        BY <3>1, StoredFacts
  <2>2. row' \in [Hvs -> RowType]
    <3>1. row' = row \/ row' = [row EXCEPT ![h] = Written(row[h], monitor.copy[h], new)]
        BY <1>8, <1>t DEF Store
    <3> QED
        BY <1>t, <2>1, <3>1, WrittenFacts
  <2>3. monitor' \in CycleType
      BY <1>8, <1>t, <1>n, <2>1, DoneFacts DEF Store
  <2> QED
      BY <1>8, <1>t, <2>2, <2>3 DEF Store, TypeOK, Shapely, HistoryOK
<1>9. ASSUME NEW h \in Hvs, Delete(h)
      PROVE  TypeOK' /\ Shapely'
  <2>1. NewRow("not_deployed") \in RowType
      BY Nobody DEF Statuses
  <2>2. row' \in [Hvs -> RowType]
      BY <1>9, <1>t, <2>1 DEF Delete, NoRow, RowType
  <2>3. HistoryOK'
      BY <1>9, <1>t DEF Delete, HistoryOK, HistoryType, NoHistory
  <2> QED
      BY <1>9, <1>t, <2>2, <2>3 DEF Delete, TypeOK, Shapely
<1>10. ASSUME NEW h \in Operated, Drift(h)
       PROVE  TypeOK' /\ Shapely'
  <2>1. (~world[h].drift) \in BOOLEAN
      BY Zenon
  <2>2. \E b \in BOOLEAN : world' = [world EXCEPT ![h] = [@ EXCEPT !.drift = b]]
      BY <1>10, <2>1, Zenon DEF Drift
  <2>3. world' \in [Hvs -> WorldType] /\ drifts' \in 0..MaxDrifts
      BY <1>10, <1>t, <2>2 DEF Drift, WorldType
  <2> QED
      BY <1>10, <1>t, <2>3 DEF Drift, TypeOK, Shapely, HistoryOK
<1>11. CASE Restart
  <2>1. HistoryOK'
    <3>1. \A h \in Hvs : (history[h].disturbed \/ ~Idle(h)) \in BOOLEAN
        BY Zenon
    <3>2. \A h \in Hvs : history'[h] = [history[h] EXCEPT !.disturbed = history[h].disturbed \/ ~Idle(h)]
        BY <1>11 DEF Restart
    <3>3. \A h \in Hvs : history'[h] \in HistoryType
      <4> SUFFICES ASSUME NEW h \in Hvs PROVE history'[h] \in HistoryType
          OBVIOUS
      <4>1. history[h] \in HistoryType
          BY <1>t DEF HistoryOK
      <4>2. PICK b \in BOOLEAN : history'[h] = [history[h] EXCEPT !.disturbed = b]
          BY <3>1, <3>2, Zenon
      <4> QED
          BY <4>1, <4>2, HistoryFields
    <3>4. history' = [h \in Hvs |-> history'[h]]
        BY <1>11 DEF Restart
    <3> QED
        BY <3>3, <3>4 DEF HistoryOK
  <2>2. visit' \in [Sessions -> VisitType] /\ \A u \in Sessions : Shape(visit'[u])
      BY <1>11, <1>n DEF Restart
  <2> QED
      BY <1>11, <1>t, <1>f, <1>n, <2>1, <2>2 DEF Restart, TypeOK, Shapely
<1>12. CASE UNCHANGED vars
    BY <1>12, <1>t DEF vars, TypeOK, Shapely, HistoryOK
<1> QED
    BY <1>1, <1>2, <1>3, <1>4, <1>5, <1>6, <1>7, <1>8, <1>9, <1>10, <1>11, <1>12
       DEF Next, SessionStep, MonitorStep

-----------------------------------------------------------------------------
(* A step of a session's connector.                                        *)

\* What a step that succeeds, and one that fails, leaves of a session.
Succeeded(v) ==
    LET x == visit[v]
        step == Head(x.todo)
        was == world[x.h].integration
    IN /\ visit'[v].todo = Tail(x.todo)
       /\ visit'[v].new.state.optout = x.new.state.optout
       /\ visit'[v].new.status =
             IF step = "probe" THEN Recovered(x.new.status)
             ELSE IF x.act = "wizard"
                  THEN IF Len(x.todo) = 1 THEN "deployed" ELSE x.new.status
                  ELSE Reported(x.h, step, x.new.status)
       /\ \/ /\ world'[x.h].integration \in Left(x.h, step, was)
             /\ history'[x.h].causes =
                   After(history[x.h].causes, step, was, world'[x.h].integration)
          \/ /\ step \in {"deploy", "teardown"}
             /\ history'[x.h].causes = history[x.h].causes \union {"missed"}
Failed(v) ==
    LET x == visit[v]
        step == Head(x.todo)
        was == world[x.h].integration
    IN /\ visit'[v].todo = << >>
       /\ history[x.h].causes \subseteq history'[x.h].causes
       /\ world'[x.h].integration \in Stopped(step, was)
       /\ step = "teardown" => "undone" \in history'[x.h].causes
       /\ step = "reconcile" /\ world'[x.h].integration /= was =>
             "equipped" \in history'[x.h].causes
       /\ \/ /\ visit'[v].new = x.copy
             /\ x.act \in {"deploy", "wizard"} => "raised" \in history'[x.h].causes
          \/ visit'[v].new.status = "error" /\ visit'[v].new.state = x.new.state

\* A step of a session changes its own work and its own cluster, and touches no row.
LEMMA DispatchFacts ==
    ASSUME TypeOK, Shapely, NEW v \in Sessions, Dispatch(v)
    PROVE  /\ UNCHANGED <<row, monitor>>
           /\ \A h \in Hvs : /\ history'[h].firm = history[h].firm
                             /\ history'[h].optout = history[h].optout
                             /\ history'[h].disturbed = history[h].disturbed
           /\ \A h \in Hvs \ {visit[v].h} : history'[h] = history[h] /\ world'[h] = world[h]
           /\ \A u \in Sessions \ {v} : visit'[u] = visit[u]
           /\ visit'[v].act = visit[v].act /\ visit'[v].h = visit[v].h
           /\ visit'[v].copy = visit[v].copy
           /\ Succeeded(v) \/ Failed(v)
<1> DEFINE x == visit[v]
           step == Head(x.todo)
           was == world[x.h].integration
           causes == history[x.h].causes
<1>1. /\ x \in VisitType /\ x.h \in Hvs
      /\ step \in Steps \union {"probe"} /\ (x.act = "wizard" => step /= "probe")
      /\ world \in [Hvs -> WorldType] /\ world[x.h] \in WorldType /\ was \in Extents
      /\ visit \in [Sessions -> VisitType] /\ HistoryOK /\ causes \in SUBSET Causes
    BY DispatchStep DEF Dispatch, TypeOK, Shapely, WorldType, HistoryOK, HistoryType
<1>2. UNCHANGED <<row, monitor>>
    BY DEF Dispatch
<1>3. PICK new \in SUBSET Causes, w \in WorldType :
        /\ history' = [history EXCEPT ![x.h].causes = new]
        /\ world' = [world EXCEPT ![x.h] = w]
    BY <1>1, DispatchOutcome
<1>4. /\ world'[x.h] = w /\ history'[x.h].causes = new
      /\ \A h \in Hvs : /\ history'[h].firm = history[h].firm
                        /\ history'[h].optout = history[h].optout
                        /\ history'[h].disturbed = history[h].disturbed
                        /\ h /= x.h => history'[h] = history[h] /\ world'[h] = world[h]
    BY <1>1, <1>3 DEF HistoryOK, HistoryType
<1>5. CASE Answer(v)
  <2>0. x.new.state.inputs \in 1..2
      BY <1>1 DEF VisitType, RowType, StateType
  <2>1. PICK inputs \in 1..2 :
          visit' = [visit EXCEPT ![v].todo = Tail(x.todo),
                                 ![v].new = Recorded(x, step, world[x.h], inputs)]
      BY <1>5, <2>0 DEF Answer
  <2>2. /\ visit'[v].todo = Tail(x.todo) /\ visit'[v].new = Recorded(x, step, world[x.h], inputs)
        /\ visit'[v].act = x.act /\ visit'[v].h = x.h /\ visit'[v].copy = x.copy
        /\ \A u \in Sessions \ {v} : visit'[u] = visit[u]
      BY <1>1, <2>1 DEF VisitType
  <2>3. /\ visit'[v].new.state.optout = x.new.state.optout
        /\ visit'[v].new.status =
              IF step = "probe" THEN Recovered(x.new.status)
              ELSE IF x.act = "wizard"
                   THEN IF Len(x.todo) = 1 THEN "deployed" ELSE x.new.status
                   ELSE Reported(x.h, step, x.new.status)
    <3> DEFINE w0 == world[x.h]
    <3>1. x \in VisitType /\ step \in Steps \union {"probe"} /\ w0 \in WorldType
          /\ (x.act = "wizard" => step /= "probe")
        BY <1>1
    <3> HIDE DEF x, step, w0
    <3>2. /\ Recorded(x, step, w0, inputs).state.optout = x.new.state.optout
          /\ Recorded(x, step, w0, inputs).status =
                IF step = "probe" THEN Recovered(x.new.status)
                ELSE IF x.act = "wizard"
                     THEN IF Len(x.todo) = 1 THEN "deployed" ELSE x.new.status
                     ELSE Reported(x.h, step, x.new.status)
        BY <3>1, RecordedFacts
    <3>3. visit'[v].new = Recorded(x, step, w0, inputs)
        BY <2>2 DEF w0
    <3> QED
        BY <3>2, <3>3
  <2>4. \/ /\ w.integration \in Left(x.h, step, was)
           /\ new = After(causes, step, was, w.integration)
        \/ step \in {"deploy", "teardown"} /\ new = causes \union {"missed"}
    <3>1. CASE \E extent \in Left(x.h, step, was) :
                 /\ world' = [world EXCEPT ![x.h] = Changed(world[x.h], step, extent)]
                 /\ history' = [history EXCEPT ![x.h].causes = After(causes, step, was, extent)]
      <4>1. PICK extent \in Left(x.h, step, was) :
                 /\ world' = [world EXCEPT ![x.h] = Changed(world[x.h], step, extent)]
                 /\ history' = [history EXCEPT ![x.h].causes = After(causes, step, was, extent)]
          BY <3>1
      <4>2. extent \in Extents
          BY <1>1, ExtentFacts
      <4>3. w = Changed(world[x.h], step, extent) /\ w.integration = extent
          BY <1>1, <1>4, <4>1, <4>2, ChangedFacts
      <4>4. history'[x.h].causes = After(causes, step, was, extent)
          BY <1>1, <4>1 DEF HistoryOK, HistoryType
      <4> QED
          BY <1>4, <4>3, <4>4
    <3>2. CASE /\ step \in {"deploy", "teardown"}
               /\ history' = [history EXCEPT ![x.h].causes = causes \union {"missed"}]
      <4>1. history'[x.h].causes = causes \union {"missed"}
          BY <1>1, <3>2 DEF HistoryOK, HistoryType
      <4> QED
          BY <1>4, <3>2, <4>1
    <3> QED
        BY <1>5, <3>1, <3>2 DEF Answer
  <2>5. Succeeded(v)
      BY <1>4, <2>2, <2>3, <2>4 DEF Succeeded
  <2> QED
      BY <1>2, <1>4, <2>2, <2>5
<1>6. CASE Refuse(v)
  <2>1. PICK y \in Refusals(x), extent \in Stopped(step, was) :
          /\ visit' = [visit EXCEPT ![v].todo = << >>, ![v].new = y]
          /\ world' = [world EXCEPT ![x.h].integration = extent]
          /\ history' = [history EXCEPT ![x.h].causes =
                AfterFailure(causes, step, x.act \in {"deploy", "wizard"} /\ y = x.copy, was, extent)]
      BY <1>6 DEF Refuse
  <2>2. /\ visit'[v].todo = << >> /\ visit'[v].new = y
        /\ visit'[v].act = x.act /\ visit'[v].h = x.h /\ visit'[v].copy = x.copy
        /\ \A u \in Sessions \ {v} : visit'[u] = visit[u]
      BY <1>1, <2>1 DEF VisitType
  <2>3. world'[x.h].integration = extent
      BY <1>1, <2>1 DEF WorldType
  <2>4. PICK raised \in BOOLEAN : raised <=> (x.act \in {"deploy", "wizard"} /\ y = x.copy)
      BY Zenon
  <2>5. history'[x.h].causes = AfterFailure(causes, step, raised, was, extent)
    <3>1. history'[x.h].causes =
             AfterFailure(causes, step, x.act \in {"deploy", "wizard"} /\ y = x.copy, was, extent)
        BY <1>1, <2>1 DEF HistoryOK, HistoryType
    <3> QED
        BY <2>4, <3>1 DEF AfterFailure
  <2>6. /\ causes \subseteq history'[x.h].causes
        /\ step = "teardown" => "undone" \in history'[x.h].causes
        /\ step = "reconcile" /\ extent /= was => "equipped" \in history'[x.h].causes
        /\ raised => "raised" \in history'[x.h].causes
      BY <2>5 DEF AfterFailure
  <2>7. y = x.copy \/ (y.status = "error" /\ y.state = x.new.state)
      BY <1>1, RefusalFacts
  <2>8. Failed(v)
      BY <2>2, <2>3, <2>4, <2>6, <2>7 DEF Failed
  <2> QED
      BY <1>2, <1>4, <2>2, <2>8
<1> QED
    BY <1>5, <1>6 DEF Dispatch

-----------------------------------------------------------------------------
(* The operator's wishes.                                                  *)

\* No wish is on record initially, and nobody holds a row ...
LEMMA WishesInit == Init => WishesKept
<1> SUFFICES ASSUME Init, NEW h \in Hvs PROVE WishKept(h)
    BY DEF WishesKept
<1>1. history[h].optout = FALSE
    BY DEF Init, NoHistory
<1>2. row[h].live => row[h].state.optout = FALSE
  <2>1. PICK there \in [Hvs -> BOOLEAN], start \in Starts :
          row = [g \in Hvs |->
              IF g \notin start.rows THEN NoRow
              ELSE NewRow(IF there[g] THEN "deployed" ELSE "not_deployed")]
      BY DEF Init
  <2> QED
      BY <2>1 DEF NewRow, NoRow
<1>3. VisitorsOf(h) = {} /\ ~Holds(h)
    BY DEF Init, VisitorsOf, NoVisit, Holds, NoCycle
<1> QED
    BY <1>1, <1>2, <1>3 DEF WishKept

\* A step that leaves the row, and every copy of it that remains, as they were.
LEMMA WishUntouched ==
    ASSUME NEW h \in Hvs, WishKept(h),
           row'[h].live => row[h].live, history'[h].firm => history[h].firm,
           row'[h].live /\ history'[h].firm =>
               row'[h].state.optout = row[h].state.optout
               /\ history'[h].optout = history[h].optout,
           \A u \in VisitorsOf(h)' : u \in VisitorsOf(h) /\ visit'[u] = visit[u],
           Holds(h)' => Holds(h) /\ monitor'.copy[h] = monitor.copy[h]
    PROVE  WishKept(h)'
BY DEF WishKept

\* ... and every step leaves the wish in each copy of the row that may be written.
LEMMA WishesNext == TypeOK /\ Shapely /\ WishesKept /\ [Next]_vars => WishesKept'
<1> SUFFICES ASSUME TypeOK, Shapely, WishesKept, [Next]_vars, NEW h \in Hvs
             PROVE  WishKept(h)'
    BY DEF WishesKept
<1>t. /\ row \in [Hvs -> RowType] /\ row[h] \in RowType
      /\ visit \in [Sessions -> VisitType]
      /\ monitor \in CycleType
      /\ HistoryOK /\ \A v \in Sessions : Shape(visit[v])
      /\ WishKept(h)
    BY DEF TypeOK, Shapely, WishesKept, CycleType
<1>u. UNCHANGED visit => VisitorsOf(h)' = VisitorsOf(h)
    BY DEF VisitorsOf
<1>m. UNCHANGED monitor => (Holds(h)' <=> Holds(h))
    BY DEF Holds
<1>1. ASSUME NEW v \in Sessions, NEW g \in Operated, NEW act \in Acts, Load(v, g, act)
      PROVE  WishKept(h)'
  <2>1. /\ UNCHANGED <<row, monitor>>
        /\ visit' = [visit EXCEPT ![v] = [act |-> act, h |-> g, todo |-> StepsOf(g, act),
                                          copy |-> row[g], new |-> Wished(row[g], act)]]
        /\ history'[h].firm = history[h].firm /\ history'[h].optout = history[h].optout
      BY <1>1, <1>t, SetAssumption DEF Load, HistoryOK, HistoryType
  <2>2. \A u \in Sessions \ {v} : visit'[u] = visit[u]
      BY <1>t, <2>1
  <2>3. \A u \in VisitorsOf(h)' : u = v \/ (u \in VisitorsOf(h) /\ visit'[u] = visit[u])
      BY <2>2 DEF VisitorsOf
  <2>4. /\ visit'[v].h = g /\ visit'[v].act = act /\ visit'[v].copy = row[g]
        /\ visit'[v].new = Wished(row[g], act)
      BY <1>t, <2>1
  <2>5. act \notin Switches => Wished(row[g], act) = row[g]
      BY <1>t, SetAssumption, WishedFacts
  <2>6. v \in VisitorsOf(h)' =>
          visit'[v].copy = row[h] /\ (visit'[v].act \notin Switches => visit'[v].new = row[h])
      BY <2>4, <2>5 DEF VisitorsOf
  <2> QED
      BY <1>t, <1>m, <2>1, <2>3, <2>6 DEF WishKept
<1>2. ASSUME NEW v \in Sessions, Dispatch(v)
      PROVE  WishKept(h)'
  <2> DEFINE x == visit[v]
  <2>1. /\ UNCHANGED <<row, monitor>>
        /\ history'[h].firm = history[h].firm /\ history'[h].optout = history[h].optout
        /\ \A u \in Sessions \ {v} : visit'[u] = visit[u]
        /\ visit'[v].act = x.act /\ visit'[v].h = x.h /\ visit'[v].copy = x.copy
      BY <1>2, DispatchFacts
  <2>2. visit'[v].new.state.optout \in {x.new.state.optout, x.copy.state.optout}
      BY <1>2, DispatchFacts DEF Succeeded, Failed
  <2>3. VisitorsOf(h)' = VisitorsOf(h)
      BY <2>1 DEF VisitorsOf
  <2>4. \A u \in VisitorsOf(h) :
          /\ visit'[u].act = visit[u].act /\ visit'[u].copy = visit[u].copy
          /\ visit'[u].new.state.optout \in {visit[u].new.state.optout, visit[u].copy.state.optout}
      BY <2>1, <2>2 DEF VisitorsOf
  <2> HIDE DEF x
  <2>5. (row[h].live /\ history[h].firm)' <=> (row[h].live /\ history[h].firm)
      BY <2>1
  <2>6. ASSUME row[h].live, history[h].firm, NEW u \in VisitorsOf(h)
        PROVE  /\ visit'[u].copy.state.optout = history[h].optout
               /\ visit'[u].act \notin Switches => visit'[u].new.state.optout = history[h].optout
    <3>1. /\ visit[u].copy.state.optout = history[h].optout
          /\ visit[u].act \notin Switches => visit[u].new.state.optout = history[h].optout
        BY <1>t, <2>6 DEF WishKept
    <3> QED
        BY <2>4, <3>1
  <2>7. row[h].live /\ history[h].firm =>
          /\ row[h].state.optout = history[h].optout
          /\ Holds(h) => monitor.copy[h].state.optout = history[h].optout
      BY <1>t DEF WishKept
  <2> QED
      BY <1>m, <2>1, <2>3, <2>5, <2>6, <2>7 DEF WishKept
<1>3. ASSUME NEW v \in Sessions, Commit(v)
      PROVE  WishKept(h)'
  <2> DEFINE x == visit[v]
  <2>1. /\ x \in VisitType /\ x.h \in Hvs /\ x.copy \in RowType /\ x.new \in RowType
        /\ x.act /= "none" /\ UNCHANGED monitor /\ visit' = [visit EXCEPT ![v] = NoVisit]
      BY <1>3, <1>t DEF Commit, VisitType
  <2>2. \A u \in VisitorsOf(h)' : u /= v /\ u \in VisitorsOf(h) /\ visit'[u] = visit[u]
      BY <1>t, <2>1 DEF VisitorsOf, NoVisit
  <2>3. CASE x.h /= h \/ ~row[x.h].live
    <3>1. row'[h] = row[h] /\ history'[h] = history[h]
        BY <1>3, <1>t, <2>1, <2>3 DEF Commit, HistoryOK
    <3> QED
        BY <1>t, <1>m, <2>1, <2>2, <3>1, WishUntouched
  <2>4. CASE x.h = h /\ row[h].live
    <3>1. /\ row'[h] = Written(row[h], x.copy, x.new)
          /\ history'[h] = [Noted(x, v) EXCEPT !.causes =
                              @ \union (IF Clears(x) THEN {"cleared"} ELSE {})]
        BY <1>3, <1>t, <2>1, <2>4 DEF Commit, HistoryOK
    <3>2. row'[h].state = IF x.new.state = x.copy.state THEN row[h].state ELSE x.new.state
        BY <1>t, <2>1, <3>1, WrittenFacts
    <3>3. history[h] \in HistoryType
        BY <1>t DEF HistoryOK
    <3>4. CASE x.act \notin Switches
      <4>1. history'[h].firm = history[h].firm /\ history'[h].optout = history[h].optout
          BY <2>4, <3>1, <3>3, <3>4 DEF Noted, HistoryType, Switches
      <4>2. v \in VisitorsOf(h)
          BY <2>1, <2>4 DEF VisitorsOf
      <4> QED
          BY <1>t, <1>m, <2>1, <2>2, <2>4, <3>2, <3>4, <4>1, <4>2 DEF WishKept
    <3>5. CASE x.act \in Switches
      <4>1. /\ history'[h].firm <=> Undisturbed(v)
            /\ history'[h].optout = (x.act = "opt_out")
          BY <2>4, <3>1, <3>3, <3>5 DEF Noted, HistoryType, Switches
      <4> SUFFICES ASSUME Undisturbed(v) PROVE WishKept(h)'
          BY <4>1 DEF WishKept
      <4>2. row[h] = x.copy /\ VisitorsOf(h) = {v} /\ monitor.pc = "sleep"
          BY <2>4 DEF Undisturbed
      <4>3. x.new = Wished(x.copy, x.act)
          BY <1>t, <3>5 DEF Shape
      <4>4. row'[h].state = x.new.state
          BY <3>2, <4>2
      <4>5. row'[h].state.optout = history'[h].optout
        <5>1. x.copy.state \in StateType
            BY <2>1 DEF RowType
        <5>w. /\ x.act = "opt_out" => Wished(x.copy, x.act).state = [x.copy.state EXCEPT !.optout = TRUE]
              /\ x.act = "opt_in" => Wished(x.copy, x.act).state = [x.copy.state EXCEPT !.optout = FALSE]
            BY <2>1, WishedFacts
        <5>2. CASE x.act = "opt_out"
          <6>1. x.new.state = [x.copy.state EXCEPT !.optout = TRUE]
              BY <4>3, <5>2, <5>w
          <6> QED
              BY <4>1, <4>4, <5>1, <5>2, <6>1 DEF StateType
        <5>3. CASE x.act = "opt_in"
          <6>1. x.new.state = [x.copy.state EXCEPT !.optout = FALSE]
              BY <4>3, <5>3, <5>w
          <6>2. history'[h].optout = FALSE
              BY <4>1, <5>3
          <6> QED
              BY <4>4, <5>1, <6>1, <6>2 DEF StateType
        <5> QED
            BY <3>5, <5>2, <5>3 DEF Switches
      <4>7. VisitorsOf(h)' = {} /\ ~Holds(h)'
          BY <1>m, <2>1, <2>2, <4>2 DEF Holds
      <4> QED
          BY <4>5, <4>7 DEF WishKept
    <3> QED
        BY <3>4, <3>5
  <2> QED
      BY <2>3, <2>4
<1>4. CASE BeginCycle
  <2>1. UNCHANGED <<row, visit, history>> /\ monitor'.copy[h] = row[h]
      BY <1>4, <1>t, Nobody DEF BeginCycle, NoCycle
  <2> QED
      BY <1>t, <1>u, <2>1 DEF WishKept
<1>5. CASE EndCycle
  <2>1. UNCHANGED <<row, visit, history>> /\ ~Holds(h)'
      BY <1>5 DEF EndCycle, Holds, NoCycle
  <2> QED
      BY <1>t, <1>u, <2>1, WishUntouched
<1>6. ASSUME NEW g \in Hvs, Assess(g)
      PROVE  WishKept(h)'
  <2>1. /\ UNCHANGED <<row, visit, history>> /\ monitor.pc = "cycle" /\ g \in monitor.todo
        /\ \E found : monitor' = [monitor EXCEPT !.pc = "store", !.at = g, !.todo = @ \ {g},
                                                 !.found = found]
      BY <1>6 DEF Assess
  <2>2. (Holds(h)' => Holds(h)) /\ monitor'.copy[h] = monitor.copy[h]
      BY <1>t, <2>1 DEF Holds, CycleType
  <2> QED
      BY <1>t, <1>u, <2>1, <2>2, WishUntouched
<1>7. ASSUME NEW g \in Hvs, Skip(g)
      PROVE  WishKept(h)'
  <2>1. UNCHANGED <<row, visit, history>> /\ monitor.pc = "cycle" /\ monitor' = Done(monitor, g)
      BY <1>7 DEF Skip
  <2>2. Holds(h)' => Holds(h) /\ monitor'.copy[h] = monitor.copy[h]
      BY <1>t, <2>1, DoneFacts DEF Holds
  <2> QED
      BY <1>t, <1>u, <2>1, <2>2, WishUntouched
<1>8. CASE Store
  <2> DEFINE g == monitor.at
             new == [monitor.copy[g] EXCEPT !.state = [StateFrom(@) EXCEPT !.seen = monitor.found]]
  <2>1. /\ UNCHANGED <<visit, history>> /\ monitor.pc = "store"
        /\ monitor' \in {Done(monitor, g), NoCycle}
        /\ row' = row \/ row' = [row EXCEPT ![g] = Written(row[g], monitor.copy[g], new)]
      BY <1>8, <1>t DEF Store
  <2>2. g \in Hvs /\ monitor.copy[g] \in RowType /\ monitor.found \in Seen
      BY <1>t DEF CycleType
  <2>3. new \in RowType /\ new.state.optout = monitor.copy[g].state.optout
      BY <2>2, StoredFacts
  <2>4. Holds(h)' => h /= g /\ Holds(h) /\ monitor'.copy[h] = monitor.copy[h]
      BY <1>t, <2>1, <2>2, DoneFacts DEF Holds, NoCycle
  <2>5. CASE h /= g \/ row' = row
    <3>1. row'[h] = row[h]
        BY <1>t, <2>1, <2>2, <2>5
    <3> QED
        BY <1>t, <1>u, <2>1, <2>4, <3>1, WishUntouched
  <2>6. CASE h = g /\ row' = [row EXCEPT ![g] = Written(row[g], monitor.copy[g], new)]
    <3>1. row'[h] = Written(row[h], monitor.copy[g], new)
        BY <1>t, <2>6
    <3>2. /\ row'[h].live = row[h].live
          /\ row'[h].state \in {row[h].state, new.state}
      <4> HIDE DEF new
      <4> QED
          BY <1>t, <2>2, <2>3, <3>1, WrittenFacts
    <3>3. Holds(h)
        BY <2>1, <2>6 DEF Holds
    <3> QED
        BY <1>t, <1>u, <2>1, <2>3, <2>4, <2>6, <3>2, <3>3 DEF WishKept
  <2> QED
      BY <2>1, <2>5, <2>6
<1>9. ASSUME NEW g \in Hvs, Delete(g)
      PROVE  WishKept(h)'
  <2>1. UNCHANGED <<visit, monitor>>
      BY <1>9 DEF Delete
  <2>2. CASE h = g
    <3>1. ~row'[h].live
        BY <1>9, <1>t, <2>2 DEF Delete, NoRow, NewRow
    <3> QED
        BY <3>1 DEF WishKept
  <2>3. CASE h /= g
    <3>1. row'[h] = row[h] /\ history'[h] = history[h]
        BY <1>9, <1>t, <2>3 DEF Delete, HistoryOK
    <3> QED
        BY <1>t, <1>u, <1>m, <2>1, <3>1, WishUntouched
  <2> QED
      BY <2>2, <2>3
<1>10. ASSUME NEW g \in Operated, Drift(g)
       PROVE  WishKept(h)'
  <2>1. UNCHANGED <<row, visit, monitor, history>>
      BY <1>10 DEF Drift
  <2> QED
      BY <1>t, <1>u, <1>m, <2>1, WishUntouched
<1>11. CASE Restart
  <2>1. /\ UNCHANGED row /\ VisitorsOf(h)' = {} /\ ~Holds(h)'
        /\ history'[h].firm = history[h].firm /\ history'[h].optout = history[h].optout
      BY <1>11, <1>t DEF Restart, VisitorsOf, NoVisit, Holds, NoCycle, HistoryOK, HistoryType
  <2> QED
      BY <1>t, <2>1, WishUntouched
<1>12. CASE UNCHANGED vars
    BY <1>12, <1>t, <1>u, <1>m, WishUntouched DEF vars
<1> QED
    BY <1>1, <1>2, <1>3, <1>4, <1>5, <1>6, <1>7, <1>8, <1>9, <1>10, <1>11, <1>12
       DEF Next, SessionStep, MonitorStep

-----------------------------------------------------------------------------
(* The status.                                                             *)

\* The status tells what is on each cluster initially ...
LEMMA StatusesInit == Init => StatusesKept
<1> SUFFICES ASSUME Init, NEW h \in ReportsRemoval PROVE StatusKept(h)
    BY DEF StatusesKept
<1>1. PICK there \in [Hvs -> BOOLEAN], start \in Starts :
        /\ world = [g \in Hvs |-> [integration |-> IF there[g] THEN "all" ELSE "none",
                                 drift |-> FALSE]]
        /\ row = [g \in Hvs |->
              IF g \notin start.rows THEN NoRow
              ELSE NewRow(IF there[g] THEN "deployed" ELSE "not_deployed")]
    BY DEF Init
<1>2. row[h].live => Told(h, row[h].status)
    BY <1>1, SetAssumption DEF Told, DeployedTold, RemovedTold, NewRow, NoRow
<1>3. VisitorsOf(h) = {}
    BY DEF Init, VisitorsOf, NoVisit
<1> QED
    BY <1>2, <1>3 DEF StatusKept

\* A step that is not about the row, its cluster or its sessions.
LEMMA StatusUntouched ==
    ASSUME NEW h, StatusKept(h),
           row'[h].live /\ ~history'[h].disturbed =>
               /\ row[h].live /\ ~history[h].disturbed
               /\ row'[h].status = row[h].status
               /\ world'[h].integration = world[h].integration
               /\ history'[h].causes = history[h].causes,
           VisitorsOf(h)' = VisitorsOf(h),
           \A u \in VisitorsOf(h) : visit'[u] = visit[u]
    PROVE  StatusKept(h)'
BY DEF StatusKept, Told, DeployedTold, RemovedTold, Working, Ended, Clears, Idle

\* A session that is at work on a row begins with what the row tells.
LEMMA StatusLoad ==
    ASSUME TypeOK, Shapely, NEW h \in ReportsRemoval, StatusKept(h),
           NEW v \in Sessions, NEW act \in Acts, Load(v, h, act)
    PROVE  StatusKept(h)'
<1>1. row[h] \in RowType /\ h \in Hvs
    BY SetAssumption DEF TypeOK
<1>2. /\ UNCHANGED <<row, world>>
      /\ visit' = [visit EXCEPT ![v] = [act |-> act, h |-> h, todo |-> StepsOf(h, act),
                                        copy |-> row[h], new |-> Wished(row[h], act)]]
      /\ \A u \in Sessions \ {v} : visit'[u] = visit[u]
    BY DEF Load, TypeOK
<1>3. /\ visit'[v].copy = row[h] /\ visit'[v].act = act /\ visit'[v].todo = StepsOf(h, act)
      /\ visit'[v].new = Wished(row[h], act)
    BY <1>2 DEF TypeOK
<1>4. PICK d : d = (history[h].disturbed \/ ~Idle(h))
    OBVIOUS
<1>5. history' = [history EXCEPT ![h].disturbed = d]
    BY <1>4, Zenon DEF Load
<1>6. history'[h].disturbed = d /\ history'[h].causes = history[h].causes
    BY <1>1, <1>5 DEF Shapely, HistoryOK, HistoryType
<1> SUFFICES ASSUME row'[h].live, ~history'[h].disturbed PROVE StatusKept(h)'
    BY DEF StatusKept
<1>7. Idle(h) /\ ~history[h].disturbed /\ row[h].live
    BY <1>2, <1>4, <1>6
<1>8. Told(h, row[h].status)
    BY <1>7 DEF StatusKept
<1>9. VisitorsOf(h)' \subseteq {v}
    BY <1>2, <1>7 DEF VisitorsOf, Idle
<1>10. visit'[v].new.status = row[h].status
  <2>1. Wished(row[h], act).status = row[h].status
      BY <1>1, WishedFacts
  <2> QED
      BY <1>3, <2>1
<1>11. act = "wizard" => \E i \in 1..Len(visit'[v].todo) : visit'[v].todo[i] = "deploy"
    BY <1>1, <1>3, WizardAssumption, StepsOfFacts
<1>12. Working(h, visit[v])' /\ Ended(h, visit[v])'
    BY <1>2, <1>3, <1>6, <1>8, <1>10, <1>11 DEF Working, Ended, Told, DeployedTold, RemovedTold
<1>13. v \in VisitorsOf(h)'
    BY <1>2, SetAssumption DEF VisitorsOf, Acts, Requests, Steps, TypeOK
<1> QED
    BY <1>2, <1>3, <1>9, <1>12, <1>13 DEF StatusKept, Idle

\* A step of the one session at work leads from what it knows to what it knows,
\* or to what it may commit.
LEMMA StatusDispatch ==
    ASSUME TypeOK, Shapely, NEW h \in ReportsRemoval, StatusKept(h),
           NEW v \in Sessions, Dispatch(v), visit[v].h = h
    PROVE  StatusKept(h)'
<1> DEFINE x == visit[v]
           y == visit'[v]
           step == Head(x.todo)
<1>1. x \in VisitType /\ x.act /= "none" /\ x.todo /= << >> /\ h \in Hvs
    BY SetAssumption DEF TypeOK, Dispatch
<1>2. /\ UNCHANGED row /\ y.act = x.act /\ y.h = h /\ y.copy = x.copy
      /\ history'[h].disturbed = history[h].disturbed
      /\ \A u \in Sessions \ {v} : visit'[u] = visit[u]
      /\ Succeeded(v) \/ Failed(v)
    BY <1>1, DispatchFacts
<1> SUFFICES ASSUME row[h].live, ~history[h].disturbed PROVE StatusKept(h)'
    BY <1>2 DEF StatusKept
<1>3. v \in VisitorsOf(h) /\ VisitorsOf(h)' = VisitorsOf(h)
    BY <1>1, <1>2 DEF VisitorsOf
<1>4. /\ \A u \in VisitorsOf(h) : u = v
      /\ x.copy.status = row[h].status /\ Working(h, x)
    BY <1>1, <1>3 DEF StatusKept
<1> SUFFICES (y.todo /= << >> => Working(h, visit[v])') /\ (y.todo = << >> => Ended(h, visit[v])')
    BY <1>2, <1>3, <1>4 DEF StatusKept, Idle
<1>5. /\ x.act \in Acts \ Switches
      /\ x.act = "wizard" => step \in {"deploy", "register"}
      /\ x.act = "validate" => step = "probe" /\ Tail(x.todo) = << >>
      /\ x.act \in Offered => step = x.act /\ Tail(x.todo) = << >>
    BY <1>1, DispatchStep
<1>e. world[h].integration \in Extents
    BY <1>1 DEF TypeOK, WorldType
<1> DEFINE was == world[h].integration
           is == world'[h].integration
<1>6. CASE Failed(v)
  <2>1. /\ y.todo = << >> /\ history[h].causes \subseteq history'[h].causes
        /\ is \in Stopped(step, was)
        /\ step = "teardown" => "undone" \in history'[h].causes
        /\ step = "reconcile" /\ is /= was => "equipped" \in history'[h].causes
        /\ \/ y.new = x.copy /\ (x.act \in {"deploy", "wizard"} => "raised" \in history'[h].causes)
           \/ y.new.status = "error"
      BY <1>6 DEF Failed
  <2>2. CASE y.new.status = "error"
      BY <2>1, <2>2 DEF Ended
  <2>3. CASE y.new = x.copy /\ x.act \in {"deploy", "wizard"}
      BY <2>1, <2>3 DEF Ended, DeployedTold, RemovedTold
  <2>4. CASE y.new = x.copy /\ x.act \notin {"deploy", "wizard"}
    <3>1. step /= "deploy"
        BY <1>5, <2>4, SetAssumption DEF Acts, Requests, Switches
    <3>2. y.new.status = "not_deployed" => RemovedTold(h)'
      <4>1. y.new.status = "not_deployed" => RemovedTold(h)
          BY <1>4, <2>4 DEF Working
      <4>2. CASE step = "teardown"
          BY <1>e, <2>1, <4>1, <4>2, ExtentFacts DEF RemovedTold
      <4>3. CASE step /= "teardown"
        <5>1. is = was \/ "equipped" \in history'[h].causes
          <6>1. is /= was => step = "reconcile"
              BY <2>1, <3>1, <4>3, OnlyReconcileAdds
          <6> QED
              BY <2>1, <6>1
        <5> QED
            BY <2>1, <4>1, <5>1 DEF RemovedTold
      <4> QED
          BY <4>2, <4>3
    <3>3. y.new.status = "deployed" => DeployedTold(h)'
      <4>1. y.new.status = "deployed" => DeployedTold(h)
          BY <1>4, <2>4 DEF Working
      <4>2. CASE step = "teardown"
          BY <2>1, <4>2 DEF DeployedTold
      <4>3. CASE step /= "teardown"
        <5>1. is = was \/ was = "none"
          <6>1. is /= was => was = "none"
              BY <2>1, <3>1, <4>3, OnlyReconcileAdds
          <6> QED
              BY <6>1
        <5> QED
            BY <2>1, <4>1, <5>1 DEF DeployedTold
      <4> QED
          BY <4>2, <4>3
    <3> QED
        BY <2>1, <3>2, <3>3 DEF Ended
  <2> QED
      BY <2>1, <2>2, <2>3, <2>4
<1>7. CASE Succeeded(v) /\ x.act = "wizard"
  <2>1. /\ y.todo = Tail(x.todo)
        /\ y.new.status = IF Len(x.todo) = 1 THEN "deployed" ELSE x.new.status
        /\ \/ /\ is \in Left(h, step, was)
              /\ history'[h].causes = After(history[h].causes, step, was, is)
           \/ step = "deploy" /\ history'[h].causes = history[h].causes \union {"missed"}
      BY <1>5, <1>7 DEF Succeeded
  <2>2. /\ step = x.todo[1] /\ Len(x.todo) \in Nat \ {0} /\ Len(y.todo) = Len(x.todo) - 1
        /\ \A i \in 1..Len(y.todo) : y.todo[i] = x.todo[i + 1]
      BY <1>1, <2>1, HeadTail DEF VisitType
  <2>3. DeployedTold(h) \/ \E i \in 1..Len(x.todo) : x.todo[i] = "deploy"
      BY <1>4, <1>7 DEF Working
  <2>d. step = "deploy" => DeployedTold(h)'
      BY <1>e, <2>1, ExtentFacts DEF DeployedTold
  <2>r. step /= "deploy" => is = was /\ history'[h].causes = history[h].causes
    <3>1. step /= "deploy" => step = "register"
        BY <1>5, <1>7
    <3> QED
        BY <1>e, <2>1, <3>1, ExtentFacts DEF After
  <2>4. DeployedTold(h) => DeployedTold(h)'
      BY <2>d, <2>r DEF DeployedTold
  <2>5. DeployedTold(h)' \/ \E i \in 1..Len(y.todo) : y.todo[i] = "deploy"
    <3>1. CASE DeployedTold(h) \/ step = "deploy"
        BY <2>4, <2>d, <3>1
    <3>2. CASE ~DeployedTold(h) /\ step /= "deploy"
      <4>1. PICK i \in 1..Len(x.todo) : x.todo[i] = "deploy"
          BY <2>3, <3>2
      <4>2. i - 1 \in 1..Len(y.todo) /\ (i - 1) + 1 = i
          BY <2>2, <3>2, <4>1
      <4>3. y.todo[i - 1] = x.todo[(i - 1) + 1]
          BY <2>2, <4>2
      <4>4. y.todo[i - 1] = "deploy"
          BY <4>1, <4>2, <4>3
      <4> QED
          BY <4>2, <4>4
    <3> QED
        BY <3>1, <3>2
  <2>6. CASE y.todo = << >>
    <3>1. Len(x.todo) = 1 /\ Len(y.todo) = 0
        BY <2>2, <2>6
    <3>2. DeployedTold(h)' /\ y.new.status = "deployed"
        BY <2>1, <2>5, <3>1
    <3>3. Ended(h, visit[v])'
        BY <3>2 DEF Ended
    <3> QED
        BY <2>6, <3>3
  <2>7. CASE y.todo /= << >>
    <3>1. Len(x.todo) /= 1
      <4>1. y.todo \in Seq(Steps \union {"probe"})
          BY <1>1, <2>1, HeadTail DEF VisitType
      <4> QED
          BY <2>2, <2>7, <4>1, EmptySeq, LenProperties
    <3> QED
        BY <1>2, <1>4, <1>7, <2>1, <2>4, <2>5, <2>7, <3>1 DEF Working
  <2> QED
      BY <2>6, <2>7
<1>8. CASE Succeeded(v) /\ x.act /= "wizard"
  <2>1. x.act = "validate" \/ (x.act \in Offered /\ step \in Steps /\ x.act = step)
      BY <1>5, <1>8, SetAssumption DEF Acts, Requests, Switches
  <2>2. /\ y.todo = << >>
        /\ y.new.status = IF step = "probe" THEN Recovered(x.new.status)
                          ELSE Reported(h, step, x.new.status)
        /\ \/ /\ is \in Left(h, step, was)
              /\ history'[h].causes = After(history[h].causes, step, was, is)
           \/ /\ step \in {"deploy", "teardown"}
              /\ history'[h].causes = history[h].causes \union {"missed"}
      BY <1>5, <1>8, <2>1 DEF Succeeded
  <2>3. CASE step = "teardown"
    <3>1. RemovedTold(h)'
        BY <2>2, <2>3 DEF RemovedTold, After
    <3>2. y.new.status = "not_deployed"
        BY <2>2, <2>3 DEF Reported
    <3> QED
        BY <2>2, <3>1, <3>2 DEF Ended
  <2>4. CASE step = "deploy"
    <3>1. DeployedTold(h)'
        BY <1>e, <2>2, <2>4, ExtentFacts DEF DeployedTold
    <3>2. y.new.status = "deployed"
        BY <2>2, <2>4 DEF Reported
    <3> QED
        BY <2>2, <3>1, <3>2 DEF Ended
  <2>n. CASE step = "teardown_nfs"
    <3>1. RemovedTold(h)'
        BY <2>2, <2>n DEF RemovedTold, After
    <3>2. y.new.status = "not_deployed"
        BY <2>2, <2>n DEF Reported
    <3> QED
        BY <2>2, <3>1, <3>2 DEF Ended
  <2>5. CASE step \notin {"teardown", "deploy", "teardown_nfs"}
    <3>1. /\ DeployedTold(h) => DeployedTold(h)'
          /\ RemovedTold(h) => RemovedTold(h)'
      <4>1. is = was \/ (was = "none" /\ "equipped" \in history'[h].causes)
          BY <1>e, <2>2, <2>5, ExtentFacts DEF After
      <4>2. history[h].causes \subseteq history'[h].causes
          BY <2>2, <2>5 DEF After
      <4> QED
          BY <4>1, <4>2 DEF DeployedTold, RemovedTold
    <3>2. y.new.status = IF x.copy.status = "error" THEN "deployed" ELSE x.copy.status
        BY <1>4, <2>1, <2>2, <2>5 DEF Reported, Recovered, Working
    <3>3. x.copy.status = "error" => Clears(visit[v])'
        BY <1>2, <1>8, <2>1, <2>5, <3>2 DEF Clears
    <3> QED
        BY <1>4, <1>8, <2>2, <3>1, <3>2, <3>3 DEF Working, Ended
  <2> QED
      BY <2>3, <2>4, <2>n, <2>5
<1> QED
    BY <1>2, <1>6, <1>7, <1>8

\* What the one session at work commits tells of the cluster.
LEMMA StatusCommit ==
    ASSUME TypeOK, Shapely, NEW h \in ReportsRemoval, StatusKept(h),
           NEW v \in Sessions, Commit(v), visit[v].h = h
    PROVE  StatusKept(h)'
<1> DEFINE x == visit[v]
<1>1. /\ x \in VisitType /\ x.copy \in RowType /\ x.new \in RowType /\ h \in Hvs
      /\ row[h] \in RowType /\ history[h] \in HistoryType
    BY SetAssumption DEF TypeOK, Commit, VisitType, Shapely, HistoryOK
<1>2. /\ x.act /= "none" /\ x.todo = << >> /\ UNCHANGED world
      /\ visit' = [visit EXCEPT ![v] = NoVisit]
      /\ row[h].live \/ row' = row
    BY DEF Commit
<1>3. CASE ~row[h].live
    BY <1>2, <1>3 DEF StatusKept
<1>4. CASE row[h].live
  <2>1. /\ row' = [row EXCEPT ![h] = Written(row[h], x.copy, x.new)]
        /\ history' = [history EXCEPT ![h] = [Noted(x, v) EXCEPT !.causes =
                          @ \union (IF Clears(x) THEN {"cleared"} ELSE {})]]
      BY <1>4 DEF Commit
  <2>2. /\ row'[h] = Written(row[h], x.copy, x.new)
        /\ history'[h] = [Noted(x, v) EXCEPT !.causes =
                            @ \union (IF Clears(x) THEN {"cleared"} ELSE {})]
      BY <1>1, <2>1 DEF TypeOK, Shapely, HistoryOK
  <2>3. /\ Noted(x, v) \in HistoryType /\ Noted(x, v).causes = history[h].causes
        /\ Noted(x, v).disturbed = history[h].disturbed
    <3>1. (x.act = "opt_out") \in BOOLEAN /\ Undisturbed(v) \in BOOLEAN
        BY Zenon DEF Undisturbed
    <3>2. \A b, c \in BOOLEAN :
            LET r == [history[h] EXCEPT !.optout = b, !.firm = c]
            IN  r \in HistoryType /\ r.causes = history[h].causes
                /\ r.disturbed = history[h].disturbed
        BY <1>1 DEF HistoryType
    <3> QED
        BY <1>1, <3>1, <3>2 DEF Noted
  <2>4. /\ history'[h].causes =
              history[h].causes \union (IF Clears(x) THEN {"cleared"} ELSE {})
        /\ history'[h].disturbed = history[h].disturbed
      BY <2>2, <2>3 DEF HistoryType
  <2> SUFFICES ASSUME ~history[h].disturbed PROVE StatusKept(h)'
      BY <2>4 DEF StatusKept
  <2>5. v \in VisitorsOf(h)
      BY <1>2 DEF VisitorsOf
  <2>6. /\ \A u \in VisitorsOf(h) : u = v
        /\ x.copy.status = row[h].status /\ Ended(h, x)
      BY <1>2, <1>4, <2>5 DEF StatusKept
  <2>7. VisitorsOf(h)' = {}
      BY <1>2, <2>6 DEF VisitorsOf, NoVisit, TypeOK
  <2>8. row'[h].status = x.new.status
      BY <1>1, <2>2, <2>6, WrittenFacts
  <2>9. Told(h, row[h].status)'
      BY <1>2, <2>4, <2>6, <2>8 DEF Told, Ended, DeployedTold, RemovedTold
  <2> QED
      BY <2>7, <2>9 DEF StatusKept
<1> QED
    BY <1>3, <1>4

\* ... and no step makes it tell anything else.
LEMMA StatusesNext == TypeOK /\ Shapely /\ StatusesKept /\ [Next]_vars => StatusesKept'
<1> SUFFICES ASSUME TypeOK, Shapely, StatusesKept, [Next]_vars, NEW h \in ReportsRemoval
             PROVE  StatusKept(h)'
    BY DEF StatusesKept
<1>t. /\ row \in [Hvs -> RowType] /\ row[h] \in RowType
      /\ world \in [Hvs -> WorldType]
      /\ visit \in [Sessions -> VisitType]
      /\ monitor \in CycleType
      /\ HistoryOK /\ StatusKept(h) /\ h \in Hvs
    BY SetAssumption DEF TypeOK, Shapely, StatusesKept, CycleType
<1>u. UNCHANGED visit =>
        VisitorsOf(h)' = VisitorsOf(h) /\ \A u \in VisitorsOf(h) : visit'[u] = visit[u]
    BY DEF VisitorsOf
<1>1. ASSUME NEW v \in Sessions, NEW g \in Operated, NEW act \in Acts, Load(v, g, act)
      PROVE  StatusKept(h)'
  <2>1. CASE g = h
      BY <1>1, <1>t, <2>1, StatusLoad
  <2>2. CASE g /= h
    <3>1. /\ UNCHANGED <<row, world>> /\ history'[h] = history[h]
          /\ v \in Sessions /\ visit[v].act = "none" /\ visit'[v].h = g
          /\ \A u \in Sessions \ {v} : visit'[u] = visit[u]
      <4>1. visit[v].act = "none"
          BY <1>1 DEF Load, Free
      <4> QED
          BY <1>1, <1>t, <2>2, <4>1 DEF Load, HistoryOK
    <3>2. VisitorsOf(h)' = VisitorsOf(h) /\ \A u \in VisitorsOf(h) : visit'[u] = visit[u]
        BY <2>2, <3>1 DEF VisitorsOf
    <3> QED
        BY <1>t, <3>1, <3>2, StatusUntouched
  <2> QED
      BY <2>1, <2>2
<1>2. ASSUME NEW v \in Sessions, Dispatch(v)
      PROVE  StatusKept(h)'
  <2>1. CASE visit[v].h = h
      BY <1>2, <1>t, <2>1, StatusDispatch
  <2>2. CASE visit[v].h /= h
    <3>1. /\ UNCHANGED row /\ history'[h] = history[h] /\ world'[h] = world[h]
          /\ visit'[v].h = visit[v].h
          /\ \A u \in Sessions \ {v} : visit'[u] = visit[u]
        BY <1>2, <1>t, <2>2, DispatchFacts
    <3>2. VisitorsOf(h)' = VisitorsOf(h) /\ \A u \in VisitorsOf(h) : visit'[u] = visit[u]
        BY <2>2, <3>1 DEF VisitorsOf
    <3> QED
        BY <1>t, <3>1, <3>2, StatusUntouched
  <2> QED
      BY <2>1, <2>2
<1>3. ASSUME NEW v \in Sessions, Commit(v)
      PROVE  StatusKept(h)'
  <2>1. CASE visit[v].h = h
      BY <1>3, <1>t, <2>1, StatusCommit
  <2>2. CASE visit[v].h /= h
    <3>1. /\ row'[h] = row[h] /\ history'[h] = history[h] /\ UNCHANGED world
          /\ visit' = [visit EXCEPT ![v] = NoVisit]
        BY <1>3, <1>t, <2>2 DEF Commit, HistoryOK
    <3>2. VisitorsOf(h)' = VisitorsOf(h) /\ \A u \in VisitorsOf(h) : visit'[u] = visit[u]
        BY <1>t, <2>2, <3>1 DEF VisitorsOf, NoVisit
    <3> QED
        BY <1>t, <3>1, <3>2, StatusUntouched
  <2> QED
      BY <2>1, <2>2
<1>4. CASE BeginCycle \/ EndCycle \/ \E g \in Hvs : Assess(g) \/ Skip(g)
  <2>1. UNCHANGED <<row, world, visit, history>>
      BY <1>4 DEF BeginCycle, EndCycle, Assess, Skip
  <2> QED
      BY <1>t, <1>u, <2>1, StatusUntouched
<1>5. CASE Store
  <2> DEFINE g == monitor.at
             new == [monitor.copy[g] EXCEPT !.state = [StateFrom(@) EXCEPT !.seen = monitor.found]]
  <2>1. /\ UNCHANGED <<visit, history, world>>
        /\ row' = row \/ row' = [row EXCEPT ![g] = Written(row[g], monitor.copy[g], new)]
      BY <1>5, <1>t DEF Store
  <2>2. g \in Hvs /\ monitor.copy[g] \in RowType /\ monitor.found \in Seen
      BY <1>t DEF CycleType
  <2>3. new \in RowType /\ new.status = monitor.copy[g].status
      BY <2>2, StoredFacts
  <2>4. row'[h].live = row[h].live /\ row'[h].status = row[h].status
    <3> HIDE DEF new
    <3>1. CASE g = h
      <4>1. /\ Written(row[g], monitor.copy[g], new).live = row[g].live
            /\ Written(row[g], monitor.copy[g], new).status = row[g].status
          BY <1>t, <2>2, <2>3, WrittenFacts
      <4> QED
          BY <1>t, <2>1, <3>1, <4>1
    <3>2. CASE g /= h
        BY <1>t, <2>1, <3>2
    <3> QED
        BY <3>1, <3>2
  <2> QED
      BY <1>t, <1>u, <2>1, <2>4, StatusUntouched
<1>6. ASSUME NEW g \in Hvs, Delete(g)
      PROVE  StatusKept(h)'
  <2>1. CASE h = g
    <3>1. ~row'[h].live
        BY <1>6, <1>t, <2>1 DEF Delete, NoRow, NewRow
    <3> QED
        BY <3>1 DEF StatusKept
  <2>2. CASE h /= g
    <3>1. row'[h] = row[h] /\ history'[h] = history[h] /\ UNCHANGED <<world, visit>>
        BY <1>6, <1>t, <2>2 DEF Delete, HistoryOK
    <3> QED
        BY <1>t, <1>u, <3>1, StatusUntouched
  <2> QED
      BY <2>1, <2>2
<1>7. ASSUME NEW g \in Operated, Drift(g)
      PROVE  StatusKept(h)'
  <2>1. UNCHANGED <<row, visit, history>> /\ world'[h].integration = world[h].integration
      BY <1>7, <1>t DEF Drift, WorldType
  <2> QED
      BY <1>t, <1>u, <2>1, StatusUntouched
<1>8. CASE Restart
  <2>1. UNCHANGED <<row, world>> /\ VisitorsOf(h)' = {}
      BY <1>8 DEF Restart, VisitorsOf, NoVisit
  <2>2. PICK d : d = (history[h].disturbed \/ ~Idle(h))
      OBVIOUS
  <2>3. history'[h] = [history[h] EXCEPT !.disturbed = d]
      BY <1>8, <1>t, <2>2, Zenon DEF Restart
  <2>4. history'[h].disturbed = d /\ history'[h].causes = history[h].causes
      BY <1>t, <2>3 DEF HistoryOK, HistoryType
  <2> SUFFICES ASSUME row'[h].live, ~history'[h].disturbed PROVE StatusKept(h)'
      BY DEF StatusKept
  <2>5. Idle(h) /\ ~history[h].disturbed /\ row[h].live
      BY <2>1, <2>2, <2>4
  <2>6. VisitorsOf(h) = {}
      BY <2>5 DEF Idle
  <2> QED
      BY <1>t, <2>1, <2>4, <2>5, <2>6, StatusUntouched
<1>9. CASE UNCHANGED vars
    BY <1>9, <1>t, <1>u, StatusUntouched DEF vars
<1> QED
    BY <1>1, <1>2, <1>3, <1>4, <1>5, <1>6, <1>7, <1>8, <1>9
       DEF Next, SessionStep, MonitorStep

-----------------------------------------------------------------------------
(* The theorems.                                                           *)

\* The inductive invariant holds initially and is kept by every step: types and
\* shapes, every copy of the row that may still be written keeps the operator's
\* wish, and a session that is alone at work knows what its cluster holds.
THEOREM Invariance == Spec => []IInv
<1>1. Init => IInv
    BY TypeInit, WishesInit, StatusesInit DEF IInv
<1>2. IInv /\ [Next]_vars => IInv'
    BY TypeNext, WishesNext, StatusesNext DEF IInv
<1> QED
    BY <1>1, <1>2, PTL DEF Spec

\* The variables have their types in every state, for every set of hypervisors
\* and sessions.
THEOREM TypeCorrect == Spec => []TypeOK
<1>1. IInv => TypeOK
    BY DEF IInv
<1> QED
    BY <1>1, Invariance, PTL

\* What an operator switched while nobody was at work on the row stands, and the
\* status of a row tells what is on its cluster but for the causes StatusTells
\* names, with any number of operations, wizards, requests and monitor's cycles
\* that overlap, deletions and restarts, each step of which may have done any part
\* of its work when it fails.
THEOREM RowTrue == Spec => []RowIsTrue
<1>1. IInv => WishesStand
    BY DEF IInv, WishesKept, WishKept, WishesStand
<1>2. IInv => StatusTells
    BY DEF IInv, StatusesKept, StatusKept, StatusTells, Told, DeployedTold, RemovedTold
<1> QED
    BY <1>1, <1>2, Invariance, PTL DEF RowIsTrue
=============================================================================
