--------------------------- MODULE HostGroupsProofs ---------------------------
(***************************************************************************)
(* Theorems about HostGroups, for every cluster, every set of host groups  *)
(* and of jobs, and any number of starts and of events: what registrations *)
(* and reconciliations do to the hosts of an array, whoever interferes,    *)
(* and what those that nobody interferes with achieve.                     *)
(***************************************************************************)
EXTENDS HostGroups, FiniteSetTheorems, WellFoundedInduction, TLAPS

\* The node a name is made for: that of a cluster of one is the connection's.
NodeOf(h) == IF h.label = "single" THEN Conn ELSE h.node

\* A host holds no initiators but its node's, and one that is not there none.
Rooted ==
    /\ Conn \in cluster
    /\ \A h \in HostNames :
          host[h].ini \subseteq {NodeOf(h)} /\ (host[h].group = "absent" => host[h].ini = {})

\* NewName, HostOf and Expected for the job t.
NameFor(t, e) ==
    IF opt.platform /= "proxmox" /\ t.kind = "register" /\ Cardinality(t.nodes) = 1
    THEN SingleName(t.group) ELSE ClusterName(t.group, e)
HostFor(t, e) == IF t.found[e.node] /= {} THEN CHOOSE h \in t.found[e.node] : TRUE ELSE NameFor(t, e)
Spared(g, listed) == UNION {Known(g, e) : e \in listed}

Before      == {"off", "list", "members", "score", "relist", "scope", "discover"}
Registering == {"match", "decide", "create", "group", "add"}
Removal     == {"remove", "delete"}
Distinct(S) == \A e, f \in S : e.node = f.node => e = f

\* How far a job is tells what it has gathered.
Shapely(t) ==
    /\ Distinct(t.listed) /\ t.nodes \subseteq t.listed
    /\ t.listed /= {} => \E e \in t.listed : e.node = Conn
    /\ t.kind = "register" =>
          /\ t.nodes = t.listed
          /\ t.pc \notin {"members", "score", "relist", "scope", "lastList", "prune"} \union Removal
    /\ t.pc /= "done" => t.result = "none"
    /\ t.pc \in Before =>
          t.found = [n \in Nodes |-> {}] /\ t.seen = {} /\ t.todo = {} /\ t.blank = {}
    /\ t.pc = "scope" => t.nodes \subseteq t.ready
    /\ t.pc \in Registering =>
          /\ t.todo \subseteq t.nodes
          /\ \A e \in t.nodes : e.node \in t.blank => t.found[e.node] = {}
    /\ t.pc \in {"match", "create"} => \A e \in t.todo : t.found[e.node] = {}
    /\ t.pc \in {"decide", "group"} => t.todo = {}
    /\ t.pc \in Removal => t.removals /\ t.doomed \intersect Spared(t.group, t.listed) = {}
    /\ t.pc = "delete" => t.victim \intersect Spared(t.group, t.listed) = {}

\* Every host holds some initiators.
Whole == \A h \in HostNames : Exists(h) => host[h].ini /= {}
\* The nodes to register whose initiators could be read.
Live(t) == {e \in t.nodes : e.node \notin t.blank}
Matched(t, e) ==
    /\ t.found[e.node] = Owners(e.node)
    /\ \A h \in Owners(e.node) : host[h].group \in t.seen \union {"none"}
Agreed(t, e) == \A h \in Owners(e.node) : host[h].group \in {"none", t.effective}
Placed(t, e) == HostFor(t, e) \in Owners(e.node)
Joined(t, e) == Placed(t, e) /\ host[HostFor(t, e)].group = t.effective

\* What a registration knows of the array while nobody interferes.
Sound(t) ==
    t.quiet /\ t.whole =>
        /\ t.pc \in Before \union {"match", "decide"} => Whole
        /\ t.pc \in {"match", "decide"} => \A e \in Live(t) \ t.todo : Matched(t, e)
        /\ t.pc \in {"create", "group", "add"} =>
              \A e \in Live(t) :
                 /\ Agreed(t, e)
                 /\ t.pc = "create" /\ e \in t.todo => Owners(e.node) = {} /\ ~Exists(NameFor(t, e))
                 /\ t.pc = "create" /\ e \notin t.todo => Placed(t, e)
                 /\ t.pc /= "create" => Placed(t, e)
        /\ t.pc = "add" => \A e \in Live(t) \ t.todo : Joined(t, e)
        /\ t.pc = "registered" /\ t.kind = "register" => \A e \in Live(t) : Joined(t, e)
        /\ t.kind = "register" /\ t.result = "ok" =>
              \A e \in Live(t) : \E h \in Owners(e.node) : host[h].group = connGroup

Entry(n)   == [label |-> "name", node |-> n]
Listing    == {Entry(n) : n \in cluster}
Ready      == {n \in cluster : fit[n] = "ready"}
Home(g, n) == Owners(n) \intersect Members(g) /= {}
Named(g)   ==
    \A n \in cluster : \A h \in Owners(n) :
        h \in Known(g, Entry(n)) /\ host[h].group \in {"none", g}

\* A reconciliation of a conventionally named cluster that nobody interferes with.
Orderly(t) == t.kind = "reconcile" /\ t.quiet /\ t.tidy /\ t.whole /\ ~opt.garbled
\* It has registered what was to be registered.
Settled(t) ==
    \/ t.pc \in {"registered", "lastList", "prune"} \union Removal
    \/ t.pc = "done" /\ t.result = "ok"
Reconciled(t) ==
    Orderly(t) =>
        /\ \A n \in cluster : fit[n] /= "dark"
        /\ opt.platform = "proxmox" => cluster /= {Conn}
        /\ Named(t.group)
        /\ t.pc \in Before \union {"match", "decide"} => ~Exists(SingleName(t.group))
        /\ t.pc \notin {"off", "list", "done"} => t.listed = Listing
        /\ t.pc = "score" => t.members = Members(t.group)
        /\ t.pc = "relist" => \A n \in Ready : Entry(n) \in t.ready \/ Home(t.group, n)
        /\ t.pc \in {"scope", "discover"} \union Registering =>
              \A n \in Ready : Entry(n) \in t.nodes \/ Home(t.group, n)
        /\ t.pc \in Registering => t.blank = {}
        /\ t.pc \in {"match", "decide"} => t.seen \subseteq {t.group}
        /\ t.pc \in {"create", "group", "add"} => t.effective = t.group
        /\ Settled(t) => \A n \in Ready : Home(t.group, n)
        /\ t.pc \in Removal => Members(t.group) \subseteq Spared(t.group, Listing) \union t.doomed
        /\ t.pc = "done" /\ t.result = "ok" /\ t.removals =>
              Members(t.group) \subseteq Spared(t.group, Listing)

Fit(t) == Shapely(t) /\ Sound(t) /\ Reconciled(t)
AllFit == \A j \in Jobs : Fit(job[j])

IInv == TypeOK /\ Rooted /\ AllFit

-----------------------------------------------------------------------------
(* Lemmas about numbers, names and jobs.                                   *)

\* A set of numbers has a least one.
LEMMA LeastNatural ==
    ASSUME NEW T \in SUBSET Nat, T /= {}
    PROVE  \E x \in T : \A y \in T : x <= y
<1> DEFINE U == {1..n : n \in T}
           R == StrictSubsetOrdering(Nat)
<1>1. U \subseteq FiniteSubsetsOf(Nat) /\ U /= {}
  <2>1. ASSUME NEW n \in T PROVE 1..n \in FiniteSubsetsOf(Nat)
      BY FS_Interval DEF FiniteSubsetsOf
  <2> QED
      BY <2>1
<1>2. PICK u \in U : \A v \in U : <<v, u>> \notin R
  <2>1. IsWellFoundedOn(R, FiniteSubsetsOf(Nat))
      BY FS_StrictSubsetOrderingWellFounded
  <2> HIDE DEF R, U
  <2> QED
      BY <1>1, <2>1, WFMin
<1>3. PICK x \in T : u = 1..x
    OBVIOUS
<1>4. ASSUME NEW y \in T PROVE x <= y
  <2>1. <<1..y, 1..x>> \notin R
      BY <1>2, <1>3
  <2>2. <<1..y, 1..x>> \in (SUBSET Nat) \X (SUBSET Nat)
      OBVIOUS
  <2>3. ~(1..y \subseteq 1..x) \/ 1..y = 1..x
      BY <2>1, <2>2 DEF StrictSubsetOrdering
  <2>4. CASE ~(1..y \subseteq 1..x)
      BY <2>4
  <2>5. CASE 1..y = 1..x
    <3>1. x \in 1..x \/ x = 0
        OBVIOUS
    <3> QED
        BY <2>5, <3>1
  <2> QED
      BY <2>3, <2>4, <2>5
<1> QED
    BY <1>4

\* A list that is not empty has a first entry.
LEMMA FirstFacts ==
    ASSUME NEW S \in SUBSET Entries, S /= {}
    PROVE  First(S) \in S
<1> DEFINE T == {e.node : e \in S}
<1>1. \A e \in S : e.node \in T /\ e.node \in Nat
    BY SizeAssumption DEF Entries, Nodes
<1>2. T \in SUBSET Nat /\ T /= {}
    BY <1>1
<1>3. PICK x \in T : \A y \in T : x <= y
  <2> HIDE DEF T
  <2> QED
      BY <1>2, LeastNatural
<1>4. PICK e \in S : x = e.node
    OBVIOUS
<1>5. \E d \in S : \A f \in S : d.node <= f.node
    BY <1>1, <1>3, <1>4
<1> QED
    BY <1>5 DEF First

\* Entries of distinct nodes are finitely many.
LEMMA FewEntries ==
    ASSUME NEW S \in SUBSET Entries, Distinct(S)
    PROVE  IsFiniteSet(S)
<1> DEFINE f == [e \in S |-> e.node]
<1>1. f \in Injection(S, Nodes)
    BY DEF Distinct, Entries, Injection, IsInjective
<1>2. IsFiniteSet(Nodes)
    BY FS_Interval, SizeAssumption DEF Nodes
<1> HIDE DEF f
<1> QED
    BY <1>1, <1>2, FS_Injection

\* A set with at most one element has no other.
LEMMA OnlyOne ==
    ASSUME NEW S, IsFiniteSet(S), Cardinality(S) <= 1, NEW a \in S, NEW b \in S
    PROVE  a = b
<1>1. CASE Cardinality(S) = 0
    BY <1>1, FS_EmptySet
<1>2. CASE Cardinality(S) = 1
    BY <1>2, FS_Singleton
<1> QED
    BY <1>1, <1>2, FS_CardinalityType

\* Names are names of hosts, each made for one node.
LEMMA NameFacts ==
    /\ \A s \in Groups \union {"bare"}, e \in Entries :
          NodeName(s, e) \in HostNames /\ NodeOf(NodeName(s, e)) = e.node /\ e.node \in Nodes
    /\ \A g \in Groups : SingleName(g) \in HostNames /\ NodeOf(SingleName(g)) = Conn
    /\ \A n \in Nodes : OtherName(n) \in HostNames /\ NodeOf(OtherName(n)) = n
    /\ \A h \in HostNames : NodeOf(h) \in Nodes
<1>1. \A s \in Groups \union {"bare"}, e \in Entries :
         NodeName(s, e) \in HostNames /\ NodeOf(NodeName(s, e)) = e.node /\ e.node \in Nodes
    BY DEF NodeName, HostNames, NodeOf, Entries
<1>2. \A g \in Groups : SingleName(g) \in HostNames /\ NodeOf(SingleName(g)) = Conn
    BY DEF SingleName, HostNames, NodeOf
<1>3. \A n \in Nodes : OtherName(n) \in HostNames /\ NodeOf(OtherName(n)) = n
    BY DEF OtherName, HostNames, NodeOf
<1>4. Conn \in Nodes
    BY SizeAssumption DEF Conn, Nodes
<1> QED
    BY <1>1, <1>2, <1>3, <1>4 DEF HostNames

\* The names a node is looked for under are names of hosts, and made for that node but
\* for the name of a cluster of one.
LEMMA KnownFacts ==
    ASSUME NEW g \in Groups, NEW e \in Entries
    PROVE  /\ ClusterName(g, e) \in HostNames /\ NodeOf(ClusterName(g, e)) = e.node
           /\ ClusterName(g, e) \in Known(g, e)
           /\ \A h \in Known(g, e) :
                 h \in HostNames /\ (h /= SingleName(g) => NodeOf(h) = e.node)
           /\ opt.platform = "hpevme" => SingleName(g) \in Known(g, e)
<1>1. [e EXCEPT !.label = "addr"] \in Entries /\ [e EXCEPT !.label = "addr"].node = e.node
    BY DEF Entries
<1>2. ClusterName(g, e) \in HostNames /\ NodeOf(ClusterName(g, e)) = e.node
    BY NameFacts DEF ClusterName
<1>3. \A h \in Known(g, e) :
         \/ h = ClusterName(g, e) \/ h = SingleName(g) \/ h = NodeName("bare", e)
         \/ h = NodeName("bare", [e EXCEPT !.label = "addr"])
  <2>1. CASE opt.platform = "hpevme"
    <3>1. Known(g, e) = {ClusterName(g, e), SingleName(g), NodeName("bare", e),
                         NodeName("bare", [e EXCEPT !.label = "addr"])}
        BY <2>1 DEF Known
    <3> QED
        BY <3>1
  <2>2. CASE opt.platform /= "hpevme"
    <3>1. Known(g, e) = {ClusterName(g, e)}
        BY <2>2 DEF Known
    <3> QED
        BY <3>1
  <2> QED
      BY <2>1, <2>2
<1>4. ASSUME NEW h \in Known(g, e)
      PROVE  h \in HostNames /\ (h /= SingleName(g) => NodeOf(h) = e.node)
  <2>1. /\ NodeName("bare", e) \in HostNames /\ NodeOf(NodeName("bare", e)) = e.node
        /\ NodeName("bare", [e EXCEPT !.label = "addr"]) \in HostNames
        /\ NodeOf(NodeName("bare", [e EXCEPT !.label = "addr"])) = e.node
        /\ SingleName(g) \in HostNames
      BY <1>1, NameFacts
  <2> QED
      BY <1>2, <1>3, <2>1
<1> QED
    BY <1>2, <1>4 DEF Known

\* The name a node is registered under is its own.
LEMMA NameForFacts ==
    ASSUME NEW t \in JobType, Shapely(t), NEW e \in t.nodes
    PROVE  /\ NameFor(t, e) \in HostNames /\ NodeOf(NameFor(t, e)) = e.node
           /\ t.kind = "reconcile" => NameFor(t, e) = ClusterName(t.group, e)
<1>1. t.group \in Groups /\ t.nodes \in SUBSET Entries /\ e \in Entries
    BY DEF JobType
<1>2. ClusterName(t.group, e) \in HostNames /\ NodeOf(ClusterName(t.group, e)) = e.node
    BY <1>1, KnownFacts
<1>3. CASE t.kind = "register" /\ Cardinality(t.nodes) = 1
  <2>1. PICK c \in t.nodes : c.node = Conn
      BY <1>3 DEF Shapely
  <2>2. IsFiniteSet(t.nodes)
      BY <1>1, FewEntries DEF Shapely, Distinct
  <2>3. e.node = Conn
      BY <1>3, <2>1, <2>2, OnlyOne
  <2> QED
      BY <1>1, <1>2, <1>3, <2>3, NameFacts DEF NameFor
<1>4. CASE ~(t.kind = "register" /\ Cardinality(t.nodes) = 1)
    BY <1>2, <1>4 DEF NameFor
<1> QED
    BY <1>2, <1>3, <1>4 DEF NameFor

\* The names of the specification, for the job at hand.
LEMMA OfJob ==
    ASSUME NEW j \in Jobs, NEW e
    PROVE  /\ NewName(j, e) = NameFor(job[j], e) /\ HostOf(j, e) = HostFor(job[j], e)
           /\ Expected(j) = Spared(job[j].group, job[j].listed)
BY DEF NewName, NameFor, HostOf, HostFor, Expected, Spared

-----------------------------------------------------------------------------
(* Lemmas about a step of a job and about the others.                      *)

Disturbed(t) == [t EXCEPT !.quiet = FALSE]

\* Names are what the options make them.
LEMMA SameNames ==
    ASSUME opt' = opt
    PROVE  /\ \A g, e : Known(g, e)' = Known(g, e)
           /\ \A g, S : Spared(g, S)' = Spared(g, S)
           /\ \A t, e : NameFor(t, e)' = NameFor(t, e) /\ HostFor(t, e)' = HostFor(t, e)
           /\ \A t : Shapely(t)' <=> Shapely(t)
<1>1. \A g, e : Known(g, e)' = Known(g, e)
    BY DEF Known, ClusterName
<1>2. \A g, S : Spared(g, S)' = Spared(g, S)
    BY DEF Spared, Known, ClusterName
<1>3. \A t, e : NameFor(t, e)' = NameFor(t, e) /\ HostFor(t, e)' = HostFor(t, e)
    BY DEF NameFor, HostFor, ClusterName
<1>4. \A t : Shapely(t)' <=> Shapely(t)
    BY <1>2 DEF Shapely
<1> QED
    BY <1>1, <1>2, <1>3, <1>4

\* A job that others interfere with keeps its place.
LEMMA DisturbedFits ==
    ASSUME NEW t \in JobType, Shapely(t), opt' = opt
    PROVE  Disturbed(t) \in JobType /\ Fit(Disturbed(t))'
<1> DEFINE u == Disturbed(t)
<1>1. u \in JobType
    BY DEF Disturbed, JobType
<1>2. /\ u.pc = t.pc /\ u.kind = t.kind /\ u.removals = t.removals /\ u.group = t.group
      /\ u.listed = t.listed /\ u.ready = t.ready /\ u.nodes = t.nodes /\ u.blank = t.blank
      /\ u.todo = t.todo /\ u.found = t.found /\ u.seen = t.seen /\ u.doomed = t.doomed
      /\ u.victim = t.victim /\ u.result = t.result /\ u.quiet = FALSE
    BY DEF Disturbed, JobType
<1>3. Spared(t.group, t.listed)' = Spared(t.group, t.listed)
    BY SameNames
<1> HIDE DEF u
<1>4. Shapely(u)'
    BY <1>2, <1>3 DEF Shapely
<1>5. Sound(u)' /\ Reconciled(u)'
    BY <1>2 DEF Sound, Reconciled, Orderly
<1> QED
    BY <1>1, <1>4, <1>5 DEF Fit, u

\* What a job knows stays true while nothing it is about changes.
LEMMA Unmoved ==
    ASSUME NEW t, UNCHANGED <<opt, host, connGroup, cluster, fit>>
    PROVE  Fit(t)' <=> Fit(t)
<1>1. \A g, S : Spared(g, S)' = Spared(g, S)
    BY SameNames
<1>2. \A g, e : Known(g, e)' = Known(g, e)
    BY SameNames
<1>3. \A e : NameFor(t, e)' = NameFor(t, e) /\ HostFor(t, e)' = HostFor(t, e)
    BY SameNames
<1>4. /\ Whole' <=> Whole
      /\ \A n : Owners(n)' = Owners(n)
      /\ \A g : Members(g)' = Members(g)
      /\ \A h : Exists(h)' <=> Exists(h)
    BY DEF Whole, Owners, Members, Exists
<1>5. Shapely(t)' <=> Shapely(t)
    BY SameNames
<1>6. \A e : (Matched(t, e)' <=> Matched(t, e)) /\ (Agreed(t, e)' <=> Agreed(t, e))
             /\ (Placed(t, e)' <=> Placed(t, e)) /\ (Joined(t, e)' <=> Joined(t, e))
    BY <1>3, <1>4 DEF Matched, Agreed, Placed, Joined
<1>7. Sound(t)' <=> Sound(t)
    BY <1>3, <1>4, <1>6 DEF Sound
<1>8. /\ Ready' = Ready /\ Listing' = Listing /\ (Orderly(t)' <=> Orderly(t))
      /\ (Settled(t)' <=> Settled(t))
      /\ \A g, n : Home(g, n)' <=> Home(g, n)
      /\ \A g : Named(g)' <=> Named(g)
    BY <1>2, <1>4 DEF Ready, Listing, Orderly, Settled, Home, Named
<1>9. Reconciled(t)' <=> Reconciled(t)
    BY <1>1, <1>4, <1>8 DEF Reconciled
<1> QED
    BY <1>5, <1>7, <1>9 DEF Fit

\* Where a job goes, and what becomes of the others.
LEMMA GoesFacts ==
    ASSUME NEW j \in Jobs, NEW x \in JobType, job \in [Jobs -> JobType],
           Goes(j, x) \/ GoesChanging(j, x)
    PROVE  /\ job' \in [Jobs -> JobType] /\ job'[j] = x
           /\ \A k \in Jobs \ {j} :
                 /\ Goes(j, x) => job'[k] = job[k]
                 /\ GoesChanging(j, x) => job'[k] = Disturbed(job[k])
<1>1. \A k \in Jobs : Disturbed(job[k]) \in JobType
  <2>1. \A t \in JobType : Disturbed(t) \in JobType
      BY DEF Disturbed, JobType
  <2> QED
      BY <2>1
<1>2. Goes(j, x) =>
        job' \in [Jobs -> JobType] /\ job'[j] = x /\ \A k \in Jobs \ {j} : job'[k] = job[k]
    BY DEF Goes
<1>3. GoesChanging(j, x) =>
        job' \in [Jobs -> JobType] /\ job'[j] = x /\ \A k \in Jobs \ {j} : job'[k] = Disturbed(job[k])
    BY <1>1 DEF GoesChanging, Disturbed
<1> QED
    BY <1>2, <1>3

\* A step of a job keeps the invariant if the job's own part of it holds after it.
LEMMA StepKeeps ==
    ASSUME IInv, NEW j \in Jobs, NEW x \in JobType,
           GoesChanging(j, x) \/ (Goes(j, x) /\ UNCHANGED <<host, connGroup>>),
           UNCHANGED <<opt, cluster, fit>>, starts' \in 0..MaxStarts, events' \in 0..MaxEvents,
           host' \in [HostNames -> HostType], groups' \subseteq Groups, connGroup' \in Groups,
           Rooted', Fit(x)'
    PROVE  IInv'
<1>1. job \in [Jobs -> JobType] /\ \A k \in Jobs : Fit(job[k])
    BY DEF IInv, TypeOK, AllFit
<1>2. /\ job' \in [Jobs -> JobType] /\ job'[j] = x
      /\ \A k \in Jobs \ {j} :
            /\ Goes(j, x) => job'[k] = job[k]
            /\ GoesChanging(j, x) => job'[k] = Disturbed(job[k])
    BY <1>1, GoesFacts
<1>3. TypeOK'
    BY <1>2 DEF IInv, TypeOK
<1>4. ASSUME NEW k \in Jobs PROVE Fit(job[k])'
  <2>1. CASE k = j
      BY <1>2, <2>1
  <2>2. CASE k /= j /\ Goes(j, x) /\ UNCHANGED <<host, connGroup>>
    <3>1. PICK t \in JobType : t = job[k]
        BY <1>1
    <3>2. Fit(t)'
        BY <1>1, <2>2, <3>1, Unmoved
    <3> QED
        BY <1>2, <2>2, <3>1, <3>2
  <2>3. CASE k /= j /\ GoesChanging(j, x)
    <3>1. PICK t \in JobType : t = job[k]
        BY <1>1
    <3>2. Fit(Disturbed(t))'
        BY <1>1, <3>1, DisturbedFits DEF Fit
    <3> QED
        BY <1>2, <2>3, <3>1, <3>2
  <2> QED
      BY <2>1, <2>2, <2>3
<1> QED
    BY <1>3, <1>4 DEF IInv, AllFit

\* A step that leaves the hosts and the connection alone.
LEMMA QuietStep ==
    ASSUME IInv, NEW j \in Jobs, NEW x \in JobType, Goes(j, x) \/ GoesChanging(j, x),
           UNCHANGED <<opt, host, connGroup, cluster, fit, events>>,
           starts' \in 0..MaxStarts, groups' \subseteq Groups, Fit(x)
    PROVE  IInv'
<1>1. Fit(x)'
    BY Unmoved
<1>2. Rooted'
    BY DEF IInv, Rooted
<1>3. /\ events' \in 0..MaxEvents /\ host' \in [HostNames -> HostType] /\ connGroup' \in Groups
    BY DEF IInv, TypeOK
<1>4. CASE Goes(j, x)
    BY <1>1, <1>2, <1>3, <1>4, StepKeeps
<1>5. CASE GoesChanging(j, x)
    BY <1>1, <1>2, <1>3, <1>5, StepKeeps
<1> QED
    BY <1>4, <1>5

\* Nothing is known of a job that has not begun, and of one that has failed.
LEMMA AtRest ==
    ASSUME NEW g \in Groups, NEW x \in {Idle(g), [Idle(g) EXCEPT !.pc = "done", !.result = "failed"]}
    PROVE  x \in JobType /\ Fit(x) /\ Fit(x)'
<1> DEFINE idle == Idle(g)
<1>1. /\ idle \in JobType
      /\ idle.kind = "register" /\ idle.whole = FALSE /\ idle.listed = {} /\ idle.nodes = {}
      /\ idle.found = [n \in Nodes |-> {}] /\ idle.seen = {} /\ idle.todo = {} /\ idle.blank = {}
      /\ idle.pc = "off" /\ idle.result = "none"
    BY DEF JobType, Idle
<1> HIDE DEF idle
<1> DEFINE failed == [idle EXCEPT !.pc = "done", !.result = "failed"]
<1>2. /\ failed \in JobType
      /\ failed.kind = "register" /\ failed.whole = FALSE /\ failed.listed = {} /\ failed.nodes = {}
      /\ failed.found = [n \in Nodes |-> {}] /\ failed.seen = {} /\ failed.todo = {} /\ failed.blank = {}
      /\ failed.pc = "done"
    BY <1>1 DEF JobType
<1> HIDE DEF failed
<1>3. x = idle \/ x = failed
    BY DEF idle, failed
<1>4. /\ x \in JobType
      /\ x.kind = "register" /\ x.whole = FALSE /\ x.listed = {} /\ x.nodes = {}
      /\ x.found = [n \in Nodes |-> {}] /\ x.seen = {} /\ x.todo = {} /\ x.blank = {}
      /\ x.pc \in {"off", "done"} /\ (x.pc = "off" => x.result = "none")
    BY <1>1, <1>2, <1>3
<1> QED
    BY <1>4 DEF Fit, Shapely, Sound, Reconciled, Orderly, Distinct, Before, Registering, Removal

\* A job that ends with an error has nothing left to be true to.
LEMMA RaiseKeeps ==
    ASSUME IInv, NEW j \in Jobs, Raise(j),
           UNCHANGED <<opt, host, groups, connGroup, cluster, fit, starts, events>>
    PROVE  IInv'
<1> DEFINE x == [Idle(connGroup) EXCEPT !.pc = "done", !.result = "failed"]
<1>1. connGroup \in Groups /\ starts \in 0..MaxStarts /\ groups \subseteq Groups
    BY DEF IInv, TypeOK
<1>2. PICK y \in JobType : y = x /\ Fit(y)
    BY <1>1, AtRest
<1>3. Goes(j, y)
    BY <1>2 DEF Raise
<1> QED
    BY <1>1, <1>2, <1>3, QuietStep

-----------------------------------------------------------------------------
(* The steps that only read.                                               *)

\* A job starts: what its history says of the array is so now.
LEMMA StartKeeps ==
    ASSUME IInv, NEW j \in Jobs, Start(j)
    PROVE  IInv'
<1>t. /\ connGroup \in Groups /\ groups \subseteq Groups /\ starts \in 0..MaxStarts
    BY DEF IInv, TypeOK
<1>1. PICK kind \in {"register", "reconcile"}, removals \in BOOLEAN :
          /\ Goes(j, [Idle(connGroup) EXCEPT !.pc = "list", !.kind = kind, !.removals = removals,
                                         !.tidy = Conventional(connGroup),
                                         !.whole = \A h \in HostNames : Exists(h) => host[h].ini /= {}])
    BY DEF Start
<1>2. PICK tidy \in BOOLEAN : tidy = Conventional(connGroup)
    BY Zenon DEF Conventional
<1>3. PICK whole \in BOOLEAN : whole = (\A h \in HostNames : Exists(h) => host[h].ini /= {})
    BY Zenon
<1>4. PICK idle \in JobType :
        /\ idle = Idle(connGroup) /\ idle.listed = {} /\ idle.nodes = {}
        /\ idle.found = [n \in Nodes |-> {}] /\ idle.seen = {} /\ idle.todo = {} /\ idle.blank = {}
        /\ idle.group = connGroup /\ idle.result = "none"
    BY <1>t, AtRest DEF Idle
<1> DEFINE x == [idle EXCEPT !.pc = "list", !.kind = kind, !.removals = removals,
                             !.tidy = tidy, !.whole = whole]
<1>5. Goes(j, x)
    BY <1>1, <1>2, <1>3, <1>4, Zenon
<1>6. /\ x \in JobType /\ x.listed = {} /\ x.nodes = {}
      /\ x.found = [n \in Nodes |-> {}] /\ x.seen = {} /\ x.todo = {} /\ x.blank = {}
      /\ x.group = connGroup /\ x.pc = "list" /\ x.result = "none"
      /\ x.tidy = tidy /\ x.whole = whole
  <2>1. idle \in JobType
      BY <1>4
  <2>2. x \in JobType
      BY <2>1 DEF JobType
  <2>3. /\ x.listed = idle.listed /\ x.nodes = idle.nodes /\ x.found = idle.found
        /\ x.seen = idle.seen /\ x.todo = idle.todo /\ x.blank = idle.blank
        /\ x.group = idle.group /\ x.result = idle.result
      BY <2>1 DEF JobType
  <2>4. x.pc = "list" /\ x.tidy = tidy /\ x.whole = whole
      BY <2>1 DEF JobType
  <2> QED
      BY <1>4, <2>2, <2>3, <2>4
<1> HIDE DEF x
<1>7. Shapely(x)
    BY <1>6 DEF Shapely, Distinct, Before, Registering, Removal
<1>8. Sound(x)
    BY <1>3, <1>6 DEF Sound, Whole, Before
<1>9. Reconciled(x)
  <2>1. ASSUME Conventional(connGroup)
        PROVE  /\ Named(connGroup) /\ ~Exists(SingleName(connGroup))
               /\ \A n \in cluster : fit[n] /= "dark"
               /\ opt.platform = "proxmox" => cluster /= {Conn}
      BY <2>1 DEF Conventional, Named, Entry
  <2>2. x.tidy => Conventional(connGroup)
      BY <1>2, <1>6
  <2> QED
      BY <1>6, <2>1, <2>2 DEF Reconciled, Orderly, Settled, Registering, Removal
<1>10. UNCHANGED <<opt, host, connGroup, cluster, fit, events, groups>> /\ starts' \in 0..MaxStarts
    BY <1>t, SizeAssumption DEF Start, arrayVars, envVars
<1> QED
    BY <1>t, <1>5, <1>6, <1>7, <1>8, <1>9, <1>10, QuietStep DEF Fit

\* What a job that is at work is and knows.
LEMMA JobFacts ==
    ASSUME IInv, NEW j \in Jobs
    PROVE  /\ \E t \in JobType : t = job[j] /\ Shapely(t) /\ Sound(t) /\ Reconciled(t)
           /\ starts \in 0..MaxStarts /\ groups \subseteq Groups /\ connGroup \in Groups
           /\ host \in [HostNames -> HostType]
BY DEF IInv, TypeOK, AllFit, Fit

\* A finished job gives up its place.
LEMMA LeaveKeeps ==
    ASSUME IInv, NEW j \in Jobs, Leave(j)
    PROVE  IInv'
<1>1. /\ starts \in 0..MaxStarts /\ groups \subseteq Groups /\ connGroup \in Groups
    BY JobFacts
<1>2. PICK x \in JobType : x = Idle(connGroup) /\ Fit(x)
    BY <1>1, AtRest
<1>3. Goes(j, x) /\ UNCHANGED <<opt, host, groups, connGroup, cluster, fit, events, starts>>
    BY <1>2 DEF Leave, arrayVars, envVars
<1> QED
    BY <1>1, <1>2, <1>3, QuietStep

\* A listing names each node once, and the connection's in any case.
LEMMA ListingFacts ==
    ASSUME IInv, NEW l \in ListsAs
    PROVE  /\ l \in SUBSET Entries /\ Distinct(l) /\ \E e \in l : e.node = Conn
           /\ ~opt.garbled /\ (opt.platform = "proxmox" => cluster /= {Conn}) => l = Listing
<1>1. cluster \subseteq Nodes /\ Conn \in cluster
    BY DEF IInv, TypeOK, Rooted
<1>2. l = {[label |-> "name", node |-> n] : n \in cluster}
      \/ (l = {[label |-> "addr", node |-> Conn]}
            /\ (opt.garbled \/ (opt.platform = "proxmox" /\ cluster = {Conn})))
    BY DEF ListsAs
<1>3. CASE l = {[label |-> "name", node |-> n] : n \in cluster}
  <2>1. \A e \in l : e \in Entries /\ e.label = "name" /\ e = [label |-> "name", node |-> e.node]
      BY <1>1, <1>3 DEF Entries
  <2>2. [label |-> "name", node |-> Conn] \in l /\ [label |-> "name", node |-> Conn].node = Conn
      BY <1>1, <1>3
  <2>3. Distinct(l) /\ l = Listing
      BY <1>3, <2>1 DEF Distinct, Listing, Entry
  <2> QED
      BY <2>1, <2>2, <2>3
<1>4. CASE l = {[label |-> "addr", node |-> Conn]}
             /\ (opt.garbled \/ (opt.platform = "proxmox" /\ cluster = {Conn}))
    BY <1>1, <1>4 DEF Distinct, Entries
<1> QED
    BY <1>2, <1>3, <1>4

\* A listing is of the cluster as it is, and names every node once.
LEMMA ListKeeps ==
    ASSUME IInv, NEW j \in Jobs, List(j)
    PROVE  IInv'
<1>j. /\ starts \in 0..MaxStarts /\ groups \subseteq Groups
    BY JobFacts
<1>t. PICK t \in JobType : t = job[j] /\ Shapely(t) /\ Sound(t) /\ Reconciled(t)
    BY JobFacts
<1>u. UNCHANGED <<opt, host, groups, connGroup, cluster, fit, events, starts>>
    BY DEF List, arrayVars, envVars
<1>1. CASE Raise(j)
    BY <1>1, <1>u, RaiseKeeps
<1>2. ASSUME NEW l \in ListsAs,
             Goes(j, [job[j] EXCEPT
                !.listed = l,
                !.nodes = IF At(j, "relist") THEN job[j].ready \intersect l ELSE l,
                !.pc = CASE At(j, "list")     -> IF job[j].kind = "register" THEN "discover" ELSE "members"
                         [] At(j, "relist")   -> IF opt.platform = "proxmox" THEN "scope"
                                                 ELSE IF job[j].ready \intersect l /= {} THEN "discover"
                                                 ELSE IF opt.platform = "hpevme" THEN "lastList" ELSE "prune"
                         [] At(j, "lastList") -> "prune"])
      PROVE  IInv'
  <2> DEFINE N == IF t.pc = "relist" THEN t.ready \intersect l ELSE l
             p == CASE t.pc = "list"     -> IF t.kind = "register" THEN "discover" ELSE "members"
                    [] t.pc = "relist"   -> IF opt.platform = "proxmox" THEN "scope"
                                            ELSE IF t.ready \intersect l /= {} THEN "discover"
                                            ELSE IF opt.platform = "hpevme" THEN "lastList" ELSE "prune"
                    [] t.pc = "lastList" -> "prune"
             x == [t EXCEPT !.listed = l, !.nodes = N, !.pc = p]
  <2>1. Goes(j, x)
      BY <1>2, <1>t DEF At
  <2>2. t.pc \in {"list", "relist", "lastList"}
      BY <1>t DEF List
  <2>3. /\ l \in SUBSET Entries /\ Distinct(l) /\ \E e \in l : e.node = Conn
        /\ ~opt.garbled /\ (opt.platform = "proxmox" => cluster /= {Conn}) => l = Listing
      BY ListingFacts
  <2>4. /\ N \in SUBSET l /\ (t.pc /= "relist" => N = l)
        /\ t.pc = "relist" => N = t.ready \intersect l
      OBVIOUS
  <2>5. \/ t.pc = "list" /\ t.kind = "register" /\ p = "discover"
        \/ t.pc = "list" /\ t.kind /= "register" /\ p = "members"
        \/ t.pc = "relist" /\ p = "scope"
        \/ t.pc = "relist" /\ p = "discover"
        \/ t.pc = "relist" /\ N = {} /\ p \in {"lastList", "prune"}
        \/ t.pc = "lastList" /\ p = "prune"
      BY <2>2, Zenon
  <2> HIDE DEF N, p
  <2>6. x \in JobType
      BY <2>3, <2>4, <2>5 DEF JobType
  <2>7. /\ x.pc = p /\ x.nodes = N /\ x.listed = l
        /\ x.kind = t.kind /\ x.group = t.group /\ x.members = t.members /\ x.ready = t.ready
        /\ x.blank = t.blank /\ x.todo = t.todo /\ x.found = t.found /\ x.seen = t.seen
        /\ x.effective = t.effective /\ x.result = t.result /\ x.tidy = t.tidy
        /\ x.whole = t.whole /\ x.quiet = t.quiet
      BY DEF JobType
  <2> HIDE DEF x
  <2>8. Shapely(x)
      BY <1>t, <2>3, <2>4, <2>5, <2>7 DEF Shapely, Before, Registering, Removal, Distinct
  <2>9. Sound(x)
    <3>1. x.pc \in Before => t.pc \in Before
        BY <2>5, <2>7 DEF Before
    <3>2. t.result = "none"
        BY <1>t, <2>2 DEF Shapely
    <3> QED
        BY <1>t, <2>5, <2>7, <3>1, <3>2 DEF Sound
  <2>10. ASSUME Orderly(x) PROVE Reconciled(x)
    <3>1. Orderly(t) /\ t.kind = "reconcile"
        BY <2>7, <2>10 DEF Orderly
    <3>2. l = Listing /\ x.group = t.group /\ Named(t.group)
        BY <1>t, <2>3, <2>7, <3>1 DEF Reconciled, Orderly
    <3>3. ASSUME t.pc = "relist", NEW n \in Ready PROVE Entry(n) \in N \/ Home(t.group, n)
      <4>1. Entry(n) \in t.ready \/ Home(t.group, n)
          BY <1>t, <3>1, <3>3 DEF Reconciled
      <4>2. Entry(n) \in Listing
          BY DEF Listing, Ready
      <4> QED
          BY <2>4, <3>2, <3>3, <4>1, <4>2
    <3>4. x.pc \in {"lastList", "prune"} => \A n \in Ready : Home(t.group, n)
      <4>1. CASE t.pc = "relist" /\ N = {}
          BY <3>3, <4>1
      <4>2. CASE t.pc = "lastList"
          BY <1>t, <3>1, <4>2 DEF Reconciled, Settled
      <4> QED
          BY <2>5, <2>7, <4>1, <4>2
    <3>5. x.pc \in {"scope", "discover"} => \A n \in Ready : Entry(n) \in N \/ Home(t.group, n)
        BY <2>5, <2>7, <3>1, <3>3
    <3>6. t.result = "none"
        BY <1>t, <2>2 DEF Shapely
    <3>7. x.pc \in Before => ~Exists(SingleName(t.group))
        BY <1>t, <2>5, <2>7, <3>1 DEF Reconciled, Before
    <3>8. (\A n \in cluster : fit[n] /= "dark") /\ (opt.platform = "proxmox" => cluster /= {Conn})
        BY <1>t, <3>1 DEF Reconciled
    <3>9. x.pc \in {"members", "scope", "discover", "lastList", "prune"}
        BY <2>5, <2>7, <3>1
    <3> QED
        BY <2>7, <3>2, <3>4, <3>5, <3>6, <3>7, <3>8, <3>9 DEF Reconciled, Settled, Before, Registering, Removal
  <2> QED
      BY <1>j, <1>u, <2>1, <2>6, <2>8, <2>9, <2>10, QuietStep DEF Fit, Reconciled
<1> QED
    BY <1>1, <1>2 DEF List

\* The members read are the group's until somebody changes one.
LEMMA ReadMembersKeeps ==
    ASSUME IInv, NEW j \in Jobs, ReadMembers(j)
    PROVE  IInv'
<1>j. /\ starts \in 0..MaxStarts /\ groups \subseteq Groups
    BY JobFacts
<1>t. PICK t \in JobType : t = job[j] /\ Shapely(t) /\ Sound(t) /\ Reconciled(t)
    BY JobFacts
<1>u. UNCHANGED <<opt, host, groups, connGroup, cluster, fit, events, starts>>
    BY DEF ReadMembers, arrayVars, envVars
<1>1. CASE Raise(j)
    BY <1>1, <1>u, RaiseKeeps
<1>2. CASE Goes(j, [job[j] EXCEPT !.members = Members(job[j].group), !.pc = "score"])
  <2> DEFINE x == [t EXCEPT !.members = Members(t.group), !.pc = "score"]
  <2>1. Goes(j, x) /\ t.pc = "members"
      BY <1>2, <1>t DEF ReadMembers, At
  <2>2. Members(t.group) \in SUBSET HostNames
      BY DEF Members
  <2>3. x \in JobType
      BY <2>2 DEF JobType
  <2>4. /\ x.pc = "score" /\ x.nodes = t.nodes /\ x.listed = t.listed
        /\ x.kind = t.kind /\ x.group = t.group /\ x.members = Members(t.group)
        /\ x.blank = t.blank /\ x.todo = t.todo /\ x.found = t.found /\ x.seen = t.seen
        /\ x.result = t.result /\ x.tidy = t.tidy /\ x.whole = t.whole /\ x.quiet = t.quiet
      BY DEF JobType
  <2> HIDE DEF x
  <2>5. Shapely(x)
      BY <1>t, <2>1, <2>4 DEF Shapely, Before, Registering, Removal, Distinct
  <2>6. Sound(x)
      BY <1>t, <2>1, <2>4 DEF Sound, Shapely, Before
  <2>7. Reconciled(x)
      BY <1>t, <2>1, <2>4 DEF Reconciled, Orderly, Settled, Before, Registering, Removal
  <2> QED
      BY <1>j, <1>u, <2>1, <2>3, <2>5, <2>6, <2>7, QuietStep DEF Fit
<1> QED
    BY <1>1, <1>2 DEF ReadMembers

\* A host known by the name of a node is the node's, in an array that is whole.
LEMMA KnownOwns ==
    ASSUME IInv, Whole, NEW g \in Groups, NEW n \in cluster, ~Exists(SingleName(g)),
           NEW h \in Known(g, Entry(n)), Exists(h)
    PROVE  h \in Owners(n)
<1>1. n \in Nodes /\ Entry(n) \in Entries /\ Entry(n).node = n
    BY DEF IInv, TypeOK, Entry, Entries
<1>2. h \in HostNames /\ NodeOf(h) = n
    BY <1>1, KnownFacts
<1>3. host[h].ini \subseteq {n} /\ host[h].ini /= {}
    BY <1>2 DEF IInv, Rooted, Whole
<1> QED
    BY <1>2, <1>3 DEF Owners

\* Every ready node without a host in the group is among those to be registered.
LEMMA ScoreKeeps ==
    ASSUME IInv, NEW j \in Jobs, Score(j)
    PROVE  IInv'
<1>j. /\ starts \in 0..MaxStarts /\ groups \subseteq Groups
      /\ host \in [HostNames -> HostType]
    BY JobFacts
<1>t. PICK t \in JobType : t = job[j] /\ Shapely(t) /\ Sound(t) /\ Reconciled(t)
    BY JobFacts
<1>u. UNCHANGED <<opt, host, groups, connGroup, cluster, fit, events, starts>>
    BY DEF Score, arrayVars, envVars
<1> DEFINE R == {e \in NewNodes(j) : Passes(e)}
           p == IF opt.platform = "hpevme" /\ R = {} THEN "lastList" ELSE "relist"
           x == [t EXCEPT !.ready = R, !.pc = p]
<1>1. Goes(j, x) /\ t.pc = "score"
    BY <1>t DEF Score, At
<1>2. R \in SUBSET t.listed
    BY <1>t DEF NewNodes
<1>3. \A e \in t.listed : Passes(e) => e \in R \/ Known(t.group, e) \intersect t.members /= {}
    BY <1>t DEF NewNodes
<1>4. p \in {"lastList", "relist"} /\ (p = "lastList" => R = {})
    OBVIOUS
<1> HIDE DEF R, p
<1>5. x \in JobType
    BY <1>2, <1>4 DEF JobType
<1>6. /\ x.pc = p /\ x.nodes = t.nodes /\ x.listed = t.listed
      /\ x.kind = t.kind /\ x.group = t.group /\ x.ready = R
      /\ x.blank = t.blank /\ x.todo = t.todo /\ x.found = t.found /\ x.seen = t.seen
      /\ x.result = t.result /\ x.tidy = t.tidy /\ x.whole = t.whole /\ x.quiet = t.quiet
    BY DEF JobType
<1> HIDE DEF x
<1>7. Shapely(x)
    BY <1>t, <1>1, <1>4, <1>6 DEF Shapely, Before, Registering, Removal, Distinct
<1>8. Sound(x)
    BY <1>t, <1>1, <1>4, <1>6 DEF Sound, Shapely, Before
<1>9. ASSUME Orderly(x) PROVE Reconciled(x)
  <2>1. Orderly(t) /\ t.kind = "reconcile" /\ t.result = "none"
      BY <1>t, <1>1, <1>6, <1>9 DEF Orderly, Shapely
  <2>2. /\ t.listed = Listing /\ t.members = Members(t.group) /\ ~Exists(SingleName(t.group))
        /\ Named(t.group) /\ \A n \in cluster : fit[n] /= "dark"
        /\ opt.platform = "proxmox" => cluster /= {Conn}
      BY <1>t, <1>1, <2>1 DEF Reconciled, Before
  <2>3. Whole /\ t.group \in Groups
      BY <1>t, <1>1, <2>1 DEF Sound, Orderly, Before, JobType
  <2>4. ASSUME NEW n \in Ready PROVE Entry(n) \in R \/ Home(t.group, n)
    <3>1. n \in cluster /\ Entry(n) \in t.listed /\ Passes(Entry(n))
        BY <2>2 DEF Ready, Listing, Passes, Entry
    <3>2. CASE Entry(n) \in R
        BY <3>2
    <3>3. CASE Known(t.group, Entry(n)) \intersect t.members /= {}
      <4>1. PICK h : h \in Known(t.group, Entry(n)) /\ h \in Members(t.group)
          BY <2>2, <3>3
      <4>2. Exists(h)
          BY <2>3, <4>1, GroupAssumption DEF Members, Exists
      <4>3. h \in Owners(n)
          BY <2>2, <2>3, <3>1, <4>1, <4>2, KnownOwns
      <4> QED
          BY <4>1, <4>3 DEF Home
    <3> QED
        BY <1>3, <3>1, <3>2, <3>3
  <2>5. p = "lastList" => \A n \in Ready : Home(t.group, n)
      BY <1>4, <2>4
  <2> QED
      BY <1>4, <1>6, <2>1, <2>2, <2>4, <2>5 DEF Reconciled, Settled, Before, Registering, Removal
<1> QED
    BY <1>j, <1>u, <1>1, <1>5, <1>7, <1>8, <1>9, QuietStep DEF Fit, Reconciled

\* Proxmox takes the registered nodes in again: none of the new ones is dropped.
LEMMA ScopeKeeps ==
    ASSUME IInv, NEW j \in Jobs, Scope(j)
    PROVE  IInv'
<1>j. /\ starts \in 0..MaxStarts /\ groups \subseteq Groups
    BY JobFacts
<1>t. PICK t \in JobType : t = job[j] /\ Shapely(t) /\ Sound(t) /\ Reconciled(t)
    BY JobFacts
<1>u. UNCHANGED <<opt, host, groups, connGroup, cluster, fit, events, starts>>
    BY DEF Scope, arrayVars, envVars
<1>1. CASE Raise(j)
    BY <1>1, <1>u, RaiseKeeps
<1>2. CASE ~Raise(j)
  <2> DEFINE known == {e \in t.listed : Known(t.group, e) \intersect Members(t.group) /= {}}
             N == known \union t.nodes
             p == IF t.ready = {} THEN "prune" ELSE "discover"
             x == [t EXCEPT !.nodes = N, !.pc = p]
  <2>1. Goes(j, [t EXCEPT !.nodes = known \union @, !.pc = p]) /\ t.pc = "scope"
      BY <1>2, <1>t DEF Scope, At
  <2>2. Goes(j, x)
      BY <2>1
  <2>3. N \in SUBSET t.listed /\ t.nodes \in SUBSET N /\ t.nodes \subseteq t.ready
        /\ t.kind = "reconcile"
      BY <1>t, <2>1 DEF Shapely, JobType
  <2>4. p \in {"prune", "discover"} /\ (p = "prune" => t.nodes = {})
      BY <2>3
  <2> HIDE DEF N, p
  <2>5. x \in JobType
      BY <2>3, <2>4 DEF JobType
  <2>6. /\ x.pc = p /\ x.nodes = N /\ x.listed = t.listed
        /\ x.kind = t.kind /\ x.group = t.group
        /\ x.blank = t.blank /\ x.todo = t.todo /\ x.found = t.found /\ x.seen = t.seen
        /\ x.result = t.result /\ x.tidy = t.tidy /\ x.whole = t.whole /\ x.quiet = t.quiet
      BY DEF JobType
  <2> HIDE DEF x
  <2>7. Shapely(x)
      BY <1>t, <2>1, <2>3, <2>4, <2>6 DEF Shapely, Before, Registering, Removal, Distinct
  <2>8. Sound(x)
      BY <1>t, <2>1, <2>4, <2>6 DEF Sound, Shapely, Before
  <2>9. Reconciled(x)
    <3>1. t.result = "none"
        BY <1>t, <2>1 DEF Shapely
    <3> QED
        BY <1>t, <2>1, <2>3, <2>4, <2>6, <3>1 DEF Reconciled, Orderly, Settled, Before, Registering, Removal
  <2> QED
      BY <1>j, <1>u, <2>2, <2>5, <2>7, <2>8, <2>9, QuietStep DEF Fit
<1> QED
    BY <1>1, <1>2

\* An orderly reconciliation has no registration that fails.
LEMMA RegistrationFailsKeeps ==
    ASSUME IInv, NEW j \in Jobs, NEW r \in {"failed", "conflict"}, RegistrationFails(j, r),
           job[j].pc \in {"discover", "decide"}, ~Orderly(job[j]),
           UNCHANGED <<opt, host, groups, connGroup, cluster, fit, events, starts>>
    PROVE  IInv'
<1>j. /\ starts \in 0..MaxStarts /\ groups \subseteq Groups
    BY JobFacts
<1>t. PICK t \in JobType : t = job[j] /\ Shapely(t) /\ Sound(t) /\ Reconciled(t)
    BY JobFacts
<1> DEFINE ended == [t EXCEPT !.pc = "done", !.result = r]
           going == [t EXCEPT !.pc = "registered"]
<1>1. Goes(j, ended) \/ (t.kind = "reconcile" /\ Goes(j, going))
  <2>1. CASE job[j].kind = "register" \/ opt.platform = "xcpng"
      BY <1>t, <2>1 DEF RegistrationFails
  <2>2. CASE ~(job[j].kind = "register" \/ opt.platform = "xcpng")
      BY <1>t, <2>2 DEF RegistrationFails, JobType
  <2> QED
      BY <2>1, <2>2
<1>2. ended \in JobType /\ going \in JobType
    BY DEF JobType
<1>3. \A x \in {ended, going} :
        /\ x.nodes = t.nodes /\ x.listed = t.listed /\ x.kind = t.kind /\ x.group = t.group
        /\ x.tidy = t.tidy /\ x.whole = t.whole /\ x.quiet = t.quiet
  <2>1. /\ ended.nodes = t.nodes /\ ended.listed = t.listed /\ ended.kind = t.kind
        /\ ended.group = t.group /\ ended.tidy = t.tidy /\ ended.whole = t.whole
        /\ ended.quiet = t.quiet
      BY DEF JobType
  <2>2. /\ going.nodes = t.nodes /\ going.listed = t.listed /\ going.kind = t.kind
        /\ going.group = t.group /\ going.tidy = t.tidy /\ going.whole = t.whole
        /\ going.quiet = t.quiet
      BY DEF JobType
  <2> HIDE DEF ended, going
  <2> QED
      BY <2>1, <2>2
<1>4. /\ ended.pc = "done" /\ ended.result = r
      /\ going.pc = "registered" /\ going.result = t.result
    BY DEF JobType
<1> HIDE DEF ended, going
<1>5. t.result = "none" /\ ~Orderly(t)
    BY <1>t DEF Shapely
<1>6. Shapely(ended) /\ Shapely(going)
    BY <1>t, <1>3, <1>4, <1>5 DEF Shapely, Before, Registering, Removal, Distinct
<1>7. Sound(ended) /\ (t.kind = "reconcile" => Sound(going))
    BY <1>t, <1>3, <1>4, <1>5 DEF Sound, Before
<1>8. Reconciled(ended) /\ Reconciled(going)
    BY <1>3, <1>5 DEF Reconciled, Orderly
<1>9. CASE Goes(j, ended)
    BY <1>j, <1>2, <1>6, <1>7, <1>8, <1>9, QuietStep DEF Fit
<1>10. CASE t.kind = "reconcile" /\ Goes(j, going)
    BY <1>j, <1>2, <1>6, <1>7, <1>8, <1>10, QuietStep DEF Fit
<1> QED
    BY <1>1, <1>9, <1>10

\* The loop begins with every node that is to be registered.
LEMMA DiscoverKeeps ==
    ASSUME IInv, NEW j \in Jobs, Discover(j)
    PROVE  IInv'
<1>j. /\ starts \in 0..MaxStarts /\ groups \subseteq Groups
    BY JobFacts
<1>t. PICK t \in JobType : t = job[j] /\ Shapely(t) /\ Sound(t) /\ Reconciled(t)
    BY JobFacts
<1>u. UNCHANGED <<opt, host, groups, connGroup, cluster, fit, events, starts>>
    BY DEF Discover, arrayVars, envVars
<1> DEFINE B == {e.node : e \in {f \in t.nodes : fit[f.node] = "dark"}}
           x == [t EXCEPT !.blank = B, !.todo = t.nodes, !.pc = "match"]
<1>1. /\ t.pc = "discover"
      /\ Raise(j) \/ (IF B /= {} /\ opt.platform /= "xcpng"
                      THEN RegistrationFails(j, "failed") ELSE Goes(j, x))
    BY <1>t DEF Discover, At
<1>2. \A e \in t.nodes : e \in Entries /\ e.node \in Nodes
    BY DEF JobType, Entries
<1>3. \A n \in B : n \in Nodes /\ \E e \in t.nodes : n = e.node /\ fit[e.node] = "dark"
    BY <1>2
<1>4. Orderly(t) => B = {}
  <2>1. SUFFICES ASSUME Orderly(t), NEW n \in B PROVE FALSE
      OBVIOUS
  <2>2. PICK e \in t.nodes : n = e.node /\ fit[e.node] = "dark"
      BY <1>3
  <2>3. e \in Listing /\ \A m \in cluster : fit[m] /= "dark"
      BY <1>t, <1>1, <2>1 DEF Reconciled, Shapely
  <2>4. e.node \in cluster
      BY <2>3 DEF Listing, Entry
  <2> QED
      BY <2>2, <2>3, <2>4
<1>5. CASE Raise(j)
    BY <1>5, <1>u, RaiseKeeps
<1>6. CASE B /= {} /\ opt.platform /= "xcpng" /\ RegistrationFails(j, "failed")
    BY <1>t, <1>1, <1>4, <1>6, <1>u, RegistrationFailsKeeps
<1>7. CASE Goes(j, x)
  <2>1. B \in SUBSET Nodes
      BY <1>3
  <2> HIDE DEF B
  <2>2. x \in JobType
      BY <2>1 DEF JobType
  <2>3. /\ x.pc = "match" /\ x.nodes = t.nodes /\ x.listed = t.listed
        /\ x.kind = t.kind /\ x.group = t.group
        /\ x.blank = B /\ x.todo = t.nodes /\ x.found = t.found /\ x.seen = t.seen
        /\ x.result = t.result /\ x.tidy = t.tidy /\ x.whole = t.whole /\ x.quiet = t.quiet
      BY DEF JobType
  <2> HIDE DEF x
  <2>4. t.found = [n \in Nodes |-> {}] /\ t.seen = {} /\ t.result = "none"
      BY <1>t, <1>1 DEF Shapely, Before
  <2>5. Shapely(x)
      BY <1>t, <1>1, <1>2, <2>3, <2>4 DEF Shapely, Before, Registering, Removal, Distinct
  <2>6. Sound(x)
    <3>1. Live(x) \ x.todo = {}
        BY <2>3 DEF Live
    <3> QED
        BY <1>t, <1>1, <2>3, <2>4, <3>1 DEF Sound, Before
  <2>7. Reconciled(x)
      BY <1>t, <1>1, <1>4, <2>3, <2>4 DEF Reconciled, Orderly, Settled, Before, Registering, Removal
  <2> QED
      BY <1>j, <1>u, <1>7, <2>2, <2>5, <2>6, <2>7, QuietStep DEF Fit
<1> QED
    BY <1>1, <1>5, <1>6, <1>7

\* A host with an initiator is there, in a group or in none.
LEMMA OwnerFacts ==
    ASSUME IInv, NEW n, NEW h \in Owners(n)
    PROVE  h \in HostNames /\ n \in host[h].ini /\ NodeOf(h) = n /\ Exists(h)
           /\ host[h].group \in Groups \union {"none"}
BY DEF IInv, TypeOK, Rooted, Owners, Exists, HostType

\* One more node is matched with the hosts that hold its initiators.
LEMMA MatchKeeps ==
    ASSUME IInv, NEW j \in Jobs, Match(j)
    PROVE  IInv'
<1>j. /\ starts \in 0..MaxStarts /\ groups \subseteq Groups
    BY JobFacts
<1>t. PICK t \in JobType : t = job[j] /\ Shapely(t) /\ Sound(t) /\ Reconciled(t)
    BY JobFacts
<1>u. UNCHANGED <<opt, host, groups, connGroup, cluster, fit, events, starts>>
    BY DEF Match, arrayVars, envVars
<1>p. t.pc = "match" /\ t.result = "none"
    BY <1>t DEF Match, At, Shapely
<1>1. CASE Raise(j)
    BY <1>1, <1>u, RaiseKeeps
<1>2. CASE t.todo = {}
  <2> DEFINE x == [t EXCEPT !.pc = "decide"]
  <2>1. Goes(j, x)
      BY <1>2, <1>t DEF Match
  <2>2. x \in JobType
      BY DEF JobType
  <2>3. /\ x.pc = "decide" /\ x.nodes = t.nodes /\ x.listed = t.listed
        /\ x.kind = t.kind /\ x.group = t.group
        /\ x.blank = t.blank /\ x.todo = t.todo /\ x.found = t.found /\ x.seen = t.seen
        /\ x.result = t.result /\ x.tidy = t.tidy /\ x.whole = t.whole /\ x.quiet = t.quiet
      BY DEF JobType
  <2> HIDE DEF x
  <2>4. Shapely(x)
      BY <1>t, <1>p, <1>2, <2>3 DEF Shapely, Before, Registering, Removal, Distinct
  <2>5. Sound(x)
      BY <1>t, <1>p, <2>3 DEF Sound, Before, Live, Matched
  <2>6. Reconciled(x)
      BY <1>t, <1>p, <2>3 DEF Reconciled, Orderly, Settled, Before, Registering, Removal
  <2> QED
      BY <1>j, <1>u, <2>1, <2>2, <2>4, <2>5, <2>6, QuietStep DEF Fit
<1>3. CASE t.todo /= {} /\ ~Raise(j)
  <2> DEFINE e == First(t.todo)
             F == IF e.node \in t.blank THEN {} ELSE Owners(e.node)
             S == {host[h].group : h \in F} \ {"none"}
             x == [t EXCEPT !.todo = @ \ {e}, !.found[e.node] = F, !.seen = @ \union S]
  <2>1. Goes(j, x)
      BY <1>3, <1>t DEF Match
  <2>2. e \in t.todo
      BY <1>3, FirstFacts DEF JobType
  <2>3. e \in t.nodes /\ e \in Entries /\ e.node \in Nodes
      BY <1>t, <1>p, <2>2 DEF Shapely, Registering, JobType, Entries
  <2>4. F \in SUBSET HostNames /\ \A h \in F : host[h].group \in Groups \union {"none"}
      BY OwnerFacts DEF Owners
  <2>5. S \in SUBSET Groups /\ \A h \in F : host[h].group \in S \union {"none"}
      BY <2>4
  <2>6. (e.node \in t.blank => F = {}) /\ (e.node \notin t.blank => F = Owners(e.node))
      OBVIOUS
  <2>7. S \subseteq {host[h].group : h \in Owners(e.node)} \ {"none"}
      OBVIOUS
  <2> HIDE DEF F, S, e
  <2>8. x \in JobType
    <3>1. [t.found EXCEPT ![e.node] = F] \in [Nodes -> SUBSET HostNames]
        BY <2>3, <2>4 DEF JobType
    <3>2. t.seen \union S \in SUBSET Groups
        BY <2>5 DEF JobType
    <3>3. t.todo \ {e} \in SUBSET Entries
        BY DEF JobType
    <3> QED
        BY <3>1, <3>2, <3>3 DEF JobType
  <2>9. /\ x.pc = t.pc /\ x.nodes = t.nodes /\ x.listed = t.listed
        /\ x.kind = t.kind /\ x.group = t.group
        /\ x.blank = t.blank /\ x.todo = t.todo \ {e} /\ x.seen = t.seen \union S
        /\ x.result = t.result /\ x.tidy = t.tidy /\ x.whole = t.whole /\ x.quiet = t.quiet
      BY DEF JobType
  <2>10. x.found = [t.found EXCEPT ![e.node] = F]
      BY DEF JobType
  <2> HIDE DEF x
  <2>11. \A f \in t.nodes : f.node \in Nodes /\ (f /= e => f.node /= e.node)
      BY <1>t, <2>3 DEF Shapely, Distinct, JobType, Entries
  <2>12. x.found[e.node] = F /\ \A f \in t.nodes : f /= e => x.found[f.node] = t.found[f.node]
      BY <2>3, <2>10, <2>11 DEF JobType
  <2>13. Shapely(x)
    <3>1. t.todo \subseteq t.nodes
          /\ (\A f \in t.nodes : f.node \in t.blank => t.found[f.node] = {})
          /\ \A f \in t.todo : t.found[f.node] = {}
        BY <1>t, <1>p DEF Shapely, Registering
    <3>2. /\ \A f \in t.nodes : f.node \in t.blank => x.found[f.node] = {}
          /\ \A f \in x.todo : x.found[f.node] = {}
        BY <2>6, <2>9, <2>12, <3>1
    <3> QED
        BY <1>t, <1>p, <2>9, <3>1, <3>2 DEF Shapely, Before, Registering, Removal, Distinct
  <2>14. Sound(x)
    <3>1. ASSUME x.quiet /\ x.whole, NEW f \in Live(x) \ x.todo PROVE Matched(x, f)
      <4>1. f \in t.nodes /\ f.node \notin t.blank /\ (f = e \/ f \in Live(t) \ t.todo)
          BY <2>9, <3>1 DEF Live
      <4>2. CASE f = e
          BY <2>5, <2>6, <2>9, <2>12, <4>1, <4>2 DEF Matched
      <4>3. CASE f /= e /\ f \in Live(t) \ t.todo
        <5>1. Matched(t, f)
            BY <1>t, <1>p, <2>9, <3>1, <4>3 DEF Sound
        <5> QED
            BY <2>9, <2>12, <4>1, <4>3, <5>1 DEF Matched
      <4> QED
          BY <4>1, <4>2, <4>3
    <3> QED
        BY <1>t, <1>p, <2>9, <3>1 DEF Sound, Before
  <2>15. ASSUME Orderly(x) PROVE Reconciled(x)
    <3>1. Orderly(t)
        BY <2>9, <2>15 DEF Orderly
    <3>2. t.listed = Listing /\ Named(t.group) /\ t.seen \subseteq {t.group}
        BY <1>t, <1>p, <3>1 DEF Reconciled
    <3>3. e.node \in cluster
        BY <1>t, <2>3, <3>2 DEF Shapely, Listing, Entry
    <3>4. x.seen \subseteq {t.group}
        BY <2>7, <2>9, <3>2, <3>3 DEF Named
    <3> QED
        BY <1>t, <1>p, <2>9, <3>1, <3>4 DEF Reconciled, Settled, Before, Registering, Removal
  <2> QED
      BY <1>j, <1>u, <2>1, <2>8, <2>13, <2>14, <2>15, QuietStep DEF Fit, Reconciled
<1> QED
    BY <1>1, <1>2, <1>3

\* One group at most was seen, and it is adopted: matched hosts are in it or in none.
LEMMA DecideKeeps ==
    ASSUME IInv, NEW j \in Jobs, Decide(j)
    PROVE  IInv'
<1>j. /\ starts \in 0..MaxStarts /\ groups \subseteq Groups
    BY JobFacts
<1>t. PICK t \in JobType : t = job[j] /\ Shapely(t) /\ Sound(t) /\ Reconciled(t)
    BY JobFacts
<1>u. UNCHANGED <<opt, host, groups, connGroup, cluster, fit, events, starts>>
    BY DEF Decide, arrayVars, envVars
<1>p. /\ t.pc = "decide" /\ t.result = "none" /\ t.todo = {}
      /\ t.group \in Groups /\ t.seen \in SUBSET Groups /\ t.nodes \in SUBSET Entries
    BY <1>t DEF Decide, At, Shapely, JobType
<1>f. IsFiniteSet(t.seen)
    BY <1>p, GroupAssumption, FS_Subset
<1>1. CASE Conflicts(t.seen)
  <2>1. RegistrationFails(j, "conflict")
      BY <1>1, <1>t DEF Decide
  <2>2. ASSUME Orderly(t) PROVE FALSE
    <3>1. t.seen \subseteq {t.group}
        BY <1>t, <1>p, <2>2 DEF Reconciled
    <3>2. Cardinality(t.seen) <= Cardinality({t.group}) /\ Cardinality({t.group}) = 1
        BY <3>1, FS_Subset, FS_Singleton
    <3>3. Cardinality(t.seen) \in Nat
        BY <1>f, FS_CardinalityType
    <3> QED
        BY <1>1, <3>2, <3>3 DEF Conflicts
  <2> QED
      BY <1>t, <1>p, <1>u, <2>1, <2>2, RegistrationFailsKeeps
<1>2. CASE ~Conflicts(t.seen)
  <2> DEFINE A == Adopted(t.seen, t.group)
             N == {e \in t.nodes : t.found[e.node] = {}}
             x == [t EXCEPT !.pc = "create", !.effective = A, !.todo = N]
  <2>1. Goes(j, x)
      BY <1>2, <1>t DEF Decide
  <2>2. Cardinality(t.seen) <= 1
      BY <1>2, <1>f, FS_CardinalityType DEF Conflicts
  <2>3. A \in Groups /\ t.seen \subseteq {A} /\ (t.seen \subseteq {t.group} => A = t.group)
    <3>1. CASE t.seen = {}
        BY <1>p, <3>1 DEF Adopted
    <3>2. CASE t.seen /= {}
      <4>1. A \in t.seen
          BY <3>2 DEF Adopted
      <4> QED
          BY <1>f, <1>p, <2>2, <4>1, OnlyOne
    <3> QED
        BY <3>1, <3>2
  <2>4. N \in SUBSET t.nodes
      OBVIOUS
  <2>5. \A e \in t.nodes : e \in N <=> t.found[e.node] = {}
      OBVIOUS
  <2> HIDE DEF A, N
  <2>6. x \in JobType
      BY <1>p, <2>3, <2>4 DEF JobType
  <2>7. /\ x.pc = "create" /\ x.nodes = t.nodes /\ x.listed = t.listed
        /\ x.kind = t.kind /\ x.group = t.group /\ x.effective = A
        /\ x.blank = t.blank /\ x.todo = N /\ x.seen = t.seen /\ x.found = t.found
        /\ x.result = t.result /\ x.tidy = t.tidy /\ x.whole = t.whole /\ x.quiet = t.quiet
      BY DEF JobType
  <2> HIDE DEF x
  <2>8. Shapely(x)
      BY <1>t, <1>p, <2>4, <2>5, <2>7 DEF Shapely, Before, Registering, Removal, Distinct
  <2>9. ASSUME x.quiet /\ x.whole, NEW e \in Live(x)
        PROVE  /\ Agreed(x, e)
               /\ e \in x.todo => Owners(e.node) = {} /\ ~Exists(NameFor(x, e))
               /\ e \notin x.todo => Placed(x, e)
    <3>1. e \in t.nodes /\ e \in Live(t) \ t.todo
        BY <1>p, <2>7 DEF Live
    <3>2. Matched(t, e) /\ Whole
        BY <1>t, <1>p, <2>7, <2>9, <3>1 DEF Sound
    <3>3. Agreed(x, e)
        BY <2>3, <2>7, <3>2 DEF Matched, Agreed
    <3>4. ASSUME e \in x.todo PROVE Owners(e.node) = {} /\ ~Exists(NameFor(x, e))
      <4>1. Owners(e.node) = {}
          BY <2>5, <2>7, <3>1, <3>2, <3>4 DEF Matched
      <4>2. NameFor(x, e) \in HostNames /\ NodeOf(NameFor(x, e)) = e.node
          BY <2>6, <2>7, <2>8, <3>1, NameForFacts
      <4>3. host[NameFor(x, e)].ini \subseteq {e.node}
          BY <4>2 DEF IInv, Rooted
      <4> QED
          BY <3>2, <4>1, <4>2, <4>3 DEF Whole, Owners
    <3>5. ASSUME e \notin x.todo PROVE Placed(x, e)
      <4>1. x.found[e.node] = Owners(e.node) /\ x.found[e.node] /= {}
          BY <2>5, <2>7, <3>1, <3>2, <3>5 DEF Matched
      <4> QED
          BY <4>1 DEF Placed, HostFor
    <3> QED
        BY <3>3, <3>4, <3>5
  <2>10. Sound(x)
      BY <1>p, <2>7, <2>9 DEF Sound, Before
  <2>11. Reconciled(x)
      BY <1>t, <1>p, <2>3, <2>7 DEF Reconciled, Orderly, Settled, Before, Registering, Removal
  <2> QED
      BY <1>j, <1>u, <2>1, <2>6, <2>8, <2>10, <2>11, QuietStep DEF Fit
<1> QED
    BY <1>1, <1>2

-----------------------------------------------------------------------------
(* The steps that write.                                                   *)

Created(h, ini) ==
    [ini |-> host[h].ini \union ini, group |-> IF Exists(h) THEN host[h].group ELSE "none"]

CreatesOnly(e, h, ini) ==
    /\ host' \in [HostNames -> HostType] /\ Rooted'
    /\ \A k \in HostNames : k /= h => host'[k] = host[k]
    /\ \A n : n /= e.node =>
          Owners(n)' = Owners(n) /\ \A k \in Owners(n) : k /= h /\ host'[k] = host[k]
    /\ Owners(e.node) = {} /\ ini = {e.node} => Owners(e.node)' = {h}
    /\ ~Exists(h) => host'[h].group = "none"

\* What the creation of a host for the entry e changes: nothing of other nodes.
LEMMA CreateFacts ==
    ASSUME IInv, NEW t \in JobType, Shapely(t), NEW e \in t.nodes, NEW h, h = NameFor(t, e),
           NEW ini \in SUBSET {e.node}, UNCHANGED cluster,
           host' = [host EXCEPT ![h] = Created(h, ini)]
    PROVE  CreatesOnly(e, h, ini)
<1>1. h \in HostNames /\ NodeOf(h) = e.node /\ e.node \in Nodes
    BY NameForFacts DEF JobType, Entries
<1>2. host \in [HostNames -> HostType] /\ Rooted
    BY DEF IInv, TypeOK
<1> DEFINE new == Created(h, ini)
<1>3. host' = [host EXCEPT ![h] = new]
    OBVIOUS
<1>4. new \in HostType /\ new.ini \subseteq {e.node} /\ new.group /= "absent"
      /\ new.ini = host[h].ini \union ini /\ (~Exists(h) => new.group = "none")
    BY <1>1, <1>2 DEF HostType, Rooted, Exists, Created
<1> HIDE DEF new
<1>5. host' \in [HostNames -> HostType] /\ host'[h] = new
      /\ \A k \in HostNames : k /= h => host'[k] = host[k]
    BY <1>1, <1>2, <1>3, <1>4
<1>6. Rooted'
    BY <1>1, <1>2, <1>4, <1>5 DEF Rooted
<1>7. ASSUME NEW n, n /= e.node
      PROVE  Owners(n)' = Owners(n) /\ \A k \in Owners(n) : k /= h /\ host'[k] = host[k]
  <2>1. \A k \in HostNames : n \in host[k].ini <=> n \in host'[k].ini
      BY <1>1, <1>2, <1>4, <1>5, <1>7 DEF Rooted
  <2>2. \A k \in Owners(n) : k \in HostNames /\ k /= h
      BY <1>1, <1>2, <1>7 DEF Owners, Rooted
  <2> QED
      BY <1>5, <2>1, <2>2 DEF Owners
<1>8. ASSUME Owners(e.node) = {}, ini = {e.node} PROVE Owners(e.node)' = {h}
    BY <1>1, <1>4, <1>5, <1>8 DEF Owners
<1> QED
    BY <1>4, <1>5, <1>6, <1>7, <1>8 DEF CreatesOnly

\* A host is made for a node without one, under a name that nobody has, or a host
\* that is there is left as it is.
LEMMA CreateHostKeeps ==
    ASSUME IInv, NEW j \in Jobs, CreateHost(j)
    PROVE  IInv'
<1>j. /\ starts \in 0..MaxStarts /\ groups \subseteq Groups /\ connGroup \in Groups
    BY JobFacts
<1>t. PICK t \in JobType : t = job[j] /\ Shapely(t) /\ Sound(t) /\ Reconciled(t)
    BY JobFacts
<1>u. UNCHANGED <<opt, groups, connGroup, cluster, fit, events, starts>>
    BY DEF CreateHost, envVars
<1>p. /\ t.pc = "create" /\ t.result = "none" /\ t.todo \subseteq t.nodes
      /\ \A f \in t.todo : t.found[f.node] = {}
    BY <1>t DEF CreateHost, At, Shapely, Registering
<1>1. CASE Raise(j) /\ UNCHANGED host
    BY <1>1, <1>u, RaiseKeeps
<1>2. CASE t.todo = {} /\ ~(Raise(j) /\ UNCHANGED host)
  <2> DEFINE x == [t EXCEPT !.pc = "group"]
  <2>1. Goes(j, x) /\ UNCHANGED host
      BY <1>2, <1>t DEF CreateHost
  <2>2. x \in JobType
      BY DEF JobType
  <2>3. /\ x.pc = "group" /\ x.nodes = t.nodes /\ x.listed = t.listed
        /\ x.kind = t.kind /\ x.group = t.group /\ x.effective = t.effective
        /\ x.blank = t.blank /\ x.todo = t.todo /\ x.found = t.found /\ x.seen = t.seen
        /\ x.result = t.result /\ x.tidy = t.tidy /\ x.whole = t.whole /\ x.quiet = t.quiet
      BY DEF JobType
  <2> HIDE DEF x
  <2>4. Shapely(x)
      BY <1>t, <1>p, <1>2, <2>3 DEF Shapely, Before, Registering, Removal, Distinct
  <2>5. \A f : NameFor(x, f) = NameFor(t, f) /\ HostFor(x, f) = HostFor(t, f)
      BY <2>3 DEF NameFor, HostFor
  <2>6. Sound(x)
      BY <1>t, <1>p, <1>2, <2>3, <2>5 DEF Sound, Before, Live, Agreed, Placed
  <2>7. Reconciled(x)
      BY <1>t, <1>p, <2>3 DEF Reconciled, Orderly, Settled, Before, Registering, Removal
  <2> QED
      BY <1>j, <1>u, <2>1, <2>2, <2>4, <2>6, <2>7, QuietStep DEF Fit
<1>3. CASE t.todo /= {} /\ ~(Raise(j) /\ UNCHANGED host)
  <2>e. PICK e : e = First(t.todo)
      OBVIOUS
  <2>h. PICK h : h = NameFor(t, e)
      OBVIOUS
  <2>i. PICK ini : ini = IF Owners(e.node) \ {h} /= {} \/ e.node \in t.blank THEN {} ELSE {e.node}
      OBVIOUS
  <2>f. PICK failed \in JobType :
            failed = [Idle(connGroup) EXCEPT !.pc = "done", !.result = "failed"] /\ Fit(failed)'
      BY <1>j, AtRest
  <2> DEFINE x == [t EXCEPT !.todo = @ \ {e}]
  <2>1. /\ host' = [host EXCEPT ![h] = Created(h, ini)]
        /\ \/ host' = host /\ Goes(j, x)
           \/ GoesChanging(j, x)
           \/ GoesChanging(j, failed)
      BY <1>3, <1>t, <2>e, <2>f, <2>h, <2>i, OfJob DEF CreateHost, Created
  <2>2. e \in t.todo
      BY <1>3, <2>e, FirstFacts DEF JobType
  <2>3. e \in t.nodes /\ t.found[e.node] = {}
      BY <1>p, <2>2
  <2>4. /\ ini \in SUBSET {e.node}
        /\ e.node \notin t.blank /\ Owners(e.node) = {} => ini = {e.node}
      BY <2>i
  <2>5. h \in HostNames /\ NodeOf(h) = e.node
        /\ (t.kind = "reconcile" => h = ClusterName(t.group, e))
      BY <1>t, <2>3, <2>h, NameForFacts
  <2>6. /\ host' \in [HostNames -> HostType] /\ Rooted'
        /\ \A k \in HostNames : k /= h => host'[k] = host[k]
        /\ \A n : n /= e.node =>
              Owners(n)' = Owners(n) /\ \A k \in Owners(n) : k /= h /\ host'[k] = host[k]
        /\ Owners(e.node) = {} /\ ini = {e.node} => Owners(e.node)' = {h}
        /\ ~Exists(h) => host'[h].group = "none"
    <3>1. UNCHANGED cluster
        BY <1>u
    <3>2. host' = [host EXCEPT ![h] = Created(h, ini)] /\ Shapely(t) /\ ini \in SUBSET {e.node}
        BY <1>t, <2>1, <2>4
    <3>3. CreatesOnly(e, h, ini)
        BY <2>3, <2>h, <3>1, <3>2, CreateFacts
    <3> QED
        BY <3>3 DEF CreatesOnly
  <2>7. x \in JobType
      BY DEF JobType
  <2>8. /\ x.pc = t.pc /\ x.nodes = t.nodes /\ x.listed = t.listed
        /\ x.kind = t.kind /\ x.group = t.group /\ x.effective = t.effective
        /\ x.blank = t.blank /\ x.todo = t.todo \ {e} /\ x.found = t.found /\ x.seen = t.seen
        /\ x.result = t.result /\ x.tidy = t.tidy /\ x.whole = t.whole /\ x.quiet = t.quiet
      BY DEF JobType
  <2> HIDE DEF x
  <2>9. Shapely(x)
      BY <1>t, <1>p, <2>8 DEF Shapely, Before, Registering, Removal, Distinct
  <2>10. Shapely(x)'
      BY <1>u, <2>9, SameNames
  <2>11. \A f : /\ NameFor(x, f)' = NameFor(t, f) /\ HostFor(x, f)' = HostFor(t, f)
    <3>1. \A f : NameFor(x, f) = NameFor(t, f) /\ HostFor(x, f) = HostFor(t, f)
        BY <2>8 DEF NameFor, HostFor
    <3> QED
        BY <1>u, <3>1, SameNames
  <2>12. \A f \in t.nodes : f /= e => f.node /= e.node
      BY <1>t, <2>3 DEF Shapely, Distinct
  <2>13. ASSUME t.quiet /\ t.whole, e.node \notin t.blank
         PROVE  Owners(e.node) = {} /\ ~Exists(h) /\ Owners(e.node)' = {h} /\ host'[h].group = "none"
    <3>1. Owners(e.node) = {} /\ ~Exists(h)
        BY <1>t, <1>p, <2>2, <2>3, <2>13, <2>h DEF Sound, Live
    <3> QED
        BY <2>4, <2>6, <2>13, <3>1
  <2>14. ASSUME t.quiet /\ t.whole, NEW f \in Live(x)
         PROVE  /\ Agreed(x, f)'
                /\ f \in x.todo => Owners(f.node)' = {} /\ ~Exists(NameFor(x, f))'
                /\ f \notin x.todo => Placed(x, f)'
    <3>1. f \in t.nodes /\ f.node \notin t.blank /\ f \in Live(t)
        BY <2>8 DEF Live
    <3>2. CASE f = e
      <4>1. Owners(f.node)' = {h} /\ host'[h].group = "none" /\ f \notin x.todo
          BY <2>8, <2>13, <2>14, <3>1, <3>2
      <4>2. HostFor(x, f)' = h
          BY <2>3, <2>11, <2>h, <3>2 DEF HostFor
      <4> QED
          BY <4>1, <4>2 DEF Agreed, Placed
    <3>3. CASE f /= e
      <4>1. f.node /= e.node
          BY <2>12, <3>1, <3>3
      <4>2. /\ Agreed(t, f)
            /\ f \in t.todo => Owners(f.node) = {} /\ ~Exists(NameFor(t, f))
            /\ f \notin t.todo => Placed(t, f)
          BY <1>t, <1>p, <2>14, <3>1 DEF Sound
      <4>3. Owners(f.node)' = Owners(f.node) /\ \A k \in Owners(f.node) : host'[k] = host[k]
          BY <2>6, <4>1
      <4>4. Agreed(x, f)'
          BY <2>8, <4>2, <4>3 DEF Agreed
      <4>5. f \notin x.todo => Placed(x, f)'
          BY <2>8, <2>11, <3>3, <4>2, <4>3 DEF Placed
      <4>6. ASSUME f \in x.todo PROVE Owners(f.node)' = {} /\ ~Exists(NameFor(x, f))'
        <5>1. Owners(f.node) = {} /\ ~Exists(NameFor(t, f))
            BY <2>8, <4>2, <4>6
        <5>2. NameFor(t, f) \in HostNames /\ NameFor(t, f) /= h
            BY <1>t, <2>5, <3>1, <4>1, NameForFacts
        <5>3. host'[NameFor(t, f)] = host[NameFor(t, f)]
            BY <2>6, <5>2
        <5> QED
            BY <2>11, <4>3, <5>1, <5>3 DEF Exists
      <4> QED
          BY <4>4, <4>5, <4>6
    <3> QED
        BY <3>2, <3>3
  <2>15. Sound(x)'
      BY <1>p, <2>8, <2>14 DEF Sound, Before
  <2>16. ASSUME Orderly(x)' PROVE Reconciled(x)'
    <3>1. Orderly(t) /\ t.quiet /\ t.whole /\ t.kind = "reconcile"
        BY <1>u, <2>8, <2>16 DEF Orderly
    <3>2. /\ t.listed = Listing /\ Named(t.group) /\ t.blank = {} /\ t.effective = t.group
          /\ \A n \in cluster : fit[n] /= "dark"
          /\ opt.platform = "proxmox" => cluster /= {Conn}
          /\ \A n \in Ready : Entry(n) \in t.nodes \/ Home(t.group, n)
        BY <1>t, <1>p, <3>1 DEF Reconciled, Registering
    <3>3. e.node \in cluster /\ e = Entry(e.node)
        BY <1>t, <2>3, <3>2 DEF Shapely, Listing, Entry
    <3>4. Owners(e.node) = {} /\ Owners(e.node)' = {h} /\ host'[h].group = "none"
        BY <2>13, <3>1, <3>2
    <3>5. h \in Known(t.group, Entry(e.node))
        BY <2>3, <2>5, <3>1, <3>3, KnownFacts DEF JobType
    <3>6. Named(t.group)'
      <4>1. ASSUME NEW n \in cluster, NEW k \in Owners(n)'
            PROVE  k \in Known(t.group, Entry(n))' /\ host'[k].group \in {"none", t.group}
        <5>1. CASE n = e.node
            BY <1>u, <3>4, <3>5, <4>1, <5>1, SameNames
        <5>2. CASE n /= e.node
          <6>1. k \in Owners(n) /\ host'[k] = host[k]
              BY <2>6, <4>1, <5>2
          <6>2. k \in Known(t.group, Entry(n)) /\ host[k].group \in {"none", t.group}
              BY <3>2, <6>1 DEF Named
          <6> QED
              BY <1>u, <6>1, <6>2, SameNames
        <5> QED
            BY <5>1, <5>2
      <4> QED
          BY <1>u, <4>1 DEF Named, Entry
    <3>7. ASSUME NEW n, Home(t.group, n) PROVE Home(t.group, n)'
      <4>1. PICK k \in Owners(n) : k \in HostNames /\ host[k].group = t.group
          BY <3>7 DEF Home, Members
      <4>2. n /= e.node
          BY <3>4, <4>1
      <4>3. k \in Owners(n)' /\ host'[k] = host[k]
          BY <2>6, <4>1, <4>2
      <4> QED
          BY <4>1, <4>3 DEF Home, Members
    <3>8. \A n \in Ready' : Entry(n)' \in x.nodes \/ Home(x.group, n)'
        BY <1>u, <2>8, <3>2, <3>7 DEF Ready, Entry
    <3>9. Listing' = Listing
        BY <1>u DEF Listing, Entry
    <3> QED
        BY <1>u, <1>p, <2>8, <3>2, <3>6, <3>8, <3>9 DEF Reconciled, Settled, Before, Registering, Removal, Entry
  <2>17. Fit(x)'
      BY <2>10, <2>15, <2>16 DEF Fit, Reconciled
  <2>18. CASE host' = host /\ Goes(j, x)
      BY <1>j, <1>u, <2>6, <2>7, <2>17, <2>18, StepKeeps DEF IInv, TypeOK
  <2>19. CASE GoesChanging(j, x)
      BY <1>j, <1>u, <2>6, <2>7, <2>17, <2>19, StepKeeps DEF IInv, TypeOK
  <2>20. CASE GoesChanging(j, failed)
      BY <1>j, <1>u, <2>6, <2>f, <2>20, StepKeeps DEF IInv, TypeOK
  <2> QED
      BY <2>1, <2>18, <2>19, <2>20
<1> QED
    BY <1>1, <1>2, <1>3

\* The group exists; no host changes.
LEMMA CreateGroupKeeps ==
    ASSUME IInv, NEW j \in Jobs, CreateGroup(j)
    PROVE  IInv'
<1>j. /\ starts \in 0..MaxStarts /\ groups \subseteq Groups
    BY JobFacts
<1>t. PICK t \in JobType : t = job[j] /\ Shapely(t) /\ Sound(t) /\ Reconciled(t)
    BY JobFacts
<1>u. UNCHANGED <<opt, host, connGroup, cluster, fit, events, starts>>
    BY DEF CreateGroup, envVars
<1>p. t.pc = "group" /\ t.result = "none" /\ t.effective \in Groups
    BY <1>t DEF CreateGroup, At, Shapely, JobType
<1>1. CASE Raise(j) /\ UNCHANGED groups
    BY <1>1, <1>u, RaiseKeeps
<1>2. CASE ~(Raise(j) /\ UNCHANGED groups)
  <2> DEFINE x == [t EXCEPT !.pc = "add", !.todo = t.nodes]
  <2>1. groups' = groups \union {t.effective} /\ (Goes(j, x) \/ GoesChanging(j, x))
      BY <1>2, <1>t DEF CreateGroup
  <2>2. x \in JobType
      BY DEF JobType
  <2>3. /\ x.pc = "add" /\ x.nodes = t.nodes /\ x.listed = t.listed
        /\ x.kind = t.kind /\ x.group = t.group /\ x.effective = t.effective
        /\ x.blank = t.blank /\ x.todo = t.nodes /\ x.found = t.found /\ x.seen = t.seen
        /\ x.result = t.result /\ x.tidy = t.tidy /\ x.whole = t.whole /\ x.quiet = t.quiet
      BY DEF JobType
  <2> HIDE DEF x
  <2>4. Shapely(x)
      BY <1>t, <1>p, <2>3 DEF Shapely, Before, Registering, Removal, Distinct
  <2>5. \A f : NameFor(x, f) = NameFor(t, f) /\ HostFor(x, f) = HostFor(t, f)
      BY <2>3 DEF NameFor, HostFor
  <2>6. Sound(x)
    <3>1. Live(x) \ x.todo = {} /\ Live(x) = Live(t)
        BY <2>3 DEF Live
    <3> QED
        BY <1>t, <1>p, <2>3, <2>5, <3>1 DEF Sound, Before, Agreed, Placed
  <2>7. Reconciled(x)
      BY <1>t, <1>p, <2>3 DEF Reconciled, Orderly, Settled, Before, Registering, Removal
  <2>8. groups' \subseteq Groups
      BY <1>j, <1>p, <2>1
  <2> QED
      BY <1>j, <1>u, <2>1, <2>2, <2>4, <2>6, <2>7, <2>8, QuietStep DEF Fit
<1> QED
    BY <1>1, <1>2

\* What the membership of the host h changes.
Joins(h, g) ==
    /\ host' \in [HostNames -> HostType] /\ Rooted'
    /\ \A n : Owners(n)' = Owners(n)
    /\ \A k \in HostNames : k /= h => host'[k] = host[k]
    /\ host'[h].group = g

\* What changes when a host's group is set.
LEMMA JoinFacts ==
    ASSUME IInv, NEW h \in HostNames, NEW g \in Groups \union {"none"}, UNCHANGED cluster,
           host' = [host EXCEPT ![h].group = g]
    PROVE  Joins(h, g)
<1>1. host \in [HostNames -> HostType] /\ Rooted
    BY DEF IInv, TypeOK
<1>2. host' = [host EXCEPT ![h] = [host[h] EXCEPT !.group = g]]
    BY <1>1
<1>3. [host[h] EXCEPT !.group = g] \in HostType /\ [host[h] EXCEPT !.group = g].ini = host[h].ini
      /\ [host[h] EXCEPT !.group = g].group = g
    BY <1>1 DEF HostType
<1>4. /\ host' \in [HostNames -> HostType] /\ host'[h].ini = host[h].ini /\ host'[h].group = g
      /\ \A k \in HostNames : k /= h => host'[k] = host[k]
    BY <1>1, <1>2, <1>3
<1>5. Rooted'
    BY <1>1, <1>4, GroupAssumption DEF Rooted
<1>6. ASSUME NEW n PROVE Owners(n)' = Owners(n)
    BY <1>4 DEF Owners
<1> QED
    BY <1>4, <1>5, <1>6 DEF Joins

\* One more host is in the group adopted, or was in it before.
LEMMA AddMemberKeeps ==
    ASSUME IInv, NEW j \in Jobs, AddMember(j)
    PROVE  IInv'
<1>j. /\ starts \in 0..MaxStarts /\ groups \subseteq Groups /\ connGroup \in Groups
      /\ host \in [HostNames -> HostType]
    BY JobFacts
<1>t. PICK t \in JobType : t = job[j] /\ Shapely(t) /\ Sound(t) /\ Reconciled(t)
    BY JobFacts
<1>u. UNCHANGED <<opt, groups, connGroup, cluster, fit, events, starts>>
    BY DEF AddMember, envVars
<1>p. /\ t.pc = "add" /\ t.result = "none" /\ t.todo \subseteq t.nodes /\ t.effective \in Groups
    BY <1>t DEF AddMember, At, Shapely, Registering, JobType
<1>1. CASE Raise(j) /\ UNCHANGED host
    BY <1>1, <1>u, RaiseKeeps
<1>2. CASE t.todo = {} /\ ~(Raise(j) /\ UNCHANGED host)
  <2> DEFINE x == [t EXCEPT !.pc = "registered"]
  <2>1. Goes(j, x) /\ UNCHANGED host
      BY <1>2, <1>t DEF AddMember
  <2>2. x \in JobType
      BY DEF JobType
  <2>3. /\ x.pc = "registered" /\ x.nodes = t.nodes /\ x.listed = t.listed
        /\ x.kind = t.kind /\ x.group = t.group /\ x.effective = t.effective
        /\ x.blank = t.blank /\ x.todo = t.todo /\ x.found = t.found /\ x.seen = t.seen
        /\ x.result = t.result /\ x.tidy = t.tidy /\ x.whole = t.whole /\ x.quiet = t.quiet
      BY DEF JobType
  <2> HIDE DEF x
  <2>4. Shapely(x)
      BY <1>t, <1>p, <1>2, <2>3 DEF Shapely, Before, Registering, Removal, Distinct
  <2>5. \A f : NameFor(x, f) = NameFor(t, f) /\ HostFor(x, f) = HostFor(t, f)
      BY <2>3 DEF NameFor, HostFor
  <2>6. ASSUME t.quiet /\ t.whole, NEW f \in Live(t) PROVE Joined(t, f)
      BY <1>t, <1>p, <1>2, <2>6 DEF Sound
  <2>7. Sound(x)
      BY <1>p, <2>3, <2>5, <2>6 DEF Sound, Before, Live, Joined, Placed
  <2>8. ASSUME Orderly(x) PROVE Reconciled(x)
    <3>1. Orderly(t) /\ t.quiet /\ t.whole
        BY <2>3, <2>8 DEF Orderly
    <3>2. /\ t.blank = {} /\ t.effective = t.group
          /\ \A n \in Ready : Entry(n) \in t.nodes \/ Home(t.group, n)
        BY <1>t, <1>p, <3>1 DEF Reconciled, Registering
    <3>3. ASSUME NEW n \in Ready PROVE Home(t.group, n)
      <4>1. CASE Entry(n) \in t.nodes
        <5>1. Joined(t, Entry(n)) /\ Entry(n).node = n
            BY <2>6, <3>1, <3>2, <4>1 DEF Live, Entry
        <5> QED
            BY <3>2, <5>1 DEF Joined, Placed, Home, Members, Owners
      <4> QED
          BY <3>2, <4>1
    <3> QED
        BY <1>t, <1>p, <2>3, <3>1, <3>3 DEF Reconciled, Settled, Before, Registering, Removal
  <2> QED
      BY <1>j, <1>u, <2>1, <2>2, <2>4, <2>7, <2>8, QuietStep DEF Fit, Reconciled
<1>3. CASE t.todo /= {} /\ ~(Raise(j) /\ UNCHANGED host)
  <2>e. PICK e : e = First(t.todo)
      OBVIOUS
  <2>h. PICK h : h = HostFor(t, e)
      OBVIOUS
  <2>1. e \in t.todo /\ e \in t.nodes /\ e.node \in Nodes
      BY <1>3, <1>p, <2>e, FirstFacts DEF JobType, Entries
  <2>2. h \in HostNames
      BY <1>t, <2>h, <2>1, NameForFacts DEF HostFor, JobType
  <2> DEFINE x == [t EXCEPT !.todo = @ \ {e}]
  <2>3. \/ host[h].group /= "none" /\ Goes(j, x) /\ UNCHANGED host
        \/ host[h].group = "none" /\ GoesChanging(j, x) /\ host' = [host EXCEPT ![h].group = t.effective]
      BY <1>3, <1>t, <2>e, <2>h, OfJob DEF AddMember
  <2>4. x \in JobType
      BY DEF JobType
  <2>5. /\ x.pc = t.pc /\ x.nodes = t.nodes /\ x.listed = t.listed
        /\ x.kind = t.kind /\ x.group = t.group /\ x.effective = t.effective
        /\ x.blank = t.blank /\ x.todo = t.todo \ {e} /\ x.found = t.found /\ x.seen = t.seen
        /\ x.result = t.result /\ x.tidy = t.tidy /\ x.whole = t.whole /\ x.quiet = t.quiet
      BY DEF JobType
  <2> HIDE DEF x
  <2>6. Shapely(x)
      BY <1>t, <1>p, <2>5 DEF Shapely, Before, Registering, Removal, Distinct
  <2>7. \A f : NameFor(x, f) = NameFor(t, f) /\ HostFor(x, f) = HostFor(t, f)
      BY <2>5 DEF NameFor, HostFor
  <2>8. ASSUME t.quiet /\ t.whole, NEW f \in Live(t)
        PROVE  Agreed(t, f) /\ Placed(t, f) /\ (f \notin t.todo => Joined(t, f))
      BY <1>t, <1>p, <2>8 DEF Sound
  <2>9. CASE host[h].group /= "none" /\ Goes(j, x) /\ UNCHANGED host
    <3>1. ASSUME t.quiet /\ t.whole, e \in Live(t) PROVE Joined(t, e)
        BY <2>h, <2>8, <2>9, <3>1 DEF Joined, Placed, Agreed
    <3>2. Sound(x)
        BY <1>t, <1>p, <2>5, <2>7, <2>8, <3>1 DEF Sound, Before, Live, Joined, Placed, Agreed
    <3>3. Reconciled(x)
        BY <1>t, <1>p, <2>5 DEF Reconciled, Orderly, Settled, Before, Registering, Removal
    <3> QED
        BY <1>j, <1>u, <2>4, <2>6, <2>9, <3>2, <3>3, QuietStep DEF Fit
  <2>10. CASE host[h].group = "none" /\ GoesChanging(j, x) /\ host' = [host EXCEPT ![h].group = t.effective]
    <3>1. Joins(h, t.effective)
        BY <1>u, <1>p, <2>2, <2>10, JoinFacts
    <3>2. /\ host' \in [HostNames -> HostType] /\ Rooted'
          /\ \A n : Owners(n)' = Owners(n)
          /\ \A k \in HostNames : k /= h => host'[k] = host[k]
          /\ host'[h].group = t.effective
        BY <3>1 DEF Joins
    <3>3. \A k \in HostNames : host[k].group = t.effective => host'[k].group = t.effective
        BY <3>2
    <3>4. \A f : NameFor(x, f)' = NameFor(t, f) /\ HostFor(x, f)' = HostFor(t, f)
        BY <1>u, <2>7, SameNames
    <3>5. ASSUME t.quiet /\ t.whole, NEW f \in Live(x)
          PROVE  Agreed(x, f)' /\ Placed(x, f)' /\ (f \notin x.todo => Joined(x, f)')
      <4>1. f \in Live(t) /\ (f \notin x.todo => f = e \/ f \notin t.todo)
          BY <2>5 DEF Live
      <4>2. Agreed(x, f)'
          BY <2>5, <2>8, <3>2, <3>5, <4>1 DEF Agreed, Owners
      <4>3. Placed(x, f)'
          BY <2>8, <3>2, <3>4, <3>5, <4>1 DEF Placed
      <4>4. ASSUME f \notin x.todo PROVE Joined(x, f)'
        <5>1. CASE f = e
            BY <2>5, <2>h, <3>2, <3>4, <4>3, <5>1 DEF Joined
        <5>2. CASE f /= e
          <6>1. Joined(t, f)
              BY <2>8, <3>5, <4>1, <4>4, <5>2
          <6> QED
              BY <2>5, <3>3, <3>4, <4>3, <6>1 DEF Joined, Placed, Owners
        <5> QED
            BY <5>1, <5>2
      <4> QED
          BY <4>2, <4>3, <4>4
    <3>6. Sound(x)'
        BY <1>p, <2>5, <3>5 DEF Sound, Before, Live
    <3>7. ASSUME Orderly(x)' PROVE Reconciled(x)'
      <4>1. Orderly(t)
          BY <1>u, <2>5, <3>7 DEF Orderly
      <4>2. /\ t.listed = Listing /\ Named(t.group) /\ t.blank = {} /\ t.effective = t.group
            /\ \A n \in cluster : fit[n] /= "dark"
            /\ opt.platform = "proxmox" => cluster /= {Conn}
            /\ \A n \in Ready : Entry(n) \in t.nodes \/ Home(t.group, n)
          BY <1>t, <1>p, <4>1 DEF Reconciled, Registering
      <4>3. ASSUME NEW n, Home(t.group, n) PROVE Home(t.group, n)'
        <5>1. PICK k \in Owners(n) : k \in HostNames /\ host[k].group = t.group
            BY <4>3 DEF Home, Members
        <5> QED
            BY <3>2, <3>3, <4>2, <5>1 DEF Home, Members
      <4>4. ASSUME NEW n \in cluster, NEW k \in Owners(n)
            PROVE  k \in Known(t.group, Entry(n))' /\ host'[k].group \in {"none", t.group}
        <5>1. k \in Known(t.group, Entry(n)) /\ host[k].group \in {"none", t.group} /\ k \in HostNames
            BY <4>2, <4>4 DEF Named, Owners
        <5> QED
            BY <1>u, <3>2, <4>2, <5>1, SameNames
      <4>5. Named(t.group)'
          BY <1>u, <3>2, <4>4 DEF Named, Entry
      <4>6. \A n \in Ready' : Entry(n)' \in x.nodes \/ Home(x.group, n)'
          BY <1>u, <2>5, <4>2, <4>3 DEF Ready, Entry
      <4>7. Listing' = Listing
          BY <1>u DEF Listing, Entry
      <4> QED
          BY <1>u, <1>p, <2>5, <4>2, <4>5, <4>6, <4>7 DEF Reconciled, Settled, Before, Registering, Removal, Entry
    <3>8. Fit(x)'
        BY <1>u, <2>6, <3>6, <3>7, SameNames DEF Fit, Reconciled
    <3> QED
        BY <1>j, <1>u, <2>4, <2>10, <3>2, <3>8, StepKeeps DEF IInv, TypeOK
  <2> QED
      BY <2>3, <2>9, <2>10
<1> QED
    BY <1>1, <1>2, <1>3

\* The connection takes the name of the group the nodes are in.
LEMMA RegisteredKeeps ==
    ASSUME IInv, NEW j \in Jobs, Registered(j)
    PROVE  IInv'
<1>j. /\ starts \in 0..MaxStarts /\ groups \subseteq Groups
    BY JobFacts
<1>t. PICK t \in JobType : t = job[j] /\ Shapely(t) /\ Sound(t) /\ Reconciled(t)
    BY JobFacts
<1>u. UNCHANGED <<opt, host, groups, cluster, fit, events, starts>>
    BY DEF Registered, arrayVars, envVars
<1>p. t.pc = "registered" /\ t.result = "none" /\ t.effective \in Groups
    BY <1>t DEF Registered, At, Shapely, JobType
<1>1. CASE Raise(j) /\ UNCHANGED connGroup
    BY <1>1, <1>u, RaiseKeeps
<1>2. CASE t.kind = "register" /\ ~(Raise(j) /\ UNCHANGED connGroup)
  <2> DEFINE x == [t EXCEPT !.pc = "done", !.result = "ok"]
  <2>1. /\ connGroup' = t.effective
        /\ (Goes(j, x) /\ UNCHANGED connGroup) \/ GoesChanging(j, x)
      BY <1>2, <1>t DEF Registered
  <2>2. x \in JobType
      BY DEF JobType
  <2>3. /\ x.pc = "done" /\ x.nodes = t.nodes /\ x.listed = t.listed
        /\ x.kind = t.kind /\ x.group = t.group /\ x.effective = t.effective
        /\ x.blank = t.blank /\ x.todo = t.todo /\ x.found = t.found /\ x.seen = t.seen
        /\ x.result = "ok" /\ x.tidy = t.tidy /\ x.whole = t.whole /\ x.quiet = t.quiet
      BY DEF JobType
  <2> HIDE DEF x
  <2>4. Shapely(x)'
    <3>1. Shapely(x)
        BY <1>t, <1>p, <1>2, <2>3 DEF Shapely, Before, Registering, Removal, Distinct
    <3> QED
        BY <1>u, <3>1, SameNames
  <2>5. ASSUME t.quiet /\ t.whole, NEW f \in Live(t)
        PROVE  \E k \in Owners(f.node)' : host'[k].group = connGroup'
    <3>1. Joined(t, f)
        BY <1>t, <1>p, <1>2, <2>5 DEF Sound
    <3>2. Owners(f.node)' = Owners(f.node)
        BY <1>u DEF Owners
    <3> QED
        BY <1>u, <2>1, <3>1, <3>2 DEF Joined, Placed
  <2>6. Sound(x)'
      BY <1>p, <2>3, <2>5 DEF Sound, Before, Live
  <2>7. Reconciled(x)'
      BY <1>2, <2>3 DEF Reconciled, Orderly
  <2>8. host' \in [HostNames -> HostType] /\ Rooted' /\ connGroup' \in Groups
      BY <1>u, <1>p, <2>1 DEF IInv, TypeOK, Rooted
  <2>9. groups' \subseteq Groups /\ starts' \in 0..MaxStarts /\ events' \in 0..MaxEvents
      BY <1>u DEF IInv, TypeOK
  <2>10. CASE Goes(j, x) /\ UNCHANGED connGroup
      BY <1>u, <2>2, <2>4, <2>6, <2>7, <2>8, <2>9, <2>10, StepKeeps DEF Fit
  <2>11. CASE GoesChanging(j, x)
      BY <1>u, <2>2, <2>4, <2>6, <2>7, <2>8, <2>9, <2>11, StepKeeps DEF Fit
  <2> QED
      BY <2>1, <2>10, <2>11
<1>3. CASE t.kind /= "register" /\ ~(Raise(j) /\ UNCHANGED connGroup)
  <2>p. PICK p \in {"lastList", "prune"} : p = IF opt.platform = "hpevme" THEN "lastList" ELSE "prune"
      OBVIOUS
  <2> DEFINE x == [t EXCEPT !.pc = p]
  <2>1. Goes(j, x) /\ UNCHANGED connGroup
      BY <1>3, <1>t, <2>p DEF Registered
  <2>2. x \in JobType
      BY DEF JobType
  <2>3. /\ x.pc = p /\ x.nodes = t.nodes /\ x.listed = t.listed
        /\ x.kind = t.kind /\ x.group = t.group /\ x.effective = t.effective
        /\ x.blank = t.blank /\ x.todo = t.todo /\ x.found = t.found /\ x.seen = t.seen
        /\ x.result = t.result /\ x.tidy = t.tidy /\ x.whole = t.whole /\ x.quiet = t.quiet
      BY DEF JobType
  <2> HIDE DEF x
  <2>4. Shapely(x)
      BY <1>t, <1>p, <1>3, <2>3 DEF Shapely, Before, Registering, Removal, Distinct
  <2>5. Sound(x)
      BY <1>t, <1>p, <1>3, <2>3 DEF Sound, Before
  <2>6. Reconciled(x)
      BY <1>t, <1>p, <2>3 DEF Reconciled, Orderly, Settled, Before, Registering, Removal
  <2> QED
      BY <1>j, <1>u, <2>1, <2>2, <2>4, <2>5, <2>6, QuietStep DEF Fit
<1> QED
    BY <1>1, <1>2, <1>3

\* The hosts to be removed are under names that no listed node could have.
LEMMA PruneKeeps ==
    ASSUME IInv, NEW j \in Jobs, Prune(j)
    PROVE  IInv'
<1>j. /\ starts \in 0..MaxStarts /\ groups \subseteq Groups
    BY JobFacts
<1>t. PICK t \in JobType : t = job[j] /\ Shapely(t) /\ Sound(t) /\ Reconciled(t)
    BY JobFacts
<1>u. UNCHANGED <<opt, host, groups, connGroup, cluster, fit, events, starts>>
    BY DEF Prune, arrayVars, envVars
<1>p. t.pc = "prune" /\ t.result = "none" /\ t.kind = "reconcile"
    BY <1>t DEF Prune, At, Shapely, JobType
<1>1. CASE Raise(j)
    BY <1>1, <1>u, RaiseKeeps
<1>2. CASE ~Raise(j) /\ t.removals
  <2> DEFINE D == Members(t.group) \ Spared(t.group, t.listed)
             x == [t EXCEPT !.doomed = D, !.pc = "remove"]
  <2>1. Goes(j, x)
      BY <1>2, <1>t, OfJob DEF Prune
  <2>2. D \in SUBSET HostNames /\ D \intersect Spared(t.group, t.listed) = {}
        /\ Members(t.group) \subseteq Spared(t.group, t.listed) \union D
      BY DEF Members
  <2> HIDE DEF D
  <2>3. x \in JobType
      BY <2>2 DEF JobType
  <2>4. /\ x.pc = "remove" /\ x.nodes = t.nodes /\ x.listed = t.listed
        /\ x.kind = t.kind /\ x.group = t.group /\ x.removals = t.removals /\ x.doomed = D
        /\ x.blank = t.blank /\ x.todo = t.todo /\ x.found = t.found /\ x.seen = t.seen
        /\ x.result = t.result /\ x.tidy = t.tidy /\ x.whole = t.whole /\ x.quiet = t.quiet
      BY DEF JobType
  <2> HIDE DEF x
  <2>5. Shapely(x)
      BY <1>t, <1>p, <1>2, <2>2, <2>4 DEF Shapely, Before, Registering, Removal, Distinct
  <2>6. Sound(x)
      BY <1>p, <2>4 DEF Sound, Before
  <2>7. Reconciled(x)
      BY <1>t, <1>p, <2>2, <2>4 DEF Reconciled, Orderly, Settled, Before, Registering, Removal
  <2> QED
      BY <1>j, <1>u, <2>1, <2>3, <2>5, <2>6, <2>7, QuietStep DEF Fit
<1>3. CASE ~Raise(j) /\ ~t.removals
  <2> DEFINE x == [t EXCEPT !.pc = "done", !.result = "ok"]
  <2>1. Goes(j, x)
      BY <1>3, <1>t DEF Prune
  <2>2. x \in JobType
      BY DEF JobType
  <2>3. /\ x.pc = "done" /\ x.nodes = t.nodes /\ x.listed = t.listed
        /\ x.kind = t.kind /\ x.group = t.group /\ x.removals = t.removals
        /\ x.result = "ok" /\ x.tidy = t.tidy /\ x.whole = t.whole /\ x.quiet = t.quiet
      BY DEF JobType
  <2> HIDE DEF x
  <2>4. Shapely(x)
      BY <1>t, <1>p, <2>3 DEF Shapely, Before, Registering, Removal, Distinct
  <2>5. Sound(x)
      BY <1>p, <2>3 DEF Sound, Before
  <2>6. Reconciled(x)
      BY <1>t, <1>p, <1>3, <2>3 DEF Reconciled, Orderly, Settled, Before, Registering, Removal
  <2> QED
      BY <1>j, <1>u, <2>1, <2>2, <2>4, <2>5, <2>6, QuietStep DEF Fit
<1> QED
    BY <1>1, <1>2, <1>3

\* A reconciliation may lose a host that is not of a node of its list.
LEMMA LossKeeps ==
    ASSUME IInv, NEW t \in JobType, Reconciled(t), Orderly(t), t.pc \in Removal,
           NEW h \in HostNames, h \notin Spared(t.group, t.listed),
           UNCHANGED <<opt, cluster, fit>>,
           \A k \in HostNames : k /= h => host'[k] = host[k],
           host'[h].group \in {"none", "absent"}, host'[h].ini \subseteq host[h].ini,
           host'[h].group = "absent" => host'[h].ini = {}
    PROVE  /\ Named(t.group)' /\ \A n \in Ready' : Home(t.group, n)'
           /\ Members(t.group)' \subseteq Members(t.group) \ {h}
           /\ t.listed = Listing' /\ Listing' = Listing
           /\ \A n \in cluster' : fit'[n] /= "dark"
           /\ opt'.platform = "proxmox" => cluster' /= {Conn}
<1>1. /\ t.listed = Listing /\ Named(t.group) /\ \A n \in Ready : Home(t.group, n)
      /\ \A n \in cluster : fit[n] /= "dark"
      /\ opt.platform = "proxmox" => cluster /= {Conn}
    BY DEF Reconciled, Settled, Removal
<1>2. Listing' = Listing /\ Ready' = Ready
    BY DEF Listing, Ready, Entry
<1>3. t.group \in Groups /\ t.group \notin {"none", "absent"}
    BY GroupAssumption DEF JobType
<1>4. \A n \in cluster : h \notin Owners(n)
  <2>1. SUFFICES ASSUME NEW n \in cluster, h \in Owners(n) PROVE FALSE
      OBVIOUS
  <2>2. h \in Known(t.group, Entry(n)) /\ Entry(n) \in t.listed
      BY <1>1, <2>1 DEF Named, Listing
  <2> QED
      BY <2>2 DEF Spared
<1>5. \A n \in cluster : Owners(n)' = Owners(n)
  <2>1. ASSUME NEW n \in cluster PROVE Owners(n)' = Owners(n)
    <3>1. \A k \in HostNames : n \in host'[k].ini <=> n \in host[k].ini
        BY <1>4 DEF Owners
    <3> QED
        BY <3>1 DEF Owners
  <2> QED
      BY <2>1
<1>6. Named(t.group)'
  <2>1. ASSUME NEW n \in cluster, NEW k \in Owners(n)
        PROVE  k \in Known(t.group, Entry(n))' /\ host'[k].group \in {"none", t.group}
    <3>1. k \in Known(t.group, Entry(n)) /\ host[k].group \in {"none", t.group} /\ k \in HostNames /\ k /= h
        BY <1>1, <1>4 DEF Named, Owners
    <3> QED
        BY <3>1, SameNames
  <2> QED
      BY <1>5, <2>1 DEF Named, Entry
<1>7. Members(t.group)' \subseteq Members(t.group) \ {h}
    BY <1>3 DEF Members
<1>8. ASSUME NEW n \in Ready PROVE Home(t.group, n)'
  <2>1. n \in cluster
      BY DEF Ready
  <2>2. PICK k \in Owners(n) : k \in HostNames /\ host[k].group = t.group
      BY <1>1 DEF Home, Members
  <2>3. k /= h /\ host'[k] = host[k] /\ k \in Owners(n)'
      BY <1>4, <1>5, <2>1, <2>2
  <2> QED
      BY <2>2, <2>3 DEF Home, Members
<1> QED
    BY <1>1, <1>2, <1>6, <1>7, <1>8

\* A doomed host leaves the group; the others stay.
LEMMA RemoveMemberKeeps ==
    ASSUME IInv, NEW j \in Jobs, RemoveMember(j)
    PROVE  IInv'
<1>j. /\ starts \in 0..MaxStarts /\ groups \subseteq Groups /\ connGroup \in Groups
      /\ host \in [HostNames -> HostType]
    BY JobFacts
<1>t. PICK t \in JobType : t = job[j] /\ Shapely(t) /\ Sound(t) /\ Reconciled(t)
    BY JobFacts
<1>u. UNCHANGED <<opt, groups, connGroup, cluster, fit, events, starts>>
    BY DEF RemoveMember, envVars
<1>p. t.pc = "remove" /\ t.result = "none" /\ t.kind = "reconcile" /\ t.removals
      /\ t.doomed \in SUBSET HostNames /\ t.group \in Groups
    BY <1>t DEF RemoveMember, At, Shapely, JobType, Removal
<1>1. CASE Raise(j) /\ UNCHANGED host
    BY <1>1, <1>u, RaiseKeeps
<1>2. CASE t.doomed = {} /\ ~(Raise(j) /\ UNCHANGED host)
  <2> DEFINE x == [t EXCEPT !.pc = "done", !.result = "ok"]
  <2>1. Goes(j, x) /\ UNCHANGED host
      BY <1>2, <1>t DEF RemoveMember
  <2>2. x \in JobType
      BY DEF JobType
  <2>3. /\ x.pc = "done" /\ x.nodes = t.nodes /\ x.listed = t.listed
        /\ x.kind = t.kind /\ x.group = t.group /\ x.removals = t.removals
        /\ x.result = "ok" /\ x.tidy = t.tidy /\ x.whole = t.whole /\ x.quiet = t.quiet
      BY DEF JobType
  <2> HIDE DEF x
  <2>4. Shapely(x)
      BY <1>t, <1>p, <2>3 DEF Shapely, Before, Registering, Removal, Distinct
  <2>5. Sound(x)
      BY <1>p, <2>3 DEF Sound, Before
  <2>6. Reconciled(x)
      BY <1>t, <1>p, <1>2, <2>3 DEF Reconciled, Orderly, Settled, Before, Registering, Removal
  <2> QED
      BY <1>j, <1>u, <2>1, <2>2, <2>4, <2>5, <2>6, QuietStep DEF Fit
<1>3. CASE t.doomed /= {} /\ ~(Raise(j) /\ UNCHANGED host)
  <2>1. PICK h \in t.doomed :
          /\ host[h].group = t.group
          /\ host' = [host EXCEPT ![h].group = "none"]
          /\ GoesChanging(j, [t EXCEPT !.doomed = @ \ {h}, !.victim = {h}, !.pc = "delete"])
      BY <1>3, <1>t DEF RemoveMember
  <2> DEFINE x == [t EXCEPT !.doomed = @ \ {h}, !.victim = {h}, !.pc = "delete"]
  <2>2. x \in JobType
      BY <1>p DEF JobType
  <2>3. /\ x.pc = "delete" /\ x.nodes = t.nodes /\ x.listed = t.listed
        /\ x.kind = t.kind /\ x.group = t.group /\ x.removals = t.removals
        /\ x.doomed = t.doomed \ {h} /\ x.victim = {h}
        /\ x.result = t.result /\ x.tidy = t.tidy /\ x.whole = t.whole /\ x.quiet = t.quiet
      BY DEF JobType
  <2>4. GoesChanging(j, x)
      BY <2>1
  <2> HIDE DEF x
  <2>5. Joins(h, "none")
      BY <1>u, <1>p, <2>1, JoinFacts
  <2>6. /\ host' \in [HostNames -> HostType] /\ Rooted'
        /\ \A n : Owners(n)' = Owners(n)
        /\ \A k \in HostNames : k /= h => host'[k] = host[k]
        /\ host'[h].group = "none"
      BY <2>5 DEF Joins
  <2>7. h \in HostNames /\ h \notin Spared(t.group, t.listed)
      BY <1>t, <1>p, <2>1 DEF Shapely, Removal
  <2>8. Shapely(x)'
    <3>1. Shapely(x)
        BY <1>t, <1>p, <2>3, <2>7 DEF Shapely, Before, Registering, Removal, Distinct
    <3> QED
        BY <1>u, <3>1, SameNames
  <2>9. Sound(x)'
      BY <1>p, <2>3 DEF Sound, Before
  <2>10. ASSUME Orderly(x)' PROVE Reconciled(x)'
    <3>1. Orderly(t)
        BY <1>u, <2>3, <2>10 DEF Orderly
    <3>2. host'[h].ini \subseteq host[h].ini
        BY <1>j, <1>p, <2>1 DEF HostType
    <3>3. /\ Named(t.group)' /\ \A n \in Ready' : Home(t.group, n)'
          /\ Members(t.group)' \subseteq Members(t.group) \ {h}
          /\ t.listed = Listing' /\ Listing' = Listing
          /\ \A n \in cluster' : fit'[n] /= "dark"
          /\ opt'.platform = "proxmox" => cluster' /= {Conn}
      <4>1. t.pc \in Removal /\ UNCHANGED <<opt, cluster, fit>>
          BY <1>u, <1>p DEF Removal
      <4> QED
          BY <1>t, <2>6, <2>7, <3>1, <3>2, <4>1, LossKeeps
    <3>4. Members(t.group) \subseteq Spared(t.group, Listing) \union t.doomed
        BY <1>t, <1>p, <3>1 DEF Reconciled, Removal
    <3>5. Members(t.group)' \subseteq Spared(t.group, Listing)' \union x.doomed
      <4>1. Spared(t.group, Listing)' = Spared(t.group, Listing)
        <5>1. PICK L : L = Listing
            OBVIOUS
        <5>2. Spared(t.group, L)' = Spared(t.group, L)
            BY <1>u, SameNames
        <5> QED
            BY <3>3, <5>1, <5>2
      <4> QED
          BY <2>3, <3>3, <3>4, <4>1
    <3> QED
        BY <1>p, <2>3, <3>3, <3>5 DEF Reconciled, Settled, Before, Registering, Removal
  <2>11. Fit(x)'
      BY <2>8, <2>9, <2>10 DEF Fit, Reconciled
  <2> QED
      BY <1>j, <1>u, <2>2, <2>4, <2>6, <2>11, StepKeeps DEF IInv, TypeOK
<1> QED
    BY <1>1, <1>2, <1>3

\* The host that left the group is deleted: it holds no listed node's initiators, for
\* a conventional cluster.
LEMMA DeleteHostKeeps ==
    ASSUME IInv, NEW j \in Jobs, DeleteHost(j)
    PROVE  IInv'
<1>j. /\ starts \in 0..MaxStarts /\ groups \subseteq Groups /\ connGroup \in Groups
      /\ host \in [HostNames -> HostType]
    BY JobFacts
<1>t. PICK t \in JobType : t = job[j] /\ Shapely(t) /\ Sound(t) /\ Reconciled(t)
    BY JobFacts
<1>u. UNCHANGED <<opt, groups, connGroup, cluster, fit, events, starts>>
    BY DEF DeleteHost, envVars
<1>p. t.pc = "delete" /\ t.result = "none" /\ t.kind = "reconcile" /\ t.removals
      /\ t.victim \in SUBSET HostNames /\ t.group \in Groups
    BY <1>t DEF DeleteHost, At, Shapely, JobType, Removal
<1>1. CASE Raise(j) /\ UNCHANGED host
    BY <1>1, <1>u, RaiseKeeps
<1>2. CASE ~(Raise(j) /\ UNCHANGED host)
  <2>1. PICK h \in t.victim :
          /\ host' = [host EXCEPT ![h] = Absent]
          /\ GoesChanging(j, [t EXCEPT !.victim = {}, !.pc = "remove"])
      BY <1>2, <1>t DEF DeleteHost
  <2> DEFINE x == [t EXCEPT !.victim = {}, !.pc = "remove"]
  <2>2. x \in JobType
      BY DEF JobType
  <2>3. /\ x.pc = "remove" /\ x.nodes = t.nodes /\ x.listed = t.listed
        /\ x.kind = t.kind /\ x.group = t.group /\ x.removals = t.removals
        /\ x.doomed = t.doomed
        /\ x.result = t.result /\ x.tidy = t.tidy /\ x.whole = t.whole /\ x.quiet = t.quiet
      BY DEF JobType
  <2>4. GoesChanging(j, x)
      BY <2>1
  <2> HIDE DEF x
  <2>5. h \in HostNames /\ h \notin Spared(t.group, t.listed)
      BY <1>t, <1>p, <2>1 DEF Shapely
  <2>6. /\ host' \in [HostNames -> HostType]
        /\ \A k \in HostNames : k /= h => host'[k] = host[k]
        /\ host'[h].group = "absent" /\ host'[h].ini = {}
      BY <1>j, <2>1, <2>5 DEF HostType, Absent
  <2>7. Rooted'
      BY <1>u, <2>6 DEF IInv, Rooted
  <2>8. Shapely(x)'
    <3>1. Shapely(x)
        BY <1>t, <1>p, <2>3 DEF Shapely, Before, Registering, Removal, Distinct
    <3> QED
        BY <1>u, <3>1, SameNames
  <2>9. Sound(x)'
      BY <1>p, <2>3 DEF Sound, Before
  <2>10. ASSUME Orderly(x)' PROVE Reconciled(x)'
    <3>1. Orderly(t)
        BY <1>u, <2>3, <2>10 DEF Orderly
    <3>2. t.pc \in Removal /\ UNCHANGED <<opt, cluster, fit>> /\ host'[h].ini \subseteq host[h].ini
        BY <1>u, <1>p, <2>6 DEF Removal
    <3>3. /\ Named(t.group)' /\ \A n \in Ready' : Home(t.group, n)'
          /\ Members(t.group)' \subseteq Members(t.group) \ {h}
          /\ t.listed = Listing' /\ Listing' = Listing
          /\ \A n \in cluster' : fit'[n] /= "dark"
          /\ opt'.platform = "proxmox" => cluster' /= {Conn}
        BY <1>t, <2>5, <2>6, <3>1, <3>2, LossKeeps
    <3>4. Members(t.group) \subseteq Spared(t.group, Listing) \union t.doomed
        BY <1>t, <1>p, <3>1 DEF Reconciled, Removal
    <3>5. Members(t.group)' \subseteq Spared(t.group, Listing)' \union x.doomed
      <4>1. Spared(t.group, Listing)' = Spared(t.group, Listing)
        <5>1. PICK L : L = Listing
            OBVIOUS
        <5>2. Spared(t.group, L)' = Spared(t.group, L)
            BY <1>u, SameNames
        <5> QED
            BY <3>3, <5>1, <5>2
      <4> QED
          BY <2>3, <3>3, <3>4, <4>1
    <3> QED
        BY <1>p, <2>3, <3>3, <3>5 DEF Reconciled, Settled, Before, Registering, Removal
  <2>11. Fit(x)'
      BY <2>8, <2>9, <2>10 DEF Fit, Reconciled
  <2> QED
      BY <1>j, <1>u, <2>2, <2>4, <2>6, <2>7, <2>11, StepKeeps DEF IInv, TypeOK
<1> QED
    BY <1>1, <1>2

\* What others do disturbs every job.
LEMMA DisturbKeeps ==
    ASSUME IInv, Disturb, UNCHANGED <<opt, groups, connGroup, starts>>,
           host' \in [HostNames -> HostType], cluster' \subseteq Nodes, fit' \in [Nodes -> Fitness],
           Rooted'
    PROVE  IInv'
<1>1. events' \in 0..MaxEvents /\ job' = [j \in Jobs |-> Disturbed(job[j])]
    BY SizeAssumption DEF Disturb, Disturbed, IInv, TypeOK
<1>2. ASSUME NEW j \in Jobs PROVE job'[j] \in JobType /\ Fit(job[j])'
  <2>1. PICK t \in JobType : t = job[j] /\ Shapely(t)
      BY JobFacts
  <2>2. Disturbed(t) \in JobType /\ Fit(Disturbed(t))'
      BY <2>1, DisturbedFits
  <2>3. job'[j] = Disturbed(t)
      BY <1>1, <2>1
  <2> QED
      BY <2>2, <2>3
<1>3. TypeOK'
    BY <1>1, <1>2 DEF IInv, TypeOK
<1> QED
    BY <1>2, <1>3 DEF IInv, AllFit

\* The cluster, the nodes and the administrator disturb every job and unroot no host.
LEMMA OthersKeep ==
    ASSUME IInv, ClusterChanges \/ NodeChanges \/ AdministratorAddsHost
    PROVE  IInv'
<1>t. /\ host \in [HostNames -> HostType] /\ cluster \subseteq Nodes /\ fit \in [Nodes -> Fitness]
      /\ groups \subseteq Groups /\ Rooted
    BY DEF IInv, TypeOK
<1>1. CASE ClusterChanges
  <2>1. Disturb /\ UNCHANGED <<opt, groups, connGroup, starts, host, fit>>
      BY <1>1 DEF ClusterChanges, arrayVars
  <2>2. cluster' \subseteq Nodes /\ Conn \in cluster'
      BY <1>t, <1>1 DEF ClusterChanges, Rooted
  <2>3. Rooted'
      BY <1>t, <2>1, <2>2 DEF Rooted
  <2> QED
      BY <1>t, <2>1, <2>2, <2>3, DisturbKeeps
<1>2. CASE NodeChanges
  <2>1. Disturb /\ UNCHANGED <<opt, groups, connGroup, starts, host, cluster>>
      BY <1>2 DEF NodeChanges, arrayVars
  <2>2. fit' \in [Nodes -> Fitness]
      BY <1>t, <1>2 DEF NodeChanges
  <2>3. Rooted'
      BY <1>t, <2>1 DEF Rooted
  <2> QED
      BY <1>t, <2>1, <2>2, <2>3, DisturbKeeps
<1>3. CASE AdministratorAddsHost
  <2>1. Disturb /\ UNCHANGED <<opt, groups, connGroup, starts, cluster, fit>>
      BY <1>3 DEF AdministratorAddsHost
  <2>2. PICK n \in Nodes, g \in groups \union {"none"} :
            host' = [host EXCEPT ![OtherName(n)] = [ini |-> {n}, group |-> g]]
      BY <1>3 DEF AdministratorAddsHost
  <2>3. OtherName(n) \in HostNames /\ NodeOf(OtherName(n)) = n
      BY NameFacts
  <2>4. [ini |-> {n}, group |-> g] \in HostType /\ g /= "absent"
      BY <1>t, GroupAssumption DEF HostType
  <2>5. host' \in [HostNames -> HostType]
      BY <1>t, <2>2, <2>4
  <2>6. Rooted'
      BY <1>t, <2>1, <2>2, <2>3, <2>4 DEF Rooted
  <2> QED
      BY <1>t, <2>1, <2>5, <2>6, DisturbKeeps
<1> QED
    BY <1>1, <1>2, <1>3

\* Whatever hosts an array holds at the start, each is made for one node.
LEMMA InitHolds ==
    ASSUME Init
    PROVE  IInv
<1>1. /\ opt \in Options /\ connGroup = Typed /\ Typed \in Groups
      /\ cluster \subseteq Nodes /\ Conn \in cluster /\ fit \in [Nodes -> Fitness]
      /\ groups \subseteq Groups /\ job = [j \in Jobs |-> Idle(connGroup)]
      /\ starts = 0 /\ events = 0
    BY GroupAssumption DEF Init
<1>2. PICK at \in [Nodes -> [name: {"own", "single", "other"}, group: groups \union {"none", "absent"}]] :
         /\ \A n \in Nodes : at[n].name = "single" => n = Conn /\ opt.platform /= "proxmox"
         /\ host = [h \in HostNames |->
               LET here == {n \in Nodes : at[n].group /= "absent" /\ h = InitialName(at[n].name, n)}
               IN  IF here = {} THEN Absent
                   ELSE [ini |-> here, group |-> at[CHOOSE n \in here : TRUE].group]]
    BY DEF Init
<1> DEFINE Here(h) == {n \in Nodes : at[n].group /= "absent" /\ h = InitialName(at[n].name, n)}
<1>3. ASSUME NEW n \in Nodes PROVE NodeOf(InitialName(at[n].name, n)) = n
  <2>1. [label |-> "name", node |-> n] \in Entries /\ [label |-> "name", node |-> n].node = n
      BY DEF Entries
  <2>2. NodeOf(ClusterName(connGroup, [label |-> "name", node |-> n])) = n
      BY <1>1, <2>1, NameFacts DEF ClusterName
  <2>3. NodeOf(SingleName(connGroup)) = Conn /\ NodeOf(OtherName(n)) = n
      BY <1>1, NameFacts
  <2>4. at[n].name \in {"own", "single", "other"} /\ (at[n].name = "single" => n = Conn)
      BY <1>2
  <2>5. CASE at[n].name = "own"
      BY <2>2, <2>5 DEF InitialName
  <2>6. CASE at[n].name = "single"
      BY <2>3, <2>4, <2>6 DEF InitialName
  <2>7. CASE at[n].name = "other"
      BY <2>3, <2>7 DEF InitialName
  <2> QED
      BY <2>4, <2>5, <2>6, <2>7
<1>4. ASSUME NEW h \in HostNames
      PROVE  /\ host[h] \in HostType /\ host[h].ini \subseteq {NodeOf(h)}
             /\ host[h].group = "absent" => host[h].ini = {}
  <2>1. Here(h) \in SUBSET Nodes /\ Here(h) \subseteq {NodeOf(h)}
      BY <1>3
  <2>2. \A n \in Here(h) : at[n].group \in Groups \union {"none"}
      BY <1>1, <1>2
  <2>3. host[h] = IF Here(h) = {} THEN Absent
                  ELSE [ini |-> Here(h), group |-> at[CHOOSE n \in Here(h) : TRUE].group]
      BY <1>2
  <2> HIDE DEF Here
  <2>4. CASE Here(h) = {}
      BY <2>3, <2>4 DEF Absent, HostType
  <2>5. CASE Here(h) /= {}
    <3>1. (CHOOSE n \in Here(h) : TRUE) \in Here(h)
        BY <2>5
    <3>2. at[CHOOSE n \in Here(h) : TRUE].group \in Groups \union {"none"}
        BY <2>2, <3>1
    <3> QED
        BY <2>1, <2>3, <2>5, <3>2, GroupAssumption DEF HostType
  <2> QED
      BY <2>4, <2>5
<1>5. host \in [HostNames -> HostType]
  <2>1. host = [h \in HostNames |-> host[h]]
      BY <1>2
  <2> QED
      BY <1>4, <2>1
<1>6. Rooted
    BY <1>1, <1>4 DEF Rooted
<1>7. PICK t \in JobType : t = Idle(connGroup) /\ Fit(t)
    BY <1>1, AtRest
<1>8. TypeOK
    BY <1>1, <1>5, <1>7, SizeAssumption DEF TypeOK
<1>9. AllFit
    BY <1>1, <1>7 DEF AllFit
<1> QED
    BY <1>6, <1>8, <1>9 DEF IInv

-----------------------------------------------------------------------------
(* Theorems.                                                               *)

\* The invariant is inductive.
LEMMA NextKeeps ==
    ASSUME IInv, [Next]_vars
    PROVE  IInv'
<1>1. CASE Next
  <2>1. ASSUME NEW j \in Jobs, Start(j) \/ JobStep(j) PROVE IInv'
      BY <2>1, StartKeeps, ListKeeps, ReadMembersKeeps, ScoreKeeps, ScopeKeeps, DiscoverKeeps,
         MatchKeeps, DecideKeeps, CreateHostKeeps, CreateGroupKeeps, AddMemberKeeps, RegisteredKeeps,
         PruneKeeps, RemoveMemberKeeps, DeleteHostKeeps, LeaveKeeps DEF JobStep
  <2> QED
      BY <1>1, <2>1, OthersKeep DEF Next
<1>2. CASE UNCHANGED vars
  <2>1. UNCHANGED <<opt, host, groups, connGroup, cluster, fit, events, job, starts>>
      BY <1>2 DEF vars, arrayVars, envVars
  <2>2. TypeOK' /\ Rooted'
      BY <2>1 DEF IInv, TypeOK, Rooted
  <2>3. ASSUME NEW j \in Jobs PROVE Fit(job[j])'
    <3>1. PICK t \in JobType : t = job[j] /\ Fit(t)
        BY JobFacts DEF Fit
    <3>2. Fit(t)'
        BY <2>1, <3>1, Unmoved
    <3> QED
        BY <2>1, <3>1, <3>2
  <2> QED
      BY <2>2, <2>3 DEF IInv, AllFit
<1> QED
    BY <1>1, <1>2

\* The hosts of an array, and what each job has gathered, fit together in every
\* state: see Rooted, Shapely, Sound and Reconciled.
THEOREM Invariance == Spec => []IInv
<1>1. Init => IInv
    BY InitHolds
<1>2. IInv /\ [Next]_vars => IInv'
    BY NextKeeps
<1> QED
    BY <1>1, <1>2, PTL DEF Spec

\* The variables keep their types (the records of the steps of
\* _register_host_group and reconcile_cluster).
THEOREM TypeCorrect == Spec => []TypeOK
<1>1. IInv => TypeOK
    BY DEF IInv
<1> QED
    BY <1>1, Invariance, PTL

\* Nodes that a registration has put on the array end in one host group, the one
\* the connection names (_register_host_group, _persist_host_group), if nobody
\* interferes and no host had lost its initiators.
THEOREM Together == Spec => []RegisteredTogether
<1>1. ASSUME IInv PROVE RegisteredTogether
  <2>1. SUFFICES ASSUME NEW j \in Jobs, job[j].kind = "register", job[j].result = "ok",
                        job[j].quiet, job[j].whole,
                        NEW e \in job[j].nodes, e.node \notin job[j].blank
                 PROVE  \E h \in Owners(e.node) : host[h].group = connGroup
      BY DEF RegisteredTogether
  <2>2. PICK t \in JobType : t = job[j] /\ Sound(t)
      BY <1>1, JobFacts
  <2> QED
      BY <2>1, <2>2 DEF Sound, Live
<1> QED
    BY <1>1, Invariance, PTL

\* A reconciliation of a conventional cluster leaves its ready nodes in the group
\* and, if it removes, nothing else (reconcile_cluster, _prune_departed_fa_hosts).
THEOREM Settles == Spec => []ReconcileSettles
<1>1. ASSUME IInv PROVE ReconcileSettles
  <2>1. SUFFICES ASSUME NEW j \in Jobs, Orderly(job[j]), job[j].result = "ok"
                 PROVE  /\ \A n \in cluster : fit[n] = "ready" =>
                              Owners(n) \intersect Members(job[j].group) /= {}
                        /\ job[j].removals =>
                              \A h \in Members(job[j].group) :
                                 \E e \in Entries : e.node \in cluster /\ h \in Known(job[j].group, e)
      BY DEF ReconcileSettles, Orderly
  <2>2. PICK t \in JobType : t = job[j] /\ Shapely(t) /\ Reconciled(t)
      BY <1>1, JobFacts
  <2>3. t.pc = "done" /\ t.result = "ok" /\ Orderly(t)
      BY <2>1, <2>2 DEF Shapely
  <2>4. /\ \A n \in Ready : Home(t.group, n)
        /\ t.removals => Members(t.group) \subseteq Spared(t.group, Listing)
      BY <2>2, <2>3 DEF Reconciled, Settled
  <2>5. ASSUME NEW h \in Spared(t.group, Listing)
        PROVE  \E e \in Entries : e.node \in cluster /\ h \in Known(t.group, e)
    <3>1. PICK e \in Listing : h \in Known(t.group, e)
        BY DEF Spared
    <3>2. cluster \subseteq Nodes
        BY <1>1 DEF IInv, TypeOK
    <3>3. e \in Entries /\ e.node \in cluster
        BY <3>2 DEF Listing, Entry, Entries
    <3> QED
        BY <3>1, <3>3
  <2> QED
      BY <2>2, <2>4, <2>5 DEF Ready, Home
<1> QED
    BY <1>1, Invariance, PTL

\* Steps that do not change a host lose none.
LEMMA NothingLost ==
    ASSUME UNCHANGED host
    PROVE  \A h \in HostNames : ~Lost(h)
BY DEF Lost

\* Hosts are taken from the array by removals only, and never those that a listed
\* node would be given (_prune_departed_fa_hosts), whoever interferes.
THEOREM NodesSpared == Spec => RemovalsSpareNodes
<1> DEFINE Asked(j, h) ==
              /\ Removing(j, h) /\ job[j].removals
              /\ \A e \in job[j].listed :
                    /\ h /= ClusterName(job[j].group, e)
                    /\ opt.platform = "hpevme" => h /= SingleName(job[j].group)
           Spares == \A h \in HostNames : Lost(h) => \E j \in Jobs : Asked(j, h)
<1>1. ASSUME IInv, NEW j \in Jobs, NEW h \in HostNames, Removing(j, h)
      PROVE  Asked(j, h)
  <2>1. PICK t \in JobType : t = job[j] /\ Shapely(t)
      BY <1>1, JobFacts
  <2>2. t.removals /\ h \notin Spared(t.group, t.listed)
      BY <1>1, <2>1 DEF Removing, At, Shapely, Removal
  <2>3. ASSUME NEW e \in t.listed
        PROVE  h /= ClusterName(t.group, e) /\ (opt.platform = "hpevme" => h /= SingleName(t.group))
    <3>1. t.group \in Groups /\ e \in Entries
        BY DEF JobType
    <3>2. h \notin Known(t.group, e)
        BY <2>2 DEF Spared
    <3> QED
        BY <3>1, <3>2, KnownFacts
  <2> QED
      BY <1>1, <2>1, <2>2, <2>3
<1>2. ASSUME IInv, NEW j \in Jobs, CreateHost(j), NEW h \in HostNames PROVE ~Lost(h)
  <2>1. host \in [HostNames -> HostType]
      BY <1>2 DEF IInv, TypeOK
  <2>2. \/ UNCHANGED host
        \/ \E k, ini : host' = [host EXCEPT ![k] = [ini |-> @.ini \union ini,
                                             group |-> IF Exists(k) THEN @.group ELSE "none"]]
      BY <1>2 DEF CreateHost
  <2>3. CASE UNCHANGED host
      BY <2>3, NothingLost
  <2>4. ASSUME NEW k, NEW ini,
               host' = [host EXCEPT ![k] = [ini |-> @.ini \union ini,
                                            group |-> IF Exists(k) THEN @.group ELSE "none"]]
        PROVE  ~Lost(h)
      BY <2>1, <2>4 DEF Lost, Exists
  <2> QED
      BY <2>2, <2>3, <2>4
<1>3. ASSUME IInv, NEW j \in Jobs, AddMember(j), NEW h \in HostNames PROVE ~Lost(h)
  <2>1. host \in [HostNames -> HostType] /\ job[j].effective \in Groups
      BY <1>3 DEF IInv, TypeOK, JobType
  <2>2. \/ UNCHANGED host
        \/ \E k : host' = [host EXCEPT ![k].group = job[j].effective]
      BY <1>3 DEF AddMember
  <2>3. CASE UNCHANGED host
      BY <2>3, NothingLost
  <2>4. ASSUME NEW k, host' = [host EXCEPT ![k].group = job[j].effective]
        PROVE  ~Lost(h)
      BY <2>1, <2>4, GroupAssumption DEF Lost, Exists, HostType
  <2> QED
      BY <2>2, <2>3, <2>4
<1>4. ASSUME IInv, NEW j \in Jobs, RemoveMember(j) \/ DeleteHost(j), NEW h \in HostNames, Lost(h)
      PROVE  Removing(j, h)
    BY <1>4 DEF RemoveMember, DeleteHost, Removing, Lost, IInv, TypeOK, At
<1>5. ASSUME IInv, AdministratorAddsHost, NEW h \in HostNames PROVE ~Lost(h)
    BY <1>5 DEF AdministratorAddsHost, Lost, Exists, IInv, TypeOK
<1>6. ASSUME NEW j \in Jobs,
             \/ Start(j) \/ List(j) \/ ReadMembers(j) \/ Score(j) \/ Scope(j) \/ Discover(j) \/ Match(j)
             \/ Decide(j) \/ CreateGroup(j) \/ Registered(j) \/ Prune(j) \/ Leave(j)
      PROVE  UNCHANGED host
    BY <1>6 DEF Start, List, ReadMembers, Score, Scope, Discover, Match, Decide, CreateGroup,
       Registered, Prune, Leave, arrayVars
<1>7. ASSUME ClusterChanges \/ NodeChanges PROVE UNCHANGED host
    BY <1>7 DEF ClusterChanges, NodeChanges, arrayVars
<1> HIDE DEF Asked
<1>8. ASSUME IInv, [Next]_vars, NEW h \in HostNames, Lost(h) PROVE \E j \in Jobs : Asked(j, h)
  <2>1. ~UNCHANGED host
      BY <1>8, NothingLost
  <2>2. Next
      BY <1>8, <2>1 DEF vars, arrayVars
  <2>3. CASE AdministratorAddsHost
      BY <1>5, <1>8, <2>3
  <2>4. CASE ClusterChanges \/ NodeChanges
      BY <1>7, <2>1, <2>4
  <2>5. ASSUME NEW j \in Jobs, Start(j) \/ JobStep(j)
        PROVE  Asked(j, h)
    <3>1. CreateHost(j) \/ AddMember(j) \/ RemoveMember(j) \/ DeleteHost(j)
        BY <1>6, <2>1, <2>5 DEF JobStep
    <3>2. RemoveMember(j) \/ DeleteHost(j)
        BY <1>2, <1>3, <1>8, <3>1
    <3>3. Removing(j, h)
        BY <1>4, <1>8, <3>2
    <3> QED
        BY <1>1, <1>8, <3>3
  <2> QED
      BY <2>2, <2>3, <2>4, <2>5 DEF Next
<1>9. IInv /\ [Next]_vars => [Spares]_vars
    BY <1>8
<1> QED
    BY <1>9, Invariance, PTL DEF Spec, RemovalsSpareNodes, Asked

\* No step of a registration puts a host into a group while a node it registers is
\* in another one (the conflict that _register_host_group refuses), if nobody
\* interferes and no host had lost its initiators.
THEOREM NoSplits == Spec => NeverSplits
<1> DEFINE Kept ==
      \A j \in Jobs, h \in HostNames :
          /\ At(j, "add") /\ job[j].quiet /\ job[j].whole
          /\ host[h].group = "none" /\ host'[h].group \in Groups /\ job'[j].todo /= job[j].todo
          => \A e \in job[j].nodes : e.node \notin job[j].blank =>
                \A k \in Owners(e.node) : host[k].group \in {"none", host'[h].group}
<1>1. ASSUME IInv, Next, NEW h \in HostNames, host[h].group = "none", host'[h].group \in Groups
      PROVE  \E k \in Jobs : AddMember(k)
  <2>1. host \in [HostNames -> HostType] /\ host'[h] /= host[h]
      BY <1>1, GroupAssumption DEF IInv, TypeOK
  <2>2. ~AdministratorAddsHost
      BY <1>1, <2>1 DEF AdministratorAddsHost, Exists
  <2>3. ~ClusterChanges /\ ~NodeChanges
      BY <2>1 DEF ClusterChanges, NodeChanges, arrayVars
  <2>4. ASSUME NEW k \in Jobs, Start(k) \/ JobStep(k)
        PROVE  AddMember(k)
    <3>1. ~Start(k) /\ ~List(k) /\ ~ReadMembers(k) /\ ~Score(k) /\ ~Scope(k) /\ ~Discover(k)
          /\ ~Match(k) /\ ~Decide(k) /\ ~CreateGroup(k) /\ ~Registered(k) /\ ~Prune(k) /\ ~Leave(k)
        BY <2>1 DEF Start, List, ReadMembers, Score, Scope, Discover, Match, Decide, CreateGroup,
           Registered, Prune, Leave, arrayVars
    <3>2. ~CreateHost(k)
        <4>1. ASSUME NEW i, NEW ini,
                     host' = [host EXCEPT ![i] = [ini |-> @.ini \union ini,
                                                  group |-> IF Exists(i) THEN @.group ELSE "none"]]
              PROVE  FALSE
            BY <1>1, <2>1, <4>1, GroupAssumption DEF Exists
        <4> QED
            BY <2>1, <4>1 DEF CreateHost
    <3>3. ~RemoveMember(k)
        <4>1. ASSUME NEW i, host' = [host EXCEPT ![i].group = "none"]
              PROVE  FALSE
            BY <1>1, <2>1, <4>1, GroupAssumption DEF HostType
        <4> QED
            BY <2>1, <4>1 DEF RemoveMember
    <3>4. ~DeleteHost(k)
        <4>1. ASSUME NEW i, host' = [host EXCEPT ![i] = Absent]
              PROVE  FALSE
            BY <1>1, <2>1, <4>1, GroupAssumption DEF Absent
        <4> QED
            BY <2>1, <4>1 DEF DeleteHost
    <3> QED
        BY <2>4, <3>1, <3>2, <3>3, <3>4 DEF JobStep
  <2> QED
      BY <1>1, <2>2, <2>3, <2>4 DEF Next
<1>2. ASSUME IInv, NEW j \in Jobs, NEW k \in Jobs, AddMember(k), job'[j].todo /= job[j].todo
      PROVE  k = j
  <2>1. SUFFICES ASSUME k /= j PROVE FALSE
      OBVIOUS
  <2>2. \E x : Goes(k, x) \/ GoesChanging(k, x)
      BY <1>2 DEF AddMember, Raise
  <2>3. job'[j] = job[j] \/ job'[j] = Disturbed(job[j])
      BY <1>2, <2>1, <2>2 DEF Goes, GoesChanging, Disturbed, IInv, TypeOK
  <2>4. job[j] \in JobType
      BY <1>2 DEF IInv, TypeOK
  <2> QED
      BY <1>2, <2>3, <2>4 DEF Disturbed, JobType
<1>3. ASSUME IInv, NEW j \in Jobs, AddMember(j), NEW h \in HostNames,
             host[h].group = "none", host'[h].group \in Groups
      PROVE  host'[h].group = job[j].effective
  <2>1. host \in [HostNames -> HostType] /\ host' /= host
      BY <1>3, GroupAssumption DEF IInv, TypeOK
  <2>2. \E i : host' = [host EXCEPT ![i].group = job[j].effective]
      BY <1>3, <2>1 DEF AddMember
  <2> QED
      BY <1>3, <2>1, <2>2, GroupAssumption DEF HostType
<1>4. ASSUME IInv, NEW j \in Jobs, At(j, "add"), job[j].quiet, job[j].whole,
             NEW e \in job[j].nodes, e.node \notin job[j].blank, NEW k \in Owners(e.node)
      PROVE  host[k].group \in {"none", job[j].effective}
  <2>1. PICK t \in JobType : t = job[j] /\ Sound(t)
      BY <1>4, JobFacts
  <2>2. Agreed(t, e)
      BY <1>4, <2>1 DEF At, Sound, Live
  <2> QED
      BY <1>4, <2>1, <2>2 DEF Agreed
<1>5. ASSUME IInv, Next,
             NEW j \in Jobs, NEW h \in HostNames,
             At(j, "add"), job[j].quiet, job[j].whole,
             host[h].group = "none", host'[h].group \in Groups, job'[j].todo /= job[j].todo,
             NEW e \in job[j].nodes, e.node \notin job[j].blank, NEW k \in Owners(e.node)
      PROVE  host[k].group \in {"none", host'[h].group}
  <2>1. AddMember(j)
      BY <1>1, <1>2, <1>5
  <2>2. host'[h].group = job[j].effective
      BY <1>3, <1>5, <2>1
  <2> QED
      BY <1>4, <1>5, <2>2
<1>6. IInv /\ [Next]_vars => [Kept]_vars
    BY <1>5
<1> QED
    BY <1>6, Invariance, PTL DEF Spec, NeverSplits
=============================================================================
