------------------------------ MODULE HostGroups ------------------------------
(***************************************************************************)
(* The nodes of a cluster as hosts of a FlashArray: registration           *)
(* (_register_host_group, phif/flasharray/client.py, and register_hosts of *)
(* the Proxmox, XCP-ng and HPE VME connectors), the assessment of drift    *)
(* between cluster and host group, and reconcile_cluster, which registers  *)
(* new nodes and may delete the hosts of departed ones.                    *)
(*                                                                         *)
(* A call to the array is a step; anything may happen between two of them: *)
(* nodes join, leave and change, other jobs run, the administrator edits   *)
(* the array.  Block protocols only: NFS registers no hosts.               *)
(***************************************************************************)
EXTENDS Naturals, FiniteSets

CONSTANTS
    NNodes,    \* number of nodes that may be in the cluster
    Groups,    \* names of host groups
    Typed,     \* the one the operator has typed
    Jobs,      \* the jobs running for the hypervisor
    Options,   \* the option records
    MaxStarts, \* bound: jobs started
    MaxEvents  \* bound: changes of the cluster and of the array by others

Nodes == 1..NNodes
Conn  == 1 \* the node the connection names
OptionType == [platform: {"proxmox", "xcpng", "hpevme"},
               garbled: BOOLEAN] \* a node listing may come back unreadable
ASSUME SizeAssumption == NNodes \in Nat \ {0} /\ MaxStarts \in Nat /\ MaxEvents \in Nat
ASSUME OptionAssumption == Options \subseteq OptionType
ASSUME GroupAssumption ==
    IsFiniteSet(Groups) /\ Groups \intersect {"none", "absent", "bare"} = {} /\ Typed \in Groups

\* A listed node: under its name, or under the address of the connection.
Entries == [label: {"name", "addr"}, node: Nodes]
\* A host's name is made of a listed node, bare or after a group's name; or of a
\* group alone; or it was chosen by hand.
NodeName(scope, e) == [scope |-> scope, label |-> e.label, node |-> e.node]
SingleName(g)      == [scope |-> g, label |-> "single", node |-> 0]
OtherName(n)       == [scope |-> "bare", label |-> "other", node |-> n]
HostNames ==
    {NodeName(s, e) : s \in Groups \union {"bare"}, e \in Entries}
        \union {SingleName(g) : g \in Groups} \union {OtherName(n) : n \in Nodes}

VARIABLES
    opt,
    host,      \* the array's hosts: whose initiators they hold, and their group
    groups,    \* the array's host groups
    connGroup, \* hv.connection["host_group"]
    cluster,   \* the nodes now in the cluster
    fit,       \* what the preflight would find on each node
    job,       \* the running jobs
    starts, events

arrayVars == <<host, groups>>
envVars   == <<cluster, fit, events>>
vars == <<opt, arrayVars, connGroup, envVars, job, starts>>

-----------------------------------------------------------------------------
HostType == [ini: SUBSET Nodes, group: Groups \union {"none", "absent"}]
Absent   == [ini |-> {}, group |-> "absent"]
Exists(h) == host[h].group /= "absent"
Members(g) == {h \in HostNames : host[h].group = g}
\* An initiator belongs to at most one host.
Owners(n) == {h \in HostNames : n \in host[h].ini}

\* "dark": no initiators can be read; "unfit": no NIC on the storage subnet.
Fitness == {"ready", "unfit", "dark"}

JobType ==
    [pc: {"off", "list", "members", "score", "relist", "scope", "discover", "match", "decide",
          "create", "group", "add", "registered", "lastList", "prune", "remove", "delete", "done"},
     kind: {"register", "reconcile"},
     removals: BOOLEAN,             \* apply_removals
     group: Groups,                 \* host_group, read with the connection
     listed: SUBSET Entries,        \* list_nodes()
     members: SUBSET HostNames,     \* get_host_group_members()
     ready: SUBSET Entries,         \* the new nodes that passed the preflight
     nodes: SUBSET Entries,         \* the nodes being registered
     blank: SUBSET Nodes,           \* those of them with no initiators
     todo: SUBSET Entries,          \* the rest of the loop over them
     found: [Nodes -> SUBSET HostNames], \* the existing host that was matched, if any
     seen: SUBSET Groups,           \* the groups the matched hosts are in
     effective: Groups,             \* the group adopted
     doomed: SUBSET HostNames,      \* hosts to remove
     victim: SUBSET HostNames,      \* the one being removed
     result: {"none", "ok", "failed", "conflict"},
     tidy: BOOLEAN,                 \* history: names were conventional at its start
     whole: BOOLEAN,                \* history: at its start no host was without initiators
     quiet: BOOLEAN]                \* history: nobody else has interfered

Idle(g) ==
    [pc |-> "off", kind |-> "register", removals |-> FALSE, group |-> g, listed |-> {},
     members |-> {}, ready |-> {}, nodes |-> {}, blank |-> {}, todo |-> {},
     found |-> [n \in Nodes |-> {}], seen |-> {}, effective |-> g, doomed |-> {}, victim |-> {}, result |-> "none",
     tidy |-> FALSE, whole |-> FALSE, quiet |-> TRUE]

-----------------------------------------------------------------------------
(* Names.                                                                  *)

\* The name a node is registered under when it is one of several.
ClusterName(g, e) == NodeName(IF opt.platform = "proxmox" THEN "bare" ELSE g, e)

\* Fault: HPE VME knows a node by the name of the cluster only.
OneNameOnly(g, e) == {ClusterName(g, e)}
\* The names a node is looked for under.
Known(g, e) ==
    IF opt.platform /= "hpevme" THEN {ClusterName(g, e)}
    ELSE {ClusterName(g, e), SingleName(g), NodeName("bare", e),
          NodeName("bare", [e EXCEPT !.label = "addr"])}

\* A cluster of one has a name of its own, but not in a reconciliation.
NewName(j, e) ==
    IF opt.platform /= "proxmox" /\ job[j].kind = "register" /\ Cardinality(job[j].nodes) = 1
    THEN SingleName(job[j].group) ELSE ClusterName(job[j].group, e)

HostOf(j, e) == IF job[j].found[e.node] /= {} THEN CHOOSE h \in job[j].found[e.node] : TRUE
                ELSE NewName(j, e)

\* The loops are in the order of the list.
First(todo) == CHOOSE e \in todo : \A f \in todo : e.node <= f.node

\* A node's host has a name that the node's name is known by, and no other group;
\* the name of a cluster of one is not in use; every node answers.
Conventional(g) ==
    /\ \A n \in cluster : \A h \in Owners(n) :
          h \in Known(g, [label |-> "name", node |-> n]) /\ host[h].group \in {"none", g}
    /\ ~Exists(SingleName(g))
    /\ \A n \in cluster : fit[n] /= "dark"
    /\ opt.platform = "proxmox" => cluster /= {Conn}

-----------------------------------------------------------------------------
\* A node may have been registered in the cluster, alone, or by hand.
InitialName(how, n) ==
    CASE how = "own"    -> ClusterName(connGroup, [label |-> "name", node |-> n])
      [] how = "single" -> SingleName(connGroup)
      [] how = "other"  -> OtherName(n)

Init ==
    /\ opt \in Options
    /\ connGroup = Typed
    /\ cluster \in {c \in SUBSET Nodes : Conn \in c}
    /\ fit \in [Nodes -> Fitness]
    /\ groups \in {Groups, Groups \ {connGroup}}
    /\ \E at \in [Nodes -> [name: {"own", "single", "other"}, group: groups \union {"none", "absent"}]] :
         /\ \A n \in Nodes : at[n].name = "single" => n = Conn /\ opt.platform /= "proxmox"
         /\ host = [h \in HostNames |->
               LET here == {n \in Nodes : at[n].group /= "absent" /\ h = InitialName(at[n].name, n)}
               IN  IF here = {} THEN Absent
                   ELSE [ini |-> here, group |-> at[CHOOSE n \in here : TRUE].group]]
    /\ job = [j \in Jobs |-> Idle(connGroup)]
    /\ starts = 0
    /\ events = 0

\* Job j goes on as next; if it has changed something the others are disturbed.
Goes(j, next) == job' = [job EXCEPT ![j] = next]
GoesChanging(j, next) ==
    job' = [k \in Jobs |-> IF k = j THEN next
                           ELSE [job[k] EXCEPT !.quiet = FALSE]]
At(j, pc) == job[j].pc = pc
\* Any call may raise, which ends the job.
Raise(j) == Goes(j, [Idle(connGroup) EXCEPT !.pc = "done", !.result = "failed"])

Start(j) ==
    /\ At(j, "off")
    /\ starts < MaxStarts
    /\ starts' = starts + 1
    /\ \E kind \in {"register", "reconcile"}, removals \in BOOLEAN :
         /\ removals => kind = "reconcile"
         /\ Goes(j, [Idle(connGroup) EXCEPT !.pc = "list", !.kind = kind, !.removals = removals,
                                         !.tidy = Conventional(connGroup),
                                         !.whole = \A h \in HostNames : Exists(h) => host[h].ini /= {}])
    /\ UNCHANGED <<opt, arrayVars, connGroup, envVars>>

\* list_nodes: what cannot be read is taken for a node that stands alone, and is
\* listed under the address of the connection (a Proxmox node that does stand alone
\* may have no list of members either).
ListsAs ==
    LET all == {[label |-> "name", node |-> n] : n \in cluster}
        alone == {[label |-> "addr", node |-> Conn]}
    IN  {all} \union (IF opt.garbled \/ (opt.platform = "proxmox" /\ cluster = {Conn})
                       THEN {alone} ELSE {})

List(j) ==
    /\ job[j].pc \in {"list", "relist", "lastList"}
    /\ \/ \E l \in ListsAs :
            Goes(j, [job[j] EXCEPT
                !.listed = l,
                !.nodes = IF At(j, "relist") THEN job[j].ready \intersect l ELSE l,
                !.pc = CASE At(j, "list")     -> IF job[j].kind = "register" THEN "discover" ELSE "members"
                         [] At(j, "relist")   -> IF opt.platform = "proxmox" THEN "scope"
                                                 ELSE IF job[j].ready \intersect l /= {} THEN "discover"
                                                 ELSE IF opt.platform = "hpevme" THEN "lastList" ELSE "prune"
                         [] At(j, "lastList") -> "prune"])
       \/ Raise(j)
    /\ UNCHANGED <<opt, arrayVars, connGroup, envVars, starts>>

-----------------------------------------------------------------------------
(* assess_cluster.                                                         *)

\* get_host_group_members: an error if there is no such group.
ReadMembers(j) ==
    /\ At(j, "members")
    /\ IF job[j].group \in groups
       THEN Goes(j, [job[j] EXCEPT !.members = Members(job[j].group), !.pc = "score"]) \/ Raise(j)
       ELSE Raise(j)
    /\ UNCHANGED <<opt, arrayVars, connGroup, envVars, starts>>

Passes(e) == fit[e.node] = "ready"

\* Fault: any host of a node's name will do, a member of the group or not.
Unregistered(j) == {e \in job[j].listed : \A h \in Known(job[j].group, e) : ~Exists(h)}
NewNodes(j) == {e \in job[j].listed : Known(job[j].group, e) \intersect job[j].members = {}}

Score(j) ==
    /\ At(j, "score")
    /\ LET ready == {e \in NewNodes(j) : Passes(e)} IN
       Goes(j, [job[j] EXCEPT !.ready = ready,
                              !.pc = IF opt.platform = "hpevme" /\ ready = {} THEN "lastList" ELSE "relist"])
    /\ UNCHANGED <<opt, arrayVars, connGroup, envVars, starts>>

\* Proxmox registers the nodes it has configured once more, with the new ones.
Scope(j) ==
    /\ At(j, "scope")
    /\ \/ /\ job[j].group \in groups
          /\ LET known == {e \in job[j].listed : Known(job[j].group, e) \intersect Members(job[j].group) /= {}} IN
             Goes(j, [job[j] EXCEPT !.nodes = known \union @,
                                    !.pc = IF job[j].ready = {} THEN "prune" ELSE "discover"])
       \/ Raise(j)
    /\ UNCHANGED <<opt, arrayVars, connGroup, envVars, starts>>

-----------------------------------------------------------------------------
(* register_hosts and _register_host_group.                                *)

\* A registration that fails: a reconciliation of XCP-ng fails with it, the
\* others do not look at its result.
RegistrationFails(j, result) ==
    Goes(j, IF job[j].kind = "register" \/ opt.platform = "xcpng"
            THEN [job[j] EXCEPT !.pc = "done", !.result = result]
            ELSE [job[j] EXCEPT !.pc = "registered"])

\* XCP-ng goes on without the initiators it could not read.
Discover(j) ==
    /\ At(j, "discover")
    /\ LET blank == {e.node : e \in {f \in job[j].nodes : fit[f.node] = "dark"}} IN
       \/ IF blank /= {} /\ opt.platform /= "xcpng" THEN RegistrationFails(j, "failed")
          ELSE Goes(j, [job[j] EXCEPT !.blank = blank, !.todo = job[j].nodes, !.pc = "match"])
       \/ Raise(j)
    /\ UNCHANGED <<opt, arrayVars, connGroup, envVars, starts>>

\* find_host_by_initiator and get_host.
Match(j) ==
    /\ At(j, "match")
    /\ IF job[j].todo = {} THEN Goes(j, [job[j] EXCEPT !.pc = "decide"])
       ELSE LET e == First(job[j].todo)
                found == IF e.node \in job[j].blank THEN {} ELSE Owners(e.node) IN
            \/ Goes(j, [job[j] EXCEPT !.todo = @ \ {e}, !.found[e.node] = found,
                   !.seen = @ \union ({host[h].group : h \in found} \ {"none"})])
            \/ Raise(j)
    /\ UNCHANGED <<opt, arrayVars, connGroup, envVars, starts>>

\* Fault: one of several groups is adopted.
AdoptsAny(seen) == FALSE
Conflicts(seen) == Cardinality(seen) > 1

\* Fault: the group of the request is kept.
RequestedGroup(seen, requested) == requested
\* Fault: the group is left open when no host was matched.
NoGroup(seen, requested) == IF seen = {} THEN "none" ELSE CHOOSE g \in seen : TRUE
\* The group that matched hosts are in already is adopted.
Adopted(seen, requested) == IF seen = {} THEN requested ELSE CHOOSE g \in seen : TRUE

Decide(j) ==
    /\ At(j, "decide")
    /\ IF Conflicts(job[j].seen) THEN RegistrationFails(j, "conflict")
       ELSE Goes(j, [job[j] EXCEPT !.pc = "create", !.effective = Adopted(job[j].seen, job[j].group),
                                   !.todo = {e \in job[j].nodes : job[j].found[e.node] = {}}])
    /\ UNCHANGED <<opt, arrayVars, connGroup, envVars, starts>>

\* create_host: a POST that takes "already" in the answer for success, and a PATCH
\* that does too.  Initiators that another host has got meanwhile stay there.
CreateHost(j) ==
    /\ At(j, "create")
    /\ IF job[j].todo = {} THEN Goes(j, [job[j] EXCEPT !.pc = "group"]) /\ UNCHANGED host
       ELSE LET e == First(job[j].todo)
                h == NewName(j, e)
                taken == Owners(e.node) \ {h} /= {}
                ini == IF taken \/ e.node \in job[j].blank THEN {} ELSE {e.node}
                rest == [job[j] EXCEPT !.todo = @ \ {e}]
            IN  \/ /\ ~Exists(h) => ~taken
                   /\ host' = [host EXCEPT ![h] = [ini |-> @.ini \union ini,
                                                   group |-> IF Exists(h) THEN @.group ELSE "none"]]
                   /\ IF host' = host THEN Goes(j, rest)
                      ELSE \/ GoesChanging(j, rest)
                           \/ GoesChanging(j, [Idle(connGroup) EXCEPT !.pc = "done", !.result = "failed"])
                \/ Raise(j) /\ UNCHANGED host
    /\ UNCHANGED <<opt, groups, connGroup, envVars, starts>>

CreateGroup(j) ==
    /\ At(j, "group")
    /\ \/ /\ groups' = groups \union {job[j].effective}
          /\ LET next == [job[j] EXCEPT !.pc = "add", !.todo = job[j].nodes] IN
             IF groups' = groups THEN Goes(j, next) ELSE GoesChanging(j, next)
       \/ Raise(j) /\ UNCHANGED groups
    /\ UNCHANGED <<opt, host, connGroup, envVars, starts>>

\* Membership of another group is an "already" as well.
AddMember(j) ==
    /\ At(j, "add")
    /\ IF job[j].todo = {} THEN Goes(j, [job[j] EXCEPT !.pc = "registered"]) /\ UNCHANGED host
       ELSE LET e == First(job[j].todo)
                h == HostOf(j, e)
                rest == [job[j] EXCEPT !.todo = @ \ {e}]
            IN  \/ /\ Exists(h)
                   /\ IF host[h].group /= "none" THEN Goes(j, rest) /\ UNCHANGED host
                      ELSE /\ host' = [host EXCEPT ![h].group = job[j].effective]
                           /\ GoesChanging(j, rest)
                \/ Raise(j) /\ UNCHANGED host
    /\ UNCHANGED <<opt, groups, connGroup, envVars, starts>>

\* run_operation keeps the group of a registration that succeeded.  The rest of
\* a reconciliation (the plugin, connectivity) may raise.
Registered(j) ==
    /\ At(j, "registered")
    /\ IF job[j].kind = "register"
       THEN /\ connGroup' = job[j].effective
            /\ LET next == [job[j] EXCEPT !.pc = "done", !.result = "ok"] IN
               IF connGroup' = connGroup THEN Goes(j, next) ELSE GoesChanging(j, next)
       ELSE /\ UNCHANGED connGroup
            /\ \/ Goes(j, [job[j] EXCEPT !.pc = IF opt.platform = "hpevme" THEN "lastList" ELSE "prune"])
               \/ Raise(j)
    /\ UNCHANGED <<opt, arrayVars, envVars, starts>>

-----------------------------------------------------------------------------
(* _prune_departed_fa_hosts.                                               *)

Expected(j) == UNION {Known(job[j].group, e) : e \in job[j].listed}

Prune(j) ==
    /\ At(j, "prune")
    /\ \/ /\ job[j].group \in groups
          /\ Goes(j, IF job[j].removals
                     THEN [job[j] EXCEPT !.doomed = Members(job[j].group) \ Expected(j), !.pc = "remove"]
                     ELSE [job[j] EXCEPT !.pc = "done", !.result = "ok"])
       \/ Raise(j)
    /\ UNCHANGED <<opt, arrayVars, connGroup, envVars, starts>>

\* remove_host_from_group and delete_host, in the order of the group's members.
RemoveMember(j) ==
    /\ At(j, "remove")
    /\ IF job[j].doomed = {}
       THEN Goes(j, [job[j] EXCEPT !.pc = "done", !.result = "ok"]) /\ UNCHANGED host
       ELSE \/ \E h \in job[j].doomed :
                 /\ host[h].group = job[j].group
                 /\ host' = [host EXCEPT ![h].group = "none"]
                 /\ GoesChanging(j, [job[j] EXCEPT !.doomed = @ \ {h}, !.victim = {h}, !.pc = "delete"])
            \/ Raise(j) /\ UNCHANGED host
    /\ UNCHANGED <<opt, groups, connGroup, envVars, starts>>

DeleteHost(j) ==
    /\ At(j, "delete")
    /\ \/ \E h \in job[j].victim :
            /\ Exists(h)
            /\ host' = [host EXCEPT ![h] = Absent]
            /\ GoesChanging(j, [job[j] EXCEPT !.victim = {}, !.pc = "remove"])
       \/ Raise(j) /\ UNCHANGED host
    /\ UNCHANGED <<opt, groups, connGroup, envVars, starts>>

\* The place of a finished job can be taken by the next.
Leave(j) ==
    /\ At(j, "done")
    /\ Goes(j, Idle(connGroup))
    /\ UNCHANGED <<opt, arrayVars, connGroup, envVars, starts>>

-----------------------------------------------------------------------------
(* The rest of the world.                                                  *)

Disturb == /\ events < MaxEvents /\ events' = events + 1
           /\ job' = [j \in Jobs |-> [job[j] EXCEPT !.quiet = FALSE]]

ClusterChanges ==
    /\ Disturb
    /\ \E n \in Nodes \ {Conn} : cluster' = IF n \in cluster THEN cluster \ {n} ELSE cluster \union {n}
    /\ UNCHANGED <<opt, arrayVars, connGroup, fit, starts>>

NodeChanges ==
    /\ Disturb
    /\ \E n \in Nodes, f \in Fitness : f /= fit[n] /\ fit' = [fit EXCEPT ![n] = f]
    /\ UNCHANGED <<opt, arrayVars, connGroup, cluster, starts>>

\* The administrator makes a host for a node that has none, in a group or not.
AdministratorAddsHost ==
    /\ Disturb
    /\ \E n \in Nodes, g \in groups \union {"none"} :
         /\ Owners(n) = {} /\ ~Exists(OtherName(n))
         /\ host' = [host EXCEPT ![OtherName(n)] = [ini |-> {n}, group |-> g]]
    /\ UNCHANGED <<opt, groups, connGroup, cluster, fit, starts>>

JobStep(j) ==
    \/ List(j) \/ ReadMembers(j) \/ Score(j) \/ Scope(j) \/ Discover(j) \/ Match(j) \/ Decide(j)
    \/ CreateHost(j) \/ CreateGroup(j) \/ AddMember(j) \/ Registered(j)
    \/ Prune(j) \/ RemoveMember(j) \/ DeleteHost(j) \/ Leave(j)

Next ==
    \/ \E j \in Jobs : Start(j) \/ JobStep(j)
    \/ ClusterChanges \/ NodeChanges \/ AdministratorAddsHost

Spec == Init /\ [][Next]_vars

-----------------------------------------------------------------------------
(* Properties.                                                             *)

\* The variables' types.
TypeOK ==
    /\ opt \in Options
    /\ host \in [HostNames -> HostType]
    /\ groups \subseteq Groups /\ connGroup \in Groups
    /\ cluster \subseteq Nodes /\ fit \in [Nodes -> Fitness]
    /\ job \in [Jobs -> JobType]
    /\ starts \in 0..MaxStarts /\ events \in 0..MaxEvents

\* A host leaves its group, or the array.
Lost(h) == Exists(h) /\ host[h].group /= host'[h].group /\ host'[h].group \in {"none", "absent"}
Removing(j, h) ==
    \/ At(j, "remove") /\ h \in job[j].doomed
    \/ At(j, "delete") /\ h \in job[j].victim

\* Only a reconciliation asked to remove hosts takes any from the array, and no
\* host under a name that it could have given to a node on its list (but for the
\* name XCP-ng gives to a pool of one).
RemovalsSpareNodes ==
    [][\A h \in HostNames : Lost(h) =>
          \E j \in Jobs :
             /\ Removing(j, h) /\ job[j].removals
             /\ \A e \in job[j].listed :
                   /\ h /= ClusterName(job[j].group, e)
                   /\ opt.platform = "hpevme" => h /= SingleName(job[j].group)]_vars

\* No step of a registration that nobody interfered with puts a host into a group
\* while a node it registers is in another one, also if a later step fails.  A host
\* left without initiators is an exception: a later registration reuses it by its
\* name, whatever group it is in.
NeverSplits ==
    [][\A j \in Jobs, h \in HostNames :
          /\ At(j, "add") /\ job[j].quiet /\ job[j].whole
          /\ host[h].group = "none" /\ host'[h].group \in Groups /\ job'[j].todo /= job[j].todo
          => \A e \in job[j].nodes : e.node \notin job[j].blank =>
                \A k \in Owners(e.node) : host[k].group \in {"none", host'[h].group}]_vars

\* After a registration that nobody interfered with, of nodes none of which had a
\* host without initiators, every node with initiators is in one host group, and the
\* connection names it.
RegisteredTogether ==
    \A j \in Jobs :
        job[j].kind = "register" /\ job[j].result = "ok" /\ job[j].quiet /\ job[j].whole =>
            \A e \in job[j].nodes : e.node \notin job[j].blank =>
                \E h \in Owners(e.node) : host[h].group = connGroup

\* After a reconciliation that nobody interfered with, the ready nodes of a
\* conventionally named cluster are in its group, and, if departed hosts were to
\* be removed, nothing else is (no host being without initiators at its start).
ReconcileSettles ==
    \A j \in Jobs : LET g == job[j].group IN
        /\ job[j].kind = "reconcile" /\ job[j].result = "ok" /\ job[j].quiet
        /\ job[j].tidy /\ job[j].whole /\ ~opt.garbled
        => /\ \A n \in cluster : fit[n] = "ready" => Owners(n) \intersect Members(g) /= {}
           /\ job[j].removals =>
                 \A h \in Members(g) : \E e \in Entries : e.node \in cluster /\ h \in Known(g, e)

\* What reconcile_cluster says it removes, "FA host-group members with no matching
\* current node" (base.py:648), and keeps: hosts in use.
RemovesOnlyDeparted ==
    [][\A j \in Jobs, h \in HostNames :
          Lost(h) /\ Removing(j, h) => host[h].ini \intersect {e.node : e \in job[j].listed} = {}]_vars
=============================================================================
