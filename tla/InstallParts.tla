----------------------------- MODULE InstallParts -----------------------------
(***************************************************************************)
(* What an integration leaves on a hypervisor cluster: the state the       *)
(* installation procedures of the connectors share (InstallHosts,          *)
(* InstallClusters), composed in Installation.                             *)
(*                                                                         *)
(* A procedure is a sequence of calls: on the nodes of its scope, one node *)
(* at a time, or once for the cluster.  A call that raises ends the whole  *)
(* procedure; what it did before stays.                                    *)
(***************************************************************************)
EXTENDS Naturals, FiniteSets

CONSTANTS
    NNodes,     \* how many nodes there can be
    MaxFaults,  \* how many calls may go wrong
    MaxOps,     \* how many operations the operator begins, retries apart
    Setups      \* the clusters and the options they are installed with

Nodes == 1..NNodes

Platforms == {"proxmox", "xcpng", "hpevme", "openshift", "openstack", "vsphere"}

\* What a node can have.
Parts == {"deps",        \* the packages the plugin needs
          "plugin",      \* the plugin's files, the software iSCSI adapter
          "loaded",      \* the daemons were restarted after the plugin came
          "initiator",   \* the transport's packages and services
          "session",     \* a connection to the array
          "mpath",       \* the multipath configuration
          "pbd"}         \* the node's plug of the SR (XCP-ng)

\* What the cluster, or its manager, can have, and how many of each.
Things == {"storage", "enabled",                \* Proxmox
           "sr",                                \* XCP-ng
           "plugin", "record",                  \* HPE VME, vSphere
           "operator", "secret", "portworx", "driver", "class", "binding",
           "foreign",                           \* Portworx of others, its driver
           "client", "stanza", "backend", "loaded", "type",  \* OpenStack
           "vasa", "volume", "datastore"}       \* vSphere

Setup ==
    [p: Platforms,
     proto: {"iscsi", "nvme-tcp", "fc"},
     bind: BOOLEAN,       \* the operator selected interfaces
     cut: SUBSET Nodes,   \* nodes without a route to the array's management
     portals: BOOLEAN,    \* the array serves the protocol
     clobber: BOOLEAN,    \* XCP-ng: recreate an SR of the name
     taken: BOOLEAN,      \* others already run Portworx, a Cinder backend
     detached: BOOLEAN,   \* what a teardown does not reach: an operator that
                          \* came from a manifest, not a Subscription; a plugin
                          \* server the connection does not name (vSphere)
     reached: SUBSET {"own", "others"},  \* OpenShift: whose StorageCluster has
                          \* the name and the namespace a teardown deletes; a
                          \* spec from Portworx Central names itself
     ds: {"vmfs", "nfs"}] \* vSphere: the datastore the wizard provisions

ASSUME InstallAssumption ==
    /\ NNodes \in Nat \ {0} /\ MaxFaults \in Nat /\ MaxOps \in Nat \ {0}
    /\ Setups \subseteq Setup

VARIABLES
    opt,
    pc,         \* the call about to be made; "idle" between operations
    at, scope,  \* the node a loop is at, and the nodes it goes over
    op,         \* the operation running, or the last one
    answer,     \* its answer: "none" while it runs, "ok", "error"
    members,    \* the nodes of the cluster
    has,        \* the parts on each node
    registered, \* the nodes with a host object in the FlashArray host group
    made,       \* how many of each thing there are, up to 2
    seen,       \* what the procedure read and relies on: a set of Things
    others,     \* what belongs to others still works
    ops, faults,
    missed,     \* a call's effect and its answer differed
    blind       \* a listing failed, or the removal of an SR that a new one
                \* replaces, and nobody noticed

ctl   == <<pc, at, scope>>
run   == <<op, answer, ops, members>>
world == <<has, registered, made, others>>
fault == <<faults, missed, blind>>
vars  == <<opt, ctl, run, world, seen, fault>>

-----------------------------------------------------------------------------
(* Answers.  ok: took effect; fails: no effect, an error; late: took effect, *)
(* reported as an error; silent: no effect, not noticed; warned: no effect, *)
(* a line in the log.                                                       *)

Checked   == {"ok", "fails", "late"}
Unnoticed == {"ok", "silent"}       \* a local command with check=False
\* A remote one with check=False: its status and a timeout pass unnoticed, a
\* connection that is refused or lost is an error.
Unchecked == Checked \cup {"silent"}
Refusable == {"ok", "fails"}        \* a question: an error, or OpResult.fail
Warned    == {"ok", "warned"}
Effect(a) == a \in {"ok", "late"}
Passed(a) == a \in {"ok", "silent", "warned"}

\* The calls that find, or clear, what the next one would make a second of.
LookFirst == {"px_look", "os_read", "xcp_existing", "xcp_clobber"}

Hear(a, answers) ==
    /\ a \in answers
    /\ a /= "ok" => faults < MaxFaults
    /\ faults' = faults + (IF a = "ok" THEN 0 ELSE 1)
    /\ missed' = (missed \/ a \in {"late", "silent"})
    /\ blind' = (blind \/ (a = "silent" /\ pc \in LookFirst))
NoCall == UNCHANGED fault

At(p, step) == opt.p = p /\ pc = step
First(S)    == CHOOSE n \in S : \A m \in S : n <= m
Rest        == {n \in scope : n > at}

\* The step after: one for the same node or the cluster, the first of a loop
\* over the scope, the loop's next round or what comes after it.
Goto(step)  == pc' = step /\ UNCHANGED <<at, scope, op, answer>>
Each(step)  == pc' = step /\ at' = First(scope) /\ UNCHANGED <<scope, op, answer>>
\* Fault: the loop ends at its first node.
NextNodeNone(step, after) == after
NextNode(step, after) ==
    IF Rest = {} THEN after
    ELSE pc' = step /\ at' = First(Rest) /\ UNCHANGED <<scope, op, answer>>
End(a) == pc' = "idle" /\ answer' = a /\ UNCHANGED <<at, scope, op>>
Done   == End("ok")
Error  == End("error")

Still == UNCHANGED <<opt, members, ops>>

-----------------------------------------------------------------------------
(* Calls.                                                                   *)

\* A call on the node the loop is at that gives it a part, or takes parts off.
Give(part, answers, next) ==
    \E a \in answers :
       /\ Hear(a, answers)
       /\ has' = IF Effect(a) THEN [has EXCEPT ![at] = @ \cup {part}] ELSE has
       /\ UNCHANGED <<registered, made, others, seen>> /\ Still
       /\ IF Passed(a) THEN next ELSE Error
Take(parts, answers, next) ==
    \E a \in answers :
       /\ Hear(a, answers)
       /\ has' = IF Effect(a) THEN [has EXCEPT ![at] = @ \ parts] ELSE has
       /\ UNCHANGED <<registered, made, others, seen>> /\ Still
       /\ IF Passed(a) THEN next ELSE Error

\* A call that makes of the cluster's things what it should be.
Build(things, answers, next) ==
    \E a \in answers :
       /\ Hear(a, answers)
       /\ made' = IF Effect(a) THEN things ELSE made
       /\ UNCHANGED <<has, registered, others, seen>> /\ Still
       /\ IF Passed(a) THEN next ELSE Error
One(t)     == [made EXCEPT ![t] = 1]
Another(t) == [made EXCEPT ![t] = IF @ < 2 THEN @ + 1 ELSE @]
Gone(ts)   == [t \in Things |-> IF t \in ts THEN 0 ELSE made[t]]

\* A question: the answer decides, nothing changes.
Ask(holds, next, otherwise) ==
    /\ UNCHANGED <<world, seen>> /\ Still
    /\ \E a \in Refusable :
          /\ Hear(a, Refusable)
          /\ IF a /= "ok" THEN Error ELSE IF holds THEN next ELSE otherwise

\* register_hosts over the scope (HostGroups has what it does on the array).
Register(answers, next) ==
    \E a \in answers :
       /\ Hear(a, answers)
       /\ registered' = IF Effect(a) THEN registered \cup scope ELSE registered
       /\ UNCHANGED <<has, made, others, seen>> /\ Still
       /\ IF Passed(a) THEN next ELSE Error

Go(next) == NoCall /\ UNCHANGED <<world, seen>> /\ Still /\ next
=============================================================================
