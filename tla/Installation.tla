---------------------------- MODULE Installation ----------------------------
(***************************************************************************)
(* The installation of an integration: the wizard's sequence of connector  *)
(* steps, the reconciliation of nodes that joined, and the teardown        *)
(* (api/service.py and the six connectors that install something), begun   *)
(* by an operator who repeats an install that failed.                      *)
(*                                                                         *)
(* The jobs of one hypervisor run here one after another; JobEngine has    *)
(* what the jobs are.                                                      *)
(***************************************************************************)
EXTENDS InstallHosts, InstallClusters

Operations == {"install", "reconcile", "teardown"}

\* The calls of each operation on the platform, from the first to the last.
CallsOf(o) ==
    CASE o = "install" ->
           [proxmox |-> {"pve_probe", "pve_deps", "pve_plugin", "pve_reload", "pve_define",
                         "pve_register", "pve_portals", "pve_initiator", "pve_session",
                         "pve_mpath", "pve_binding", "pve_enable"},
            xcpng |-> {"xcp_register", "xcp_require", "xcp_probe", "xcp_plugin", "xcp_restart",
                       "xcp_ready", "xcp_existing", "xcp_clobber", "xcp_create", "xcp_pbd",
                       "xcp_portals", "xcp_mpath", "xcp_login", "xcp_binding"},
            hpevme |-> {"hpe_plugin", "hpe_record", "hpe_register", "hpe_portals", "hpe_sudo",
                        "hpe_session", "hpe_mpath", "hpe_refresh"},
            openshift |-> {"px_look", "px_operator", "px_crd", "px_secret", "px_cluster",
                           "px_class", "px_apply", "px_binding"},
            openstack |-> {"os_read", "os_client", "os_stanza", "os_enable", "os_restart",
                           "os_type", "os_packages", "os_mpath", "os_nova"},
            vsphere |-> {"vs_plugin", "vs_vasa", "vs_refresh", "vs_register", "vs_adapter",
                         "vs_targets", "vs_group", "vs_mount", "vs_mounted", "vs_volume",
                         "vs_connect", "vs_format"}][opt.p]
      [] o = "reconcile" ->
           [proxmox |-> {"pve_probe", "pve_deps", "pve_plugin", "pve_reload", "pve_register",
                         "pve_portals", "pve_initiator", "pve_session", "pve_mpath", "pve_binding"},
            xcpng |-> {"xcp_plugin", "xcp_register", "xcp_portals", "xcp_mpath", "xcp_login",
                       "xcp_binding"},
            hpevme |-> {"hpe_register", "hpe_portals", "hpe_sudo", "hpe_session", "hpe_mpath",
                        "hpe_refresh"},
            openshift |-> {}, openstack |-> {}, vsphere |-> {}][opt.p]
      [] o = "teardown" ->
           [proxmox |-> {"pve_remove", "pve_rm"},
            xcpng |-> {"xcp_forget", "xcp_rm", "xcp_rmload"},
            hpevme |-> {"hpe_disconnect"},
            openshift |-> {"px_delete", "px_unsubscribe"},
            openstack |-> {"os_delete", "os_disable", "os_unload"},
            vsphere |-> {"vs_array", "vs_unvasa", "vs_unplug"}][opt.p]

TypeOK ==
    /\ opt \in Setups
    /\ at \in Nodes /\ scope \subseteq Nodes
    /\ op \in Operations \cup {"none"} /\ answer \in {"none", "ok", "error"}
    /\ pc = "idle" \/ pc \in CallsOf(op)
    /\ members \in (SUBSET Nodes) \ {{}} /\ registered \subseteq members
    /\ has \in [Nodes -> SUBSET Parts] /\ made \in [Things -> 0..2]
    /\ seen \subseteq Things /\ others \in BOOLEAN
    /\ ops \in 0..MaxOps /\ faults \in 0..MaxFaults
    /\ missed \in BOOLEAN /\ blind \in BOOLEAN

Init ==
    /\ opt \in Setups
    /\ pc = "idle" /\ op = "none" /\ answer = "none"
    /\ members \in {1..n : n \in Nodes}
    /\ at = 1 /\ scope = {}
    /\ has = [n \in Nodes |-> {}] /\ registered = {}
    /\ made = [t \in Things |->
                 IF t = "foreign" /\ opt.p = "openshift" /\ opt.taken THEN 1 ELSE 0]
    /\ seen = {} /\ others = TRUE
    /\ ops = 0 /\ faults = 0 /\ missed = FALSE /\ blind = FALSE

-----------------------------------------------------------------------------
(* Operations.                                                              *)

\* The first call of an operation on each platform; "none" when the connector
\* does not have it.
FirstStep(o, p) ==
    CASE o = "install" ->
           [proxmox |-> "pve_probe", xcpng |-> "xcp_register",
            hpevme |-> "hpe_plugin", openshift |-> "px_look",
            openstack |-> "os_read", vsphere |-> "vs_plugin"][p]
      [] o = "reconcile" ->
           [proxmox |-> "pve_probe", xcpng |-> "xcp_plugin",
            hpevme |-> "hpe_register", openshift |-> "none",
            openstack |-> "none", vsphere |-> "none"][p]
      [] o = "teardown" ->
           [proxmox |-> "pve_remove", xcpng |-> "xcp_forget",
            hpevme |-> "hpe_disconnect", openshift |-> "px_delete",
            openstack |-> "os_delete", vsphere |-> "vs_array"][p]

\* Fault: the list of nodes is not read again.
ScopeOfStale(o) == Nodes
\* A reconcile is for the nodes that have no host object yet.
ScopeOf(o) == IF o = "reconcile" THEN members \ registered ELSE members

Start(o) ==
    /\ op' = o /\ scope' = ScopeOf(o) /\ scope' /= {} /\ at' = First(scope')
    /\ FirstStep(o, opt.p) /= "none"
    /\ UNCHANGED <<opt, members, world>> /\ seen' = {}
    \* validate_connection and preflight.
    /\ \E a \in IF o = "install" THEN Refusable ELSE {"ok"} :
          /\ Hear(a, Refusable)
          /\ pc' = (IF a = "ok" THEN FirstStep(o, opt.p) ELSE "idle")
          /\ answer' = (IF a = "ok" THEN "none" ELSE "error")

Begin(o) ==
    /\ pc = "idle" /\ ops < MaxOps
    /\ Start(o) /\ ops' = ops + 1

\* The operator repeats an install that ended in an error.
Retry ==
    /\ pc = "idle" /\ op = "install" /\ answer = "error"
    /\ Start("install") /\ UNCHANGED ops

Join(n) ==
    /\ pc = "idle" /\ n \notin members /\ n - 1 \in members
    /\ members' = members \cup {n}
    /\ UNCHANGED <<opt, ctl, op, answer, ops, world, seen, fault>>

Steps == HostSteps \/ ClusterSteps

Next ==
    \/ \E o \in Operations : Begin(o)
    \/ Retry
    \/ \E n \in Nodes : Join(n)
    \/ Steps
    \/ PxStarts

\* A job that runs goes on, and an operator whose install failed tries again.
Spec == Init /\ [][Next]_vars /\ WF_vars(Steps) /\ WF_vars(Retry)

-----------------------------------------------------------------------------
(* What each platform needs to use the array.                               *)

\* The parts of a node.
PartsOf ==
    [proxmox   |-> {"deps", "plugin", "loaded", "initiator", "session", "mpath"},
     xcpng     |-> {"plugin", "loaded", "session", "mpath", "pbd"},
     hpevme    |-> IF opt.proto = "nvme-tcp" THEN {} ELSE {"session", "mpath"},
     openshift |-> {},
     openstack |-> {"initiator", "mpath", "loaded"},
     vsphere   |-> (IF opt.proto = "iscsi" THEN {"initiator", "session"} ELSE {})
                   \cup (IF opt.ds = "nfs" THEN {"pbd"} ELSE {})][opt.p]

\* The definitions on the cluster or its manager.
ThingsOf ==
    (IF opt.bind /\ opt.p \in {"proxmox", "xcpng", "openshift"} THEN {"binding"}
     ELSE {})
    \cup [proxmox   |-> {"storage", "enabled"},
          xcpng     |-> {"sr"},
          hpevme    |-> {"plugin", "record"},
          openshift |-> (IF made["foreign"] > 0 THEN {} ELSE {"secret", "portworx"})
                        \cup (IF made["foreign"] = 0 /\ ("own" \in opt.reached \/ opt.detached)
                              THEN {"operator"} ELSE {})
                        \cup (IF opt.taken THEN {} ELSE {"class"}),
          openstack |-> {"client", "stanza", "backend", "loaded", "type"},
          vsphere   |-> {"plugin", "vasa", "datastore"}][opt.p]

NeedsHost == opt.p \in {"proxmox", "xcpng", "hpevme", "vsphere"}
Equipped(n) == PartsOf \subseteq has[n] /\ (NeedsHost => n \in registered)
Installed == (\A n \in scope : Equipped(n)) /\ (\A t \in ThingsOf : made[t] > 0)

Ended(o, a) == pc = "idle" /\ op = o /\ answer = a

-----------------------------------------------------------------------------
(* Properties.                                                              *)

\* An operation that answered ok has configured the nodes it was for.
\* An install, however often it was repeated and wherever the
\* earlier ones stopped, left everything the platform needs on every node it
\* was for, unless a call's effect and its answer differed.  OpenStack skips
\* the rest of a deploy that stopped half way: there, only without a fault.
\* A reconcile left every one registered, with a session and, where a storage is
\* defined, the plugin, when no call failed and the array can be reached: its
\* steps' own answers are not looked at.
OkMeansConfigured ==
    /\ Ended("install", "ok") /\ ~missed /\ (opt.p = "openstack" => faults = 0)
        => Installed
    /\ Ended("reconcile", "ok") /\ faults = 0 /\ opt.portals /\ scope \cap opt.cut = {}
        => \A n \in scope :
              /\ n \in registered
              /\ made["storage"] + made["sr"] > 0 => "plugin" \in has[n]
              /\ "session" \in PartsOf => "session" \in has[n]

\* What is defined on the cluster stands on what it needs: a storage is enabled
\* when every node of the scope is equipped, Portworx is created when its
\* operator and its secret are there, Cinder is restarted on a backend only
\* when its driver's client is installed; and plugin files go when no storage
\* uses them.
Enabled(t) == made[t] = 0 /\ made'[t] > 0
DefinedOverPlugin ==
    [][~missed' =>
         /\ Enabled("enabled") => \A n \in scope : Equipped(n)
         /\ Enabled("portworx") => made["operator"] > 0 /\ made["secret"] > 0
         /\ Enabled("backend") => made["client"] > 0 /\ made["stanza"] > 0
         /\ \A n \in Nodes :
               "plugin" \in has[n] \ has'[n] => made["storage"] + made["sr"] = 0]_vars

\* After a teardown that answered ok, no definition of the integration is left,
\* and no plugin file on a node.  HPE VME's leaves the integration; vSphere's
\* and OpenShift's leave what is detached; OpenShift's leaves Portworx whose
\* StorageCluster does not have the name it deletes (reached); Cinder's leaves the only backend on the list, which
\* grep empties and xargs -r then does not write.
Definitions ==
    {"storage", "enabled", "sr", "stanza", "vasa"}
    \cup (IF "own" \in opt.reached THEN {"portworx", "driver"} ELSE {})
    \cup (IF opt.detached THEN {} ELSE {"operator"})
    \cup (IF opt.p = "vsphere" /\ ~opt.detached THEN {"plugin"} ELSE {})
    \cup (IF opt.taken THEN {"backend"} ELSE {})
TeardownRemoves ==
    Ended("teardown", "ok") /\ ~missed
        => /\ \A t \in Definitions : made[t] = 0
           /\ \A n \in members : "plugin" \notin has[n]

\* However often an install is repeated, and whatever calls of the attempts
\* before failed, timed out after they took effect (sr-create) or passed
\* unnoticed, there is one of each thing, one SR of the name, one stanza, one
\* volume (but HPE VME's POST adds a storage server), and what others run on
\* the cluster still works: no second StorageCluster, no list of backends
\* without theirs.  Two exceptions.  A listing that fails looks empty, an SR
\* that could not be forgotten is taken for gone, and nothing guards what
\* follows (blind): a second SR, or a list of backends without theirs.  A StorageCluster of others
\* that has the name a teardown deletes is gone after it.
AdoptedDeleted ==
    opt.p = "openshift" /\ "others" \in opt.reached /\ made["foreign"] = 0
AddsOnlyItsOwn ==
    ~blind => /\ others \/ AdoptedDeleted
              /\ \A t \in Things \ {"record"} : made[t] <= 1

\* An operator who repeats the install gets there, once no more calls fail, or
\* turns to another operation.  Not with Proxmox over NVMe-TCP, whose nvme
\* connect is an error on a connected node, nor with a VMFS datastore, whose
\* device is not found, nor when the array cannot be reached.
Attainable ==
    /\ opt.cut = {} /\ opt.portals /\ opt.ds /= "vmfs"
    /\ ~(opt.p = "proxmox" /\ opt.proto = "nvme-tcp")
RetriesSucceed == Attainable /\ op = "install" ~> answer = "ok" \/ op /= "install"

=============================================================================
