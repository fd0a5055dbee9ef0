---------------------------- MODULE InstallClusters ----------------------------
(***************************************************************************)
(* The integrations PHIF installs through the platform's own manager:      *)
(* OpenShift (Portworx), OpenStack (Cinder), vSphere (the remote plugin).  *)
(***************************************************************************)
EXTENDS InstallParts

-----------------------------------------------------------------------------
(* OpenShift: deploy, configure, configure_binding.                         *)

\* oc login comes before a step's first command; the command itself passes
\* unnoticed.
Session == Unnoticed \cup {"fails"}

\* Fault: only its own Portworx is looked for.
PortworxOwn == made["driver"] > 0
\* A registered CSI driver; `oc get` that fails shows none.
PortworxPresent == made["driver"] > 0 \/ made["foreign"] > 0
\* A Portworx that is there is adopted.
PxLook ==
    /\ At("openshift", "px_look")
    /\ \E a \in Session :
          /\ Hear(a, Session)
          /\ UNCHANGED <<world, seen>> /\ Still
          /\ IF ~Passed(a) THEN Error
             ELSE Goto(IF a = "ok" /\ PortworxPresent THEN "px_class" ELSE "px_operator")
PxOperator ==
    At("openshift", "px_operator") /\ Build(One("operator"), Checked, Goto("px_crd"))
WaitForCrd == At("openshift", "px_crd") /\ Ask(TRUE, Goto("px_secret"), Error)
PxSecret ==
    At("openshift", "px_secret") /\ Build(One("secret"), Checked, Goto("px_cluster"))
\* Two StorageClusters cannot share the nodes.
PxCluster ==
    /\ At("openshift", "px_cluster")
    /\ \E a \in Checked :
          /\ Hear(a, Checked)
          /\ made' = IF Effect(a) THEN One("portworx") ELSE made
          /\ others' = (others /\ ~(Effect(a) /\ made["foreign"] > 0))
          /\ UNCHANGED <<has, registered, seen>> /\ Still
          /\ IF Passed(a) THEN Goto("px_class") ELSE Error

\* The operator starts the cluster, which registers the CSI driver.
PxStarts ==
    /\ opt.p = "openshift"
    /\ made["operator"] > 0 /\ made["portworx"] > 0 /\ made["driver"] = 0
    /\ made' = One("driver")
    /\ UNCHANGED <<opt, ctl, run, has, registered, others, seen, fault>>

\* StorageClasses of the provisioner that are listed are reused.
PxClass ==
    /\ At("openshift", "px_class")
    /\ \E a \in Session :
          /\ Hear(a, Session)
          /\ UNCHANGED <<world, seen>> /\ Still
          /\ IF ~Passed(a) THEN Error
             ELSE Goto(IF a = "ok" /\ (made["class"] > 0 \/ opt.taken) THEN "px_binding"
                       ELSE "px_apply")
PxConfigure ==
    At("openshift", "px_apply") /\ Build(One("class"), Checked, Goto("px_binding"))
PxBinding ==                             \* a MachineConfig
    /\ At("openshift", "px_binding")
    /\ IF opt.bind THEN Build(One("binding"), Checked, Done) ELSE Go(Done)

\* The StorageCluster of one name, --ignore-not-found: PHIF's own, unless its
\* spec named it otherwise, or an adopted one.  The driver goes with it.
Named == (IF "own" \in opt.reached THEN {"portworx", "driver"} ELSE {})
         \cup (IF "others" \in opt.reached THEN {"foreign"} ELSE {})
PxDelete ==
    /\ At("openshift", "px_delete")
    /\ \E a \in Session :
          /\ Hear(a, Session)
          /\ made' = IF Effect(a) THEN Gone(Named) ELSE made
          /\ others' = (others /\ made'["foreign"] = made["foreign"])
          /\ UNCHANGED <<has, registered, seen>> /\ Still
          /\ IF Passed(a) THEN Goto("px_unsubscribe") ELSE Error
PxUnsubscribe ==
    /\ At("openshift", "px_unsubscribe")
    /\ IF opt.detached THEN Go(Done) ELSE Build(Gone({"operator"}), Unnoticed, Done)

-----------------------------------------------------------------------------
(* OpenStack: deploy, configure, setup_connectivity.  enabled_backends is   *)
(* rewritten from the copy of cinder.conf that was read at the start.       *)

StanzaExists == "stanza" \in seen'
\* `cat cinder.conf || true`: a read that fails is an empty file.  "storage":
\* the copy lists the backends of others.
ReadCinderConf ==
    /\ At("openstack", "os_read")
    /\ \E a \in Unchecked :
          /\ Hear(a, Unchecked)
          /\ seen' = IF a /= "ok" THEN {}
                     ELSE {t \in {"stanza", "backend"} : made[t] > 0}
                          \cup (IF opt.taken THEN {"storage"} ELSE {})
          /\ UNCHANGED world /\ Still
          /\ IF ~Passed(a) THEN Error
             ELSE Goto(IF StanzaExists THEN "os_type" ELSE "os_client")
EnsureClient ==
    At("openstack", "os_client") /\ Build(One("client"), Checked, Goto("os_stanza"))
AppendStanza ==
    /\ At("openstack", "os_stanza")
    /\ Build(Another("stanza"), Checked,
             Goto(IF "backend" \in seen THEN "os_restart" ELSE "os_enable"))
EnableBackend ==
    /\ At("openstack", "os_enable")
    /\ \E a \in Checked :
          /\ Hear(a, Checked)
          /\ made' = IF Effect(a) THEN One("backend") ELSE made
          /\ others' = (others /\ (Effect(a) /\ opt.taken => "storage" \in seen))
          /\ UNCHANGED <<has, registered, seen>> /\ Still
          /\ IF Passed(a) THEN Goto("os_restart") ELSE Error
RestartVolumeService ==
    At("openstack", "os_restart") /\ Build(One("loaded"), Checked, Goto("os_type"))

CinderConfigure ==
    At("openstack", "os_type") /\ Build(One("type"), Checked, Each("os_packages"))

ComputePackages ==
    At("openstack", "os_packages") /\ Give("initiator", Unchecked, Goto("os_mpath"))
ComputeMultipath ==
    At("openstack", "os_mpath") /\ Give("mpath", Checked, Goto("os_nova"))
RestartNovaCompute ==
    /\ At("openstack", "os_nova")
    /\ Give("loaded", Checked, NextNode("os_packages", Done))

\* The last enabled backend is not taken off the list (xargs -r).
RemoveStanza ==
    At("openstack", "os_delete") /\ Build(Gone({"stanza"}), Unchecked, Goto("os_disable"))
DisableBackend ==
    /\ At("openstack", "os_disable")
    /\ IF opt.taken THEN Build(Gone({"backend"}), Unchecked, Goto("os_unload"))
       ELSE Go(Goto("os_unload"))
UnloadBackend ==
    At("openstack", "os_unload") /\ Build(Gone({"loaded"}), Checked, Done)

-----------------------------------------------------------------------------
(* vSphere: deploy, configure, register_hosts, setup_connectivity,          *)
(* provision_datastore.                                                     *)

VsDeploy ==
    At("vsphere", "vs_plugin") /\ Build(One("plugin"), Checked, Goto("vs_vasa"))
VsVasa ==
    At("vsphere", "vs_vasa") /\ Build(One("vasa"), Warned, Goto("vs_refresh"))
VsConfigure ==
    At("vsphere", "vs_refresh") /\ Build(One("vasa"), Checked, Goto("vs_register"))

\* Only iSCSI is set up on the hosts; the group is applied again after it.
VsRegister ==
    /\ At("vsphere", "vs_register")
    /\ Register(Checked, IF opt.proto = "iscsi" THEN Each("vs_adapter")
                         ELSE Goto("vs_group"))
VsAdapter ==
    At("vsphere", "vs_adapter") /\ Give("initiator", Checked, Goto("vs_targets"))
VsTargets ==
    /\ At("vsphere", "vs_targets")
    /\ Give("session", Checked, NextNode("vs_adapter", Goto("vs_group")))
VsGroup ==
    /\ At("vsphere", "vs_group")
    /\ Register(Checked, IF opt.ds = "nfs" THEN Each("vs_mount") ELSE Goto("vs_volume"))

\* An NFS datastore is mounted host by host; a mount that is there is skipped.
VsMount ==
    /\ At("vsphere", "vs_mount")
    /\ Give("pbd", Checked, NextNode("vs_mount", Goto("vs_mounted")))
VsMounted == At("vsphere", "vs_mounted") /\ Build(One("datastore"), {"ok"}, Done)
\* A volume of the name is an error.
VsVolume ==
    /\ At("vsphere", "vs_volume")
    /\ IF made["volume"] > 0 THEN Go(Error)
       ELSE Build(One("volume"), Checked, Goto("vs_connect"))
\* The volume is connected to a host object of the host group's name: there
\* is one when the cluster has a single host.
VsConnect ==
    /\ At("vsphere", "vs_connect")
    /\ Ask(Cardinality(members) = 1, Goto("vs_format"), Error)
\* The device is looked up by "3624a9370<serial>" among names that are
\* "naa.624a9370<serial>".
DeviceFound == FALSE
VsFormat ==
    /\ At("vsphere", "vs_format")
    /\ IF DeviceFound THEN Build(One("datastore"), Checked, Done) ELSE Go(Error)

VsArray == At("vsphere", "vs_array") /\ Ask(TRUE, Goto("vs_unvasa"), Error)
VsUnregisterVasa ==
    At("vsphere", "vs_unvasa") /\ Build(Gone({"vasa"}), Unnoticed, Goto("vs_unplug"))
VsUnregister ==
    /\ At("vsphere", "vs_unplug")
    /\ IF opt.detached THEN Go(Done) ELSE Build(Gone({"plugin"}), Unnoticed, Done)

-----------------------------------------------------------------------------

OpenshiftSteps ==
    \/ PxLook \/ PxOperator \/ WaitForCrd \/ PxSecret \/ PxCluster \/ PxClass
    \/ PxConfigure \/ PxBinding \/ PxDelete \/ PxUnsubscribe
OpenstackSteps ==
    \/ ReadCinderConf \/ EnsureClient \/ AppendStanza \/ EnableBackend
    \/ RestartVolumeService \/ CinderConfigure
    \/ ComputePackages \/ ComputeMultipath \/ RestartNovaCompute
    \/ RemoveStanza \/ DisableBackend \/ UnloadBackend
VsphereSteps ==
    \/ VsDeploy \/ VsVasa \/ VsConfigure \/ VsRegister \/ VsAdapter \/ VsTargets
    \/ VsGroup \/ VsMount \/ VsMounted \/ VsVolume \/ VsConnect \/ VsFormat
    \/ VsArray \/ VsUnregisterVasa \/ VsUnregister
ClusterSteps == OpenshiftSteps \/ OpenstackSteps \/ VsphereSteps
=============================================================================
