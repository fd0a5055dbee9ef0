---------------------------- MODULE VmProvisioned ----------------------------
(***************************************************************************)
(* The destinations that make the disks together with the VM: HPE VME,     *)
(* OpenShift Virtualization and OpenStack.  create_vm remembers the volume *)
(* of each order; create_managed_disk hands that volume back.              *)
(***************************************************************************)
EXTENDS VmParts

Ready == known' = TRUE /\ UNCHANGED <<memory, noted, dest>> /\ Goto("disk")

\* The cached volume of the order, or an error.
CachedDisk ==
    /\ pc = "disk" /\ opt.dst \in {"hpevme", "openshift", "openstack"} /\ Outside
    /\ UNCHANGED <<vol, vmVars, extra, others, faultVars>>
    /\ IF memory[Order] /= 0
       THEN /\ dest' = Append(dest, memory[Order])
            /\ UNCHANGED <<known, memory, noted>> /\ Goto("copy")
       ELSE Leave("undo")

\* set_boot_order does nothing: the boot disk was named at creation.
BootNamedAtCreation ==
    /\ pc = "boot" /\ opt.dst \in {"hpevme", "openshift", "openstack"} /\ Outside
    /\ UNCHANGED <<vol, vmVars, memVars, extra, others, faultVars>>
    /\ Goto("power")

\* The VM with a volume at each of the first addresses, which boots from one.
InList == {a \in Addr : a < Len(spec)}
VmWith(volume, boot) ==
    /\ vm' = TRUE /\ boots' = boot
    /\ slot' = [a \in Addr |-> IF a \in InList THEN volume[a] ELSE 0]
    /\ UNCHANGED <<rdm, native, home>>

-----------------------------------------------------------------------------
(* HPE VME: the instance is provisioned powered off with all its volumes.   *)

\* POST /instances; a request that timed out may have been carried out.
HpePost ==
    /\ At("hpevme", "create") /\ Outside /\ UNCHANGED <<extra, others>>
    /\ \E a \in Checked :
          /\ Hear(a, Checked)
          /\ IF Effect(a)
             THEN /\ VmWith([d \in InList |-> CHOOSE i \in Positions : BootRank(i) = d], 0)
                  /\ vol' = [v \in Vols |-> IF v \in Positions THEN Blank ELSE vol[v]]
             ELSE UNCHANGED vmVars /\ UNCHANGED vol
          /\ Leave(IF a = "ok" THEN "await" ELSE "undo")

\* _await_provisioned: a failed or a slow provision raises, the instance stays.
HpeAwait ==
    /\ At("hpevme", "await") /\ Outside /\ UNCHANGED <<vol, vmVars, extra, others>>
    /\ \E a \in {"ok", "fails"} :
          Hear(a, Checked) /\ Leave(IF a = "ok" THEN "cache" ELSE "undo")

\* _cache_provisioned_disks: by order, so the last of an order wins; a volume
\* that cannot be resolved raises.
\* Fault: the volumes are taken to be in the order of the source's numbers.
CacheByNumber ==
    [o \in Addr |-> IF o + 1 \in Positions THEN o + 1 ELSE 0]
CacheByOrder ==
    [o \in Addr |-> IF o \in Orders
                    THEN CHOOSE i \in {j \in Positions : spec[j].order = o} :
                            \A j \in Positions : spec[j].order = o =>
                                                 BootRank(j) <= BootRank(i)
                    ELSE 0]
HpeCache ==
    /\ At("hpevme", "cache") /\ Outside /\ UNCHANGED <<vol, vmVars, extra, others>>
    /\ \E a \in {"ok", "fails"} :
          /\ Hear(a, Checked)
          /\ IF a = "ok"
             THEN /\ memory' = CacheByOrder /\ known' = TRUE
                  /\ UNCHANGED <<noted, dest>> /\ Goto("disk")
             ELSE Leave("undo")

\* DELETE /instances with preserveVolumes=false.
HpeDelete ==
    /\ At("hpevme", "teardown") /\ Outside /\ UNCHANGED <<extra, others>>
    /\ \E a \in Checked :
          /\ HearCleanup(a, Checked)
          /\ IF Effect(a) THEN VmGone /\ vol' = Without(Attached)
             ELSE UNCHANGED vmVars /\ UNCHANGED vol
    /\ Leave("unstage")

-----------------------------------------------------------------------------
(* OpenShift: a PVC per disk, then the VM; both are applied by name, so     *)
(* under a shared name they are the other VM's.                             *)

\* oc apply of disk<order>'s PVC, its binding, the volume behind it; the
\* volume may stay unknown, which is noticed only when it is asked for.
PvcApply ==
    /\ At("openshift", "create") /\ Outside /\ UNCHANGED vmVars /\ UNCHANGED <<extra, others>>
    /\ LET o == Order
           v == FirstWith(o)
       IN \E a \in Checked \union {"silent"} :
             /\ Hear(a, Checked \union {"silent"})
             /\ vol' = IF a /= "fails" /\ vol[v] = Absent
                       THEN [vol EXCEPT ![v] = Blank] ELSE vol
             /\ memory' = CASE a = "ok" -> [memory EXCEPT ![o] = v]
                            [] a = "silent" -> [memory EXCEPT ![o] = 0]
                            [] OTHER -> NoMemory
             /\ UNCHANGED <<known, noted, dest>>
             /\ IF Passed(a) THEN Loop("create", "apply") ELSE Goto("ocCleanup")

\* oc apply of the VM.
VmApply ==
    /\ At("openshift", "apply") /\ Outside /\ UNCHANGED <<vol, extra>>
    /\ \E a \in Checked :
          /\ Hear(a, Checked)
          /\ IF Effect(a)
             THEN /\ VmWith([d \in InList |-> FirstWith(spec[d + 1].order)],
                            BootDisk - 1)
                  /\ others' = IF shares THEN others \ {"namesake"} ELSE others
             ELSE UNCHANGED vmVars /\ UNCHANGED others
          /\ IF a = "ok" THEN Ready
             ELSE /\ memory' = NoMemory /\ UNCHANGED <<known, noted, dest>>
                  /\ Goto("ocCleanup")

\* What "oc delete vm <name>" takes with it.
NameGone == IF shares THEN others \ {"namesake"} ELSE others

\* _cleanup_vm_artifacts: the VM of that name, and every migration PVC of the
\* namespace, whichever VM has it.
OcCleanup ==
    /\ At("openshift", "ocCleanup") /\ Outside /\ UNCHANGED extra
    /\ \E a, b \in Unchecked :
          /\ \E worse \in {a, b} :
                HearCleanup(worse, Unchecked) /\ (worse = "ok" => {a, b} = {"ok"})
          /\ IF a = "ok" THEN VmGone ELSE UNCHANGED vmVars
          /\ vol' = IF b = "ok" THEN Without(Vols) ELSE vol
          /\ others' = (IF a = "ok" THEN NameGone ELSE others)
                           \ (IF b = "ok" THEN {"sibling"} ELSE {})
    /\ Leave("undo")

\* delete_vm(keep_disks=False): the PVCs of the cached orders; without a cache
\* every migration PVC of the namespace.
OcDelete ==
    /\ At("openshift", "teardown") /\ Outside /\ UNCHANGED extra
    /\ \E a, b \in Unchecked :
          /\ \E worse \in {a, b} :
                HearCleanup(worse, Unchecked) /\ (worse = "ok" => {a, b} = {"ok"})
          /\ IF a = "ok" THEN VmGone ELSE UNCHANGED vmVars
          /\ vol' = IF b = "ok" THEN Without({FirstWith(o) : o \in Orders}) ELSE vol
          /\ others' = IF a = "ok" THEN NameGone ELSE others
    /\ Leave("unstage")

-----------------------------------------------------------------------------
(* OpenStack: a Cinder volume per disk, ports, then the Nova instance,      *)
(* which is booted once and stopped.                                        *)

\* openstack volume create and _await_volume: remembered only once available.
CinderCreate ==
    /\ At("openstack", "create") /\ Outside /\ UNCHANGED vmVars /\ UNCHANGED others
    /\ \E a \in Checked :
          /\ Hear(a, Checked)
          /\ vol' = IF Effect(a) THEN [vol EXCEPT ![at] = Blank] ELSE vol
          /\ memory' = IF a = "ok" THEN [memory EXCEPT ![Order] = at]
                       ELSE memory
          \* os_shutdown_timeout=0 on the boot volume
          /\ extra' = IF a = "ok" /\ spec[at].boot
                      THEN extra \union {"timeout"} ELSE extra
          /\ UNCHANGED <<known, noted, dest>>
          /\ IF a = "ok" THEN Loop("create", "ports") ELSE Goto("osCleanup")

\* openstack port create; a NIC without a port is dropped without an error.
PortCreate ==
    /\ At("openstack", "ports") /\ Outside /\ UNCHANGED <<vol, vmVars, others>>
    /\ \E a \in Unchecked :
          /\ Hear(a, Unchecked)
          /\ extra' = IF a = "ok" THEN extra \union {"port"} ELSE extra
    /\ Leave("boot1")

\* openstack server create: a volume named twice is refused; the id of the
\* instance is remembered before it is waited for.
NovaCreate ==
    /\ At("openstack", "boot1") /\ Outside /\ UNCHANGED <<vol, extra, others>>
    /\ IF ~DistinctOrders
       THEN UNCHANGED vmVars /\ UNCHANGED faultVars /\ Leave("osCleanup")
       ELSE \E a \in Checked :
               /\ Hear(a, Checked)
               /\ IF Effect(a) THEN VmWith([d \in InList |-> memory[spec[d + 1].order]],
                                        BootDisk - 1)
                  ELSE UNCHANGED vmVars
               /\ noted' = (a = "ok") /\ UNCHANGED <<known, memory, dest>>
               /\ Goto(IF a = "ok" THEN "settle" ELSE "osCleanup")

\* ACTIVE, stop, SHUTOFF.
NovaSettle ==
    /\ At("openstack", "settle") /\ Outside
    /\ UNCHANGED <<vol, vmVars, extra, others>>
    /\ \E a \in {"ok", "fails"} :
          /\ Hear(a, Checked)
          /\ IF a = "ok" THEN Ready ELSE Leave("osCleanup")

\* finalize_destination_disks: the boot volume's shutdown timeout is unset.
OpenstackFinalize ==
    /\ At("openstack", "finalize") /\ Outside /\ UNCHANGED <<vol, vmVars, others>>
    /\ \E a \in Unchecked :
          /\ Hear(a, Unchecked)
          /\ extra' = IF a = "ok" THEN extra \ {"timeout"} ELSE extra
    /\ Leave("convert")

\* _cleanup_artifacts: the noted instance, the remembered volumes, the ports;
\* a volume of an instance that is still there is not deleted.
Remembered == {memory[o] : o \in Addr} \ {0}

CleanupArtifacts(a, b) ==
    /\ IF a = "ok" /\ noted THEN VmGone ELSE UNCHANGED vmVars
    /\ vol' = IF b = "ok" THEN Without(Remembered \ {slot'[x] : x \in Addr}) ELSE vol
    /\ extra' = IF b = "ok" THEN extra \ {"port", "timeout"} ELSE extra

OsCleanup ==
    /\ \/ At("openstack", "osCleanup") /\ Goto("undo")
       \/ At("openstack", "teardown") /\ Goto("unstage")
    /\ Outside /\ UNCHANGED others
    /\ \E a, b \in Unchecked :
          /\ \E worse \in {a, b} :
                HearCleanup(worse, Unchecked) /\ (worse = "ok" => {a, b} = {"ok"})
          /\ CleanupArtifacts(a, b)
    /\ noted' = FALSE /\ UNCHANGED <<known, memory, dest>>

ProvisionedStep ==
    \/ CachedDisk \/ BootNamedAtCreation
    \/ HpePost \/ HpeAwait \/ HpeCache \/ HpeDelete
    \/ PvcApply \/ VmApply \/ OcCleanup \/ OcDelete
    \/ CinderCreate \/ PortCreate \/ NovaCreate \/ NovaSettle
    \/ OpenstackFinalize \/ OsCleanup
=============================================================================
