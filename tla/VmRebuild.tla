------------------------------ MODULE VmRebuild ------------------------------
(***************************************************************************)
(* One migration as its connectors carry it out: MigrationService.run      *)
(* (phif/migrate/service.py) with every step of capture_vm_spec,           *)
(* prepare_source_disks, create_vm, create_managed_disk, finalize, convert,*)
(* set_boot_order and delete_vm of the source and destination connectors.  *)
(* Migration.tla has the same service over abstract connectors, with the   *)
(* power of both VMs, replication, and the removal of the source.          *)
(***************************************************************************)
EXTENDS VmSource, VmOnDemand, VmProvisioned, VmVsphere

Init ==
    /\ opt \in Runs /\ hw \in SourceVms
    /\ pc = "capture" /\ at = 1 /\ tries = 0
    /\ spec = << >> /\ srcVm = TRUE
    /\ vm = FALSE /\ known = FALSE
    /\ vol = [v \in Vols |-> Absent]
    /\ slot = NoDevices /\ boots = Nowhere
    /\ rdm = {} /\ native = {} /\ home = FALSE
    /\ memory = NoMemory /\ noted = FALSE /\ dest = << >>
    /\ extra = {}
    /\ others = {"sibling"} \union (IF opt.name = "free" THEN {} ELSE {"namesake"})
    /\ shares = FALSE
    /\ faults = 0 /\ missed = FALSE

-----------------------------------------------------------------------------
(* MigrationService.                                                        *)

\* The name is compared with the listed names as they are, so one the source's
\* is normalised to is not noticed.
SharesName(listed) ==
    opt.name = "folds" \/ (opt.name = "taken" /\ listed = "silent")

\* _ensure_unique_dest_name: a listing that fails gives a suffixed name; one
\* that answers with nothing (list_vms of some connectors swallows its errors)
\* does not.
EnsureUniqueName ==
    /\ pc = "name"
    /\ \E a \in {"ok", "fails", "silent"} :
          /\ Hear(a, {"ok", "fails", "silent"})
          /\ shares' = (a /= "fails" /\ SharesName(a))
    /\ Start("create")
    /\ UNCHANGED <<opt, srcVars, memVars, vmVars, vol, extra, others>>

\* copy_volume(overwrite=True) onto the volume handed back for the disk.
CopyVolume ==
    /\ pc = "copy"
    /\ \E a \in Checked :
          /\ Hear(a, Checked)
          /\ vol' = IF Effect(a) THEN [vol EXCEPT ![dest[at]] = spec[at].disk]
                    ELSE vol
          /\ IF a = "ok" THEN Loop("disk", "finalize") ELSE Goto("undo")
    /\ UNCHANGED <<opt, srcVars, memVars, vmVars, extra, others, shares>>

NoFinalize ==
    /\ pc = "finalize" /\ opt.dst \notin {"vsphere", "openstack"}
    /\ Goto("convert")
    /\ UNCHANGED <<opt, srcVars, memVars, vmVars, vol, extra, others, shares,
                   faultVars>>

\* The destination comes up, or the run fails.
PowerOn ==
    /\ pc = "power"
    /\ \E a \in {"ok", "fails"} :
          Hear(a, Checked) /\ GoOn(a = "ok", IF opt.move THEN "remove" ELSE "tidy",
                                   "undo")
    /\ UNCHANGED <<opt, srcVars, memVars, vmVars, vol, extra, others, shares>>

\* delete_vm(keep_disks=True) of the source: Nutanix refuses, Proxmox and
\* XCP-ng cannot fail; the answer fails nothing that was done.
RemoveSource ==
    /\ pc = "remove"
    /\ \E a \in Unchecked :
          /\ Hear(a, Unchecked)
          /\ srcVm' = (a = "silent" \/ opt.src = "nutanix")
    /\ Goto("tidy")
    /\ UNCHANGED <<opt, hw, spec, memVars, vmVars, vol, extra, others, shares>>

\* unwind: _teardown_dest if the VM is known.
Undo ==
    /\ pc = "undo"
    /\ Goto(IF known THEN "teardown" ELSE "unstage")
    /\ UNCHANGED <<opt, srcVars, memVars, vmVars, vol, extra, others, shares,
                   faultVars>>

SourceStep ==
    \/ Capture \/ ProvisionEsxiSsh \/ Freeze \/ CloneDisk \/ RemoveSnapshot
    \/ DeprovisionEsxiSsh
    \/ CleanupScratch("tidy", "done") \/ CleanupScratch("unstage", "rolledback")

ServiceStep ==
    \/ EnsureUniqueName \/ CopyVolume \/ NoFinalize \/ NoConversion \/ PowerOn
    \/ RemoveSource \/ Undo

Finished == pc \in {"done", "rolledback"} /\ UNCHANGED vars

RunStep == SourceStep \/ ServiceStep \/ OnDemandStep \/ ProvisionedStep
               \/ VsphereStep
Next == RunStep \/ NeighbourTakesId \/ Finished

Spec == Init /\ [][Next]_vars

-----------------------------------------------------------------------------
(* Properties.                                                              *)

\* Types of the state.
TypeOK ==
    /\ opt \in Runs /\ hw \in SourceVms
    /\ at \in Disks /\ tries \in 0..3
    /\ Len(spec) <= NDisks /\ \A i \in Positions : spec[i] \in CapturedDisk
    /\ {srcVm, vm, known, noted, home, shares, missed} \subseteq BOOLEAN
    /\ vol \in [Vols -> 0..Absent]
    /\ slot \in [Addr -> {0} \union Vols]
    /\ boots \in Addr \union {Nowhere}
    /\ memory \in [Addr -> {0} \union Vols]
    /\ rdm \subseteq Disks /\ native \subseteq rdm
    /\ Len(dest) <= NDisks /\ \A i \in 1..Len(dest) : dest[i] \in Vols
    /\ extra \subseteq {"account", "snapshot", "clones", "recorded", "port",
                        "timeout"}
    /\ others \subseteq {"sibling", "namesake", "neighbour"}
    /\ faults \in 0..MaxFaults

\* The contents of the device at address a.
ContentsAt(a) ==
    IF slot[a] \in native THEN spec[slot[a]].disk ELSE vol[slot[a]]

\* After a migration that succeeded and missed no answer the VM has, for every
\* captured disk, exactly one device with its contents, no other device, and
\* it boots from the boot disk; nothing else the run made is left: no volume
\* that is no device, no port, scratch or account.  It needs distinct orders
\* (two disks of one order are copied onto one volume); AHV boots index 0,
\* whichever disk that is, and a vVol disk goes to the first free unit,
\* whichever order it has.
RebuildComplete ==
    (pc = "done" /\ ~missed /\ DistinctOrders) =>
        /\ vm
        /\ \A i \in Positions : \E a \in Addr :
              /\ slot[a] /= 0 /\ ContentsAt(a) = spec[i].disk
              /\ i = BootDisk => \/ boots = a
                                 \/ opt.dst = "nutanix"
                                 \/ opt.dst = "vsphere" /\ opt.vvol
        /\ Cardinality({a \in Addr : slot[a] /= 0}) = Len(spec)
        /\ \A v \in Vols : Exists(v) => v \in Attached
        /\ extra \subseteq {"port"}

\* The orders of the RDM volumes made so far have a gap.
Gap == {spec[i].order : i \in rdm} /= 0..(Cardinality(rdm) - 1)

\* The volumes a rollback is known to leave: XCP-ng never deletes a VDI; an HPE
\* VME instance whose provisioning fails is not known to the rollback; a
\* scratch volume that could not be formatted is not noted; the vSphere loop
\* over disk<n> stops at the first missing number, as the conversion leaves; OpenStack remembers only
\* the last volume of an order.
KnownLeak(v) ==
    \/ opt.dst = "xcpng"
    \/ opt.dst = "hpevme" /\ ~known
    \/ v = Scratch /\ ~known
    \/ opt.dst = "vsphere" /\ v \in rdm /\ (Gap \/ native /= {})
    \/ opt.dst = "openstack" /\ ~DistinctOrders

\* After a rollback in which every call answered what it did, nothing of the
\* run is left at the destination but the known leaks; of the source's staging
\* at most the clones of a staging that failed half-way are left.
RollbackLeavesNothing ==
    (pc = "rolledback" /\ ~missed) =>
        /\ vm => opt.dst = "hpevme" /\ ~known
        /\ \A v \in Vols : Exists(v) => KnownLeak(v)
        /\ extra \subseteq (IF known THEN {} ELSE {"clones"})

\* A volume is never destroyed while a device of the new VM, or its home, is on
\* it, whatever calls failed.  Two exceptions, each after a missed failure: the
\* PVCs are deleted though the deletion of the OpenShift VM failed, and the
\* scratch is torn down under a VM vCenter made without saying so.
InUse(v) == v \in Attached \ native \/ (v = Scratch /\ home)
Excused  == missed /\ \/ opt.dst = "openshift"
                      \/ opt.dst = "vsphere" /\ ~known
FreedVolumesUnused ==
    [][\A v \in Vols :
          (Exists(v) /\ vol'[v] = Absent /\ ~Excused') => ~InUse(v)']_vars

-----------------------------------------------------------------------------
(* What the code's comments say and the connectors do not do.               *)

\* "never overwrite it": no VM of the destination is replaced or deleted.
NamesakeNeverLost == opt.name /= "free" => "namesake" \in others

\* "a partially-created VM + its migration PVCs": no other VM's PVCs.
SiblingsKeepDisks == "sibling" \in others

\* "A disk not backed by a FlashArray volume should raise": a source VM is
\* removed only when all its disks were captured.
WholeVmMoved == ~srcVm => {spec[i].disk : i \in Positions} = HwDisks
=============================================================================
