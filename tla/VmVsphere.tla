------------------------------- MODULE VmVsphere -----------------------------
(***************************************************************************)
(* vSphere as the destination: the scratch VMFS datastore a conversion     *)
(* needs, the VM, its disks (vVol, or FlashArray volumes attached as RDMs  *)
(* after the copy), their conversion to VMDKs, and delete_vm.              *)
(***************************************************************************)
EXTENDS VmParts

\* _provision_scratch_vmfs: the volume, its connection and the rescan ...
ScratchVolume ==
    /\ At("vsphere", "create") /\ opt.convert /\ Outside /\ UNCHANGED <<extra, others>> /\ UNCHANGED vmVars
    /\ \E a \in Checked :
          /\ Hear(a, Checked)
          /\ vol' = IF Effect(a) THEN [vol EXCEPT ![Scratch] = Blank] ELSE vol
          /\ Leave(IF a = "ok" THEN "format" ELSE "undo")

\* ... and the VMFS on it; the connector notes the scratch when all is done.
ScratchFormat ==
    /\ At("vsphere", "format") /\ Outside /\ UNCHANGED <<extra, others>> /\ UNCHANGED <<vmVars, vol>>
    /\ \E a \in {"ok", "fails"} :
          /\ Hear(a, Checked)
          /\ noted' = (a = "ok") /\ UNCHANGED <<known, memory, dest>>
          /\ Goto(IF a = "ok" THEN "createVm" ELSE "undo")

\* CreateVM_Task; on an error the noted scratch is torn down.
VsphereCreate ==
    /\ \/ At("vsphere", "create") /\ ~opt.convert
       \/ At("vsphere", "createVm")
    /\ Outside /\ UNCHANGED <<extra, others>> /\ UNCHANGED vol
    /\ \E a \in Checked :
          /\ Hear(a, Checked)
          /\ vm' = Effect(a) /\ home' = (Effect(a) /\ noted)
          /\ known' = (a = "ok")
          /\ Goto(CASE a = "ok" -> "disk"
                    [] a /= "ok" /\ noted -> "unscratch"
                    [] OTHER -> "undo")
    /\ UNCHANGED <<slot, boots, rdm, native, memory, noted, dest>>

\* _teardown_scratch_vmfs: RemoveDatastore, refused while a VM is on it, is
\* only warned about; the volume is disconnected and eradicated all the same.
TearDown(step, after) ==
    /\ At("vsphere", step) /\ Outside /\ UNCHANGED <<extra, others>> /\ UNCHANGED vmVars
    /\ IF noted
       THEN \E a \in Unchecked :
               /\ HearCleanup(a, Unchecked)
               /\ vol' = IF a = "ok" THEN Without({Scratch}) ELSE vol
       ELSE UNCHANGED <<vol, faultVars>>
    /\ noted' = FALSE /\ UNCHANGED <<known, memory, dest>> /\ Goto(after)

\* create_managed_disk with a vVol datastore: a disk of the VM at its first
\* free unit.  If its volume cannot be resolved the disk stays, and the RDM
\* path is taken too.
VvolDisk ==
    /\ At("vsphere", "disk") /\ opt.vvol /\ Outside /\ UNCHANGED <<extra, others>>
    /\ \E a \in Checked \union (IF Exists(Stray) THEN {} ELSE {"silent"}) :
          /\ Hear(a, Checked \union {"silent"})
          /\ LET v == IF a = "silent" THEN Stray ELSE at
             IN IF a = "fails" THEN UNCHANGED <<vol, slot>>
                ELSE /\ vol'  = [vol EXCEPT ![v] = Blank]
                     /\ slot' = [slot EXCEPT ![FreeAddr] = v]
          /\ UNCHANGED <<vm, boots, rdm, native, home>>
          /\ CASE a = "ok" -> /\ dest' = Append(dest, at) /\ Goto("copy")
                              /\ UNCHANGED <<known, memory, noted>>
               [] a = "silent" -> Leave("rdm")
               [] OTHER -> Leave("undo")

\* The RDM path: the volume phifmig-dst-<vm>-disk<order> only; one of that
\* name makes it fail.
RdmVolume ==
    /\ \/ At("vsphere", "rdm")
       \/ At("vsphere", "disk") /\ ~opt.vvol
    /\ Outside /\ UNCHANGED <<extra, others>> /\ UNCHANGED <<vm, slot, boots, native, home>>
    /\ IF \E i \in rdm : spec[i].order = Order
       THEN UNCHANGED <<vol, rdm, faultVars>> /\ Leave("undo")
       ELSE \E a \in Checked :
               /\ Hear(a, Checked)
               /\ IF Effect(a)
                  THEN rdm' = rdm \union {at} /\ vol' = [vol EXCEPT ![at] = Blank]
                  ELSE UNCHANGED <<rdm, vol>>
               /\ IF a = "ok"
                  THEN /\ dest' = Append(dest, at) /\ Goto("copy")
                       /\ UNCHANGED <<known, memory, noted>>
                  ELSE Leave("undo")

\* finalize_destination_disks: the volumes that are no device yet are attached,
\* each at the unit of its order, or at the next free one.
AttachRdm ==
    /\ At("vsphere", "finalize") /\ Outside /\ UNCHANGED <<extra, others>> /\ UNCHANGED <<vol, memVars>>
    /\ IF at \in Attached
       THEN Loop("finalize", "convert") /\ UNCHANGED <<vmVars, faultVars>>
       ELSE \E a \in Checked :
               /\ Hear(a, Checked)
               /\ slot' = IF ~Effect(a) THEN slot
                          ELSE [slot EXCEPT ![IF slot[Order] = 0 THEN Order
                                              ELSE FreeAddr] = at]
               /\ UNCHANGED <<vm, boots, rdm, native, home>>
               /\ IF a = "ok" THEN Loop("finalize", "convert") ELSE Goto("undo")

Rdms == rdm \intersect Attached

\* convert_disks_to_native: no conversion target, no RDM, a failed relocation
\* and one after which no disk is a VMDK all fail it; the disks verified to be
\* VMDKs now are those in native.
Relocate ==
    /\ At("vsphere", "convert") /\ opt.convert
    /\ Outside /\ UNCHANGED <<vol, extra, others>>
    /\ UNCHANGED <<vm, slot, boots, rdm>>
    /\ IF Rdms = {} THEN Leave("undo") /\ UNCHANGED <<native, home, faultVars>>
       ELSE \E a \in Checked :
               /\ Hear(a, Checked)
               /\ native' \in IF Effect(a) THEN SUBSET Rdms ELSE {{}}
               /\ home' = (home /\ ~Effect(a))
               /\ Leave(IF a = "ok" /\ native' /= {} THEN "unrdm" ELSE "undo")

NoConversion ==
    /\ pc = "convert" /\ ~(opt.dst = "vsphere" /\ opt.convert) /\ Outside /\ UNCHANGED <<extra, others>>
    /\ UNCHANGED <<vol, vmVars, faultVars>> /\ Leave("boot")

\* Fault: every volume is freed, verified or not.
FreedAnyway == rdm
\* The volumes freed after a conversion.
Converted == native

\* The volume of each converted disk is freed, best effort.
FreeConverted ==
    /\ At("vsphere", "unrdm") /\ Outside /\ UNCHANGED <<extra, others>> /\ UNCHANGED vmVars
    /\ \E a \in Unchecked :
          /\ HearCleanup(a, Unchecked)
          /\ vol' = IF a = "ok" THEN Without(Converted) ELSE vol
    /\ Leave("unscratch2")

\* set_boot_order: the device whose unit is the boot disk's order.  (A device with
\* the key of the source's comes first; a key is 2000 + unit on the controller that
\* all of the new VM's disks are on, so of a vSphere source it is the same one.)
VsphereBoot ==
    /\ At("vsphere", "boot") /\ Outside /\ UNCHANGED <<extra, others>> /\ UNCHANGED <<vol, vm, slot, rdm, native, home>>
    /\ LET o == spec[BootDisk].order
       IN IF slot[o] = 0
          THEN Leave("undo") /\ UNCHANGED <<boots, faultVars>>
          ELSE \E a \in Checked :
                  /\ Hear(a, Checked)
                  /\ boots' = IF Effect(a) THEN o ELSE boots
                  /\ Leave(IF a = "ok" THEN "power" ELSE "undo")

\* delete_vm(keep_disks=False): Destroy_Task takes vVol disks along, never the
\* volume of an RDM; if it fails everything stays, the scratch included.
VsphereDelete ==
    /\ At("vsphere", "teardown") /\ Outside /\ UNCHANGED <<extra, others>>
    /\ \E a \in {"ok", "fails"} :
          /\ HearCleanup(a, Checked)
          /\ IF a = "ok" THEN VmGone /\ vol' = Without(Attached \ rdm)
             ELSE UNCHANGED <<vmVars, vol>>
          /\ Leave(IF a = "ok" THEN "freeRdm" ELSE "unstage")

\* Fault: the loop tries one name only.
OnlyFirst == {i \in rdm : spec[i].order = 0}
\* disk0, disk1, ... up to the first that is not there.
Contiguous ==
    {i \in rdm : \A o \in 0..spec[i].order :
                    \E j \in rdm : spec[j].order = o /\ Exists(j)}

\* The volumes of the RDMs, best effort.
FreeRdms ==
    /\ At("vsphere", "freeRdm") /\ Outside /\ UNCHANGED <<extra, others>> /\ UNCHANGED vmVars
    /\ \E a \in Unchecked :
          /\ HearCleanup(a, Unchecked)
          /\ vol' = IF a = "ok" THEN Without(Contiguous) ELSE vol
    /\ Leave("unscratch3")

VsphereStep ==
    \/ ScratchVolume \/ ScratchFormat \/ VsphereCreate
    \/ TearDown("unscratch", "undo") \/ TearDown("unscratch2", "boot")
    \/ TearDown("unscratch3", "unstage")
    \/ VvolDisk \/ RdmVolume \/ AttachRdm \/ Relocate \/ FreeConverted
    \/ VsphereBoot \/ VsphereDelete \/ FreeRdms
=============================================================================
