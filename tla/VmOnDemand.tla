------------------------------ MODULE VmOnDemand -----------------------------
(***************************************************************************)
(* The destinations that make a VM shell first and one disk at a time      *)
(* after it: Proxmox, XCP-ng and Nutanix (create_vm, create_managed_disk,  *)
(* set_boot_order and delete_vm of the three connectors).                  *)
(***************************************************************************)
EXTENDS VmParts

NewVm(step) ==
    /\ vm' = TRUE /\ known' = TRUE /\ UNCHANGED <<slot, boots, rdm, native, home>>
    /\ UNCHANGED <<memory, noted, dest>> /\ Goto(step)

\* A disk made and attached for the disk the loop is at, handed back.
HandBack(v) ==
    /\ dest' = Append(dest, v) /\ UNCHANGED <<known, memory, noted>>
    /\ Goto("copy")
MakesDisk(done) ==
    vol' = IF done THEN [vol EXCEPT ![at] = Blank] ELSE vol
Attaches(done) ==
    /\ slot' = IF done THEN [slot EXCEPT ![Order] = at] ELSE slot
    /\ UNCHANGED <<vm, rdm, native, home>>

-----------------------------------------------------------------------------
(* Proxmox.  The id of the new VM is the next free one when it is asked     *)
(* for; "neighbour" in others: another VM has been given that id since.     *)

\* pvesh get /cluster/nextid; an empty answer makes it 900, whoever has it.
NextId ==
    /\ At("proxmox", "create")
    /\ \E a \in Unchecked :
          /\ Hear(a, Unchecked)
          /\ others' \in {others} \union
                         (IF a = "silent" THEN {others \union {"neighbour"}} ELSE {})
    /\ pc' = "qmCreate" /\ tries' = 1 /\ UNCHANGED at
    /\ UNCHANGED <<opt, srcVars, memVars, vmVars, vol, extra, shares>>

\* Outside this process: somebody creates a VM, which takes the id.
NeighbourTakesId ==
    /\ At("proxmox", "qmCreate") /\ ~vm /\ faults < MaxFaults
    /\ others' = others \union {"neighbour"} /\ others' /= others
    /\ faults' = faults + 1
    /\ UNCHANGED <<opt, srcVars, ctlVars, memVars, vmVars, vol, extra, shares,
                   missed>>

\* qm create, refused while any VM has the id; three attempts.
QmCreate ==
    /\ At("proxmox", "qmCreate") /\ Outside /\ UNCHANGED <<extra, others>> /\ UNCHANGED <<vol, memVars>>
    /\ IF vm \/ "neighbour" \in others
       THEN /\ UNCHANGED <<vmVars, faultVars>>
            /\ Goto(IF tries < 3 THEN "qmPurge" ELSE "undo")
       ELSE \E a \in Checked :
               /\ Hear(a, Checked)
               /\ vm' = (Effect(a) \/ vm)
               /\ UNCHANGED <<slot, boots, rdm, native, home>>
               /\ Goto(CASE a = "ok" -> "qmConfig"
                         [] a /= "ok" /\ tries < 3 -> "qmPurge"
                         [] OTHER -> "undo")

\* qm destroy --purge before the next attempt: whoever has the id is destroyed.
QmPurge ==
    /\ At("proxmox", "qmPurge")
    /\ \E a \in Unchecked :
          /\ Hear(a, Unchecked)
          /\ vm' = (vm /\ a /= "ok")
          /\ others' = IF a = "ok" THEN others \ {"neighbour"} ELSE others
    /\ pc' = "qmCreate" /\ tries' = tries + 1 /\ UNCHANGED at
    /\ UNCHANGED <<opt, srcVars, memVars, slot, boots, rdm, native, home, vol, extra,
                   shares>>

\* qm config: only "does not exist" or a lock timeout fails the creation, and
\* the latter leaves the VM.
QmConfig ==
    /\ At("proxmox", "qmConfig") /\ Outside /\ UNCHANGED <<extra, others>> /\ UNCHANGED vol
    /\ \E a \in {"ok", "late"} :
          /\ Hear(a, Checked)
          /\ IF a = "ok" THEN NewVm("disk") ELSE Leave("undo") /\ UNCHANGED vmVars

\* qm set --scsiN purefa:<GiB>, and the slot read back: a disk that was in the
\* slot is replaced (it becomes unused), or handed back if nothing happened.
ProxmoxDisk ==
    /\ At("proxmox", "disk") /\ Outside /\ UNCHANGED <<extra, others>>
    /\ \E a \in Unchecked :
          /\ Hear(a, Unchecked)
          /\ MakesDisk(a = "ok") /\ Attaches(a = "ok")
          /\ UNCHANGED boots
          /\ IF slot'[Order] /= 0 THEN HandBack(slot'[Order]) ELSE Leave("undo")

\* qm set --boot order=..., of all the disks: each was made as scsi<order> and is
\* named by the bus it had at the source, which "does not exist" if it is another.
ProxmoxBoot ==
    /\ At("proxmox", "boot") /\ Outside /\ UNCHANGED <<extra, others>> /\ UNCHANGED <<vol, memVars, vm, slot, rdm, native, home>>
    /\ LET named == \A i \in Positions : OnScsi(i)
       IN \E a \in Unchecked :
             /\ Hear(a, Unchecked)
             /\ boots' = IF a = "ok" /\ named THEN spec[BootDisk].order ELSE boots
             /\ Goto(IF a = "ok" /\ ~named THEN "undo" ELSE "power")

\* qm destroy: the VM and every disk its configuration names, used or unused.
ProxmoxDelete ==
    /\ At("proxmox", "teardown") /\ Outside /\ UNCHANGED <<extra, others>> /\ UNCHANGED memVars
    /\ \E a \in Unchecked :
          /\ HearCleanup(a, Unchecked)
          /\ IF a = "ok" THEN VmGone /\ vol' = Without(Vols)
             ELSE UNCHANGED <<vmVars, vol>>
    /\ Goto("unstage")

-----------------------------------------------------------------------------
(* XCP-ng.                                                                  *)

\* xe vm-create, then parameters and NICs; a NIC mapped to no network fails
\* the call after the VM is there.
XcpngCreate ==
    /\ At("xcpng", "create") /\ Outside /\ UNCHANGED <<extra, others>> /\ UNCHANGED vol
    /\ \E a \in Checked :
          /\ Hear(a, Checked)
          /\ IF a = "ok" THEN NewVm("disk")
             ELSE /\ vm' = (a = "late") /\ UNCHANGED <<slot, boots, rdm, native, home>>
                  /\ Leave("undo")

\* xe vdi-create; xe vbd-create, whose refusal (the device is in use) is not
\* noticed; the boot mark is set with it.
XcpngDisk ==
    /\ At("xcpng", "disk") /\ Outside /\ UNCHANGED <<extra, others>>
    /\ \E a \in {"ok", "fails", "silent"} :
          /\ Hear(a, {"ok", "fails", "silent"})
          /\ MakesDisk(a /= "fails")
          /\ Attaches(a = "ok" /\ slot[Order] = 0)
          /\ boots' = IF a = "ok" /\ slot[Order] = 0 /\ spec[at].boot
                      THEN Order ELSE boots
          /\ IF a = "fails" THEN Leave("undo") ELSE HandBack(at)

\* xe vbd-param-set bootable=... on each disk's VBD.
XcpngBoot ==
    /\ At("xcpng", "boot") /\ Outside /\ UNCHANGED <<extra, others>> /\ UNCHANGED <<vol, memVars, vm, slot, rdm, native, home>>
    /\ \E a \in Unchecked :
          /\ Hear(a, Unchecked)
          /\ boots' = IF a = "ok" /\ slot[spec[BootDisk].order] /= 0
                      THEN spec[BootDisk].order ELSE boots
    /\ Goto("power")

\* xe vm-destroy: the VM and its VBDs, never the VDIs or their volumes.
XcpngDelete ==
    /\ At("xcpng", "teardown") /\ Outside /\ UNCHANGED <<extra, others>> /\ UNCHANGED <<memVars, vol>>
    /\ \E a \in Unchecked :
          /\ HearCleanup(a, Unchecked)
          /\ IF a = "ok" THEN VmGone ELSE UNCHANGED vmVars
    /\ Goto("unstage")

-----------------------------------------------------------------------------
(* Nutanix.  Every call is a task that is awaited; a task may end after the *)
(* wait for it was given up.                                                *)

NutanixCreate ==
    /\ At("nutanix", "create") /\ Outside /\ UNCHANGED <<extra, others>> /\ UNCHANGED vol
    /\ \E a \in Checked :
          /\ Hear(a, Checked)
          /\ IF a = "ok" THEN NewVm("disk")
             ELSE /\ vm' = (a = "late") /\ UNCHANGED <<slot, boots, rdm, native, home>>
                  /\ Leave("undo")

\* The disk is added at SCSI index = order; an index in use is refused.  AHV
\* boots the disk at index 0.
NutanixDisk ==
    /\ At("nutanix", "disk") /\ Outside /\ UNCHANGED <<extra, others>>
    /\ IF slot[Order] /= 0
       THEN Leave("undo") /\ UNCHANGED <<vol, vmVars, faultVars>>
       ELSE \E a \in Checked :
               /\ Hear(a, Checked)
               /\ MakesDisk(Effect(a)) /\ Attaches(Effect(a))
               /\ boots' = IF Effect(a) /\ Order = 0 THEN 0 ELSE boots
               /\ IF a = "ok" THEN HandBack(at) ELSE Leave("undo")

\* set_boot_order does nothing.
NutanixBoot ==
    /\ At("nutanix", "boot") /\ Outside /\ UNCHANGED <<extra, others>> /\ Goto("power")
    /\ UNCHANGED <<vol, memVars, vmVars, faultVars>>

\* The VM and the disks it has.
NutanixDelete ==
    /\ At("nutanix", "teardown") /\ Outside /\ UNCHANGED <<extra, others>> /\ UNCHANGED memVars
    /\ \E a \in Checked :
          /\ HearCleanup(a, Checked)
          /\ IF Effect(a) THEN VmGone /\ vol' = Without(Attached)
             ELSE UNCHANGED <<vmVars, vol>>
    /\ Goto("unstage")

OnDemandStep ==
    \/ NextId \/ QmCreate \/ QmPurge \/ QmConfig
    \/ ProxmoxDisk \/ ProxmoxBoot \/ ProxmoxDelete
    \/ XcpngCreate \/ XcpngDisk \/ XcpngBoot \/ XcpngDelete
    \/ NutanixCreate \/ NutanixDisk \/ NutanixBoot \/ NutanixDelete
=============================================================================
