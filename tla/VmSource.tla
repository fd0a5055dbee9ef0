------------------------------- MODULE VmSource ------------------------------
(***************************************************************************)
(* The source side of a rebuild: capture_vm_spec of each connector, and    *)
(* the vSphere connector's staging of VMFS disks (prepare_source_disks)    *)
(* with its clean-up.                                                      *)
(***************************************************************************)
EXTENDS VmParts

HwDisks == 1..Len(hw)
Ours    == {d \in HwDisks : hw[d].ours}

\* disks.sort(key=order), which is stable: the number in the slot's name is the
\* order.  A disk's place is one more than how many go before it.
GoesBefore(d, e) == hw[d].at < hw[e].at \/ (hw[d].at = hw[e].at /\ d < e)
BySlot(s) ==
    LET Place(d) == Cardinality({e \in s : GoesBefore(e, d)}) + 1
        Sorted == [i \in 1..Cardinality(s) |-> CHOOSE d \in s : Place(d) = i]
    IN [i \in 1..Cardinality(s) |->
           [disk |-> Sorted[i], order |-> hw[Sorted[i]].at,
            boot |-> hw[Sorted[i]].boot]]

\* order renumbered from 0 along the sorted device names.
Renumbered(s) ==
    [i \in 1..Cardinality(s) |-> [BySlot(s)[i] EXCEPT !.order = i - 1]]

\* order counted along the VM's list of volumes.
AsListed(s) ==
    LET Place(d) == Cardinality({e \in s : e < d}) + 1
        Listed == [i \in 1..Cardinality(s) |-> CHOOSE d \in s : Place(d) = i]
    IN [i \in 1..Cardinality(s) |->
           [disk |-> Listed[i], order |-> i - 1, boot |-> hw[Listed[i]].boot]]

\* if disks and not any(d.boot): disks[0].boot = True
WithBoot(c) ==
    IF c = << >> \/ \E i \in 1..Len(c) : c[i].boot THEN c
    ELSE [c EXCEPT ![1].boot = TRUE]

\* A disk that is not a FlashArray volume of ours is skipped.
ProxmoxCapture   == WithBoot(BySlot(Ours))
OpenshiftCapture == WithBoot(AsListed(Ours))

\* A disk that is not ours refuses the VM; << >> stands for the refusal.
OrRefused(c)     == IF Ours = HwDisks THEN c ELSE << >>
XcpngCapture     == OrRefused(WithBoot(BySlot(HwDisks)))
HpevmeCapture    == OrRefused(WithBoot(BySlot(HwDisks)))
VsphereCapture   == OrRefused(WithBoot(BySlot(HwDisks)))
\* boot = bootable and first device; order = the index on its bus
OpenstackCapture ==
    OrRefused(WithBoot([i \in HwDisks |->
        [Renumbered(HwDisks)[i] EXCEPT
            !.boot = @ /\ hw[Renumbered(HwDisks)[i].disk].at = 0]]))
\* AHV lists the disks as attached: the first listed one is the boot disk.
NutanixCapture   ==
    OrRefused([d \in HwDisks |->
        [disk |-> d, order |-> hw[d].at, boot |-> d = 1]])

Captured ==
    CASE opt.src = "proxmox"   -> ProxmoxCapture
      [] opt.src = "xcpng"     -> XcpngCapture
      [] opt.src = "hpevme"    -> HpevmeCapture
      [] opt.src = "openshift" -> OpenshiftCapture
      [] opt.src = "openstack" -> OpenstackCapture
      [] opt.src = "nutanix"   -> NutanixCapture
      [] opt.src = "vsphere"   -> VsphereCapture

\* _capture_spec: a VM without a usable disk is refused.
Capture ==
    /\ pc = "capture"
    /\ \E a \in {"ok", "fails"} :
          /\ Hear(a, Checked)
          /\ spec' = IF a = "ok" THEN Captured ELSE << >>
    /\ pc' = IF spec' = << >> THEN "undo"
             ELSE IF opt.src = "vsphere" /\ opt.vmfs THEN "account" ELSE "name"
    /\ UNCHANGED <<opt, hw, srcVm, at, tries, memVars, vmVars, vol, extra, others,
                   shares>>

-----------------------------------------------------------------------------
(* prepare_source_disks of the vSphere connector.  extra gains "account",   *)
(* "snapshot" and "clones"; "recorded" stands for raw["vsphere_scratch"].   *)

Stages == UNCHANGED <<opt, srcVars, memVars, vmVars, vol, others, shares>>

\* _provision_esxi_ssh_sync: the temporary account of the ESXi host.
ProvisionEsxiSsh ==
    /\ pc = "account" /\ Stages
    /\ \E a \in Checked :
          /\ Hear(a, Checked)
          /\ extra' = IF Effect(a) THEN extra \union {"account"} ELSE extra
          /\ GoOn(a = "ok", "freeze", "undo")

\* The snapshot of a running source, or its shutdown (a stop leaves nothing).
Freeze ==
    /\ pc = "freeze" /\ Stages
    /\ \E a \in Checked :
          /\ Hear(a, Checked)
          /\ extra' = IF Effect(a) /\ opt.hot
                      THEN extra \union {"snapshot"} ELSE extra
          /\ IF a = "ok" THEN Start("clone")
             ELSE Goto("unaccount")   \* snapshot_taken is not set

\* One disk: volume, connection, rescan, vmkfstools.
CloneDisk ==
    /\ pc = "clone" /\ Stages
    /\ \E a \in Checked :
          /\ Hear(a, Checked)
          /\ extra' = extra \union (IF Effect(a) THEN {"clones"} ELSE {})
                            \union (IF a = "ok" /\ at = Len(spec)
                                    THEN {"recorded"} ELSE {})
          /\ IF a = "ok" THEN Loop("clone", "unsnapshot") ELSE Goto("unsnapshot")

\* The finally clause; an error in it skips the removal of the account.
RemoveSnapshot ==
    /\ pc = "unsnapshot" /\ Stages
    /\ IF "snapshot" \in extra
       THEN \E a \in Checked :
               /\ HearCleanup(a, Checked)
               /\ extra' = IF Effect(a) THEN extra \ {"snapshot"} ELSE extra
               /\ GoOn(a = "ok", "unaccount", "undo")
       ELSE Goto("unaccount") /\ UNCHANGED <<extra, faultVars>>

\* _deprovision_esxi_ssh_sync, best effort; the run goes on if all is cloned.
DeprovisionEsxiSsh ==
    /\ pc = "unaccount" /\ Stages
    /\ \E a \in Unchecked :
          /\ HearCleanup(a, Unchecked)
          /\ extra' = IF a = "ok" THEN extra \ {"account"} ELSE extra
    /\ GoOn("recorded" \in extra, "name", "undo")

\* cleanup_migration_scratch: only what was recorded, best effort.
CleanupScratch(step, after) ==
    /\ pc = step /\ Stages
    /\ IF "recorded" \in extra
       THEN \E a \in Unchecked :
               /\ HearCleanup(a, Unchecked)
               /\ extra' = IF a = "ok" THEN extra \ {"clones", "recorded"}
                           ELSE extra
       ELSE UNCHANGED <<extra, faultVars>>
    /\ Goto(after)
=============================================================================
