------------------------------- MODULE VmParts -------------------------------
(***************************************************************************)
(* What a migration builds at its destination, and what the connectors     *)
(* remember of it: the state the modules of the seven connectors share     *)
(* (VmOnDemand, VmProvisioned, VmVsphere, VmSource), composed in VmRebuild.*)
(*                                                                         *)
(* A disk is known by its position in the captured spec, and so is the     *)
(* FlashArray volume made for it; the contents of a volume are a source    *)
(* disk.  A device sits at an address of the VM (slot, unit, index).       *)
(***************************************************************************)
EXTENDS Naturals, Sequences, FiniteSets

CONSTANTS
    NDisks,     \* the largest number of disks of a source VM
    MaxFaults,  \* how many calls may go wrong in one run
    Runs,       \* the option records a run may be started with
    SourceVms   \* the source VMs: each a sequence of disks

Platforms == {"proxmox", "xcpng", "nutanix", "hpevme", "openshift",
              "openstack", "vsphere"}

Disks   == 1..NDisks
Addr    == 0..NDisks
Nowhere == NDisks + 1
Scratch == NDisks + 1         \* vSphere's scratch VMFS volume
Stray   == NDisks + 2         \* a vVol disk whose FlashArray volume is unknown
Vols    == 1..(NDisks + 2)
Blank   == 0                  \* contents of a volume that exists, unwritten
Absent  == NDisks + 1         \* contents of a volume that does not exist

\* A disk of the source VM: the number in its slot, whether the slot is one of a
\* SCSI bus, whether it is a FlashArray volume, whether the VM boots from it.
SourceDisk == [at: Addr, scsi: BOOLEAN, ours: BOOLEAN, boot: BOOLEAN]
\* A captured disk (DiskSpec): the source disk, its order, its boot mark.
CapturedDisk == [disk: Disks, order: Addr, boot: BOOLEAN]

RunType ==
    [src: Platforms, dst: Platforms,
     move: BOOLEAN,    \* mode "move": the source VM is removed at the end
     vmfs: BOOLEAN,    \* vSphere source: the disks are files of a datastore
     hot: BOOLEAN,     \* copy of a running source: snapshot, no shutdown
     convert: BOOLEAN, \* convert_to_vmfs (vSphere destination)
     vvol: BOOLEAN,    \* the destination vCenter has a vVol datastore
     name: {"free", "taken", "folds"}]
                       \* a VM of the destination has the source's name, or a
                       \* name the source's is normalised to (_rfc1123)

ASSUME PartsAssumption ==
    /\ NDisks \in Nat \ {0} /\ MaxFaults \in Nat
    /\ Runs \subseteq RunType
    /\ \A m \in SourceVms : /\ Len(m) \in Disks
                            /\ \A d \in 1..Len(m) : m[d] \in SourceDisk

VARIABLES
    opt,     \* the run's options and what it meets
    hw,      \* the source VM's disks
    pc,      \* the step about to execute
    at,      \* the disk the current loop is at
    tries,   \* attempts of qm create
    spec,    \* VmSpec.disks
    srcVm,   \* the source VM exists
    vm,      \* the VM the run created exists at the destination
    known,   \* MigrationService.dest_vm_ref: its teardown is on the stack
    vol,     \* contents of the volumes made for the run
    slot,    \* the volume of the device at each address of the VM, or 0
    boots,   \* the address the VM boots from
    memory,  \* _mig_disks / _provisioned_disks: volume of each order, or 0
    noted,   \* OpenStack's _mig_instance, vSphere's _scratch_vmfs is set
    rdm,     \* vSphere: the disks with a volume phifmig-dst-<vm>-disk<order>
    native,  \* vSphere: those whose device became a VMDK
    home,    \* vSphere: the VM's home is on the scratch datastore
    dest,    \* dest_disks: the volume handed back for each disk so far
    extra,   \* other things the run left: ports, clones, snapshot, account
    others,  \* what belongs to others and is intact
    shares,  \* the VM is created under the name of another VM
    faults,
    missed   \* a call's effect and its answer differed, or a clean-up failed

srcVars  == <<hw, spec, srcVm>>
ctlVars  == <<pc, at, tries>>
memVars  == <<known, memory, noted, dest>>
vmVars   == <<vm, slot, boots, rdm, native, home>>
faultVars == <<faults, missed>>
vars == <<opt, srcVars, ctlVars, memVars, vmVars, vol, extra, others, shares,
          faultVars>>

-----------------------------------------------------------------------------
(* Answers of the platforms.  ok: took effect; fails: no effect, an error;  *)
(* late: took effect, reported as an error; silent: no effect, not noticed  *)
(* (a command run with check=False).                                        *)

Checked   == {"ok", "fails", "late"}
Unchecked == {"ok", "silent"}
Effect(a) == a \in {"ok", "late"}
Passed(a) == a \in {"ok", "silent"}

Hear(a, answers) ==
    /\ a \in answers
    /\ a /= "ok" => faults < MaxFaults
    /\ faults' = faults + (IF a = "ok" THEN 0 ELSE 1)
    /\ missed' = (missed \/ a \in {"late", "silent"})

\* In a clean-up nobody acts on the answer: a failure is missed as well.
HearCleanup(a, answers) ==
    /\ a \in answers
    /\ a /= "ok" => faults < MaxFaults
    /\ faults' = faults + (IF a = "ok" THEN 0 ELSE 1)
    /\ missed' = (missed \/ a /= "ok")

At(p, step)  == opt.dst = p /\ pc = step
Goto(step)   == pc' = step /\ UNCHANGED <<at, tries>>
GoOn(ok, step, otherwise) == Goto(IF ok THEN step ELSE otherwise)
\* Fault: the disks are counted from 0.
StartAt0(step) == pc' = step /\ at' = 0 /\ UNCHANGED tries
Start(step)  == pc' = step /\ at' = 1 /\ UNCHANGED tries

\* The next disk of a per-disk loop, or the step after the loop.
Loop(step, after) ==
    /\ at' = (IF at < Len(spec) THEN at + 1 ELSE 1)
    /\ pc' = (IF at < Len(spec) THEN step ELSE after)
    /\ UNCHANGED tries

\* What the calls on the destination leave alone, and what an error leaves.
Outside == UNCHANGED <<opt, srcVars, shares>>
Leave(step) == UNCHANGED memVars /\ Goto(step)
Order == spec[at].order    \* of the disk the loop is at

-----------------------------------------------------------------------------
(* Views.                                                                   *)

Positions == 1..Len(spec)
Orders    == {spec[i].order : i \in Positions}
DistinctOrders == \A i, j \in Positions : spec[i].order = spec[j].order => i = j
\* The first disk captured under an order names what is made for that order.
FirstWith(o) == CHOOSE i \in Positions :
                   /\ spec[i].order = o
                   /\ \A j \in Positions : spec[j].order = o => i <= j
LastWith(o)  == CHOOSE i \in Positions :
                   /\ spec[i].order = o
                   /\ \A j \in Positions : spec[j].order = o => j <= i

\* sorted(disks, key=(not boot, order))[0]; the sort is stable.
BootsBefore(i, j) ==
    \/ spec[i].boot /\ ~spec[j].boot
    \/ /\ spec[i].boot = spec[j].boot
       /\ \/ spec[i].order < spec[j].order
          \/ spec[i].order = spec[j].order /\ i < j
BootDisk == CHOOSE i \in Positions :
               \A j \in Positions \ {i} : BootsBefore(i, j)

\* The disk's place when the boot disk goes first: 0 for the boot disk.
BootRank(i) == Cardinality({j \in Positions \ {i} : BootsBefore(j, i)})

\* DiskSpec.bus, as Proxmox reads it: some platforms name one bus for every disk,
\* which is scsi or unknown to Proxmox and taken for scsi.
OneBus   == {"xcpng", "hpevme", "openstack", "vsphere"}
OnScsi(i) == opt.src \in OneBus \/ hw[spec[i].disk].scsi

Exists(v)   == vol[v] /= Absent
Attached    == {slot[a] : a \in Addr} \ {0}
FreeAddr    == CHOOSE a \in Addr :
                  slot[a] = 0 /\ \A b \in Addr : slot[b] = 0 => a <= b
NoDevices   == [a \in Addr |-> 0]
NoMemory    == [o \in Addr |-> 0]
Without(vs) == [v \in Vols |-> IF v \in vs THEN Absent ELSE vol[v]]

\* The VM is gone, and its devices with it.
VmGone ==
    /\ vm' = FALSE /\ slot' = NoDevices /\ boots' = Nowhere
    /\ home' = FALSE /\ UNCHANGED <<rdm, native>>
=============================================================================
