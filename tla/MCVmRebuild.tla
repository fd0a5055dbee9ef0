----------------------------- MODULE MCVmRebuild -----------------------------
(* Every destination with sources of each kind of numbering, up to three disks.      *)
EXTENDS VmRebuild

R(s, d) == [src |-> s, dst |-> d, move |-> FALSE, vmfs |-> FALSE, hot |-> FALSE,
            convert |-> FALSE, vvol |-> FALSE, name |-> "free"]

Routes     == {R(s, d) : s, d \in Platforms}
Moves      == {[R(s, "nutanix") EXCEPT !.move = TRUE] : s \in {"proxmox", "nutanix"}}
Named      == {[R("openstack", "openshift") EXCEPT !.name = n] :
                  n \in {"taken", "folds"}}
Staged     == {[R("vsphere", "hpevme") EXCEPT !.vmfs = TRUE, !.hot = h] :
                  h \in BOOLEAN}
ToVsphere  == {[R("proxmox", "vsphere") EXCEPT !.convert = c, !.vvol = v] :
                  c, v \in BOOLEAN}
MCRuns == Routes \union Moves \union Named \union Staged
              \union ToVsphere

D(n, o, b) == [at |-> n, scsi |-> TRUE, ours |-> o, boot |-> b]
V(n, o, b) == [D(n, o, b) EXCEPT !.scsi = FALSE]     \* on virtio, sata or ide
MCSourceVms ==
    { << D(0, TRUE, TRUE) >>,
      << D(0, TRUE, TRUE), D(1, TRUE, FALSE) >>,     \* numbered in order
      << D(1, TRUE, FALSE), D(0, TRUE, TRUE) >>,     \* listed out of order
      << D(1, TRUE, TRUE), D(2, TRUE, FALSE) >>,     \* no disk numbered 0
      << D(0, TRUE, FALSE), V(0, TRUE, TRUE) >>,     \* one number on two buses
      << V(0, TRUE, TRUE), V(1, TRUE, FALSE) >>,
      << D(0, TRUE, TRUE), V(2, TRUE, FALSE) >>,     \* the boot disk alone on SCSI
      << D(0, FALSE, TRUE), D(1, TRUE, FALSE) >>,   \* a disk of other storage
      << D(0, TRUE, FALSE), D(1, TRUE, TRUE), D(2, TRUE, FALSE) >>,
      << D(3, TRUE, FALSE), D(0, TRUE, TRUE), D(2, TRUE, FALSE) >> }
TwoDisks == { << D(0, TRUE, TRUE), D(1, TRUE, FALSE) >>,
              << D(0, TRUE, TRUE), D(1, FALSE, FALSE) >> }

\* One route for each statement the code does not keep.
SweepRuns  == {R("proxmox", "openshift")}
FoldedRuns == {[R("openstack", "openshift") EXCEPT !.name = "folds"]}
MovedRuns  == {[R("proxmox", "xcpng") EXCEPT !.move = TRUE]}
=============================================================================
