--------------------------- MODULE MCInstallation ---------------------------
(***************************************************************************)
(* Two nodes at most; on each platform the setups that take its branches.  *)
(***************************************************************************)
EXTENDS Installation

Plain ==
    [p |-> "proxmox", proto |-> "iscsi", bind |-> FALSE, cut |-> {}, portals |-> TRUE,
     clobber |-> FALSE, taken |-> FALSE, detached |-> FALSE,
     reached |-> {"own"}, ds |-> "nfs"]

MCSetups ==
    {[Plain EXCEPT !.p = p] : p \in Platforms}
    \cup {[Plain EXCEPT !.p = p, !.bind = TRUE] : p \in {"proxmox", "xcpng", "openshift"}}
    \cup {[Plain EXCEPT !.p = p, !.proto = "nvme-tcp"] : p \in {"proxmox", "hpevme"}}
    \cup {[Plain EXCEPT !.p = p, !.proto = "fc"] : p \in {"proxmox", "hpevme", "vsphere"}}
    \cup {[Plain EXCEPT !.p = p, !.portals = FALSE] : p \in {"proxmox", "xcpng", "hpevme"}}
    \cup {[Plain EXCEPT !.p = p, !.cut = {2}] : p \in {"proxmox", "xcpng"}}
    \cup {[Plain EXCEPT !.p = "xcpng", !.clobber = TRUE]}
    \cup {[Plain EXCEPT !.p = p, !.taken = TRUE] : p \in {"openshift", "openstack"}}
    \cup {[Plain EXCEPT !.p = "openshift", !.reached = {}, !.detached = b] : b \in BOOLEAN}
    \cup {[Plain EXCEPT !.p = "openshift", !.taken = TRUE, !.reached = r] :
              r \in {{"others"}, {"own", "others"}}}
    \cup {[Plain EXCEPT !.p = p, !.detached = TRUE] : p \in {"openshift", "vsphere"}}
    \cup {[Plain EXCEPT !.p = "vsphere", !.ds = "vmfs"]}
=============================================================================
