----------------------------- MODULE MCMigration -----------------------------
(* TLC instance of Migration: a two-disk VM between three kinds of platform. *)
EXTENDS Migration

\* kube ignores exit statuses (OpenShift, Proxmox, XCP-ng, OpenStack),
\* vc is vSphere, ahv raises whenever a call fails (Nutanix, HPE VME).
MCPlatforms == {"kube", "vc", "ahv"}
MCSilent == {"kube"}
MCVSphere == {"vc"}

\* Option records, without those that differ in options nobody reads.
MCOptions ==
    {o \in OptionType :
        /\ o.vmfs => o.src = "vc"
        /\ o.src \in {"vc", "kube"} => o.dst = "ahv"
        /\ o.allow => o.cross
        /\ o.mode = "move" => ~o.shutdown
        /\ o.convert => o.dst = "vc" /\ ~o.cross
        /\ o.powerOn = "off" => o.mode = "move" /\ ~o.cross
        /\ o.dry => o.known /\ ~o.partial /\ o.src /= "kube"
        /\ o.cross => o.known /\ o.src = "ahv"}
=============================================================================
