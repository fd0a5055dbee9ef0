----------------------------- MODULE InstallHosts -----------------------------
(***************************************************************************)
(* The integrations PHIF installs node by node over SSH: Proxmox VE,       *)
(* XCP-ng, HPE VME.                                                        *)
(***************************************************************************)
EXTENDS InstallParts

Reconciling == op = "reconcile"

\* _unreachable_nodes: the node has no route to the array's management.
Unreachable == scope \cap opt.cut

\* setup_connectivity asks the array for its portals; FC has none.
Portals(next) ==
    Ask(opt.portals \/ opt.proto = "fc", next,
        IF Reconciling /\ ~opt.portals THEN Done ELSE Error)

-----------------------------------------------------------------------------
(* Proxmox VE: deploy, configure, register_hosts, setup_connectivity,       *)
(* enable.  A reconcile runs deploy on the new nodes, then registers and    *)
(* connects the new and the configured ones, whatever the steps answered.   *)

PveProbe ==
    /\ At("proxmox", "pve_probe")
    /\ Ask(Unreachable = {}, Each("pve_deps"),
           IF Reconciling THEN Goto("pve_register") ELSE Error)
PveDeps   == At("proxmox", "pve_deps") /\ Give("deps", Checked, Goto("pve_plugin"))
PvePlugin == At("proxmox", "pve_plugin") /\ Give("plugin", Checked, Goto("pve_reload"))
PveReload ==
    /\ At("proxmox", "pve_reload")
    /\ Give("loaded", Checked,
            NextNode("pve_deps", Goto(IF Reconciling THEN "pve_register"
                                      ELSE "pve_define")))

\* Fault: the storage is added without --disable 1.
PveConfigureLive ==
    /\ At("proxmox", "pve_define")
    /\ Build([One("storage") EXCEPT !["enabled"] = 1], Checked, Goto("pve_register"))
\* pvesm add ... --disable 1, or pvesm set of the storage that is there.
PveConfigure ==
    /\ At("proxmox", "pve_define")
    /\ Build(One("storage"), Checked, Goto("pve_register"))

\* The scope of a reconcile grows by the configured nodes.
PveRegister ==
    /\ At("proxmox", "pve_register")
    /\ \E a \in Checked \cup (IF Reconciling THEN {"silent"} ELSE {}) :
          /\ Hear(a, Checked \cup {"silent"})
          /\ scope' = scope \cup registered
          /\ registered' = IF Effect(a) THEN scope' ELSE registered
          /\ UNCHANGED <<at, op, has, made, others, seen>> /\ Still
          /\ pc' = (IF Passed(a) THEN "pve_portals" ELSE "idle")
          /\ answer' = (IF Passed(a) THEN answer ELSE "error")

PveConnectivity ==
    /\ At("proxmox", "pve_portals")
    /\ Portals(Each("pve_initiator"))
PveInitiator ==
    /\ At("proxmox", "pve_initiator")
    /\ Give("initiator", Checked, Goto("pve_session"))
\* nvme connect of a node that is connected is an error.
PveNvme ==
    /\ At("proxmox", "pve_session") /\ opt.proto = "nvme-tcp"
    /\ IF "session" \in has[at] THEN Go(Error)
       ELSE Give("session", Checked, Goto("pve_mpath"))
\* The login's status is not looked at.
PveIscsi ==
    /\ At("proxmox", "pve_session") /\ opt.proto = "iscsi"
    /\ Give("session", Unchecked, Goto("pve_mpath"))
PveFc ==                                 \* a rescan: zoning is the fabric's
    /\ At("proxmox", "pve_session") /\ opt.proto = "fc"
    /\ Give("session", Unchecked, Goto("pve_mpath"))
PveMultipath ==
    /\ At("proxmox", "pve_mpath")
    /\ Give("mpath", Checked, NextNode("pve_initiator", Goto("pve_binding")))
\* A reconcile passes no interfaces on.
PveBinding ==
    /\ At("proxmox", "pve_binding")
    /\ IF Reconciling THEN Go(Done)
       ELSE IF opt.bind THEN Build(One("binding"), Unchecked, Goto("pve_enable"))
       ELSE Go(Goto("pve_enable"))

PveEnable == At("proxmox", "pve_enable") /\ Build(One("enabled"), Checked, Done)

PveRemove ==
    /\ At("proxmox", "pve_remove")
    /\ Build(Gone({"storage", "enabled", "binding"}), Unchecked, Each("pve_rm"))
\* Fault: only the connection host is cleaned.
PveCleanFirst == At("proxmox", "pve_rm") /\ Take({"plugin", "loaded"}, Unchecked, Done)
PveClean ==
    /\ At("proxmox", "pve_rm")
    /\ Take({"plugin", "loaded"}, Unchecked, NextNode("pve_rm", Done))

-----------------------------------------------------------------------------
(* XCP-ng: register_hosts, deploy, setup_connectivity; the commands run     *)
(* with check=False.  A reconcile installs the plugin on the new hosts,     *)
(* registers and connects them.                                             *)

\* The driver a host has enumerated: its files were there at the restart.
Enumerated(n) == {"plugin", "loaded"} \subseteq has[n]

XcpRegister ==
    /\ At("xcpng", "xcp_register")
    /\ Register(Checked, Goto(IF Reconciling THEN "xcp_portals" ELSE "xcp_require"))
RequireHostObjects ==
    /\ At("xcpng", "xcp_require")
    /\ Ask(registered /= {}, Goto("xcp_probe"), Error)
XcpProbe ==
    /\ At("xcpng", "xcp_probe")
    /\ Ask(Unreachable = {}, Each("xcp_plugin"), Error)
XcpPlugin ==
    /\ At("xcpng", "xcp_plugin")
    /\ Give("plugin", Unchecked,
            NextNode("xcp_plugin", IF Reconciling THEN Goto("xcp_register")
                                   ELSE Each("xcp_restart")))
XcpRestart ==
    /\ At("xcpng", "xcp_restart")
    /\ Give("loaded", Unchecked, NextNode("xcp_restart", Goto("xcp_ready")))
\* On the pool master, xapi is back and lists the SM type.
XcpReady ==
    /\ At("xcpng", "xcp_ready")
    /\ Ask(Enumerated(First(members)), Goto("xcp_existing"), Error)

\* Forget the SRs that were found, and unplug them everywhere.
ForgetSr(next) ==
    \E a \in Unchecked :
       /\ Hear(a, Unchecked)
       /\ made' = IF Effect(a) THEN Gone({"sr"}) ELSE made
       /\ has' = IF Effect(a) THEN [n \in Nodes |-> has[n] \ {"pbd"}] ELSE has
       /\ UNCHANGED <<registered, others, seen>> /\ Still
       /\ IF Passed(a) THEN next ELSE Error

\* An SR of the name is used as it is, or replaced.  A listing that fails
\* shows none.
XcpExisting ==
    /\ At("xcpng", "xcp_existing")
    /\ \E a \in Unchecked :
          LET found == a = "ok" /\ made["sr"] > 0
          IN  /\ Hear(a, Unchecked)
              /\ UNCHANGED <<world, seen>> /\ Still
              /\ IF ~Passed(a) THEN Error
                 ELSE IF found /\ ~opt.clobber THEN Each("xcp_pbd")
                 ELSE Goto(IF found THEN "xcp_clobber" ELSE "xcp_create")
XcpClobber == At("xcpng", "xcp_clobber") /\ ForgetSr(Goto("xcp_create"))
\* The answer of sr-create is not looked at: the sr-list after it decides.
XcpCreate ==
    /\ At("xcpng", "xcp_create")
    /\ \E a \in Checked :
          /\ Hear(a, Checked)
          /\ made' = IF Effect(a) THEN Another("sr") ELSE made
          /\ UNCHANGED <<has, registered, others, seen>> /\ Still
          /\ IF a = "late" \/ made'["sr"] = 0 THEN Error ELSE Each("xcp_pbd")
XcpPlug ==
    /\ At("xcpng", "xcp_pbd")
    /\ LET after == NextNode("xcp_pbd", Goto("xcp_portals"))
       IN  IF Enumerated(at) THEN Give("pbd", Unchecked, after) ELSE Go(after)

XcpConnectivity == At("xcpng", "xcp_portals") /\ Portals(Each("xcp_mpath"))
XcpMultipath ==
    At("xcpng", "xcp_mpath") /\ Give("mpath", Unchecked, Goto("xcp_login"))
XcpLogin ==
    /\ At("xcpng", "xcp_login")
    /\ Give("session", Unchecked, NextNode("xcp_mpath", Goto("xcp_binding")))
XcpBinding ==                            \* a reconcile passes no interfaces on
    /\ At("xcpng", "xcp_binding")
    /\ IF opt.bind /\ ~Reconciling THEN Build(One("binding"), Unchecked, Done) ELSE Go(Done)

XcpForget == At("xcpng", "xcp_forget") /\ ForgetSr(Each("xcp_rm"))
XcpClean ==
    /\ At("xcpng", "xcp_rm")
    /\ Take({"plugin"}, Unchecked, NextNode("xcp_rm", Each("xcp_rmload")))
XcpUnload ==
    /\ At("xcpng", "xcp_rmload")
    /\ Take({"loaded"}, Unchecked, NextNode("xcp_rmload", Done))

-----------------------------------------------------------------------------
(* HPE VME: deploy, configure, register_hosts, setup_connectivity.          *)

\* Fault: a plugin that is there is an error.
HpeDeployStrict ==
    /\ At("hpevme", "hpe_plugin")
    /\ \/ made["plugin"] > 0 /\ Go(Error)
       \/ made["plugin"] = 0 /\ Build(One("plugin"), Checked, Goto("hpe_record"))
\* A listing that fails shows none, and the plugin is uploaded again.
HpeDeploy ==
    /\ At("hpevme", "hpe_plugin")
    /\ \/ made["plugin"] > 0 /\ Go(Goto("hpe_record"))
       \/ Build(One("plugin"), Checked, Goto("hpe_record"))

HpeConfigure ==                          \* POST /storage-servers
    /\ At("hpevme", "hpe_record")
    /\ Build(Another("record"), Checked, Goto("hpe_register"))

HpeRegister ==
    /\ At("hpevme", "hpe_register")
    /\ Register(Checked \cup (IF Reconciling THEN {"silent"} ELSE {}),
                Goto("hpe_portals"))

HpeConnectivity == At("hpevme", "hpe_portals") /\ Portals(Each("hpe_sudo"))
CheckSudo ==
    /\ At("hpevme", "hpe_sudo")
    /\ Ask(TRUE, Goto(IF opt.proto = "nvme-tcp" THEN "hpe_refresh" ELSE "hpe_session"),
           Error)
HpeLogin ==
    /\ At("hpevme", "hpe_session")
    /\ Give("session", IF opt.proto = "fc" THEN Checked ELSE Unchecked,
            Goto("hpe_mpath"))
HpeMultipath ==
    At("hpevme", "hpe_mpath") /\ Give("mpath", Checked, Goto("hpe_refresh"))
\* multipath -r, all there is for NVMe-TCP: no connection is made.
HpeRefresh ==
    At("hpevme", "hpe_refresh") /\ Ask(TRUE, NextNode("hpe_sudo", Done), Error)

\* The teardown disconnects one volume and leaves the integration.
HpeTeardown == At("hpevme", "hpe_disconnect") /\ Go(Done)

-----------------------------------------------------------------------------

ProxmoxSteps ==
    \/ PveProbe \/ PveDeps \/ PvePlugin \/ PveReload \/ PveConfigure \/ PveRegister
    \/ PveConnectivity \/ PveInitiator \/ PveNvme \/ PveIscsi \/ PveFc
    \/ PveMultipath \/ PveBinding \/ PveEnable \/ PveRemove \/ PveClean
XcpngSteps ==
    \/ XcpRegister \/ RequireHostObjects \/ XcpProbe \/ XcpPlugin \/ XcpRestart
    \/ XcpReady \/ XcpExisting \/ XcpClobber \/ XcpCreate \/ XcpPlug
    \/ XcpConnectivity \/ XcpMultipath \/ XcpLogin \/ XcpBinding
    \/ XcpForget \/ XcpClean \/ XcpUnload
HpevmeSteps ==
    \/ HpeDeploy \/ HpeConfigure \/ HpeRegister \/ HpeConnectivity \/ CheckSudo
    \/ HpeLogin \/ HpeMultipath \/ HpeRefresh \/ HpeTeardown
HostSteps == ProxmoxSteps \/ XcpngSteps \/ HpevmeSteps
=============================================================================
