--------------------------- MODULE InstallationProofs ---------------------------
(***************************************************************************)
(* Theorems about Installation, for every number of nodes, of faults and   *)
(* of operations, and every set of setups: what an install, a              *)
(* reconciliation or a teardown that answered ok has done, however many    *)
(* attempts before it stopped half way.                                    *)
(***************************************************************************)
EXTENDS Installation, FiniteSetTheorems, WellFoundedInduction, TLAPS

\* Where an operation is: at a call, or at its answer.
Pos == IF pc = "idle" THEN answer ELSE pc

\* What a platform's calls make of the cluster's things.
Makes ==
    [proxmox   |-> {"storage", "enabled", "binding"},
     xcpng     |-> {"sr", "binding"},
     hpevme    |-> {"plugin", "record"},
     openshift |-> {"operator", "secret", "portworx", "driver", "class", "binding"},
     openstack |-> {"client", "stanza", "backend", "loaded", "type"},
     vsphere   |-> {"plugin", "vasa", "volume", "datastore"}][opt.p]

\* An operation works on nodes of the cluster, and at one of them.
Framed ==
    /\ scope \subseteq members
    /\ pc /= "idle" =>
          /\ at \in scope /\ answer = "none" /\ op \in Operations
          /\ op /= "reconcile" => scope = members
    /\ op = "reconcile" => opt.p \in {"proxmox", "xcpng", "hpevme"}
    /\ missed => faults > 0
    /\ blind => missed

\* Nothing is on what the connector does not touch.
Confined ==
    /\ \A t \in Things \ Makes : made[t] = 0 \/ (t = "foreign" /\ opt.p = "openshift")
    /\ \A n \in Nodes \ members : has[n] = {}
    /\ opt.p \notin {"proxmox", "xcpng"} => \A n \in Nodes : "plugin" \notin has[n]

\* While every listing has shown what there is, there is one of each.
Single == ~blind => /\ others \/ AdoptedDeleted
                    /\ \A t \in Things \ {"record"} : made[t] <= 1

\* A part is given to the nodes of the scope one after another: at the calls of
\* here to those the loop has passed, at those of now to the node it is at as
\* well, and at those of later all have it.
Dealt(part, here, now, later) ==
    \A n \in scope :
        \/ Pos \in here /\ n < at
        \/ Pos \in now /\ n <= at
        \/ Pos \in later
        => part \in has[n]
\* The things that there are from the calls of later on.
Built(t, later) == Pos \in later => made[t] > 0
Enrolled(later) == Pos \in later => scope \subseteq registered

Installing  == op = "install" /\ ~missed
\* A reconciliation whose own steps' answers are ok.
Extending == op = "reconcile" /\ faults = 0 /\ opt.portals
Removing  == op = "teardown" /\ ~missed

-----------------------------------------------------------------------------
(* What has been done at each call.                                         *)

PveEnd  == {"pve_binding", "pve_enable", "ok"}
PveLoop == {"pve_initiator", "pve_session", "pve_mpath"}
PveLate == {"pve_portals"} \cup PveLoop \cup PveEnd
PveMade == {"pve_define", "pve_register"} \cup PveLate
Proxmox ==
    opt.p = "proxmox" =>
    /\ Installing =>
          /\ Dealt("deps", {"pve_deps"}, {"pve_plugin", "pve_reload"}, PveMade)
          /\ Dealt("plugin", {"pve_deps", "pve_plugin"}, {"pve_reload"}, PveMade)
          /\ Dealt("loaded", {"pve_deps", "pve_plugin", "pve_reload"}, {}, PveMade)
          /\ Dealt("mpath", PveLoop, {}, PveEnd)
          /\ Built("storage", {"pve_register"} \cup PveLate)
          /\ Built("enabled", {"ok"})
    /\ Installing \/ Extending =>
          /\ Dealt("initiator", {"pve_initiator"}, {"pve_session", "pve_mpath"}, PveEnd)
          /\ Dealt("session", {"pve_initiator", "pve_session"}, {"pve_mpath"}, PveEnd)
          /\ Enrolled(PveLate)
    /\ Installing /\ opt.bind => Built("binding", {"pve_enable", "ok"})
    /\ Extending /\ Pos \in PveLate => registered \subseteq scope
    \* A defined storage has the plugin on every node that is registered.
    /\ Extending /\ Unreachable = {} =>
          Dealt("plugin", {"pve_deps", "pve_plugin"}, {"pve_reload"}, {"pve_register"})
    /\ faults = 0 /\ opt.portals /\ registered \cap opt.cut = {} /\ made["storage"] > 0 =>
          \A n \in registered : "plugin" \in has[n]
    /\ Removing =>
          /\ Pos \in {"pve_rm", "ok"} => made["storage"] = 0 /\ made["enabled"] = 0
          /\ \A n \in members : Pos = "ok" \/ (Pos = "pve_rm" /\ n < at) => "plugin" \notin has[n]

XcpLoop == {"xcp_mpath", "xcp_login"}
XcpEnd  == {"xcp_binding", "ok"}
XcpLate == {"xcp_portals"} \cup XcpLoop \cup XcpEnd
XcpMade == {"xcp_ready", "xcp_existing", "xcp_clobber", "xcp_create", "xcp_pbd"} \cup XcpLate
Xcpng ==
    opt.p = "xcpng" =>
    /\ ~blind /\ Pos = "xcp_create" => made["sr"] = 0
    /\ Installing =>
          /\ Enrolled({"xcp_require", "xcp_probe", "xcp_plugin", "xcp_restart"} \cup XcpMade)
          /\ Dealt("plugin", {"xcp_plugin"}, {}, {"xcp_restart"} \cup XcpMade)
          /\ Dealt("loaded", {"xcp_restart"}, {}, XcpMade)
          /\ Dealt("pbd", {"xcp_pbd"}, {}, XcpLate)
          /\ Dealt("mpath", {"xcp_mpath"}, {"xcp_login"}, XcpEnd)
          /\ Built("sr", {"xcp_pbd"} \cup XcpLate)
          /\ opt.bind => Built("binding", {"ok"})
    /\ Extending =>
          /\ Dealt("plugin", {"xcp_plugin"}, {}, {"xcp_register"} \cup XcpLate)
          /\ Enrolled(XcpLate)
    /\ Installing \/ Extending => Dealt("session", XcpLoop, {}, XcpEnd)
    /\ Removing =>
          /\ Pos \in {"xcp_rm", "xcp_rmload", "ok"} => made["sr"] = 0
          /\ \A n \in members :
                Pos \in {"xcp_rmload", "ok"} \/ (Pos = "xcp_rm" /\ n < at) => "plugin" \notin has[n]

HpeLoop == {"hpe_sudo", "hpe_session", "hpe_mpath", "hpe_refresh"}
HpeLate == {"hpe_portals", "ok"} \cup HpeLoop
Hpevme ==
    opt.p = "hpevme" =>
    /\ Installing =>
          /\ Built("plugin", {"hpe_record", "hpe_register"} \cup HpeLate)
          /\ Built("record", {"hpe_register"} \cup HpeLate)
    /\ Installing \/ Extending =>
          /\ Enrolled(HpeLate)
          /\ opt.proto /= "nvme-tcp" =>
                /\ Dealt("session", {"hpe_sudo", "hpe_session"}, {"hpe_mpath", "hpe_refresh"}, {"ok"})
                /\ Dealt("mpath", {"hpe_sudo", "hpe_session", "hpe_mpath"}, {"hpe_refresh"}, {"ok"})

PxLate == {"px_class", "px_apply", "px_binding", "ok"}
PxMakes == {"px_operator", "px_crd", "px_secret", "px_cluster"}
\* A teardown that takes the operator away has taken Portworx away.
Whole == "own" \in opt.reached \/ opt.detached
Openshift ==
    opt.p = "openshift" =>
    /\ ~blind /\ pc \in PxMakes => made["foreign"] = 0
    /\ ~missed =>
       /\ made["portworx"] > 0 => made["secret"] > 0 /\ (Whole => made["operator"] > 0)
       /\ made["driver"] > 0 => made["portworx"] > 0
       /\ op = "install" =>
             /\ Built("operator", {"px_crd", "px_secret", "px_cluster"})
             /\ Built("secret", {"px_cluster"})
             /\ made["foreign"] = 0 => Built("portworx", PxLate)
             /\ ~opt.taken => Built("class", {"px_binding", "ok"})
             /\ opt.bind => Built("binding", {"ok"})
       /\ op = "teardown" =>
             /\ "own" \in opt.reached /\ Pos \in {"px_unsubscribe", "ok"} =>
                   made["portworx"] = 0 /\ made["driver"] = 0
             /\ Pos = "ok" /\ ~opt.detached => made["operator"] = 0

OsLoop == {"os_packages", "os_mpath", "os_nova"}
OsLate == {"os_type", "ok"} \cup OsLoop
Openstack ==
    opt.p = "openstack" =>
    /\ ~blind =>
       /\ Pos \in {"os_client", "os_stanza"} => made["stanza"] = 0
       /\ Pos \in {"os_client", "os_stanza", "os_enable"} => (opt.taken => "storage" \in seen)
    /\ ~missed =>
       /\ Pos \in {"os_client", "os_stanza"} => ("backend" \in seen => made["backend"] > 0)
       /\ Built("client", {"os_stanza", "os_enable", "os_restart"})
       /\ Built("stanza", {"os_enable", "os_restart"})
       /\ Built("backend", {"os_restart"})
       /\ op = "install" /\ faults = 0 =>
             /\ Built("client", OsLate) /\ Built("stanza", OsLate)
             /\ Built("backend", OsLate) /\ Built("loaded", OsLate)
             /\ Built("type", {"ok"} \cup OsLoop)
             /\ Dealt("initiator", {"os_packages"}, {"os_mpath", "os_nova"}, {"ok"})
             /\ Dealt("mpath", {"os_packages", "os_mpath"}, {"os_nova"}, {"ok"})
             /\ Dealt("loaded", OsLoop, {}, {"ok"})
       \* A stanza that is there is complete.
       /\ faults = 0 /\ Pos \notin {"os_enable", "os_restart"} /\ made["stanza"] > 0 =>
             made["client"] > 0 /\ made["backend"] > 0 /\ made["loaded"] > 0
       /\ op = "teardown" =>
             /\ Pos \in {"os_disable", "os_unload", "ok"} => made["stanza"] = 0
             /\ Pos \in {"os_unload", "ok"} /\ opt.taken => made["backend"] = 0

VsNfs  == {"vs_mount", "vs_mounted", "ok"}
VsVmfs == {"vs_volume", "vs_connect", "vs_format"}
VsLate == {"vs_group"} \cup VsNfs \cup VsVmfs
VsIscsi == {"vs_adapter", "vs_targets"}
Vsphere ==
    opt.p = "vsphere" /\ ~missed =>
    /\ op = "install" =>
          /\ Built("plugin", {"vs_vasa", "vs_refresh", "vs_register"} \cup VsIscsi \cup VsLate)
          /\ Built("vasa", {"vs_register"} \cup VsIscsi \cup VsLate)
          /\ Built("datastore", {"ok"})
          /\ Enrolled(VsIscsi \cup VsLate)
          /\ opt.proto = "iscsi" =>
                /\ Dealt("initiator", {"vs_adapter"}, {"vs_targets"}, VsLate)
                /\ Dealt("session", VsIscsi, {}, VsLate)
          /\ Dealt("pbd", {"vs_mount"}, {}, {"vs_mounted", "ok"})
    /\ op = "teardown" =>
          /\ Pos \in {"vs_unplug", "ok"} => made["vasa"] = 0
          /\ Pos = "ok" /\ ~opt.detached => made["plugin"] = 0

IInv ==
    /\ TypeOK /\ Framed /\ Confined /\ Single
    /\ Proxmox /\ Xcpng /\ Hpevme /\ Openshift /\ Openstack /\ Vsphere

\* A set of naturals has a least one.
LEMMA LeastNatural ==
    ASSUME NEW T \in SUBSET Nat, T /= {}
    PROVE  \E x \in T : \A y \in T : x <= y
<1> DEFINE U == {1..n : n \in T}
           R == StrictSubsetOrdering(Nat)
<1>1. U \subseteq FiniteSubsetsOf(Nat) /\ U /= {}
  <2>1. ASSUME NEW n \in T PROVE 1..n \in FiniteSubsetsOf(Nat)
      BY FS_Interval DEF FiniteSubsetsOf
  <2> QED
      BY <2>1
<1>2. PICK u \in U : \A v \in U : <<v, u>> \notin R
  <2>1. IsWellFoundedOn(R, FiniteSubsetsOf(Nat))
      BY FS_StrictSubsetOrderingWellFounded
  <2> HIDE DEF R, U
  <2> QED
      BY <1>1, <2>1, WFMin
<1>3. PICK x \in T : u = 1..x
    OBVIOUS
<1>4. ASSUME NEW y \in T PROVE x <= y
  <2>1. <<1..y, 1..x>> \notin R
      BY <1>2, <1>3
  <2>2. <<1..y, 1..x>> \in (SUBSET Nat) \X (SUBSET Nat)
      OBVIOUS
  <2>3. ~(1..y \subseteq 1..x) \/ 1..y = 1..x
      BY <2>1, <2>2 DEF StrictSubsetOrdering
  <2>4. CASE ~(1..y \subseteq 1..x)
      BY <2>4
  <2>5. CASE 1..y = 1..x
    <3>1. x \in 1..x \/ x = 0
        OBVIOUS
    <3> QED
        BY <2>5, <3>1
  <2> QED
      BY <2>3, <2>4, <2>5
<1> QED
    BY <1>4

\* A set of nodes has a first one.
LEMMA FirstFacts ==
    ASSUME NEW S \in SUBSET Nodes, S /= {}
    PROVE  First(S) \in S /\ \A m \in S : First(S) <= m
<1>1. S \in SUBSET Nat
    BY InstallAssumption DEF Nodes
<1>2. \E n \in S : \A m \in S : n <= m
    BY <1>1, LeastNatural
<1> QED
    BY <1>2 DEF First

\* Where a running operation is, and where its loop begins and goes on.
LEMMA LoopFacts ==
    ASSUME IInv, pc /= "idle"
    PROVE  /\ at \in scope /\ scope \subseteq members /\ members \subseteq Nodes
           /\ registered \subseteq members /\ Nodes \subseteq Nat
           /\ op \in Operations /\ answer = "none" /\ pc \in CallsOf(op) /\ Pos = pc
           /\ op /= "reconcile" => scope = members
           /\ faults = 0 => ~missed
           /\ ~missed => ~blind
           /\ First(scope) \in scope /\ \A n \in scope : ~(n < First(scope))
           /\ \A n \in scope : n <= First(scope) => n = First(scope)
           /\ Rest = {} => \A n \in scope : n < at \/ n = at
           /\ Rest /= {} => First(Rest) \in scope
                            /\ \A n \in scope : n < First(Rest) => n < at \/ n = at
           /\ \A n \in scope : n <= at <=> n < at \/ n = at
<1>1. /\ at \in scope /\ scope \subseteq members /\ members \subseteq Nodes /\ Nodes \subseteq Nat
      /\ at \in Nat /\ registered \subseteq members
    BY InstallAssumption DEF IInv, Framed, TypeOK, Nodes
<1>2. First(scope) \in scope /\ \A n \in scope : First(scope) <= n
    BY <1>1, FirstFacts
<1>3. ASSUME NEW n \in scope
      PROVE  /\ ~(n < First(scope)) /\ (n <= First(scope) => n = First(scope))
             /\ n <= at <=> n < at \/ n = at
  <2>1. n \in Nat /\ First(scope) \in Nat /\ First(scope) <= n
      BY <1>1, <1>2
  <2> QED
      BY <1>1, <2>1
<1>4. Rest = {} => \A n \in scope : n < at \/ n = at
    BY <1>1 DEF Rest
<1>5. ASSUME Rest /= {}
      PROVE  First(Rest) \in scope /\ \A n \in scope : n < First(Rest) => n < at \/ n = at
  <2>1. Rest \in SUBSET Nodes /\ Rest \subseteq scope
      BY <1>1 DEF Rest
  <2>2. First(Rest) \in Rest /\ \A n \in Rest : First(Rest) <= n
      BY <1>5, <2>1, FirstFacts
  <2>3. First(Rest) \in Nat
      BY <1>1, <2>1, <2>2
  <2>4. ASSUME NEW n \in scope, n < First(Rest) PROVE n < at \/ n = at
    <3>1. n \notin Rest
        BY <1>1, <2>2, <2>3, <2>4
    <3> QED
        BY <1>1, <3>1 DEF Rest
  <2> QED
      BY <2>1, <2>2, <2>4
<1>6. /\ op \in Operations /\ answer = "none" /\ pc \in CallsOf(op) /\ Pos = pc
      /\ op /= "reconcile" => scope = members
      /\ faults = 0 => ~missed
      /\ ~missed => ~blind
    BY DEF IInv, TypeOK, Framed, Pos
<1> QED
    BY <1>1, <1>2, <1>4, <1>5, <1>3, <1>6

\* The calls of one platform leave what is known of the others alone.
LEMMA OnePlatform ==
    ASSUME IInv, opt' = opt, TypeOK', Framed', Confined', Single',
           opt.p = "proxmox" => Proxmox', opt.p = "xcpng" => Xcpng',
           opt.p = "hpevme" => Hpevme', opt.p = "openshift" => Openshift',
           opt.p = "openstack" => Openstack', opt.p = "vsphere" => Vsphere'
    PROVE  IInv'
BY DEF IInv, Proxmox, Xcpng, Hpevme, Openshift, Openstack, Vsphere, PxMakes, Whole

-----------------------------------------------------------------------------
(* What a call does, for every answer it may get.                           *)

\* The operation goes on; a mistaken answer or a fault is remembered.
Steady ==
    /\ UNCHANGED <<opt, members, ops>>
    /\ faults' \in 0..MaxFaults /\ missed' \in BOOLEAN
    /\ missed' => faults' > 0
    /\ ~missed' => ~missed
    /\ faults' = 0 => faults = 0
    /\ blind' \in BOOLEAN /\ (blind' => missed') /\ (~blind' => ~blind)
    /\ pc \notin LookFirst => blind' = blind
\* A call that failed ends the procedure.
Fails == Error /\ faults' > 0

Gives(part, next) ==
    /\ Steady /\ UNCHANGED <<registered, made, others, seen>>
    /\ has' \in [Nodes -> SUBSET Parts]
    /\ \A n \in Nodes :
          /\ has[n] \subseteq has'[n] /\ has'[n] \subseteq has[n] \cup {part}
          /\ n /= at => has'[n] = has[n]
    /\ (next /\ (~missed' => part \in has'[at])) \/ Fails
Takes(parts, next) ==
    /\ Steady /\ UNCHANGED <<registered, made, others, seen>>
    /\ has' \in [Nodes -> SUBSET Parts]
    /\ \A n \in Nodes :
          /\ has[n] \ parts \subseteq has'[n] /\ has'[n] \subseteq has[n]
          /\ n /= at => has'[n] = has[n]
    /\ (next /\ (~missed' => has'[at] \cap parts = {})) \/ Fails
Builds(things, sure, next) ==
    /\ Steady /\ UNCHANGED <<has, registered, others, seen>>
    /\ made' \in {made, things}
    /\ (next /\ (~missed' /\ sure => made' = things)) \/ Fails
Asks(holds, next, otherwise) ==
    /\ Steady /\ UNCHANGED <<has, registered, made, others, seen>>
    /\ (holds /\ next) \/ (~holds /\ otherwise) \/ Fails
Registers(next) ==
    /\ Steady /\ UNCHANGED <<has, made, others, seen>>
    /\ registered' \in {registered, registered \cup scope}
    /\ (next /\ (~missed' => registered' = registered \cup scope)) \/ Fails

\* What an answer does to what is remembered.
LEMMA HearFacts ==
    ASSUME IInv, NEW a, NEW answers, Hear(a, answers), Still
    PROVE  /\ Steady /\ a \in answers
           /\ a \in {"late", "silent"} => missed'
           /\ a = "silent" /\ pc \in LookFirst => blind'
           /\ a /= "ok" => faults' > 0
<1>1. /\ faults \in Nat /\ MaxFaults \in Nat /\ faults <= MaxFaults
      /\ missed \in BOOLEAN /\ (missed => faults > 0)
      /\ blind \in BOOLEAN /\ (blind => missed)
    BY InstallAssumption DEF IInv, TypeOK, Framed
<1>2. /\ a \in answers /\ (a /= "ok" => faults < MaxFaults)
      /\ faults' = faults + (IF a = "ok" THEN 0 ELSE 1)
    BY DEF Hear
<1>3. missed' = (missed \/ a \in {"late", "silent"})
    BY Zenon DEF Hear
<1>4. missed' \in BOOLEAN
    BY <1>3, Zenon
<1>5. missed' <=> missed \/ a \in {"late", "silent"}
    BY <1>3, Zenon
<1>6. /\ faults' \in 0..MaxFaults /\ (a /= "ok" => faults' > 0) /\ (faults' = 0 => faults = 0)
      /\ (faults > 0 => faults' > 0)
    BY <1>1, <1>2
<1>7. UNCHANGED <<opt, members, ops>>
    BY DEF Still
<1>8. blind' = (blind \/ (a = "silent" /\ pc \in LookFirst))
    BY Zenon DEF Hear
<1>9. blind' \in BOOLEAN /\ (blind' <=> blind \/ (a = "silent" /\ pc \in LookFirst))
    BY <1>8, Zenon
<1>10. /\ blind' => missed'
       /\ ~blind' => ~blind
       /\ pc \notin LookFirst => blind' = blind
    BY <1>1, <1>5, <1>9, Zenon
<1> QED
    BY <1>1, <1>2, <1>4, <1>5, <1>6, <1>7, <1>9, <1>10 DEF Steady

\* A call on a node gives it a part, or fails.
LEMMA GiveFacts ==
    ASSUME IInv, NEW part \in Parts, NEW answers, "warned" \notin answers, NEW ACTION next,
           Give(part, answers, next)
    PROVE  Gives(part, next)
<1>1. PICK a \in answers :
        /\ Hear(a, answers) /\ Still /\ UNCHANGED <<registered, made, others, seen>>
        /\ has' = IF Effect(a) THEN [has EXCEPT ![at] = @ \cup {part}] ELSE has
        /\ (Passed(a) /\ next) \/ (~Passed(a) /\ Error)
    BY DEF Give
<1>2. Steady /\ (a \in {"late", "silent"} => missed') /\ (a /= "ok" => faults' > 0)
    BY <1>1, HearFacts
<1>3. at \in Nodes /\ has \in [Nodes -> SUBSET Parts]
    BY DEF IInv, TypeOK
<1>4. /\ has' \in [Nodes -> SUBSET Parts]
      /\ \A n \in Nodes : has'[n] = IF Effect(a) /\ n = at THEN has[n] \cup {part} ELSE has[n]
    BY <1>1, <1>3
<1>5. Passed(a) => a \in {"ok", "silent"}
    BY <1>1 DEF Passed
<1>6. CASE Passed(a) /\ next
    BY <1>1, <1>2, <1>3, <1>4, <1>5, <1>6 DEF Gives, Effect
<1>7. CASE ~Passed(a) /\ Error
    BY <1>1, <1>2, <1>3, <1>4, <1>7 DEF Gives, Fails, Passed
<1> QED
    BY <1>1, <1>6, <1>7

\* A call on a node takes parts off it, or fails.
LEMMA TakeFacts ==
    ASSUME IInv, NEW parts, NEW answers, "warned" \notin answers, NEW ACTION next,
           Take(parts, answers, next)
    PROVE  Takes(parts, next)
<1>1. PICK a \in answers :
        /\ Hear(a, answers) /\ Still /\ UNCHANGED <<registered, made, others, seen>>
        /\ has' = IF Effect(a) THEN [has EXCEPT ![at] = @ \ parts] ELSE has
        /\ (Passed(a) /\ next) \/ (~Passed(a) /\ Error)
    BY DEF Take
<1>2. Steady /\ (a \in {"late", "silent"} => missed') /\ (a /= "ok" => faults' > 0)
    BY <1>1, HearFacts
<1>3. at \in Nodes /\ has \in [Nodes -> SUBSET Parts]
    BY DEF IInv, TypeOK
<1>4. /\ has' \in [Nodes -> SUBSET Parts]
      /\ \A n \in Nodes : has'[n] = IF Effect(a) /\ n = at THEN has[n] \ parts ELSE has[n]
    BY <1>1, <1>3
<1>5. Passed(a) => a \in {"ok", "silent"}
    BY <1>1 DEF Passed
<1>6. CASE Passed(a) /\ next
    BY <1>1, <1>2, <1>3, <1>4, <1>5, <1>6 DEF Takes, Effect
<1>7. CASE ~Passed(a) /\ Error
    BY <1>1, <1>2, <1>3, <1>4, <1>7 DEF Takes, Fails, Passed
<1> QED
    BY <1>1, <1>6, <1>7

\* A call changes the cluster's things, or fails.
LEMMA BuildFacts ==
    ASSUME IInv, NEW things, NEW answers, NEW ACTION next, Build(things, answers, next)
    PROVE  Builds(things, "warned" \notin answers, next)
<1>1. PICK a \in answers :
        /\ Hear(a, answers) /\ Still /\ UNCHANGED <<has, registered, others, seen>>
        /\ made' = IF Effect(a) THEN things ELSE made
        /\ (Passed(a) /\ next) \/ (~Passed(a) /\ Error)
    BY DEF Build
<1>2. Steady /\ (a \in {"late", "silent"} => missed') /\ (a /= "ok" => faults' > 0)
    BY <1>1, HearFacts
<1>3. made' \in {made, things} /\ (a = "ok" => made' = things)
    BY <1>1 DEF Effect
<1>4. Passed(a) /\ "warned" \notin answers => a \in {"ok", "silent"}
    BY <1>1 DEF Passed
<1>5. CASE Passed(a) /\ next
    BY <1>1, <1>2, <1>3, <1>4, <1>5 DEF Builds
<1>6. CASE ~Passed(a) /\ Error
    BY <1>1, <1>2, <1>3, <1>6 DEF Builds, Fails, Passed
<1> QED
    BY <1>1, <1>5, <1>6

\* A question changes nothing.
LEMMA AskFacts ==
    ASSUME IInv, NEW holds, NEW ACTION next, NEW ACTION otherwise, Ask(holds, next, otherwise)
    PROVE  Asks(holds, next, otherwise)
<1>1. PICK a \in Refusable :
        /\ Hear(a, Refusable) /\ Still /\ UNCHANGED <<has, registered, made, others, seen>>
        /\ (a /= "ok" /\ Error) \/ (holds /\ next) \/ (~holds /\ otherwise)
    BY DEF Ask, world
<1>2. Steady /\ (a /= "ok" => faults' > 0)
    BY <1>1, HearFacts
<1> QED
    BY <1>1, <1>2 DEF Asks, Fails

\* A registration adds the scope, or fails.
LEMMA RegisterFacts ==
    ASSUME IInv, NEW answers, "warned" \notin answers, NEW ACTION next, Register(answers, next)
    PROVE  Registers(next)
<1>1. PICK a \in answers :
        /\ Hear(a, answers) /\ Still /\ UNCHANGED <<has, made, others, seen>>
        /\ registered' = IF Effect(a) THEN registered \cup scope ELSE registered
        /\ (Passed(a) /\ next) \/ (~Passed(a) /\ Error)
    BY DEF Register
<1>2. Steady /\ (a \in {"late", "silent"} => missed') /\ (a /= "ok" => faults' > 0)
    BY <1>1, HearFacts
<1>3. /\ registered' \in {registered, registered \cup scope}
      /\ a = "ok" => registered' = registered \cup scope
    BY <1>1 DEF Effect
<1>4. Passed(a) => a \in {"ok", "silent"}
    BY <1>1 DEF Passed
<1>5. CASE Passed(a) /\ next
    BY <1>1, <1>2, <1>3, <1>4, <1>5 DEF Registers
<1>6. CASE ~Passed(a) /\ Error
    BY <1>1, <1>2, <1>3, <1>6 DEF Registers, Fails, Passed
<1> QED
    BY <1>1, <1>5, <1>6

\* A step without a call changes nothing but where the operation is.
LEMMA GoFacts ==
    ASSUME IInv, NEW ACTION next, Go(next)
    PROVE  Steady /\ UNCHANGED <<has, registered, made, others, seen>> /\ next
<1>1. /\ faults \in 0..MaxFaults /\ missed \in BOOLEAN /\ (missed => faults > 0)
      /\ blind \in BOOLEAN /\ (blind => missed)
    BY DEF IInv, TypeOK, Framed
<1>2. /\ UNCHANGED <<faults, missed, blind, has, registered, made, others, seen, opt, members, ops>>
      /\ next
    BY DEF Go, NoCall, fault, world, Still
<1> QED
    BY <1>1, <1>2 DEF Steady

-----------------------------------------------------------------------------
(* What every call leaves as it must be.                                    *)

\* The operation goes to another of its calls, or ends.
Moves ==
    /\ op' = op /\ scope' \in {scope, scope \cup registered} /\ at' \in scope
    /\ \/ pc' \in CallsOf(op) /\ pc' /= "idle" /\ answer' = answer
       \/ pc' = "idle" /\ answer' \in {"ok", "error"}

Frame == TypeOK /\ Framed /\ Confined /\ Single

\* One that changes the nodes' parts, the host objects and the things as a call
\* may keeps what all platforms share.
LEMMA FrameFacts ==
    ASSUME IInv, pc /= "idle", Steady, Moves,
           registered' \in {registered, registered \cup scope},
           has' \in [Nodes -> SUBSET Parts], made' \in [Things -> 0..2],
           seen' \subseteq Things, others' \in BOOLEAN, ~blind' => (others => others' \/ AdoptedDeleted'),
           \A n \in Nodes : n /= at => has'[n] \subseteq has[n],
           opt.p \notin {"proxmox", "xcpng"} => \A n \in Nodes : "plugin" \notin has'[n] \ has[n],
           \A t \in Things : made'[t] > 0 => t \in Makes \/ made[t] > 0,
           \A t \in Things \ {"record"} : made'[t] > 1 => made[t] > 1 \/ blind'
    PROVE  Frame'
<1>1. /\ opt \in Setups /\ at \in Nodes /\ scope \subseteq Nodes /\ op \in Operations
      /\ answer = "none" /\ at \in scope /\ scope \subseteq members
      /\ members \in (SUBSET Nodes) \ {{}} /\ registered \subseteq members
      /\ made \in [Things -> 0..2] /\ has \in [Nodes -> SUBSET Parts] /\ ops \in 0..MaxOps
      /\ op /= "reconcile" => scope = members
    BY DEF IInv, TypeOK, Framed
<1>2. /\ opt' = opt /\ op' = op /\ members' = members /\ ops' = ops
      /\ scope \subseteq scope' /\ scope' \subseteq members
    BY <1>1 DEF Steady, Moves
<1>3. CallsOf(op)' = CallsOf(op)
    BY <1>2 DEF CallsOf
<1>4. Makes' = Makes
    BY <1>2 DEF Makes
<1>5. TypeOK'
  <2>1. pc' = "idle" \/ pc' \in CallsOf(op)'
      BY <1>3 DEF Moves
  <2>2. /\ at' \in Nodes /\ scope' \subseteq Nodes /\ op' \in Operations \cup {"none"}
        /\ answer' \in {"none", "ok", "error"}
      BY <1>1, <1>2 DEF Moves
  <2>3. registered' \subseteq members' /\ members' \in (SUBSET Nodes) \ {{}}
      BY <1>1, <1>2
  <2>4. opt' \in Setups /\ ops' \in 0..MaxOps
      BY <1>1, <1>2
  <2>5. faults' \in 0..MaxFaults /\ missed' \in BOOLEAN /\ blind' \in BOOLEAN
      BY DEF Steady
  <2> QED
      BY <1>2, <2>1, <2>2, <2>3, <2>4, <2>5 DEF TypeOK
<1>6. Framed'
  <2>1. scope' \subseteq members' /\ (op' /= "reconcile" => scope' = members')
      BY <1>1, <1>2
  <2>2. ASSUME pc' /= "idle" PROVE at' \in scope' /\ answer' = "none" /\ op' \in Operations
      BY <1>1, <1>2, <2>2 DEF Moves
  <2>3. (missed' => faults' > 0) /\ (blind' => missed')
      BY DEF Steady
  <2>4. op' = "reconcile" => opt'.p \in {"proxmox", "xcpng", "hpevme"}
      BY <1>2 DEF IInv, Framed
  <2> QED
      BY <2>1, <2>2, <2>3, <2>4 DEF Framed
<1>7. Confined'
  <2>1. ASSUME NEW t \in Things \ Makes', ~(t = "foreign" /\ opt'.p = "openshift")
        PROVE  made'[t] = 0
    <3>1. made[t] = 0
        BY <1>2, <1>4, <2>1 DEF IInv, Confined
    <3>2. made'[t] \in 0..2 /\ ~(made'[t] > 0)
        BY <1>4, <2>1, <3>1
    <3> QED
        BY <3>2
  <2>2. ASSUME NEW n \in Nodes \ members' PROVE has'[n] = {}
    <3>1. has[n] = {} /\ n /= at
        BY <1>1, <1>2, <2>2 DEF IInv, Confined
    <3> QED
        BY <3>1
  <2>3. opt.p \notin {"proxmox", "xcpng"} => \A n \in Nodes : "plugin" \notin has'[n]
      BY DEF IInv, Confined
  <2> QED
      BY <1>2, <2>1, <2>2, <2>3 DEF Confined
<1>8. Single'
  <2>1. ASSUME ~blind'
        PROVE  /\ others' \/ AdoptedDeleted'
               /\ \A t \in Things \ {"record"} : made'[t] <= 1
    <3>1. /\ others \/ AdoptedDeleted
          /\ \A t \in Things \ {"record"} : made[t] <= 1
        BY <2>1 DEF IInv, Single, Steady
    <3>3. "foreign" \in Things /\ "foreign" \notin Makes
      <4>1. opt.p \in Platforms
          BY <1>1, InstallAssumption DEF Setup
      <4> QED
          BY <4>1 DEF Things, Makes, Platforms
    <3>4. AdoptedDeleted => AdoptedDeleted'
      <4>1. made["foreign"] = 0 => made'["foreign"] = 0
        <5>1. made["foreign"] \in 0..2 /\ made'["foreign"] \in 0..2
            BY <1>1, <3>3
        <5> QED
            BY <3>3, <5>1
      <4> QED
          BY <1>2, <4>1 DEF AdoptedDeleted
    <3>2. ASSUME NEW t \in Things \ {"record"} PROVE made'[t] <= 1
      <4>1. made[t] \in 0..2 /\ made'[t] \in 0..2 /\ ~(made'[t] > 1)
          BY <1>1, <2>1, <3>1
      <4> QED
          BY <4>1
    <3> QED
        BY <2>1, <3>1, <3>2, <3>4
  <2> QED
      BY <2>1 DEF Single
<1> QED
    BY <1>5, <1>6, <1>7, <1>8 DEF Frame

\* A call that gives a part.
LEMMA GivesFrame ==
    ASSUME IInv, pc /= "idle", NEW part, NEW ACTION next, Gives(part, next), next => Moves,
           part = "plugin" => opt.p \in {"proxmox", "xcpng"}
    PROVE  Frame'
<1>1. /\ at \in scope /\ answer = "none" /\ made \in [Things -> 0..2]
      /\ seen \subseteq Things /\ others \in BOOLEAN
    BY DEF IInv, TypeOK, Framed
<1>2. Moves
    BY <1>1 DEF Gives, Fails, Error, End, Moves
<1>3. /\ Steady /\ UNCHANGED <<registered, made, others, seen>>
      /\ has' \in [Nodes -> SUBSET Parts]
      /\ \A n \in Nodes : has'[n] \subseteq has[n] \cup {part} /\ (n /= at => has'[n] = has[n])
    BY DEF Gives
<1> QED
    BY <1>1, <1>2, <1>3, FrameFacts

\* A call that takes parts off a node.
LEMMA TakesFrame ==
    ASSUME IInv, pc /= "idle", NEW parts, NEW ACTION next, Takes(parts, next), next => Moves
    PROVE  Frame'
<1>1. /\ at \in scope /\ answer = "none" /\ made \in [Things -> 0..2]
      /\ seen \subseteq Things /\ others \in BOOLEAN
    BY DEF IInv, TypeOK, Framed
<1>2. Moves
    BY <1>1 DEF Takes, Fails, Error, End, Moves
<1>3. /\ Steady /\ UNCHANGED <<registered, made, others, seen>>
      /\ has' \in [Nodes -> SUBSET Parts]
      /\ \A n \in Nodes : has'[n] \subseteq has[n]
    BY DEF Takes
<1> QED
    BY <1>1, <1>2, <1>3, FrameFacts

\* A call that changes the things.
LEMMA BuildsFrame ==
    ASSUME IInv, pc /= "idle", NEW things, NEW sure, NEW ACTION next, Builds(things, sure, next),
           next => Moves, things \in [Things -> 0..2],
           \A t \in Things : things[t] > 0 => t \in Makes \/ made[t] > 0,
           \A t \in Things \ {"record"} : things[t] > 1 => made[t] > 1 \/ blind'
    PROVE  Frame'
<1>1. /\ at \in scope /\ answer = "none" /\ made \in [Things -> 0..2]
      /\ seen \subseteq Things /\ others \in BOOLEAN
      /\ has \in [Nodes -> SUBSET Parts]
    BY DEF IInv, TypeOK, Framed
<1>2. Moves
    BY <1>1 DEF Builds, Fails, Error, End, Moves
<1>3. Steady /\ UNCHANGED <<has, registered, others, seen>> /\ made' \in {made, things}
    BY DEF Builds
<1> QED
    BY <1>1, <1>2, <1>3, FrameFacts

\* A step that changes nothing on the cluster.
LEMMA StillFrame ==
    ASSUME IInv, pc /= "idle", Steady, UNCHANGED <<has, made, others, seen>>, Moves,
           registered' \in {registered, registered \cup scope}
    PROVE  Frame'
<1>1. /\ made \in [Things -> 0..2]
      /\ seen \subseteq Things /\ others \in BOOLEAN
      /\ has \in [Nodes -> SUBSET Parts]
    BY DEF IInv, TypeOK
<1> QED
    BY <1>1, FrameFacts

\* What a call makes of the things.
LEMMA OneFacts ==
    ASSUME IInv, NEW t \in Things
    PROVE  /\ One(t) \in [Things -> 0..2] /\ One(t)[t] = 1
           /\ \A u \in Things : u /= t => One(t)[u] = made[u]
BY DEF IInv, TypeOK, One

\* Another one of a thing, when there is none, is the first.
LEMMA AnotherFacts ==
    ASSUME IInv, NEW t \in Things
    PROVE  /\ Another(t) \in [Things -> 0..2] /\ Another(t)[t] > 0
           /\ made[t] = 0 => Another(t)[t] = 1
           /\ \A u \in Things : u /= t => Another(t)[u] = made[u]
<1>1. made \in [Things -> 0..2]
    BY DEF IInv, TypeOK
<1>2. made[t] \in 0..2
    BY <1>1
<1>3. (IF made[t] < 2 THEN made[t] + 1 ELSE made[t]) \in 1..2
    BY <1>2
<1>4. made[t] = 0 => (IF made[t] < 2 THEN made[t] + 1 ELSE made[t]) = 1
    OBVIOUS
<1> QED
    BY <1>1, <1>3, <1>4 DEF Another

\* Things that are taken away.
LEMMA GoneFacts ==
    ASSUME IInv, NEW ts
    PROVE  /\ Gone(ts) \in [Things -> 0..2]
           /\ \A u \in Things : Gone(ts)[u] = IF u \in ts THEN 0 ELSE made[u]
BY DEF IInv, TypeOK, Gone

\* A call that makes one thing.
LEMMA OneFrame ==
    ASSUME IInv, pc /= "idle", NEW t \in Things, t \in Makes, NEW sure, NEW ACTION next,
           Builds(One(t), sure, next), next => Moves
    PROVE  Frame'
<1>1. /\ One(t) \in [Things -> 0..2]
      /\ \A u \in Things : One(t)[u] > 0 => u \in Makes \/ made[u] > 0
      /\ \A u \in Things : One(t)[u] > 1 => made[u] > 1
    BY OneFacts
<1> QED
    BY <1>1, BuildsFrame

\* A call that adds one of a thing: a record, or a thing there is none of.
LEMMA AnotherFrame ==
    ASSUME IInv, pc /= "idle", NEW t \in Things, t \in Makes, NEW sure, NEW ACTION next,
           Builds(Another(t), sure, next), next => Moves,
           t = "record" \/ (~blind => made[t] = 0)
    PROVE  Frame'
<1>1. /\ Another(t) \in [Things -> 0..2]
      /\ \A u \in Things : Another(t)[u] > 0 => u \in Makes \/ made[u] > 0
      /\ \A u \in Things : u /= t => (Another(t)[u] > 1 => made[u] > 1)
    BY AnotherFacts
<1>2. ~blind' => ~blind
    BY DEF Builds, Steady
<1>3. ASSUME t /= "record", Another(t)[t] > 1 PROVE blind'
  <2>1. made[t] /= 0
      BY <1>3, AnotherFacts
  <2> QED
      BY <1>2, <1>3, <2>1 DEF Builds, Steady
<1>4. \A u \in Things \ {"record"} : Another(t)[u] > 1 => made[u] > 1 \/ blind'
    BY <1>1, <1>3
<1> QED
    BY <1>1, <1>4, BuildsFrame

\* A call that takes things away.
LEMMA GoneFrame ==
    ASSUME IInv, pc /= "idle", NEW ts, NEW sure, NEW ACTION next,
           Builds(Gone(ts), sure, next), next => Moves
    PROVE  Frame'
<1>1. /\ Gone(ts) \in [Things -> 0..2]
      /\ \A u \in Things : Gone(ts)[u] > 0 => made[u] > 0
      /\ \A u \in Things : Gone(ts)[u] > 1 => made[u] > 1
    BY GoneFacts
<1> QED
    BY <1>1, BuildsFrame

\* What a step of any platform may do to what stands on it: DefinedOverPlugin.
Over ==
    ~missed' =>
         /\ Enabled("enabled") => \A n \in scope : Equipped(n)
         /\ Enabled("portworx") => made["operator"] > 0 /\ made["secret"] > 0
         /\ Enabled("backend") => made["client"] > 0 /\ made["stanza"] > 0
         /\ \A n \in Nodes :
               "plugin" \in has[n] \ has'[n] => made["storage"] + made["sr"] = 0

\* Nothing is defined, and no plugin taken away, by a step that leaves both.
LEMMA StillOver ==
    ASSUME UNCHANGED <<has, made>>
    PROVE  Over
BY DEF Over, Enabled

\* Nor by a call that gives a part.
LEMMA GivesOver ==
    ASSUME NEW part, NEW ACTION next, Gives(part, next)
    PROVE  Over
BY DEF Over, Enabled, Gives

\* Nor by one that takes other parts.
LEMMA TakesOver ==
    ASSUME NEW parts, NEW ACTION next, Takes(parts, next), "plugin" \notin parts
    PROVE  Over
BY DEF Over, Enabled, Takes

\* Nor by one that makes other things.
LEMMA OneOver ==
    ASSUME IInv, NEW t \in Things, t \notin {"enabled", "portworx", "backend"},
           NEW sure, NEW ACTION next, Builds(One(t), sure, next)
    PROVE  Over
<1>1. \A u \in {"enabled", "portworx", "backend"} : u \in Things /\ u /= t
    BY DEF Things
<1>2. \A u \in {"enabled", "portworx", "backend"} : One(t)[u] = made[u]
    BY <1>1, OneFacts
<1> QED
    BY <1>2 DEF Over, Enabled, Builds

\* Nor by one that adds another of them.
LEMMA AnotherOver ==
    ASSUME IInv, NEW t \in Things, t \notin {"enabled", "portworx", "backend"},
           NEW sure, NEW ACTION next, Builds(Another(t), sure, next)
    PROVE  Over
<1>1. \A u \in {"enabled", "portworx", "backend"} : u \in Things /\ u /= t
    BY DEF Things
<1>2. \A u \in {"enabled", "portworx", "backend"} : Another(t)[u] = made[u]
    BY <1>1, AnotherFacts
<1> QED
    BY <1>2 DEF Over, Enabled, Builds

\* Nor by one that takes things away.
LEMMA GoneOver ==
    ASSUME IInv, NEW ts, NEW sure, NEW ACTION next, Builds(Gone(ts), sure, next)
    PROVE  Over
<1>1. \A u \in {"enabled", "portworx", "backend"} : u \in Things
    BY DEF Things
<1>2. \A u \in {"enabled", "portworx", "backend"} : Gone(ts)[u] = 0 \/ Gone(ts)[u] = made[u]
    BY <1>1, GoneFacts
<1> QED
    BY <1>2 DEF Over, Enabled, Builds

\* The calls of a platform are made on it, and leave it what it is.
LEMMA PlatformFacts ==
    /\ ProxmoxSteps => opt.p = "proxmox" /\ opt' = opt
    /\ XcpngSteps => opt.p = "xcpng" /\ opt' = opt
    /\ HpevmeSteps => opt.p = "hpevme" /\ opt' = opt
    /\ OpenshiftSteps => opt.p = "openshift" /\ opt' = opt
    /\ OpenstackSteps => opt.p = "openstack" /\ opt' = opt
    /\ VsphereSteps => opt.p = "vsphere" /\ opt' = opt
<1>1. ProxmoxSteps => opt.p = "proxmox" /\ opt' = opt
  <2>1. ProxmoxSteps => opt.p = "proxmox"
      BY DEF ProxmoxSteps, PveProbe, PveDeps, PvePlugin, PveReload, PveConfigure, PveRegister,
         PveConnectivity, PveInitiator, PveNvme, PveIscsi, PveFc, PveMultipath, PveBinding,
         PveEnable, PveRemove, PveClean, At
  <2>2. ProxmoxSteps => opt' = opt
      BY DEF ProxmoxSteps, PveProbe, PveDeps, PvePlugin, PveReload, PveConfigure, PveRegister,
         PveConnectivity, PveInitiator, PveNvme, PveIscsi, PveFc, PveMultipath, PveBinding,
         PveEnable, PveRemove, PveClean, Still, Give, Take, Build, Ask, Go, Portals
  <2> QED
      BY <2>1, <2>2
<1>2. XcpngSteps => opt.p = "xcpng" /\ opt' = opt
  <2>1. XcpngSteps => opt.p = "xcpng"
      BY DEF XcpngSteps, XcpRegister, RequireHostObjects, XcpProbe, XcpPlugin, XcpRestart,
         XcpReady, XcpExisting, XcpClobber, XcpCreate, XcpPlug, XcpConnectivity, XcpMultipath,
         XcpLogin, XcpBinding, XcpForget, XcpClean, XcpUnload, At
  <2>2. XcpngSteps => opt' = opt
      BY DEF XcpngSteps, XcpRegister, RequireHostObjects, XcpProbe, XcpPlugin, XcpRestart,
         XcpReady, XcpExisting, XcpClobber, XcpCreate, XcpPlug, XcpConnectivity, XcpMultipath,
         XcpLogin, XcpBinding, XcpForget, XcpClean, XcpUnload, Still, Give, Take, Build, Ask,
         Register, Go, Portals, ForgetSr
  <2> QED
      BY <2>1, <2>2
<1>3. HpevmeSteps => opt.p = "hpevme" /\ opt' = opt
  <2>1. HpevmeSteps => opt.p = "hpevme"
      BY DEF HpevmeSteps, HpeDeploy, HpeConfigure, HpeRegister, HpeConnectivity, CheckSudo,
         HpeLogin, HpeMultipath, HpeRefresh, HpeTeardown, At
  <2>2. HpevmeSteps => opt' = opt
      BY DEF HpevmeSteps, HpeDeploy, HpeConfigure, HpeRegister, HpeConnectivity, CheckSudo,
         HpeLogin, HpeMultipath, HpeRefresh, HpeTeardown, Still, Give, Build, Ask, Register, Go,
         Portals
  <2> QED
      BY <2>1, <2>2
<1>4. OpenshiftSteps => opt.p = "openshift" /\ opt' = opt
  <2>1. OpenshiftSteps => opt.p = "openshift"
      BY DEF OpenshiftSteps, PxLook, PxOperator, WaitForCrd, PxSecret, PxCluster, PxClass,
         PxConfigure, PxBinding, PxDelete, PxUnsubscribe, At
  <2>2. OpenshiftSteps => opt' = opt
      BY DEF OpenshiftSteps, PxLook, PxOperator, WaitForCrd, PxSecret, PxCluster, PxClass,
         PxConfigure, PxBinding, PxDelete, PxUnsubscribe, Still, Build, Ask, Go
  <2> QED
      BY <2>1, <2>2
<1>5. OpenstackSteps => opt.p = "openstack" /\ opt' = opt
  <2>1. OpenstackSteps => opt.p = "openstack"
      BY DEF OpenstackSteps, ReadCinderConf, EnsureClient, AppendStanza, EnableBackend,
         RestartVolumeService, CinderConfigure, ComputePackages, ComputeMultipath,
         RestartNovaCompute, RemoveStanza, DisableBackend, UnloadBackend, At
  <2>2. OpenstackSteps => opt' = opt
      BY DEF OpenstackSteps, ReadCinderConf, EnsureClient, AppendStanza, EnableBackend,
         RestartVolumeService, CinderConfigure, ComputePackages, ComputeMultipath,
         RestartNovaCompute, RemoveStanza, DisableBackend, UnloadBackend, Still, Give, Build, Go
  <2> QED
      BY <2>1, <2>2
<1>6. VsphereSteps => opt.p = "vsphere" /\ opt' = opt
  <2>1. VsphereSteps => opt.p = "vsphere"
      BY DEF VsphereSteps, VsDeploy, VsVasa, VsConfigure, VsRegister, VsAdapter, VsTargets,
         VsGroup, VsMount, VsMounted, VsVolume, VsConnect, VsFormat, VsArray, VsUnregisterVasa,
         VsUnregister, At
  <2>2. VsphereSteps => opt' = opt
      BY DEF VsphereSteps, VsDeploy, VsVasa, VsConfigure, VsRegister, VsAdapter, VsTargets,
         VsGroup, VsMount, VsMounted, VsVolume, VsConnect, VsFormat, VsArray, VsUnregisterVasa,
         VsUnregister, Still, Give, Build, Ask, Register, Go
  <2> QED
      BY <2>1, <2>2
<1> QED
    BY <1>1, <1>2, <1>3, <1>4, <1>5, <1>6

\* Each call on Proxmox VE leaves what must have been done before the next.
LEMMA ProxmoxKept ==
    ASSUME IInv, ProxmoxSteps
    PROVE  Frame' /\ Proxmox' /\ Over
<1>1. CASE PveProbe
  <2>1. opt.p = "proxmox" /\ pc = "pve_probe" /\ pc /= "idle"
      BY <1>1 DEF PveProbe, At
  <2>2. Asks(Unreachable = {}, Each("pve_deps"),
               IF Reconciling THEN Goto("pve_register") ELSE Error)
      BY <1>1, AskFacts DEF PveProbe
  <2>3. Moves
      BY <2>1, <2>2, LoopFacts DEF Asks, Moves, CallsOf, Operations, Goto, Each, Error,
         Reconciling, End, Fails
  <2>4. Frame'
      BY <2>1, <2>2, <2>3, StillFrame DEF Asks
  <2>5. Over
      BY <2>2, StillOver DEF Asks
  <2>6. Proxmox'
      BY <2>1, <2>2, LoopFacts DEF IInv, Steady, Fails, Error, End, Asks, Goto, Each,
         Reconciling, Unreachable, Proxmox, PveEnd, PveLoop, PveLate, PveMade, Pos, Dealt,
         Built, Enrolled, Installing, Extending, Removing, Unreachable
  <2> QED
      BY <2>4, <2>6, <2>5
<1>2. CASE PveDeps
  <2>1. opt.p = "proxmox" /\ pc = "pve_deps" /\ pc /= "idle"
      BY <1>2 DEF PveDeps, At
  <2>2. Gives("deps", Goto("pve_plugin"))
      BY <1>2, <2>1, GiveFacts DEF PveDeps, Parts, Checked
  <2>3. Goto("pve_plugin") => Moves
      BY <2>1, LoopFacts DEF Moves, CallsOf, Operations, Goto
  <2>4. Frame'
      BY <2>1, <2>2, <2>3, GivesFrame
  <2>5. Over
      BY <2>2, GivesOver
  <2>6. Proxmox'
      BY <2>1, <2>2, LoopFacts DEF IInv, Steady, Fails, Error, End, Gives, Goto, Proxmox,
         PveEnd, PveLoop, PveLate, PveMade, Pos, Dealt, Built, Enrolled, Installing,
         Extending, Removing, Unreachable
  <2> QED
      BY <2>4, <2>6, <2>5
<1>3. CASE PvePlugin
  <2>1. opt.p = "proxmox" /\ pc = "pve_plugin" /\ pc /= "idle"
      BY <1>3 DEF PvePlugin, At
  <2>2. Gives("plugin", Goto("pve_reload"))
      BY <1>3, <2>1, GiveFacts DEF PvePlugin, Parts, Checked
  <2>3. Goto("pve_reload") => Moves
      BY <2>1, LoopFacts DEF Moves, CallsOf, Operations, Goto
  <2>4. Frame'
      BY <2>1, <2>2, <2>3, GivesFrame
  <2>5. Over
      BY <2>2, GivesOver
  <2>6. Proxmox'
      BY <2>1, <2>2, LoopFacts DEF IInv, Steady, Fails, Error, End, Gives, Goto, Proxmox,
         PveEnd, PveLoop, PveLate, PveMade, Pos, Dealt, Built, Enrolled, Installing,
         Extending, Removing, Unreachable
  <2> QED
      BY <2>4, <2>6, <2>5
<1>4. CASE PveReload
  <2>1. opt.p = "proxmox" /\ pc = "pve_reload" /\ pc /= "idle"
      BY <1>4 DEF PveReload, At
  <2>2. Gives("loaded", NextNode("pve_deps",
        Goto(IF Reconciling THEN "pve_register" ELSE "pve_define")))
      BY <1>4, <2>1, GiveFacts DEF PveReload, Parts, Checked
  <2>3. (NextNode("pve_deps",
        Goto(IF Reconciling THEN "pve_register" ELSE "pve_define"))) => Moves
      BY <2>1, LoopFacts DEF Moves, CallsOf, Operations, Goto, NextNode, Reconciling
  <2>4. Frame'
      BY <2>1, <2>2, <2>3, GivesFrame
  <2>5. Over
      BY <2>2, GivesOver
  <2>6. Proxmox'
      BY <2>1, <2>2, LoopFacts DEF IInv, Steady, Fails, Error, End, Gives, Goto, NextNode,
         Reconciling, Proxmox, PveEnd, PveLoop, PveLate, PveMade, Pos, Dealt, Built,
         Enrolled, Installing, Extending, Removing, Unreachable
  <2> QED
      BY <2>4, <2>6, <2>5
<1>5. CASE PveConfigure
  <2>1. opt.p = "proxmox" /\ pc = "pve_define" /\ pc /= "idle"
      BY <1>5 DEF PveConfigure, At
  <2>2. Builds(One("storage"), "warned" \notin Checked, Goto("pve_register"))
      BY <1>5, BuildFacts DEF PveConfigure
  <2>3. Goto("pve_register") => Moves
      BY <2>1, LoopFacts DEF Moves, CallsOf, Operations, Goto
  <2>4. op = "install"
      BY <2>1, LoopFacts DEF CallsOf, Operations
  <2>5. "storage" \in Things /\ "storage" \in Makes
      BY <2>1 DEF Things, Makes
  <2>6. Frame'
      BY <2>1, <2>2, <2>3, <2>5, OneFrame
  <2>7. Over
      BY <2>2, <2>5, OneOver
  <2>8. Proxmox'
      BY <2>1, <2>2, <2>5, <2>4, OneFacts, LoopFacts DEF IInv, Steady, Fails, Error, End,
         Builds, Things, Checked, Goto, Proxmox, PveEnd, PveLoop, PveLate, PveMade, Pos,
         Dealt, Built, Enrolled, Installing, Extending, Removing, Unreachable
  <2> QED
      BY <2>6, <2>8, <2>7
<1>6. CASE PveConnectivity
  <2>1. opt.p = "proxmox" /\ pc = "pve_portals" /\ pc /= "idle"
      BY <1>6 DEF PveConnectivity, At
  <2>2. Asks(opt.portals \/ opt.proto = "fc", Each("pve_initiator"),
               IF Reconciling /\ ~opt.portals THEN Done ELSE Error)
      BY <1>6, AskFacts DEF PveConnectivity, Portals
  <2>3. Moves
      BY <2>1, <2>2, LoopFacts DEF Asks, Moves, CallsOf, Operations, Each, Done, Error,
         Reconciling, End, Fails
  <2>4. Frame'
      BY <2>1, <2>2, <2>3, StillFrame DEF Asks
  <2>5. Over
      BY <2>2, StillOver DEF Asks
  <2>6. Proxmox'
      BY <2>1, <2>2, LoopFacts DEF IInv, Steady, Fails, Error, End, Asks, Each, Done,
         Reconciling, Proxmox, PveEnd, PveLoop, PveLate, PveMade, Pos, Dealt, Built,
         Enrolled, Installing, Extending, Removing, Unreachable
  <2> QED
      BY <2>4, <2>6, <2>5
<1>7. CASE PveInitiator
  <2>1. opt.p = "proxmox" /\ pc = "pve_initiator" /\ pc /= "idle"
      BY <1>7 DEF PveInitiator, At
  <2>2. Gives("initiator", Goto("pve_session"))
      BY <1>7, <2>1, GiveFacts DEF PveInitiator, Parts, Checked
  <2>3. Goto("pve_session") => Moves
      BY <2>1, LoopFacts DEF Moves, CallsOf, Operations, Goto
  <2>4. Frame'
      BY <2>1, <2>2, <2>3, GivesFrame
  <2>5. Over
      BY <2>2, GivesOver
  <2>6. Proxmox'
      BY <2>1, <2>2, LoopFacts DEF IInv, Steady, Fails, Error, End, Gives, Goto, Proxmox,
         PveEnd, PveLoop, PveLate, PveMade, Pos, Dealt, Built, Enrolled, Installing,
         Extending, Removing, Unreachable
  <2> QED
      BY <2>4, <2>6, <2>5
<1>8. CASE PveNvme
  <2>1. opt.p = "proxmox" /\ pc = "pve_session" /\ pc /= "idle"
      BY <1>8 DEF PveNvme, At
  <2>2. CASE "session" \in has[at]
    <3>1. Steady /\ UNCHANGED <<has, registered, made, others, seen>> /\ Error
        BY <1>8, <2>2, GoFacts DEF PveNvme
    <3>2. Moves
        BY <2>1, <3>1, LoopFacts DEF Moves, Error, End
    <3>3. Frame'
        BY <2>1, <3>1, <3>2, StillFrame
    <3>4. Proxmox'
        BY <2>1, <3>1, LoopFacts DEF IInv, Steady, Fails, Error, End, Proxmox, PveEnd,
           PveLoop, PveLate, PveMade, Pos, Dealt, Built, Enrolled, Installing, Extending,
           Removing, Unreachable
    <3>5. Over
        BY <3>1, StillOver
    <3> QED
        BY <3>3, <3>4, <3>5
  <2>3. CASE "session" \notin has[at]
    <3>1. Gives("session", Goto("pve_mpath"))
        BY <1>8, <2>3, GiveFacts DEF PveNvme, Parts, Checked
    <3>2. Goto("pve_mpath") => Moves
        BY <2>1, LoopFacts DEF Moves, CallsOf, Operations, Goto
    <3>3. Frame'
        BY <2>1, <3>1, <3>2, GivesFrame
    <3>4. Proxmox'
        BY <2>1, <3>1, LoopFacts DEF Gives, Goto, IInv, Steady, Fails, Error, End, Proxmox,
           PveEnd, PveLoop, PveLate, PveMade, Pos, Dealt, Built, Enrolled, Installing,
           Extending, Removing, Unreachable
    <3>5. Over
        BY <3>1, GivesOver
    <3> QED
        BY <3>3, <3>4, <3>5
  <2> QED
      BY <2>2, <2>3
<1>9. CASE PveIscsi
  <2>1. opt.p = "proxmox" /\ pc = "pve_session" /\ pc /= "idle"
      BY <1>9 DEF PveIscsi, At
  <2>2. Gives("session", Goto("pve_mpath"))
      BY <1>9, <2>1, GiveFacts DEF PveIscsi, Parts, Unchecked, Checked
  <2>3. Goto("pve_mpath") => Moves
      BY <2>1, LoopFacts DEF Moves, CallsOf, Operations, Goto
  <2>4. Frame'
      BY <2>1, <2>2, <2>3, GivesFrame
  <2>5. Over
      BY <2>2, GivesOver
  <2>6. Proxmox'
      BY <2>1, <2>2, LoopFacts DEF IInv, Steady, Fails, Error, End, Gives, Goto, Proxmox,
         PveEnd, PveLoop, PveLate, PveMade, Pos, Dealt, Built, Enrolled, Installing,
         Extending, Removing, Unreachable
  <2> QED
      BY <2>4, <2>6, <2>5
<1>10. CASE PveFc
  <2>1. opt.p = "proxmox" /\ pc = "pve_session" /\ pc /= "idle"
      BY <1>10 DEF PveFc, At
  <2>2. Gives("session", Goto("pve_mpath"))
      BY <1>10, <2>1, GiveFacts DEF PveFc, Parts, Unchecked, Checked
  <2>3. Goto("pve_mpath") => Moves
      BY <2>1, LoopFacts DEF Moves, CallsOf, Operations, Goto
  <2>4. Frame'
      BY <2>1, <2>2, <2>3, GivesFrame
  <2>5. Over
      BY <2>2, GivesOver
  <2>6. Proxmox'
      BY <2>1, <2>2, LoopFacts DEF IInv, Steady, Fails, Error, End, Gives, Goto, Proxmox,
         PveEnd, PveLoop, PveLate, PveMade, Pos, Dealt, Built, Enrolled, Installing,
         Extending, Removing, Unreachable
  <2> QED
      BY <2>4, <2>6, <2>5
<1>11. CASE PveMultipath
  <2>1. opt.p = "proxmox" /\ pc = "pve_mpath" /\ pc /= "idle"
      BY <1>11 DEF PveMultipath, At
  <2>2. Gives("mpath", NextNode("pve_initiator", Goto("pve_binding")))
      BY <1>11, <2>1, GiveFacts DEF PveMultipath, Parts, Checked
  <2>3. (NextNode("pve_initiator", Goto("pve_binding"))) => Moves
      BY <2>1, LoopFacts DEF Moves, CallsOf, Operations, Goto, NextNode
  <2>4. Frame'
      BY <2>1, <2>2, <2>3, GivesFrame
  <2>5. Over
      BY <2>2, GivesOver
  <2>6. Proxmox'
      BY <2>1, <2>2, LoopFacts DEF IInv, Steady, Fails, Error, End, Gives, Goto, NextNode,
         Proxmox, PveEnd, PveLoop, PveLate, PveMade, Pos, Dealt, Built, Enrolled, Installing,
         Extending, Removing, Unreachable
  <2> QED
      BY <2>4, <2>6, <2>5
<1>12. CASE PveEnable
  <2>1. opt.p = "proxmox" /\ pc = "pve_enable" /\ pc /= "idle"
      BY <1>12 DEF PveEnable, At
  <2>2. Builds(One("enabled"), "warned" \notin Checked, Done)
      BY <1>12, BuildFacts DEF PveEnable
  <2>3. Done => Moves
      BY <2>1, LoopFacts DEF Moves, CallsOf, Operations, Done, End
  <2>4. op = "install"
      BY <2>1, LoopFacts DEF CallsOf, Operations
  <2>5. "enabled" \in Things /\ "enabled" \in Makes
      BY <2>1 DEF Things, Makes
  <2>6. Frame'
      BY <2>1, <2>2, <2>3, <2>5, OneFrame
  <2>7. Over
      BY <2>1, <2>2, <2>5, <2>4, OneFacts, LoopFacts DEF Over, Enabled, Equipped, PartsOf,
         NeedsHost, IInv, TypeOK, Steady, Builds, Things, Proxmox, PveEnd, PveLoop, PveLate,
         PveMade, Pos, Dealt, Built, Enrolled, Installing, Extending, Removing,
         Unreachable
  <2>8. Proxmox'
      BY <2>1, <2>2, <2>5, <2>4, OneFacts, LoopFacts DEF IInv, Steady, Fails, Error, End,
         Builds, Things, Checked, Done, Proxmox, PveEnd, PveLoop, PveLate, PveMade, Pos,
         Dealt, Built, Enrolled, Installing, Extending, Removing, Unreachable
  <2> QED
      BY <2>6, <2>8, <2>7
<1>13. CASE PveRegister
  <2>1. opt.p = "proxmox" /\ pc = "pve_register" /\ pc /= "idle"
      BY <1>13 DEF PveRegister, At
  <2>2. PICK a \in Checked \cup (IF Reconciling THEN {"silent"} ELSE {}) :
          /\ Hear(a, Checked \cup {"silent"}) /\ Still
          /\ scope' = scope \cup registered
          /\ registered' = IF Effect(a) THEN scope' ELSE registered
          /\ UNCHANGED <<at, op, has, made, others, seen>>
          /\ pc' = (IF Passed(a) THEN "pve_portals" ELSE "idle")
          /\ answer' = (IF Passed(a) THEN answer ELSE "error")
      BY <1>13 DEF PveRegister
  <2>3. Steady /\ (a \in {"late", "silent"} => missed') /\ (a /= "ok" => faults' > 0)
      BY <2>2, HearFacts
  <2>4. /\ a = "ok" => Effect(a) /\ Passed(a)
        /\ Passed(a) /\ ~missed' => a = "ok"
        /\ ~Passed(a) => faults' > 0
      BY <2>2, <2>3 DEF Effect, Passed, Checked
  <2>5. op = "install" \/ op = "reconcile"
      BY <2>1, LoopFacts DEF CallsOf, Operations
  <2>6. Moves
      BY <2>1, <2>2, LoopFacts DEF Moves, CallsOf, Operations
  <2>7. Frame'
    <3>1. UNCHANGED <<has, made, others, seen>> /\ registered' \in {registered,
          registered \cup scope}
        BY <2>2
    <3> QED
        BY <2>1, <2>3, <2>6, <3>1, StillFrame
  <2>8. Proxmox'
      BY <2>1, <2>2, <2>3, <2>4, <2>5, LoopFacts DEF IInv, Steady, Fails, Error, End,
         Proxmox, PveEnd, PveLoop, PveLate, PveMade, Pos, Dealt, Built, Enrolled, Installing,
         Extending, Removing, Unreachable
  <2>9. Over
      BY <2>2, StillOver
  <2> QED
      BY <2>7, <2>8, <2>9
<1>14. CASE PveBinding
  <2>1. opt.p = "proxmox" /\ pc = "pve_binding" /\ pc /= "idle"
      BY <1>14 DEF PveBinding, At
  \* A reconcile binds nothing and ends; an install goes on.
  <2>2. CASE Reconciling \/ ~opt.bind
    <3> DEFINE after == IF Reconciling THEN Done ELSE Goto("pve_enable")
    <3>1. after => Moves
        BY <2>1, LoopFacts DEF Moves, CallsOf, Operations, Goto, Done, End, Reconciling
    <3>2. Steady /\ UNCHANGED <<has, registered, made, others, seen>> /\ after
      <4>1. Go(after)
          BY <1>14, <2>2 DEF PveBinding, Go
      <4> HIDE DEF after
      <4> QED
          BY <4>1, GoFacts
    <3>3. Frame'
        BY <2>1, <3>1, <3>2, StillFrame
    <3>4. Proxmox'
        BY <2>1, <2>2, <3>2, LoopFacts DEF Goto, Done, Reconciling, IInv, Steady, Fails,
           Error, End, Proxmox, PveEnd, PveLoop, PveLate, PveMade, Pos, Dealt, Built,
           Enrolled, Installing, Extending, Removing, Unreachable
    <3>5. Over
        BY <3>2, StillOver
    <3> QED
        BY <3>3, <3>4, <3>5
  <2>3. CASE ~Reconciling /\ opt.bind
    <3>1. Builds(One("binding"), "warned" \notin Unchecked, Goto("pve_enable"))
        BY <1>14, <2>3, BuildFacts DEF PveBinding
    <3>2. "binding" \in Things /\ "binding" \in Makes /\ op = "install"
        BY <2>1, <2>3, LoopFacts DEF Things, Makes, Reconciling, CallsOf, Operations
    <3>3. Goto("pve_enable") => Moves
        BY <2>1, <3>2, LoopFacts DEF Moves, CallsOf, Operations, Goto
    <3>4. Frame'
        BY <2>1, <3>1, <3>2, <3>3, OneFrame
    <3>5. Proxmox'
        BY <2>1, <3>1, <3>2, OneFacts, LoopFacts DEF Builds, Unchecked, Things, Goto, IInv,
           Steady, Fails, Error, End, Proxmox, PveEnd, PveLoop, PveLate, PveMade, Pos, Dealt,
           Built, Enrolled, Installing, Extending, Removing, Unreachable, Checked
    <3>6. Over
        BY <3>1, <3>2, OneOver
    <3> QED
        BY <3>4, <3>5, <3>6
  <2> QED
      BY <2>2, <2>3
<1>15. CASE PveRemove
  <2>1. opt.p = "proxmox" /\ pc = "pve_remove" /\ pc /= "idle"
      BY <1>15 DEF PveRemove, At
  <2>2. Builds(Gone({"storage", "enabled", "binding"}), "warned" \notin Unchecked,
        Each("pve_rm"))
      BY <1>15, BuildFacts DEF PveRemove
  <2>3. Each("pve_rm") => Moves
      BY <2>1, LoopFacts DEF Moves, CallsOf, Operations, Each
  <2>4. {"storage", "enabled", "binding"} \subseteq Things /\ op = "teardown"
      BY <2>1, LoopFacts DEF Things, CallsOf, Operations
  <2>5. Frame'
      BY <2>1, <2>2, <2>3, <2>4, GoneFrame
  <2>6. Over
      BY <2>2, GoneOver
  <2>7. Proxmox'
      BY <2>1, <2>2, <2>4, GoneFacts, LoopFacts DEF IInv, Steady, Fails, Error, End, Builds,
         Things, Unchecked, Each, Proxmox, PveEnd, PveLoop, PveLate, PveMade, Pos, Dealt,
         Built, Enrolled, Installing, Extending, Removing, Unreachable, Checked
  <2> QED
      BY <2>5, <2>7, <2>6
<1>16. CASE PveClean
  <2>1. opt.p = "proxmox" /\ pc = "pve_rm" /\ pc /= "idle"
      BY <1>16 DEF PveClean, At
  <2>2. Takes({"plugin", "loaded"}, NextNode("pve_rm", Done))
      BY <1>16, TakeFacts DEF PveClean, Unchecked, Checked
  <2>3. (NextNode("pve_rm", Done)) => Moves
      BY <2>1, LoopFacts DEF Moves, CallsOf, Operations, NextNode, Done, End
  <2>4. Frame'
      BY <2>1, <2>2, <2>3, TakesFrame
  <2>5. op = "teardown"
      BY <2>1, LoopFacts DEF CallsOf, Operations
  <2>6. Over
      BY <2>1, <2>2, <2>5, LoopFacts DEF Over, Enabled, IInv, TypeOK, Confined, Makes,
         Things, Steady, Takes, Proxmox, PveEnd, PveLoop, PveLate, PveMade, Pos, Dealt,
         Built, Enrolled, Installing, Extending, Removing, Unreachable
  <2>7. Proxmox'
      BY <2>1, <2>2, <2>5, LoopFacts DEF IInv, Steady, Fails, Error, End, Takes, NextNode,
         Done, Proxmox, PveEnd, PveLoop, PveLate, PveMade, Pos, Dealt, Built, Enrolled,
         Installing, Extending, Removing, Unreachable
  <2> QED
      BY <2>4, <2>7, <2>6
<1> QED
    BY <1>1, <1>2, <1>3, <1>4, <1>5, <1>6, <1>7, <1>8, <1>9, <1>10, <1>11, <1>12, <1>13,
       <1>14, <1>15, <1>16 DEF ProxmoxSteps

\* Each call on XCP-ng leaves what must have been done before the next.
LEMMA XcpngKept ==
    ASSUME IInv, XcpngSteps
    PROVE  Frame' /\ Xcpng' /\ Over
<1>1. CASE XcpRegister
  <2>1. opt.p = "xcpng" /\ pc = "xcp_register" /\ pc /= "idle"
      BY <1>1 DEF XcpRegister, At
  <2>2. Registers(Goto(IF Reconciling THEN "xcp_portals" ELSE "xcp_require"))
      BY <1>1, RegisterFacts DEF XcpRegister, Checked
  <2>3. (Goto(IF Reconciling THEN "xcp_portals" ELSE "xcp_require")) => Moves
      BY <2>1, LoopFacts DEF Moves, CallsOf, Operations, Goto, Reconciling
  <2>4. Steady /\ UNCHANGED <<has, made, others, seen>> /\ Moves
      BY <2>1, <2>2, <2>3, LoopFacts DEF Registers, Fails, Error, End, Moves
  <2>5. Frame'
      BY <2>1, <2>2, <2>4, StillFrame DEF Registers
  <2>6. Over
      BY <2>4, StillOver
  <2>7. Xcpng'
      BY <2>1, <2>2, LoopFacts DEF IInv, Steady, Fails, Error, End, Registers, Goto,
         Reconciling, Xcpng, XcpLoop, XcpEnd, XcpLate, XcpMade, Pos, Dealt, Built, Enrolled,
         Installing, Extending, Removing
  <2> QED
      BY <2>5, <2>7, <2>6
<1>2. CASE RequireHostObjects
  <2>1. opt.p = "xcpng" /\ pc = "xcp_require" /\ pc /= "idle"
      BY <1>2 DEF RequireHostObjects, At
  <2>2. Asks(registered /= {}, Goto("xcp_probe"), Error)
      BY <1>2, AskFacts DEF RequireHostObjects
  <2>3. Moves
      BY <2>1, <2>2, LoopFacts DEF Asks, Moves, CallsOf, Operations, Goto, Error, End, Fails
  <2>4. Frame'
      BY <2>1, <2>2, <2>3, StillFrame DEF Asks
  <2>5. Over
      BY <2>2, StillOver DEF Asks
  <2>6. Xcpng'
      BY <2>1, <2>2, LoopFacts DEF IInv, Steady, Fails, Error, End, Asks, Goto, Xcpng,
         XcpLoop, XcpEnd, XcpLate, XcpMade, Pos, Dealt, Built, Enrolled, Installing,
         Extending, Removing
  <2> QED
      BY <2>4, <2>6, <2>5
<1>3. CASE XcpProbe
  <2>1. opt.p = "xcpng" /\ pc = "xcp_probe" /\ pc /= "idle"
      BY <1>3 DEF XcpProbe, At
  <2>2. Asks(Unreachable = {}, Each("xcp_plugin"), Error)
      BY <1>3, AskFacts DEF XcpProbe
  <2>3. Moves
      BY <2>1, <2>2, LoopFacts DEF Asks, Moves, CallsOf, Operations, Each, Error, End, Fails
  <2>4. Frame'
      BY <2>1, <2>2, <2>3, StillFrame DEF Asks
  <2>5. Over
      BY <2>2, StillOver DEF Asks
  <2>6. Xcpng'
      BY <2>1, <2>2, LoopFacts DEF IInv, Steady, Fails, Error, End, Asks, Each, Unreachable,
         Xcpng, XcpLoop, XcpEnd, XcpLate, XcpMade, Pos, Dealt, Built, Enrolled, Installing,
         Extending, Removing
  <2> QED
      BY <2>4, <2>6, <2>5
<1>4. CASE XcpPlugin
  <2>1. opt.p = "xcpng" /\ pc = "xcp_plugin" /\ pc /= "idle"
      BY <1>4 DEF XcpPlugin, At
  <2>2. Gives("plugin", NextNode("xcp_plugin",
               IF Reconciling THEN Goto("xcp_register") ELSE Each("xcp_restart")))
      BY <1>4, <2>1, GiveFacts DEF XcpPlugin, Parts, Unchecked, Checked
  <2>3. (NextNode("xcp_plugin",
               IF Reconciling THEN Goto("xcp_register") ELSE Each("xcp_restart"))) => Moves
      BY <2>1, LoopFacts DEF Moves, CallsOf, Operations, Goto, Each, NextNode, Reconciling
  <2>4. Frame'
      BY <2>1, <2>2, <2>3, GivesFrame
  <2>5. Over
      BY <2>2, GivesOver
  <2>6. Xcpng'
      BY <2>1, <2>2, LoopFacts DEF IInv, Steady, Fails, Error, End, Gives, Goto, Each,
         NextNode, Reconciling, Xcpng, XcpLoop, XcpEnd, XcpLate, XcpMade, Pos, Dealt, Built,
         Enrolled, Installing, Extending, Removing
  <2> QED
      BY <2>4, <2>6, <2>5
<1>5. CASE XcpRestart
  <2>1. opt.p = "xcpng" /\ pc = "xcp_restart" /\ pc /= "idle"
      BY <1>5 DEF XcpRestart, At
  <2>2. Gives("loaded", NextNode("xcp_restart", Goto("xcp_ready")))
      BY <1>5, <2>1, GiveFacts DEF XcpRestart, Parts, Unchecked, Checked
  <2>3. (NextNode("xcp_restart", Goto("xcp_ready"))) => Moves
      BY <2>1, LoopFacts DEF Moves, CallsOf, Operations, Goto, NextNode
  <2>4. Frame'
      BY <2>1, <2>2, <2>3, GivesFrame
  <2>5. Over
      BY <2>2, GivesOver
  <2>6. Xcpng'
      BY <2>1, <2>2, LoopFacts DEF IInv, Steady, Fails, Error, End, Gives, Goto, NextNode,
         Xcpng, XcpLoop, XcpEnd, XcpLate, XcpMade, Pos, Dealt, Built, Enrolled, Installing,
         Extending, Removing
  <2> QED
      BY <2>4, <2>6, <2>5
<1>6. CASE XcpReady
  <2>1. opt.p = "xcpng" /\ pc = "xcp_ready" /\ pc /= "idle"
      BY <1>6 DEF XcpReady, At
  <2>2. Asks(Enumerated(First(members)), Goto("xcp_existing"), Error)
      BY <1>6, AskFacts DEF XcpReady
  <2>3. Moves
      BY <2>1, <2>2, LoopFacts DEF Asks, Moves, CallsOf, Operations, Goto, Error, End, Fails
  <2>4. Frame'
      BY <2>1, <2>2, <2>3, StillFrame DEF Asks
  <2>5. Over
      BY <2>2, StillOver DEF Asks
  <2>6. Xcpng'
      BY <2>1, <2>2, LoopFacts DEF IInv, Steady, Fails, Error, End, Asks, Goto, Enumerated,
         Xcpng, XcpLoop, XcpEnd, XcpLate, XcpMade, Pos, Dealt, Built, Enrolled, Installing,
         Extending, Removing
  <2> QED
      BY <2>4, <2>6, <2>5
<1>7. CASE XcpExisting
  <2>1. opt.p = "xcpng" /\ pc = "xcp_existing" /\ pc /= "idle"
      BY <1>7 DEF XcpExisting, At
  <2>2. PICK a \in Unchecked :
          LET found == a = "ok" /\ made["sr"] > 0
          IN  /\ Hear(a, Unchecked)
              /\ UNCHANGED <<world, seen>> /\ Still
              /\ IF ~Passed(a) THEN Error
                 ELSE IF found /\ ~opt.clobber THEN Each("xcp_pbd")
                 ELSE Goto(IF found THEN "xcp_clobber" ELSE "xcp_create")
      BY <1>7 DEF XcpExisting
  <2>3. /\ Steady /\ (a \in {"late", "silent"} => missed') /\ (a /= "ok" => faults' > 0)
        /\ a = "silent" => blind'
      BY <2>1, <2>2, HearFacts DEF LookFirst
  <2>4. UNCHANGED <<has, registered, made, others, seen>> /\ made["sr"] \in 0..2
      BY <2>2 DEF world, IInv, TypeOK, Things
  <2>5. Moves
      BY <2>1, <2>2, LoopFacts DEF Moves, CallsOf, Operations, Each, Goto, Error, End
  <2>6. Frame'
      BY <2>1, <2>3, <2>4, <2>5, StillFrame
  <2>7. Xcpng'
      BY <2>1, <2>2, <2>3, <2>4, LoopFacts DEF IInv, Steady, Unchecked, Passed, Error, End, Each, Goto, Xcpng,
         XcpLoop, XcpEnd, XcpLate, XcpMade, Pos, Dealt, Built, Enrolled, Installing,
         Extending, Removing, Checked
  <2>8. Over
      BY <2>4, StillOver
  <2> QED
      BY <2>6, <2>7, <2>8
<1>8. CASE XcpClobber
  <2>1. opt.p = "xcpng" /\ pc = "xcp_clobber" /\ pc /= "idle"
      BY <1>8 DEF XcpClobber, At
  <2>2. PICK a \in Unchecked :
          /\ Hear(a, Unchecked)
          /\ made' = IF Effect(a) THEN Gone({"sr"}) ELSE made
          /\ has' = IF Effect(a) THEN [n \in Nodes |-> has[n] \ {"pbd"}] ELSE has
          /\ UNCHANGED <<registered, others, seen>> /\ Still
          /\ IF Passed(a) THEN Goto("xcp_create") ELSE Error
      BY <1>8 DEF XcpClobber, ForgetSr
  <2>3. /\ Steady /\ (a \in {"late", "silent"} => missed') /\ (a /= "ok" => faults' > 0)
        /\ a = "silent" => blind'
      BY <2>1, <2>2, HearFacts DEF LookFirst
  <2>4. has \in [Nodes -> SUBSET Parts] /\ made \in [Things -> 0..2]
      BY DEF IInv, TypeOK
  <2>5. /\ has' \in [Nodes -> SUBSET Parts]
        /\ \A n \in Nodes : has[n] \ {"pbd"} \subseteq has'[n] /\ has'[n] \subseteq has[n]
      BY <2>2, <2>4
  <2>6. /\ made' \in [Things -> 0..2] /\ \A t \in Things : made'[t] \in {0, made[t]}
        /\ \A t \in Things \ {"sr"} : made'[t] = made[t]
        /\ a \in {"ok", "late"} => made'["sr"] = 0
      BY <2>2, <2>4, GoneFacts DEF Effect, Things
  <2>7. Moves
      BY <2>1, <2>2, LoopFacts DEF Moves, CallsOf, Operations, Each, Goto, Error, End
  <2>8. Frame'
    <3>1. \A t \in Things : made'[t] > 0 => made[t] > 0
        BY <2>6
    <3>2. \A t \in Things : made'[t] > 1 => made[t] > 1
        BY <2>6
    <3>3. /\ seen' \subseteq Things /\ others' \in BOOLEAN /\ others' = others
          /\ registered' = registered
        BY <2>2 DEF IInv, TypeOK
    <3> QED
        BY <2>1, <2>3, <2>5, <2>6, <2>7, <3>1, <3>2, <3>3, FrameFacts
  <2>9. Xcpng'
      BY <2>1, <2>2, <2>3, <2>5, <2>6, LoopFacts DEF IInv, Steady, Unchecked, Checked, Passed, Error, End, Each, Goto, Things, Xcpng,
         XcpLoop, XcpEnd, XcpLate, XcpMade, Pos, Dealt, Built, Enrolled, Installing,
         Extending, Removing
  <2>10. Over
      BY <2>5, <2>6 DEF Over, Enabled, Things
  <2> QED
      BY <2>8, <2>9, <2>10
<1>9. CASE XcpCreate
  <2>1. opt.p = "xcpng" /\ pc = "xcp_create" /\ pc /= "idle"
      BY <1>9 DEF XcpCreate, At
  <2>2. PICK a \in Checked :
          /\ Hear(a, Checked)
          /\ made' = IF Effect(a) THEN Another("sr") ELSE made
          /\ UNCHANGED <<has, registered, others, seen>> /\ Still
          /\ IF a = "late" \/ made'["sr"] = 0 THEN Error ELSE Each("xcp_pbd")
      BY <1>9 DEF XcpCreate
  <2>3. Steady /\ (a \in {"late", "silent"} => missed')
      BY <2>2, HearFacts
  <2>4. "sr" \in Things /\ "sr" \in Makes /\ op = "install"
      BY <2>1, LoopFacts DEF Things, Makes, CallsOf, Operations
  <2>5. ~blind' => made["sr"] = 0
      BY <2>1, <2>3, LoopFacts DEF IInv, Xcpng, Steady
  <2>6. /\ made' \in [Things -> 0..2] /\ \A t \in Things \ {"sr"} : made'[t] = made[t]
        /\ ~blind' => made'["sr"] <= 1
      BY <2>2, <2>4, <2>5, AnotherFacts DEF IInv, TypeOK
  <2>7. Moves
      BY <2>1, <2>2, LoopFacts DEF Moves, CallsOf, Operations, Each, Error, End
  <2>8. Frame'
    <3>1. \A t \in Things : made'[t] > 0 => t \in Makes \/ made[t] > 0
        BY <2>4, <2>6
    <3>2. \A t \in Things : made'[t] > 1 => made[t] > 1 \/ blind'
        BY <2>4, <2>6
    <3>3. /\ seen' \subseteq Things /\ others' \in BOOLEAN /\ others' = others
          /\ registered' = registered /\ has' = has /\ has \in [Nodes -> SUBSET Parts]
        BY <2>2 DEF IInv, TypeOK
    <3> QED
        BY <2>1, <2>3, <2>6, <2>7, <3>1, <3>2, <3>3, FrameFacts
  <2>9. Xcpng'
      BY <2>1, <2>2, <2>3, <2>4, <2>6, LoopFacts DEF IInv, Steady, Error, End, Each, Things,
         Xcpng, XcpLoop, XcpEnd, XcpLate, XcpMade, Pos, Dealt, Built, Enrolled, Installing,
         Extending, Removing
  <2>10. Over
      BY <2>2, <2>6 DEF Over, Enabled, Things
  <2> QED
      BY <2>8, <2>9, <2>10
<1>10. CASE XcpPlug
  <2>1. opt.p = "xcpng" /\ pc = "xcp_pbd" /\ pc /= "idle"
      BY <1>10 DEF XcpPlug, At
  <2> DEFINE after == NextNode("xcp_pbd", Goto("xcp_portals"))
  <2>2. after => Moves
      BY <2>1, LoopFacts DEF Moves, CallsOf, Operations, Goto, NextNode
  <2>3. op = "install"
      BY <2>1, LoopFacts DEF CallsOf, Operations
  <2>4. CASE Enumerated(at)
    <3>1. Gives("pbd", after)
        BY <1>10, <2>4, GiveFacts DEF XcpPlug, Parts, Unchecked, Checked
    <3>2. Frame'
        BY <2>1, <2>2, <3>1, GivesFrame
    <3>3. Xcpng'
        BY <2>1, <2>3, <3>1, LoopFacts DEF Gives, NextNode, Goto, Fails, Error, End, IInv,
           Steady, Xcpng, XcpLoop, XcpEnd, XcpLate, XcpMade, Pos, Dealt, Built, Enrolled,
           Installing, Extending, Removing
    <3>4. Over
        BY <3>1, GivesOver
    <3> QED
        BY <3>2, <3>3, <3>4
  <2>5. CASE ~Enumerated(at)
    <3>1. Steady /\ UNCHANGED <<has, registered, made, others, seen>> /\ after
        BY <1>10, <2>5, GoFacts DEF XcpPlug
    <3>2. Frame'
        BY <2>1, <2>2, <3>1, StillFrame
    \* A host has what it needs to enumerate the driver.
    <3>3. missed
      <4>1. ~missed => {"plugin", "loaded"} \subseteq has[at]
          BY <2>1, <2>3, LoopFacts DEF IInv, Xcpng, XcpMade, Installing, Dealt
      <4> QED
          BY <2>5, <4>1 DEF Enumerated
    <3>4. Xcpng'
        BY <2>1, <2>3, <3>1, <3>3, LoopFacts DEF NextNode, Goto, IInv, Steady, Xcpng,
           XcpLoop, XcpEnd, XcpLate, XcpMade, Pos, Dealt, Built, Enrolled, Installing,
           Extending, Removing
    <3>5. Over
        BY <3>1, StillOver
    <3> QED
        BY <3>2, <3>4, <3>5
  <2> QED
      BY <2>4, <2>5
<1>11. CASE XcpConnectivity
  <2>1. opt.p = "xcpng" /\ pc = "xcp_portals" /\ pc /= "idle"
      BY <1>11 DEF XcpConnectivity, At
  <2>2. Asks(opt.portals \/ opt.proto = "fc", Each("xcp_mpath"),
               IF Reconciling /\ ~opt.portals THEN Done ELSE Error)
      BY <1>11, AskFacts DEF XcpConnectivity, Portals
  <2>3. Moves
      BY <2>1, <2>2, LoopFacts DEF Asks, Moves, CallsOf, Operations, Each, Done, Error,
         Reconciling, End, Fails
  <2>4. Frame'
      BY <2>1, <2>2, <2>3, StillFrame DEF Asks
  <2>5. Over
      BY <2>2, StillOver DEF Asks
  <2>6. Xcpng'
      BY <2>1, <2>2, LoopFacts DEF IInv, Steady, Fails, Error, End, Asks, Each, Done,
         Reconciling, Xcpng, XcpLoop, XcpEnd, XcpLate, XcpMade, Pos, Dealt, Built, Enrolled,
         Installing, Extending, Removing
  <2> QED
      BY <2>4, <2>6, <2>5
<1>12. CASE XcpMultipath
  <2>1. opt.p = "xcpng" /\ pc = "xcp_mpath" /\ pc /= "idle"
      BY <1>12 DEF XcpMultipath, At
  <2>2. Gives("mpath", Goto("xcp_login"))
      BY <1>12, <2>1, GiveFacts DEF XcpMultipath, Parts, Unchecked, Checked
  <2>3. Goto("xcp_login") => Moves
      BY <2>1, LoopFacts DEF Moves, CallsOf, Operations, Goto
  <2>4. Frame'
      BY <2>1, <2>2, <2>3, GivesFrame
  <2>5. Over
      BY <2>2, GivesOver
  <2>6. Xcpng'
      BY <2>1, <2>2, LoopFacts DEF IInv, Steady, Fails, Error, End, Gives, Goto, Xcpng,
         XcpLoop, XcpEnd, XcpLate, XcpMade, Pos, Dealt, Built, Enrolled, Installing,
         Extending, Removing
  <2> QED
      BY <2>4, <2>6, <2>5
<1>13. CASE XcpLogin
  <2>1. opt.p = "xcpng" /\ pc = "xcp_login" /\ pc /= "idle"
      BY <1>13 DEF XcpLogin, At
  <2>2. Gives("session", NextNode("xcp_mpath", Goto("xcp_binding")))
      BY <1>13, <2>1, GiveFacts DEF XcpLogin, Parts, Unchecked, Checked
  <2>3. (NextNode("xcp_mpath", Goto("xcp_binding"))) => Moves
      BY <2>1, LoopFacts DEF Moves, CallsOf, Operations, Goto, NextNode
  <2>4. Frame'
      BY <2>1, <2>2, <2>3, GivesFrame
  <2>5. Over
      BY <2>2, GivesOver
  <2>6. Xcpng'
      BY <2>1, <2>2, LoopFacts DEF IInv, Steady, Fails, Error, End, Gives, Goto, NextNode,
         Xcpng, XcpLoop, XcpEnd, XcpLate, XcpMade, Pos, Dealt, Built, Enrolled, Installing,
         Extending, Removing
  <2> QED
      BY <2>4, <2>6, <2>5
<1>14. CASE XcpBinding
  <2>1. opt.p = "xcpng" /\ pc = "xcp_binding" /\ pc /= "idle"
      BY <1>14 DEF XcpBinding, At
  <2> DEFINE after == Done
  <2>2. op /= "teardown"
      BY <2>1, LoopFacts DEF CallsOf, Operations
  <2>3. after => Moves
      BY <2>1, LoopFacts DEF Moves, CallsOf, Operations, Done, End, Reconciling
  <2>4. CASE opt.bind /\ ~Reconciling
    <3>1. Builds(One("binding"), "warned" \notin Unchecked, after)
      <4> HIDE DEF after
      <4> QED
          BY <1>14, <2>4, BuildFacts DEF XcpBinding, after
    <3>2. "binding" \in Things /\ "binding" \in Makes
        BY <2>1 DEF Things, Makes
    <3>3. Frame'
      <4> HIDE DEF after
      <4> QED
          BY <2>1, <2>3, <3>1, <3>2, OneFrame
    <3>4. Xcpng'
        BY <2>1, <2>4, <2>2, <3>1, <3>2, OneFacts, LoopFacts DEF Builds, Unchecked, Things,
           Done, IInv, Steady, Fails, Error, End, Xcpng, XcpLoop, XcpEnd, XcpLate, XcpMade,
           Pos, Dealt, Built, Enrolled, Installing, Extending, Removing, Checked
    <3>5. Over
        BY <3>1, <3>2, OneOver
    <3> QED
        BY <3>3, <3>4, <3>5
  <2>5. CASE ~(opt.bind /\ ~Reconciling)
    <3>1. Steady /\ UNCHANGED <<has, registered, made, others, seen>> /\ after
      <4> HIDE DEF after
      <4> QED
          BY <1>14, <2>5, GoFacts DEF XcpBinding, after
    <3>2. Frame'
        BY <2>1, <2>3, <3>1, StillFrame
    <3>3. Xcpng'
        BY <2>1, <2>5, <2>2, <3>1, LoopFacts DEF Reconciling, Goto, Done, IInv, Steady, Fails, Error, End,
           Xcpng, XcpLoop, XcpEnd, XcpLate, XcpMade, Pos, Dealt, Built, Enrolled, Installing,
           Extending, Removing
    <3>4. Over
        BY <3>1, StillOver
    <3> QED
        BY <3>2, <3>3, <3>4
  <2> QED
      BY <2>4, <2>5
<1>15. CASE XcpForget
  <2>1. opt.p = "xcpng" /\ pc = "xcp_forget" /\ pc /= "idle"
      BY <1>15 DEF XcpForget, At
  <2>2. PICK a \in Unchecked :
          /\ Hear(a, Unchecked)
          /\ made' = IF Effect(a) THEN Gone({"sr"}) ELSE made
          /\ has' = IF Effect(a) THEN [n \in Nodes |-> has[n] \ {"pbd"}] ELSE has
          /\ UNCHANGED <<registered, others, seen>> /\ Still
          /\ IF Passed(a) THEN Each("xcp_rm") ELSE Error
      BY <1>15 DEF XcpForget, ForgetSr
  <2>3. /\ Steady /\ (a \in {"late", "silent"} => missed') /\ (a /= "ok" => faults' > 0)
      BY <2>2, HearFacts
  <2>4. has \in [Nodes -> SUBSET Parts] /\ made \in [Things -> 0..2]
      BY DEF IInv, TypeOK
  <2>5. /\ has' \in [Nodes -> SUBSET Parts]
        /\ \A n \in Nodes : has[n] \ {"pbd"} \subseteq has'[n] /\ has'[n] \subseteq has[n]
      BY <2>2, <2>4
  <2>6. /\ made' \in [Things -> 0..2] /\ \A t \in Things : made'[t] \in {0, made[t]}
        /\ \A t \in Things \ {"sr"} : made'[t] = made[t]
        /\ a \in {"ok", "late"} => made'["sr"] = 0
      BY <2>2, <2>4, GoneFacts DEF Effect, Things
  <2>7. Moves
      BY <2>1, <2>2, LoopFacts DEF Moves, CallsOf, Operations, Each, Goto, Error, End
  <2>8. Frame'
    <3>1. \A t \in Things : made'[t] > 0 => made[t] > 0
        BY <2>6
    <3>2. \A t \in Things : made'[t] > 1 => made[t] > 1
        BY <2>6
    <3>3. /\ seen' \subseteq Things /\ others' \in BOOLEAN /\ others' = others
          /\ registered' = registered
        BY <2>2 DEF IInv, TypeOK
    <3> QED
        BY <2>1, <2>3, <2>5, <2>6, <2>7, <3>1, <3>2, <3>3, FrameFacts
  <2>9. Xcpng'
      BY <2>1, <2>2, <2>3, <2>5, <2>6, LoopFacts DEF IInv, Steady, Unchecked, Checked, Passed, Error, End, Each, Goto, Things, Xcpng,
         XcpLoop, XcpEnd, XcpLate, XcpMade, Pos, Dealt, Built, Enrolled, Installing,
         Extending, Removing
  <2>10. Over
      BY <2>5, <2>6 DEF Over, Enabled, Things
  <2> QED
      BY <2>8, <2>9, <2>10
<1>16. CASE XcpClean
  <2>1. opt.p = "xcpng" /\ pc = "xcp_rm" /\ pc /= "idle"
      BY <1>16 DEF XcpClean, At
  <2>2. Takes({"plugin"}, NextNode("xcp_rm", Each("xcp_rmload")))
      BY <1>16, TakeFacts DEF XcpClean, Unchecked, Checked
  <2>3. (NextNode("xcp_rm", Each("xcp_rmload"))) => Moves
      BY <2>1, LoopFacts DEF Moves, CallsOf, Operations, Each, NextNode
  <2>4. Frame'
      BY <2>1, <2>2, <2>3, TakesFrame
  <2>5. op = "teardown"
      BY <2>1, LoopFacts DEF CallsOf, Operations
  <2>6. Over
      BY <2>1, <2>2, <2>5, LoopFacts DEF Over, Enabled, IInv, TypeOK, Confined, Makes,
         Things, Steady, Takes, Xcpng, XcpLoop, XcpEnd, XcpLate, XcpMade, Pos, Dealt, Built,
         Enrolled, Installing, Extending, Removing
  <2>7. Xcpng'
      BY <2>1, <2>2, <2>5, LoopFacts DEF IInv, Steady, Fails, Error, End, Takes, Each,
         NextNode, Xcpng, XcpLoop, XcpEnd, XcpLate, XcpMade, Pos, Dealt, Built, Enrolled,
         Installing, Extending, Removing
  <2> QED
      BY <2>4, <2>7, <2>6
<1>17. CASE XcpUnload
  <2>1. opt.p = "xcpng" /\ pc = "xcp_rmload" /\ pc /= "idle"
      BY <1>17 DEF XcpUnload, At
  <2>2. Takes({"loaded"}, NextNode("xcp_rmload", Done))
      BY <1>17, TakeFacts DEF XcpUnload, Unchecked, Checked
  <2>3. (NextNode("xcp_rmload", Done)) => Moves
      BY <2>1, LoopFacts DEF Moves, CallsOf, Operations, NextNode, Done, End
  <2>4. Frame'
      BY <2>1, <2>2, <2>3, TakesFrame
  <2>5. op = "teardown"
      BY <2>1, LoopFacts DEF CallsOf, Operations
  <2>6. Over
      BY <2>2, TakesOver
  <2>7. Xcpng'
      BY <2>1, <2>2, <2>5, LoopFacts DEF IInv, Steady, Fails, Error, End, Takes, NextNode,
         Done, Xcpng, XcpLoop, XcpEnd, XcpLate, XcpMade, Pos, Dealt, Built, Enrolled,
         Installing, Extending, Removing
  <2> QED
      BY <2>4, <2>7, <2>6
<1> QED
    BY <1>1, <1>2, <1>3, <1>4, <1>5, <1>6, <1>7, <1>8, <1>9, <1>10, <1>11, <1>12, <1>13,
       <1>14, <1>15, <1>16, <1>17 DEF XcpngSteps

\* Each call on HPE VME leaves what must have been done before the next.
LEMMA HpevmeKept ==
    ASSUME IInv, HpevmeSteps
    PROVE  Frame' /\ Hpevme' /\ Over
<1>1. CASE HpeDeploy
  <2>1. opt.p = "hpevme" /\ pc = "hpe_plugin" /\ pc /= "idle"
      BY <1>1 DEF HpeDeploy, At
  <2>2. op = "install"
      BY <2>1, LoopFacts DEF CallsOf, Operations
  <2>3. Goto("hpe_record") => Moves
      BY <2>1, LoopFacts DEF Moves, CallsOf, Operations, Goto
  <2>4. CASE made["plugin"] > 0 /\ Go(Goto("hpe_record"))
    <3>1. Steady /\ UNCHANGED <<has, registered, made, others, seen>> /\ Goto("hpe_record")
        BY <2>4, GoFacts
    <3>2. Frame'
        BY <2>1, <2>3, <3>1, StillFrame
    <3>3. Hpevme'
        BY <2>1, <2>4, <3>1, LoopFacts DEF Goto, IInv, Steady, Hpevme, HpeLoop, HpeLate, Pos,
           Dealt, Built, Enrolled, Installing, Extending
    <3>4. Over
        BY <3>1, StillOver
    <3> QED
        BY <3>2, <3>3, <3>4
  <2>5. CASE Build(One("plugin"), Checked, Goto("hpe_record"))
    <3>1. Builds(One("plugin"), "warned" \notin Checked, Goto("hpe_record"))
        BY <2>5, BuildFacts
    <3>2. "plugin" \in Things /\ "plugin" \in Makes
        BY <2>1 DEF Things, Makes
    <3>3. Frame'
        BY <2>1, <2>3, <3>1, <3>2, OneFrame
    <3>4. Hpevme'
        BY <2>1, <2>2, <3>1, <3>2, OneFacts, LoopFacts DEF Builds, Checked, Things, Goto,
           Fails, Error, End, IInv, Steady, Hpevme, HpeLoop, HpeLate, Pos, Dealt, Built,
           Enrolled, Installing, Extending
    <3>5. Over
        BY <3>1, <3>2, OneOver
    <3> QED
        BY <3>3, <3>4, <3>5
  <2> QED
      BY <1>1, <2>4, <2>5 DEF HpeDeploy
<1>2. CASE HpeConfigure
  <2>1. opt.p = "hpevme" /\ pc = "hpe_record" /\ pc /= "idle"
      BY <1>2 DEF HpeConfigure, At
  <2>2. Builds(Another("record"), "warned" \notin Checked, Goto("hpe_register"))
      BY <1>2, BuildFacts DEF HpeConfigure
  <2>3. Goto("hpe_register") => Moves
      BY <2>1, LoopFacts DEF Moves, CallsOf, Operations, Goto
  <2>4. "record" \in Things /\ "record" \in Makes
      BY <2>1 DEF Things, Makes
  <2>5. op = "install"
      BY <2>1, LoopFacts DEF CallsOf, Operations
  <2>6. Frame'
      BY <2>1, <2>2, <2>3, <2>4, AnotherFrame
  <2>7. Over
      BY <2>2, <2>4, AnotherOver
  <2>8. Hpevme'
      BY <2>1, <2>2, <2>4, <2>5, AnotherFacts, LoopFacts DEF IInv, Steady, Fails, Error, End,
         Builds, Things, Checked, Goto, Hpevme, HpeLoop, HpeLate, Pos, Dealt, Built,
         Enrolled, Installing, Extending
  <2> QED
      BY <2>6, <2>8, <2>7
<1>3. CASE HpeRegister
  <2>1. opt.p = "hpevme" /\ pc = "hpe_register" /\ pc /= "idle"
      BY <1>3 DEF HpeRegister, At
  <2>2. Registers(Goto("hpe_portals"))
      BY <1>3, RegisterFacts DEF HpeRegister, Checked
  <2>3. Goto("hpe_portals") => Moves
      BY <2>1, LoopFacts DEF Moves, CallsOf, Operations, Goto
  <2>4. Steady /\ UNCHANGED <<has, made, others, seen>> /\ Moves
      BY <2>1, <2>2, <2>3, LoopFacts DEF Registers, Fails, Error, End, Moves
  <2>5. Frame'
      BY <2>1, <2>2, <2>4, StillFrame DEF Registers
  <2>6. Over
      BY <2>4, StillOver
  <2>7. Hpevme'
      BY <2>1, <2>2, LoopFacts DEF IInv, Steady, Fails, Error, End, Registers, Goto, Hpevme,
         HpeLoop, HpeLate, Pos, Dealt, Built, Enrolled, Installing, Extending
  <2> QED
      BY <2>5, <2>7, <2>6
<1>4. CASE HpeConnectivity
  <2>1. opt.p = "hpevme" /\ pc = "hpe_portals" /\ pc /= "idle"
      BY <1>4 DEF HpeConnectivity, At
  <2>2. Asks(opt.portals \/ opt.proto = "fc", Each("hpe_sudo"),
               IF Reconciling /\ ~opt.portals THEN Done ELSE Error)
      BY <1>4, AskFacts DEF HpeConnectivity, Portals
  <2>3. Moves
      BY <2>1, <2>2, LoopFacts DEF Asks, Moves, CallsOf, Operations, Each, Done, Error,
         Reconciling, End, Fails
  <2>4. Frame'
      BY <2>1, <2>2, <2>3, StillFrame DEF Asks
  <2>5. Over
      BY <2>2, StillOver DEF Asks
  <2>6. Hpevme'
      BY <2>1, <2>2, LoopFacts DEF IInv, Steady, Fails, Error, End, Asks, Each, Done,
         Reconciling, Hpevme, HpeLoop, HpeLate, Pos, Dealt, Built, Enrolled, Installing,
         Extending
  <2> QED
      BY <2>4, <2>6, <2>5
<1>5. CASE CheckSudo
  <2>1. opt.p = "hpevme" /\ pc = "hpe_sudo" /\ pc /= "idle"
      BY <1>5 DEF CheckSudo, At
  <2>2. Asks(TRUE, Goto(IF opt.proto = "nvme-tcp" THEN "hpe_refresh" ELSE "hpe_session"), Error)
      BY <1>5, AskFacts DEF CheckSudo
  <2>3. Moves
      BY <2>1, <2>2, LoopFacts DEF Asks, Moves, CallsOf, Operations, Goto, Error, End, Fails
  <2>4. Frame'
      BY <2>1, <2>2, <2>3, StillFrame DEF Asks
  <2>5. Over
      BY <2>2, StillOver DEF Asks
  <2>6. Hpevme'
      BY <2>1, <2>2, LoopFacts DEF IInv, Steady, Fails, Error, End, Asks, Goto, Hpevme,
         HpeLoop, HpeLate, Pos, Dealt, Built, Enrolled, Installing, Extending
  <2> QED
      BY <2>4, <2>6, <2>5
<1>6. CASE HpeLogin
  <2>1. opt.p = "hpevme" /\ pc = "hpe_session" /\ pc /= "idle"
      BY <1>6 DEF HpeLogin, At
  <2>2. Gives("session", Goto("hpe_mpath"))
      BY <1>6, <2>1, GiveFacts DEF HpeLogin, Parts, Checked, Unchecked
  <2>3. Goto("hpe_mpath") => Moves
      BY <2>1, LoopFacts DEF Moves, CallsOf, Operations, Goto
  <2>4. Frame'
      BY <2>1, <2>2, <2>3, GivesFrame
  <2>5. Over
      BY <2>2, GivesOver
  <2>6. Hpevme'
      BY <2>1, <2>2, LoopFacts DEF IInv, Steady, Fails, Error, End, Gives, Goto, Hpevme,
         HpeLoop, HpeLate, Pos, Dealt, Built, Enrolled, Installing, Extending
  <2> QED
      BY <2>4, <2>6, <2>5
<1>7. CASE HpeMultipath
  <2>1. opt.p = "hpevme" /\ pc = "hpe_mpath" /\ pc /= "idle"
      BY <1>7 DEF HpeMultipath, At
  <2>2. Gives("mpath", Goto("hpe_refresh"))
      BY <1>7, <2>1, GiveFacts DEF HpeMultipath, Parts, Checked
  <2>3. Goto("hpe_refresh") => Moves
      BY <2>1, LoopFacts DEF Moves, CallsOf, Operations, Goto
  <2>4. Frame'
      BY <2>1, <2>2, <2>3, GivesFrame
  <2>5. Over
      BY <2>2, GivesOver
  <2>6. Hpevme'
      BY <2>1, <2>2, LoopFacts DEF IInv, Steady, Fails, Error, End, Gives, Goto, Hpevme,
         HpeLoop, HpeLate, Pos, Dealt, Built, Enrolled, Installing, Extending
  <2> QED
      BY <2>4, <2>6, <2>5
<1>8. CASE HpeRefresh
  <2>1. opt.p = "hpevme" /\ pc = "hpe_refresh" /\ pc /= "idle"
      BY <1>8 DEF HpeRefresh, At
  <2>2. Asks(TRUE, NextNode("hpe_sudo", Done), Error)
      BY <1>8, AskFacts DEF HpeRefresh
  <2>3. Moves
      BY <2>1, <2>2, LoopFacts DEF Asks, Moves, CallsOf, Operations, NextNode, Done, Error,
         End, Fails
  <2>4. Frame'
      BY <2>1, <2>2, <2>3, StillFrame DEF Asks
  <2>5. Over
      BY <2>2, StillOver DEF Asks
  <2>6. Hpevme'
      BY <2>1, <2>2, LoopFacts DEF IInv, Steady, Fails, Error, End, Asks, NextNode, Done,
         Hpevme, HpeLoop, HpeLate, Pos, Dealt, Built, Enrolled, Installing, Extending
  <2> QED
      BY <2>4, <2>6, <2>5
<1>9. CASE HpeTeardown
  <2>1. opt.p = "hpevme" /\ pc = "hpe_disconnect" /\ pc /= "idle"
      BY <1>9 DEF HpeTeardown, At
  <2>2. op = "teardown"
      BY <2>1, LoopFacts DEF CallsOf, Operations
  <2>3. Steady /\ UNCHANGED <<has, registered, made, others, seen>> /\ Done
      BY <1>9, GoFacts DEF HpeTeardown
  <2>4. Moves
      BY <2>1, <2>3, LoopFacts DEF Moves, CallsOf, Operations, Done, End
  <2>5. Frame'
      BY <2>1, <2>3, <2>4, StillFrame
  <2>6. Over
      BY <2>3, StillOver
  <2>7. Hpevme'
      BY <2>1, <2>3, <2>2, LoopFacts DEF IInv, Steady, Fails, Error, End, Done, Hpevme,
         HpeLoop, HpeLate, Pos, Dealt, Built, Enrolled, Installing, Extending
  <2> QED
      BY <2>5, <2>7, <2>6
<1> QED
    BY <1>1, <1>2, <1>3, <1>4, <1>5, <1>6, <1>7, <1>8, <1>9 DEF HpevmeSteps

\* Each call on OpenShift leaves what must have been done before the next.
LEMMA OpenshiftKept ==
    ASSUME IInv, OpenshiftSteps
    PROVE  Frame' /\ Openshift' /\ Over
<1>1. CASE PxLook
  <2>1. opt.p = "openshift" /\ pc = "px_look" /\ pc /= "idle"
      BY <1>1 DEF PxLook, At
  <2>2. PICK a \in Session :
          /\ Hear(a, Session)
          /\ UNCHANGED <<world, seen>> /\ Still
          /\ IF ~Passed(a) THEN Error
             ELSE Goto(IF a = "ok" /\ PortworxPresent THEN "px_class" ELSE "px_operator")
      BY <1>1 DEF PxLook
  <2>3. /\ Steady /\ (a \in {"late", "silent"} => missed')
        /\ a = "silent" => blind'
      BY <2>1, <2>2, HearFacts DEF LookFirst
  <2>4. UNCHANGED <<has, registered, made, others, seen>> /\ op = "install"
      BY <2>1, <2>2, LoopFacts DEF world, CallsOf, Operations
  <2>5. Moves
      BY <2>1, <2>2, LoopFacts DEF Moves, CallsOf, Operations, Goto, Error, End
  <2>6. Frame'
      BY <2>1, <2>3, <2>4, <2>5, StillFrame
  <2>7. Over
      BY <2>4, StillOver
  <2>8. Openshift'
      BY <2>1, <2>2, <2>3, <2>4, LoopFacts DEF IInv, TypeOK, Things, Steady, Session,
         Unnoticed, Passed, Error, End, Goto, PortworxPresent, Openshift, PxLate, Pos,
         Built, PxMakes, Whole
  <2> QED
      BY <2>6, <2>8, <2>7
<1>2. CASE PxOperator
  <2>1. opt.p = "openshift" /\ pc = "px_operator" /\ pc /= "idle"
      BY <1>2 DEF PxOperator, At
  <2>2. Builds(One("operator"), "warned" \notin Checked, Goto("px_crd"))
      BY <1>2, BuildFacts DEF PxOperator
  <2>3. Goto("px_crd") => Moves
      BY <2>1, LoopFacts DEF Moves, CallsOf, Operations, Goto
  <2>4. op = "install"
      BY <2>1, LoopFacts DEF CallsOf, Operations
  <2>5. "operator" \in Things /\ "operator" \in Makes
      BY <2>1 DEF Things, Makes
  <2>6. Frame'
      BY <2>1, <2>2, <2>3, <2>5, OneFrame
  <2>7. Over
      BY <2>2, <2>5, OneOver
  <2>8. Openshift'
      BY <2>1, <2>2, <2>5, <2>4, OneFacts, LoopFacts DEF IInv, Steady, Fails, Error, End,
         Builds, Things, Checked, Goto, Openshift, PxLate, Pos, Built, PxMakes, Whole
  <2> QED
      BY <2>6, <2>8, <2>7
<1>3. CASE WaitForCrd
  <2>1. opt.p = "openshift" /\ pc = "px_crd" /\ pc /= "idle"
      BY <1>3 DEF WaitForCrd, At
  <2>2. Asks(TRUE, Goto("px_secret"), Error)
      BY <1>3, AskFacts DEF WaitForCrd
  <2>3. Moves
      BY <2>1, <2>2, LoopFacts DEF Asks, Moves, CallsOf, Operations, Goto, Error, End, Fails
  <2>4. Frame'
      BY <2>1, <2>2, <2>3, StillFrame DEF Asks
  <2>5. Over
      BY <2>2, StillOver DEF Asks
  <2>6. Openshift'
      BY <2>1, <2>2, LoopFacts DEF IInv, Steady, Fails, Error, End, Asks, Goto, Openshift,
         PxLate, Pos, Built, PxMakes, Whole
  <2> QED
      BY <2>4, <2>6, <2>5
<1>4. CASE PxSecret
  <2>1. opt.p = "openshift" /\ pc = "px_secret" /\ pc /= "idle"
      BY <1>4 DEF PxSecret, At
  <2>2. Builds(One("secret"), "warned" \notin Checked, Goto("px_cluster"))
      BY <1>4, BuildFacts DEF PxSecret
  <2>3. Goto("px_cluster") => Moves
      BY <2>1, LoopFacts DEF Moves, CallsOf, Operations, Goto
  <2>4. op = "install"
      BY <2>1, LoopFacts DEF CallsOf, Operations
  <2>5. "secret" \in Things /\ "secret" \in Makes
      BY <2>1 DEF Things, Makes
  <2>6. Frame'
      BY <2>1, <2>2, <2>3, <2>5, OneFrame
  <2>7. Over
      BY <2>2, <2>5, OneOver
  <2>8. Openshift'
      BY <2>1, <2>2, <2>5, <2>4, OneFacts, LoopFacts DEF IInv, Steady, Fails, Error, End,
         Builds, Things, Checked, Goto, Openshift, PxLate, Pos, Built, PxMakes, Whole
  <2> QED
      BY <2>6, <2>8, <2>7
<1>5. CASE PxCluster
  <2>1. opt.p = "openshift" /\ pc = "px_cluster" /\ pc /= "idle"
      BY <1>5 DEF PxCluster, At
  <2>2. PICK a \in Checked :
          /\ Hear(a, Checked)
          /\ made' = IF Effect(a) THEN One("portworx") ELSE made
          /\ others' = (others /\ ~(Effect(a) /\ made["foreign"] > 0))
          /\ UNCHANGED <<has, registered, seen>> /\ Still
          /\ IF Passed(a) THEN Goto("px_class") ELSE Error
      BY <1>5 DEF PxCluster
  <2>3. Steady /\ (a \in {"late", "silent"} => missed') /\ (a /= "ok" => faults' > 0)
      BY <2>2, HearFacts
  <2>4. "portworx" \in Things /\ "portworx" \in Makes /\ op = "install"
      BY <2>1, LoopFacts DEF Things, Makes, CallsOf, Operations
  <2>5. ~blind' => made["foreign"] = 0
      BY <2>1, <2>3, <2>4, LoopFacts DEF IInv, Steady, Openshift, PxLate, Pos, Built,
         PxMakes, Whole
  <2>6. /\ made' \in [Things -> 0..2] /\ \A t \in Things \ {"portworx"} : made'[t] = made[t]
        /\ made'["portworx"] \in {1, made["portworx"]} /\ (a = "ok" => made'["portworx"] = 1)
      BY <2>2, <2>4, OneFacts DEF IInv, TypeOK, Effect
  <2>7. Moves
      BY <2>1, <2>2, LoopFacts DEF Moves, CallsOf, Operations, Goto, Error, End
  <2>8. others' \in BOOLEAN /\ (~blind' => (others => others'))
    <3>1. others' \in BOOLEAN
        BY <2>2, Zenon DEF IInv, TypeOK
    <3>2. ~blind' => ~(made["foreign"] > 0)
        BY <2>5
    <3>3. ~blind' /\ others => others'
        BY <2>2, <3>2, Zenon
    <3> QED
        BY <3>1, <3>3
  <2>9. Frame'
    <3>1. \A t \in Things : made'[t] > 0 => t \in Makes \/ made[t] > 0
        BY <2>4, <2>6
    <3>2. \A t \in Things : made'[t] > 1 => made[t] > 1
        BY <2>4, <2>6
    <3>3. /\ seen' \subseteq Things /\ registered' = registered /\ has' = has
          /\ has \in [Nodes -> SUBSET Parts]
        BY <2>2 DEF IInv, TypeOK
    <3> QED
        BY <2>1, <2>3, <2>6, <2>7, <2>8, <3>1, <3>2, <3>3, FrameFacts
  <2>10. Over
      BY <2>1, <2>2, <2>3, <2>4, <2>6, LoopFacts DEF Over, Enabled, Things, IInv, Steady,
         Openshift, PxLate, Pos, Built, PxMakes, Whole
  <2>11. Openshift'
      BY <2>1, <2>2, <2>3, <2>4, <2>5, <2>6, LoopFacts DEF Passed, Checked, Things, Goto,
         Error, End, IInv, Steady, Openshift, PxLate, Pos, Built, PxMakes, Whole
  <2> QED
      BY <2>9, <2>11, <2>10
<1>6. CASE PxClass
  <2>1. opt.p = "openshift" /\ pc = "px_class" /\ pc /= "idle"
      BY <1>6 DEF PxClass, At
  <2>2. PICK a \in Session :
          /\ Hear(a, Session)
          /\ UNCHANGED <<world, seen>> /\ Still
          /\ IF ~Passed(a) THEN Error
             ELSE Goto(IF a = "ok" /\ (made["class"] > 0 \/ opt.taken) THEN "px_binding"
                       ELSE "px_apply")
      BY <1>6 DEF PxClass
  <2>3. Steady /\ (a \in {"late", "silent"} => missed')
      BY <2>2, HearFacts
  <2>4. UNCHANGED <<has, registered, made, others, seen>> /\ op = "install"
      BY <2>1, <2>2, LoopFacts DEF world, CallsOf, Operations
  <2>5. Moves
      BY <2>1, <2>2, LoopFacts DEF Moves, CallsOf, Operations, Goto, Error, End
  <2>6. Frame'
      BY <2>1, <2>3, <2>4, <2>5, StillFrame
  <2>7. Over
      BY <2>4, StillOver
  <2>8. Openshift'
      BY <2>1, <2>2, <2>3, <2>4, LoopFacts DEF IInv, TypeOK, Things, Steady, Session,
         Unnoticed, Passed, Error, End, Goto, Openshift, PxLate, Pos, Built, PxMakes, Whole
  <2> QED
      BY <2>6, <2>8, <2>7
<1>7. CASE PxConfigure
  <2>1. opt.p = "openshift" /\ pc = "px_apply" /\ pc /= "idle"
      BY <1>7 DEF PxConfigure, At
  <2>2. Builds(One("class"), "warned" \notin Checked, Goto("px_binding"))
      BY <1>7, BuildFacts DEF PxConfigure
  <2>3. Goto("px_binding") => Moves
      BY <2>1, LoopFacts DEF Moves, CallsOf, Operations, Goto
  <2>4. op = "install"
      BY <2>1, LoopFacts DEF CallsOf, Operations
  <2>5. "class" \in Things /\ "class" \in Makes
      BY <2>1 DEF Things, Makes
  <2>6. Frame'
      BY <2>1, <2>2, <2>3, <2>5, OneFrame
  <2>7. Over
      BY <2>2, <2>5, OneOver
  <2>8. Openshift'
      BY <2>1, <2>2, <2>5, <2>4, OneFacts, LoopFacts DEF IInv, Steady, Fails, Error, End,
         Builds, Things, Checked, Goto, Openshift, PxLate, Pos, Built, PxMakes, Whole
  <2> QED
      BY <2>6, <2>8, <2>7
<1>8. CASE PxBinding
  <2>1. opt.p = "openshift" /\ pc = "px_binding" /\ pc /= "idle"
      BY <1>8 DEF PxBinding, At
  <2> DEFINE after == Done
  <2>2. op = "install"
      BY <2>1, LoopFacts DEF CallsOf, Operations
  <2>3. after => Moves
      BY <2>1, LoopFacts DEF Moves, CallsOf, Operations, Done, End, Reconciling
  <2>4. CASE opt.bind
    <3>1. Builds(One("binding"), "warned" \notin Checked, after)
      <4> HIDE DEF after
      <4> QED
          BY <1>8, <2>4, BuildFacts DEF PxBinding, after
    <3>2. "binding" \in Things /\ "binding" \in Makes
        BY <2>1 DEF Things, Makes
    <3>3. Frame'
      <4> HIDE DEF after
      <4> QED
          BY <2>1, <2>3, <3>1, <3>2, OneFrame
    <3>4. Openshift'
        BY <2>1, <2>4, <2>2, <3>1, <3>2, OneFacts, LoopFacts DEF Builds, Checked, Things,
           Done, IInv, Steady, Fails, Error, End, Openshift, PxLate, Pos, Built, PxMakes,
           Whole
    <3>5. Over
        BY <3>1, <3>2, OneOver
    <3> QED
        BY <3>3, <3>4, <3>5
  <2>5. CASE ~opt.bind
    <3>1. Steady /\ UNCHANGED <<has, registered, made, others, seen>> /\ after
      <4> HIDE DEF after
      <4> QED
          BY <1>8, <2>5, GoFacts DEF PxBinding, after
    <3>2. Frame'
        BY <2>1, <2>3, <3>1, StillFrame
    <3>3. Openshift'
        BY <2>1, <2>5, <2>2, <3>1, LoopFacts DEF Goto, Done, IInv, Steady, Fails, Error,
           End, Openshift, PxLate, Pos, Built, PxMakes, Whole
    <3>4. Over
        BY <3>1, StillOver
    <3> QED
        BY <3>2, <3>3, <3>4
  <2> QED
      BY <2>4, <2>5
<1>9. CASE PxDelete
  <2>1. opt.p = "openshift" /\ pc = "px_delete" /\ pc /= "idle"
      BY <1>9 DEF PxDelete, At
  <2>2. PICK a \in Session :
          /\ Hear(a, Session)
          /\ made' = IF Effect(a) THEN Gone(Named) ELSE made
          /\ others' = (others /\ made'["foreign"] = made["foreign"])
          /\ UNCHANGED <<has, registered, seen>> /\ Still
          /\ IF Passed(a) THEN Goto("px_unsubscribe") ELSE Error
      BY <1>9 DEF PxDelete
  <2>3. Steady /\ (a \in {"late", "silent"} => missed') /\ (a /= "ok" => faults' > 0)
      BY <2>2, HearFacts
  <2>4. op = "teardown" /\ made \in [Things -> 0..2] /\ "foreign" \in Things
    <3>1. op = "teardown"
        BY <2>1, LoopFacts DEF CallsOf, Operations
    <3>2. made \in [Things -> 0..2] /\ "foreign" \in Things
        BY DEF IInv, TypeOK, Things
    <3> QED
        BY <3>1, <3>2
  <2>5. /\ made' \in [Things -> 0..2]
        /\ \A t \in Things : made'[t] = made[t] \/ (t \in Named /\ made'[t] = 0)
        /\ a = "ok" => \A t \in Things : t \in Named => made'[t] = 0
        /\ \/ \A t \in Things : t \in Named => made'[t] = 0
           \/ made' = made
      BY <2>2, <2>4, GoneFacts DEF Effect
  <2>6. Moves
      BY <2>1, <2>2, LoopFacts DEF Moves, CallsOf, Operations, Goto, Error, End
  \* What it deletes of others it deletes by its name.
  <2>7. others' \in BOOLEAN /\ (others => others' \/ AdoptedDeleted')
    <3>1. others' \in BOOLEAN
        BY <2>2, Zenon DEF IInv, TypeOK
    <3>2. CASE made'["foreign"] = made["foreign"]
        BY <2>2, <3>2
    <3>3. CASE made'["foreign"] /= made["foreign"]
      <4>1. "foreign" \in Named /\ made'["foreign"] = 0
          BY <2>4, <2>5, <3>3
      <4>2. "others" \in opt.reached
          BY <4>1 DEF Named
      <4> QED
          BY <2>1, <2>3, <3>1, <4>1, <4>2 DEF AdoptedDeleted, Steady
    <3> QED
        BY <3>1, <3>2, <3>3
  <2>8. Frame'
    <3>1. /\ \A t \in Things : made'[t] > 0 => made[t] > 0
          /\ \A t \in Things : made'[t] > 1 => made[t] > 1
        BY <2>5
    <3>2. /\ seen' \subseteq Things /\ registered' = registered /\ has' = has
          /\ has \in [Nodes -> SUBSET Parts]
        BY <2>2 DEF IInv, TypeOK
    <3> QED
        BY <2>1, <2>3, <2>5, <2>6, <2>7, <3>1, <3>2, FrameFacts
  <2>9. Over
      BY <2>2, <2>5 DEF Over, Enabled, Things
  <2>10. Openshift'
    <3>1. /\ "portworx" \in Named <=> "own" \in opt.reached
          /\ "driver" \in Named <=> "own" \in opt.reached
          /\ "secret" \notin Named /\ "operator" \notin Named
        BY DEF Named
    <3>2. {"portworx", "driver", "secret", "operator"} \subseteq Things
        BY DEF Things
    <3>3. opt' = opt /\ op' = op
        BY <2>3, <2>6 DEF Steady, Moves
    <3>4. /\ pc' \notin PxMakes
          /\ Pos' \in {"px_unsubscribe", "error"}
          /\ a = "ok" \/ missed' \/ Pos' = "error"
        BY <2>2, <2>3 DEF PxMakes, Pos, Goto, Error, End, Session, Unnoticed, Passed
    <3>5. ~missed' => ~missed
        BY <2>3 DEF Steady
    <3>6. ASSUME ~missed', made'["portworx"] > 0
          PROVE  made'["secret"] > 0 /\ (Whole => made'["operator"] > 0)
      <4>1. made["portworx"] > 0
          BY <2>5, <3>2, <3>6
      <4>2. made["secret"] > 0 /\ (Whole => made["operator"] > 0)
          BY <2>1, <3>5, <3>6, <4>1 DEF IInv, Openshift, PxMakes, Whole
      <4> QED
          BY <2>5, <3>1, <3>2, <4>2
    <3>7. ASSUME ~missed', made'["driver"] > 0 PROVE made'["portworx"] > 0
      <4>1. made["driver"] > 0
          BY <2>5, <3>2, <3>7
      <4>2. made["portworx"] > 0
          BY <2>1, <3>5, <3>7, <4>1 DEF IInv, Openshift, PxMakes, Whole
      <4> QED
          BY <2>5, <3>1, <3>2, <3>7, <4>2
    <3>8. ASSUME ~missed', "own" \in opt.reached, Pos' = "px_unsubscribe"
          PROVE  made'["portworx"] = 0 /\ made'["driver"] = 0
        BY <2>5, <3>1, <3>2, <3>4, <3>8
    <3> QED
        BY <2>4, <3>3, <3>4, <3>6, <3>7, <3>8 DEF Openshift, Whole
  <2> QED
      BY <2>8, <2>9, <2>10
<1>10. CASE PxUnsubscribe
  <2>1. opt.p = "openshift" /\ pc = "px_unsubscribe" /\ pc /= "idle"
      BY <1>10 DEF PxUnsubscribe, At
  <2>2. op = "teardown"
      BY <2>1, LoopFacts DEF CallsOf, Operations
  <2>3. Done => Moves
      BY <2>1, LoopFacts DEF Moves, Done, End
  <2>4. CASE opt.detached
    <3>1. Steady /\ UNCHANGED <<has, registered, made, others, seen>> /\ Done
        BY <1>10, <2>4, GoFacts DEF PxUnsubscribe
    <3>2. Frame'
        BY <2>1, <2>3, <3>1, StillFrame
    <3>3. Openshift'
        BY <2>1, <2>2, <2>4, <3>1, LoopFacts DEF Done, End, IInv, Steady, Openshift, PxLate,
           Pos, Built, PxMakes, Whole
    <3>4. Over
        BY <3>1, StillOver
    <3> QED
        BY <3>2, <3>3, <3>4
  <2>5. CASE ~opt.detached
    <3>1. Builds(Gone({"operator"}), "warned" \notin Unnoticed, Done)
        BY <1>10, <2>5, BuildFacts DEF PxUnsubscribe
    <3>2. Frame'
        BY <2>1, <2>3, <3>1, GoneFrame
    <3>3. Openshift'
      <4>1. /\ made' \in {made, Gone({"operator"})} /\ Steady /\ op' = op
            /\ pc' = "idle" /\ Pos' \in {"ok", "error"}
            /\ Pos' = "ok" /\ ~missed' => made' = Gone({"operator"})
          BY <3>1 DEF Builds, Unnoticed, Done, Fails, Error, End, Pos
      <4>2. /\ \A t \in {"portworx", "secret", "driver", "foreign"} : made'[t] = made[t]
            /\ made' = Gone({"operator"}) => made'["operator"] = 0
            /\ made'["operator"] \in {0, made["operator"]}
            /\ made' = made \/ made' = Gone({"operator"})
          BY <4>1, GoneFacts DEF Things
      <4>3. ~missed' => /\ made["portworx"] > 0 => made["secret"] > 0
                        /\ made["driver"] > 0 => made["portworx"] > 0
                        /\ made["portworx"] > 0 /\ Whole => made["operator"] > 0
                        /\ "own" \in opt.reached => made["portworx"] = 0 /\ made["driver"] = 0
          BY <2>1, <2>2, <4>1, LoopFacts DEF IInv, Openshift, Steady
      \* It is detached or its own cluster is away: Whole or not, nothing stands on it.
      <4>4. ~missed' => (Whole => made["portworx"] = 0)
          BY <2>5, <4>3 DEF Whole
      <4>5. opt' = opt
          BY <4>1 DEF Steady
      <4> QED
          BY <2>2, <2>5, <4>1, <4>2, <4>3, <4>4, <4>5 DEF Openshift, Whole, PxMakes
    <3>4. Over
        BY <3>1, GoneOver
    <3> QED
        BY <3>2, <3>3, <3>4
  <2> QED
      BY <2>4, <2>5
<1> QED
    BY <1>1, <1>2, <1>3, <1>4, <1>5, <1>6, <1>7, <1>8, <1>9, <1>10 DEF OpenshiftSteps

\* Each call on OpenStack leaves what must have been done before the next.
LEMMA OpenstackKept ==
    ASSUME IInv, OpenstackSteps
    PROVE  Frame' /\ Openstack' /\ Over
<1>1. CASE ReadCinderConf
  <2>1. opt.p = "openstack" /\ pc = "os_read" /\ pc /= "idle"
      BY <1>1 DEF ReadCinderConf, At
  <2>2. PICK a \in Unchecked :
          /\ Hear(a, Unchecked)
          /\ seen' = IF a /= "ok" THEN {}
                     ELSE {t \in {"stanza", "backend"} : made[t] > 0}
                          \cup (IF opt.taken THEN {"storage"} ELSE {})
          /\ UNCHANGED world /\ Still
          /\ IF ~Passed(a) THEN Error
             ELSE Goto(IF StanzaExists THEN "os_type" ELSE "os_client")
      BY <1>1 DEF ReadCinderConf
  <2>3. /\ Steady /\ (a \in {"late", "silent"} => missed') /\ (a /= "ok" => faults' > 0)
        /\ a = "silent" => blind'
      BY <2>1, <2>2, HearFacts DEF LookFirst
  <2>4. UNCHANGED <<has, registered, made, others>> /\ op = "install"
      BY <2>1, <2>2, LoopFacts DEF world, CallsOf, Operations
  <2>5. Moves
      BY <2>1, <2>2, LoopFacts DEF Moves, CallsOf, Operations, Goto, Error, End
  <2>6. /\ made \in [Things -> 0..2] /\ has \in [Nodes -> SUBSET Parts] /\ others \in BOOLEAN
        /\ made["stanza"] \in 0..2 /\ made["backend"] \in 0..2
      BY DEF IInv, TypeOK, Things
  \* What is seen is there, when the file could be read.
  <2>7. /\ seen' \subseteq Things
        /\ a = "ok" => /\ "stanza" \in seen' <=> made["stanza"] > 0
                       /\ "backend" \in seen' <=> made["backend"] > 0
                       /\ "storage" \in seen' <=> opt.taken
        /\ Passed(a) /\ a /= "ok" => a = "silent"
      BY <2>2 DEF Things, Unchecked, Checked, Passed
  <2>8. Frame'
      BY <2>1, <2>3, <2>4, <2>5, <2>6, <2>7, FrameFacts
  <2>9. Openstack'
      BY <2>1, <2>2, <2>3, <2>4, <2>6, <2>7, LoopFacts DEF IInv, Steady, Error, End, Goto,
         StanzaExists, Openstack, OsLoop, OsLate, Pos, Dealt, Built, Checked
  <2>10. Over
      BY <2>4, StillOver
  <2> QED
      BY <2>8, <2>9, <2>10
<1>2. CASE EnsureClient
  <2>1. opt.p = "openstack" /\ pc = "os_client" /\ pc /= "idle"
      BY <1>2 DEF EnsureClient, At
  <2>2. Builds(One("client"), "warned" \notin Checked, Goto("os_stanza"))
      BY <1>2, BuildFacts DEF EnsureClient
  <2>3. Goto("os_stanza") => Moves
      BY <2>1, LoopFacts DEF Moves, CallsOf, Operations, Goto
  <2>4. op = "install"
      BY <2>1, LoopFacts DEF CallsOf, Operations
  <2>5. "client" \in Things /\ "client" \in Makes
      BY <2>1 DEF Things, Makes
  <2>6. Frame'
      BY <2>1, <2>2, <2>3, <2>5, OneFrame
  <2>7. Over
      BY <2>2, <2>5, OneOver
  <2>8. Openstack'
      BY <2>1, <2>2, <2>5, <2>4, OneFacts, LoopFacts DEF IInv, Steady, Fails, Error, End,
         Builds, Things, Checked, Goto, Openstack, OsLoop, OsLate, Pos, Dealt, Built
  <2> QED
      BY <2>6, <2>8, <2>7
<1>3. CASE AppendStanza
  <2>1. opt.p = "openstack" /\ pc = "os_stanza" /\ pc /= "idle"
      BY <1>3 DEF AppendStanza, At
  <2>2. Builds(Another("stanza"), "warned" \notin Checked,
        Goto(IF "backend" \in seen THEN "os_restart" ELSE "os_enable"))
      BY <1>3, BuildFacts DEF AppendStanza
  <2>3. (Goto(IF "backend" \in seen THEN "os_restart" ELSE "os_enable")) => Moves
      BY <2>1, LoopFacts DEF Moves, CallsOf, Operations, Goto
  <2>4. "stanza" \in Things /\ "stanza" \in Makes
      BY <2>1 DEF Things, Makes
  <2>5. op = "install"
      BY <2>1, LoopFacts DEF CallsOf, Operations
  <2>6. ~blind => made["stanza"] = 0
      BY <2>1, <2>5, LoopFacts DEF IInv, Openstack, OsLoop, OsLate, Pos, Dealt, Built
  <2>7. Frame'
      BY <2>1, <2>2, <2>3, <2>4, <2>6, AnotherFrame
  <2>8. Over
      BY <2>2, <2>4, AnotherOver
  <2>9. Openstack'
      BY <2>1, <2>2, <2>4, <2>5, AnotherFacts, LoopFacts DEF IInv, Steady, Fails, Error, End,
         Builds, Things, Checked, Goto, Openstack, OsLoop, OsLate, Pos, Dealt, Built
  <2> QED
      BY <2>7, <2>9, <2>8
<1>4. CASE EnableBackend
  <2>1. opt.p = "openstack" /\ pc = "os_enable" /\ pc /= "idle"
      BY <1>4 DEF EnableBackend, At
  <2>2. PICK a \in Checked :
          /\ Hear(a, Checked)
          /\ made' = IF Effect(a) THEN One("backend") ELSE made
          /\ others' = (others /\ (Effect(a) /\ opt.taken => "storage" \in seen))
          /\ UNCHANGED <<has, registered, seen>> /\ Still
          /\ IF Passed(a) THEN Goto("os_restart") ELSE Error
      BY <1>4 DEF EnableBackend
  <2>3. Steady /\ (a \in {"late", "silent"} => missed') /\ (a /= "ok" => faults' > 0)
      BY <2>2, HearFacts
  <2>4. "backend" \in Things /\ "backend" \in Makes /\ op = "install"
      BY <2>1, LoopFacts DEF Things, Makes, CallsOf, Operations
  <2>5. ~blind' => (opt.taken => "storage" \in seen)
      BY <2>1, <2>3, <2>4, LoopFacts DEF IInv, Steady, Openstack, OsLoop, OsLate, Pos, Dealt,
         Built
  <2>6. /\ made' \in [Things -> 0..2] /\ \A t \in Things \ {"backend"} : made'[t] = made[t]
        /\ made'["backend"] \in {1, made["backend"]} /\ (a = "ok" => made'["backend"] = 1)
      BY <2>2, <2>4, OneFacts DEF IInv, TypeOK, Effect
  <2>7. Moves
      BY <2>1, <2>2, LoopFacts DEF Moves, CallsOf, Operations, Goto, Error, End
  <2>8. others' \in BOOLEAN /\ (~blind' => (others => others'))
    <3>1. others' \in BOOLEAN
        BY <2>2, Zenon DEF IInv, TypeOK
    <3>2. ~blind' /\ others => others'
        BY <2>2, <2>5
    <3> QED
        BY <3>1, <3>2
  <2>9. Frame'
    <3>1. \A t \in Things : made'[t] > 0 => t \in Makes \/ made[t] > 0
        BY <2>4, <2>6
    <3>2. \A t \in Things : made'[t] > 1 => made[t] > 1
        BY <2>4, <2>6
    <3>3. /\ seen' \subseteq Things /\ registered' = registered /\ has' = has
          /\ has \in [Nodes -> SUBSET Parts]
        BY <2>2 DEF IInv, TypeOK
    <3> QED
        BY <2>1, <2>3, <2>6, <2>7, <2>8, <3>1, <3>2, <3>3, FrameFacts
  <2>10. Over
      BY <2>1, <2>2, <2>3, <2>4, <2>6, LoopFacts DEF Over, Enabled, Things, IInv, Steady,
         Openstack, OsLoop, OsLate, Pos, Dealt, Built
  <2>11. Openstack'
      BY <2>1, <2>2, <2>3, <2>4, <2>5, <2>6, LoopFacts DEF Passed, Checked, Things, Goto,
         Error, End, IInv, Steady, Openstack, OsLoop, OsLate, Pos, Dealt, Built
  <2> QED
      BY <2>9, <2>11, <2>10
<1>5. CASE RestartVolumeService
  <2>1. opt.p = "openstack" /\ pc = "os_restart" /\ pc /= "idle"
      BY <1>5 DEF RestartVolumeService, At
  <2>2. Builds(One("loaded"), "warned" \notin Checked, Goto("os_type"))
      BY <1>5, BuildFacts DEF RestartVolumeService
  <2>3. Goto("os_type") => Moves
      BY <2>1, LoopFacts DEF Moves, CallsOf, Operations, Goto
  <2>4. op = "install"
      BY <2>1, LoopFacts DEF CallsOf, Operations
  <2>5. "loaded" \in Things /\ "loaded" \in Makes
      BY <2>1 DEF Things, Makes
  <2>6. Frame'
      BY <2>1, <2>2, <2>3, <2>5, OneFrame
  <2>7. Over
      BY <2>2, <2>5, OneOver
  <2>8. Openstack'
      BY <2>1, <2>2, <2>5, <2>4, OneFacts, LoopFacts DEF IInv, Steady, Fails, Error, End,
         Builds, Things, Checked, Goto, Openstack, OsLoop, OsLate, Pos, Dealt, Built
  <2> QED
      BY <2>6, <2>8, <2>7
<1>6. CASE CinderConfigure
  <2>1. opt.p = "openstack" /\ pc = "os_type" /\ pc /= "idle"
      BY <1>6 DEF CinderConfigure, At
  <2>2. Builds(One("type"), "warned" \notin Checked, Each("os_packages"))
      BY <1>6, BuildFacts DEF CinderConfigure
  <2>3. Each("os_packages") => Moves
      BY <2>1, LoopFacts DEF Moves, CallsOf, Operations, Each
  <2>4. op = "install"
      BY <2>1, LoopFacts DEF CallsOf, Operations
  <2>5. "type" \in Things /\ "type" \in Makes
      BY <2>1 DEF Things, Makes
  <2>6. Frame'
      BY <2>1, <2>2, <2>3, <2>5, OneFrame
  <2>7. Over
      BY <2>2, <2>5, OneOver
  <2>8. Openstack'
      BY <2>1, <2>2, <2>5, <2>4, OneFacts, LoopFacts DEF IInv, Steady, Fails, Error, End,
         Builds, Things, Checked, Each, Openstack, OsLoop, OsLate, Pos, Dealt, Built
  <2> QED
      BY <2>6, <2>8, <2>7
<1>7. CASE ComputePackages
  <2>1. opt.p = "openstack" /\ pc = "os_packages" /\ pc /= "idle"
      BY <1>7 DEF ComputePackages, At
  <2>2. Gives("initiator", Goto("os_mpath"))
      BY <1>7, <2>1, GiveFacts DEF ComputePackages, Parts, Unchecked, Checked
  <2>3. Goto("os_mpath") => Moves
      BY <2>1, LoopFacts DEF Moves, CallsOf, Operations, Goto
  <2>4. Frame'
      BY <2>1, <2>2, <2>3, GivesFrame
  <2>5. Over
      BY <2>2, GivesOver
  <2>6. Openstack'
      BY <2>1, <2>2, LoopFacts DEF IInv, Steady, Fails, Error, End, Gives, Goto, Openstack,
         OsLoop, OsLate, Pos, Dealt, Built
  <2> QED
      BY <2>4, <2>6, <2>5
<1>8. CASE ComputeMultipath
  <2>1. opt.p = "openstack" /\ pc = "os_mpath" /\ pc /= "idle"
      BY <1>8 DEF ComputeMultipath, At
  <2>2. Gives("mpath", Goto("os_nova"))
      BY <1>8, <2>1, GiveFacts DEF ComputeMultipath, Parts, Checked
  <2>3. Goto("os_nova") => Moves
      BY <2>1, LoopFacts DEF Moves, CallsOf, Operations, Goto
  <2>4. Frame'
      BY <2>1, <2>2, <2>3, GivesFrame
  <2>5. Over
      BY <2>2, GivesOver
  <2>6. Openstack'
      BY <2>1, <2>2, LoopFacts DEF IInv, Steady, Fails, Error, End, Gives, Goto, Openstack,
         OsLoop, OsLate, Pos, Dealt, Built
  <2> QED
      BY <2>4, <2>6, <2>5
<1>9. CASE RestartNovaCompute
  <2>1. opt.p = "openstack" /\ pc = "os_nova" /\ pc /= "idle"
      BY <1>9 DEF RestartNovaCompute, At
  <2>2. Gives("loaded", NextNode("os_packages", Done))
      BY <1>9, <2>1, GiveFacts DEF RestartNovaCompute, Parts, Checked
  <2>3. (NextNode("os_packages", Done)) => Moves
      BY <2>1, LoopFacts DEF Moves, CallsOf, Operations, NextNode, Done, End
  <2>4. Frame'
      BY <2>1, <2>2, <2>3, GivesFrame
  <2>5. Over
      BY <2>2, GivesOver
  <2>6. op = "install"
      BY <2>1, LoopFacts DEF CallsOf, Operations
  <2>7. Openstack'
      BY <2>1, <2>2, <2>6, LoopFacts DEF IInv, Steady, Fails, Error, End, Gives, NextNode,
         Done, Openstack, OsLoop, OsLate, Pos, Dealt, Built
  <2> QED
      BY <2>4, <2>7, <2>5
<1>10. CASE RemoveStanza
  <2>1. opt.p = "openstack" /\ pc = "os_delete" /\ pc /= "idle"
      BY <1>10 DEF RemoveStanza, At
  <2>2. Builds(Gone({"stanza"}), "warned" \notin Unchecked, Goto("os_disable"))
      BY <1>10, BuildFacts DEF RemoveStanza
  <2>3. Goto("os_disable") => Moves
      BY <2>1, LoopFacts DEF Moves, CallsOf, Operations, Goto
  <2>4. {"stanza"} \subseteq Things /\ op = "teardown"
      BY <2>1, LoopFacts DEF Things, CallsOf, Operations
  <2>5. Frame'
      BY <2>1, <2>2, <2>3, <2>4, GoneFrame
  <2>6. Over
      BY <2>2, GoneOver
  <2>7. Openstack'
      BY <2>1, <2>2, <2>4, GoneFacts, LoopFacts DEF IInv, Steady, Fails, Error, End, Builds,
         Things, Unchecked, Goto, Openstack, OsLoop, OsLate, Pos, Dealt, Built, Checked
  <2> QED
      BY <2>5, <2>7, <2>6
<1>11. CASE DisableBackend
  <2>1. opt.p = "openstack" /\ pc = "os_disable" /\ pc /= "idle"
      BY <1>11 DEF DisableBackend, At
  <2>2. op = "teardown"
      BY <2>1, LoopFacts DEF CallsOf, Operations
  <2>3. Goto("os_unload") => Moves
      BY <2>1, LoopFacts DEF Moves, CallsOf, Operations, Goto
  <2>4. CASE ~opt.taken
    <3>1. Steady /\ UNCHANGED <<has, registered, made, others, seen>> /\ Goto("os_unload")
        BY <1>11, <2>4, GoFacts DEF DisableBackend
    <3>2. Frame'
        BY <2>1, <2>3, <3>1, StillFrame
    <3>3. Openstack'
        BY <2>1, <2>2, <2>4, <3>1, LoopFacts DEF Goto, IInv, Steady, Openstack, OsLoop,
           OsLate, Pos, Dealt, Built
    <3>4. Over
        BY <3>1, StillOver
    <3> QED
        BY <3>2, <3>3, <3>4
  <2>5. CASE opt.taken
    <3>1. Builds(Gone({"backend"}), "warned" \notin Unchecked, Goto("os_unload"))
        BY <1>11, <2>5, BuildFacts DEF DisableBackend
    <3>2. Frame'
        BY <2>1, <2>3, <3>1, GoneFrame
    <3>3. Openstack'
        BY <2>1, <2>2, <2>5, <3>1, GoneFacts, LoopFacts DEF Builds, Unchecked, Things, Goto,
           Fails, Error, End, IInv, Steady, Openstack, OsLoop, OsLate, Pos, Dealt, Built,
           Checked
    <3>4. Over
        BY <3>1, GoneOver
    <3> QED
        BY <3>2, <3>3, <3>4
  <2> QED
      BY <2>4, <2>5
<1>12. CASE UnloadBackend
  <2>1. opt.p = "openstack" /\ pc = "os_unload" /\ pc /= "idle"
      BY <1>12 DEF UnloadBackend, At
  <2>2. Builds(Gone({"loaded"}), "warned" \notin Checked, Done)
      BY <1>12, BuildFacts DEF UnloadBackend
  <2>3. Done => Moves
      BY <2>1, LoopFacts DEF Moves, CallsOf, Operations, Done, End
  <2>4. {"loaded"} \subseteq Things /\ op = "teardown"
      BY <2>1, LoopFacts DEF Things, CallsOf, Operations
  <2>5. Frame'
      BY <2>1, <2>2, <2>3, <2>4, GoneFrame
  <2>6. Over
      BY <2>2, GoneOver
  <2>7. Openstack'
      BY <2>1, <2>2, <2>4, GoneFacts, LoopFacts DEF IInv, Steady, Fails, Error, End, Builds,
         Things, Checked, Done, Openstack, OsLoop, OsLate, Pos, Dealt, Built
  <2> QED
      BY <2>5, <2>7, <2>6
<1> QED
    BY <1>1, <1>2, <1>3, <1>4, <1>5, <1>6, <1>7, <1>8, <1>9, <1>10, <1>11,
       <1>12 DEF OpenstackSteps

\* Each call on vSphere leaves what must have been done before the next.
LEMMA VsphereKept ==
    ASSUME IInv, VsphereSteps
    PROVE  Frame' /\ Vsphere' /\ Over
<1>1. CASE VsDeploy
  <2>1. opt.p = "vsphere" /\ pc = "vs_plugin" /\ pc /= "idle"
      BY <1>1 DEF VsDeploy, At
  <2>2. Builds(One("plugin"), "warned" \notin Checked, Goto("vs_vasa"))
      BY <1>1, BuildFacts DEF VsDeploy
  <2>3. Goto("vs_vasa") => Moves
      BY <2>1, LoopFacts DEF Moves, CallsOf, Operations, Goto
  <2>4. op = "install"
      BY <2>1, LoopFacts DEF CallsOf, Operations
  <2>5. "plugin" \in Things /\ "plugin" \in Makes
      BY <2>1 DEF Things, Makes
  <2>6. Frame'
      BY <2>1, <2>2, <2>3, <2>5, OneFrame
  <2>7. Over
      BY <2>2, <2>5, OneOver
  <2>8. Vsphere'
    <3>1. /\ op' = op /\ Pos' \in {"vs_vasa", "error"}
          /\ Pos' = "vs_vasa" /\ ~missed' => made' = One("plugin")
        BY <2>1, <2>2 DEF Builds, Checked, Goto, Fails, Error, End, Pos
    <3>2. One("plugin")["plugin"] > 0
        BY <2>5, OneFacts
    <3> QED
        BY <2>4, <3>1, <3>2 DEF Vsphere, VsNfs, VsVmfs, VsLate, VsIscsi, Dealt, Built, Enrolled
  <2> QED
      BY <2>6, <2>8, <2>7
<1>2. CASE VsVasa
  <2>1. opt.p = "vsphere" /\ pc = "vs_vasa" /\ pc /= "idle"
      BY <1>2 DEF VsVasa, At
  <2>2. Builds(One("vasa"), "warned" \notin Warned, Goto("vs_refresh"))
      BY <1>2, BuildFacts DEF VsVasa
  <2>3. Goto("vs_refresh") => Moves
      BY <2>1, LoopFacts DEF Moves, CallsOf, Operations, Goto
  <2>4. op = "install"
      BY <2>1, LoopFacts DEF CallsOf, Operations
  <2>5. "vasa" \in Things /\ "vasa" \in Makes
      BY <2>1 DEF Things, Makes
  <2>6. Frame'
      BY <2>1, <2>2, <2>3, <2>5, OneFrame
  <2>7. Over
      BY <2>2, <2>5, OneOver
  <2>8. Vsphere'
      BY <2>1, <2>2, <2>5, <2>4, OneFacts, LoopFacts DEF IInv, Steady, Fails, Error, End,
         Builds, Things, Warned, Goto, Vsphere, VsNfs, VsVmfs, VsLate, VsIscsi, Pos, Dealt,
         Built, Enrolled
  <2> QED
      BY <2>6, <2>8, <2>7
<1>3. CASE VsConfigure
  <2>1. opt.p = "vsphere" /\ pc = "vs_refresh" /\ pc /= "idle"
      BY <1>3 DEF VsConfigure, At
  <2>2. Builds(One("vasa"), "warned" \notin Checked, Goto("vs_register"))
      BY <1>3, BuildFacts DEF VsConfigure
  <2>3. Goto("vs_register") => Moves
      BY <2>1, LoopFacts DEF Moves, CallsOf, Operations, Goto
  <2>4. op = "install"
      BY <2>1, LoopFacts DEF CallsOf, Operations
  <2>5. "vasa" \in Things /\ "vasa" \in Makes
      BY <2>1 DEF Things, Makes
  <2>6. Frame'
      BY <2>1, <2>2, <2>3, <2>5, OneFrame
  <2>7. Over
      BY <2>2, <2>5, OneOver
  <2>8. Vsphere'
      BY <2>1, <2>2, <2>5, <2>4, OneFacts, LoopFacts DEF IInv, Steady, Fails, Error, End,
         Builds, Things, Checked, Goto, Vsphere, VsNfs, VsVmfs, VsLate, VsIscsi, Pos, Dealt,
         Built, Enrolled
  <2> QED
      BY <2>6, <2>8, <2>7
<1>4. CASE VsRegister
  <2>1. opt.p = "vsphere" /\ pc = "vs_register" /\ pc /= "idle"
      BY <1>4 DEF VsRegister, At
  <2>2. Registers(IF opt.proto = "iscsi" THEN Each("vs_adapter") ELSE Goto("vs_group"))
      BY <1>4, RegisterFacts DEF VsRegister, Checked
  <2>3. (IF opt.proto = "iscsi" THEN Each("vs_adapter") ELSE Goto("vs_group")) => Moves
      BY <2>1, LoopFacts DEF Moves, CallsOf, Operations, Goto, Each
  <2>4. Steady /\ UNCHANGED <<has, made, others, seen>> /\ Moves
      BY <2>1, <2>2, <2>3, LoopFacts DEF Registers, Fails, Error, End, Moves
  <2>5. Frame'
      BY <2>1, <2>2, <2>4, StillFrame DEF Registers
  <2>6. Over
      BY <2>4, StillOver
  <2>7. Vsphere'
      BY <2>1, <2>2, LoopFacts DEF IInv, Steady, Fails, Error, End, Registers, Goto, Each,
         Vsphere, VsNfs, VsVmfs, VsLate, VsIscsi, Pos, Dealt, Built, Enrolled
  <2> QED
      BY <2>5, <2>7, <2>6
<1>5. CASE VsAdapter
  <2>1. opt.p = "vsphere" /\ pc = "vs_adapter" /\ pc /= "idle"
      BY <1>5 DEF VsAdapter, At
  <2>2. Gives("initiator", Goto("vs_targets"))
      BY <1>5, <2>1, GiveFacts DEF VsAdapter, Parts, Checked
  <2>3. Goto("vs_targets") => Moves
      BY <2>1, LoopFacts DEF Moves, CallsOf, Operations, Goto
  <2>4. Frame'
      BY <2>1, <2>2, <2>3, GivesFrame
  <2>5. Over
      BY <2>2, GivesOver
  <2>6. Vsphere'
      BY <2>1, <2>2, LoopFacts DEF IInv, Steady, Fails, Error, End, Gives, Goto, Vsphere,
         VsNfs, VsVmfs, VsLate, VsIscsi, Pos, Dealt, Built, Enrolled
  <2> QED
      BY <2>4, <2>6, <2>5
<1>6. CASE VsTargets
  <2>1. opt.p = "vsphere" /\ pc = "vs_targets" /\ pc /= "idle"
      BY <1>6 DEF VsTargets, At
  <2>2. Gives("session", NextNode("vs_adapter", Goto("vs_group")))
      BY <1>6, <2>1, GiveFacts DEF VsTargets, Parts, Checked
  <2>3. (NextNode("vs_adapter", Goto("vs_group"))) => Moves
      BY <2>1, LoopFacts DEF Moves, CallsOf, Operations, Goto, NextNode
  <2>4. Frame'
      BY <2>1, <2>2, <2>3, GivesFrame
  <2>5. Over
      BY <2>2, GivesOver
  <2>6. Vsphere'
      BY <2>1, <2>2, LoopFacts DEF IInv, Steady, Fails, Error, End, Gives, Goto, NextNode,
         Vsphere, VsNfs, VsVmfs, VsLate, VsIscsi, Pos, Dealt, Built, Enrolled
  <2> QED
      BY <2>4, <2>6, <2>5
<1>7. CASE VsGroup
  <2>1. opt.p = "vsphere" /\ pc = "vs_group" /\ pc /= "idle"
      BY <1>7 DEF VsGroup, At
  <2>2. Registers(IF opt.ds = "nfs" THEN Each("vs_mount") ELSE Goto("vs_volume"))
      BY <1>7, RegisterFacts DEF VsGroup, Checked
  <2>3. (IF opt.ds = "nfs" THEN Each("vs_mount") ELSE Goto("vs_volume")) => Moves
      BY <2>1, LoopFacts DEF Moves, CallsOf, Operations, Goto, Each
  <2>4. Steady /\ UNCHANGED <<has, made, others, seen>> /\ Moves
      BY <2>1, <2>2, <2>3, LoopFacts DEF Registers, Fails, Error, End, Moves
  <2>5. Frame'
      BY <2>1, <2>2, <2>4, StillFrame DEF Registers
  <2>6. Over
      BY <2>4, StillOver
  <2>7. Vsphere'
      BY <2>1, <2>2, LoopFacts DEF IInv, Steady, Fails, Error, End, Registers, Goto, Each,
         Vsphere, VsNfs, VsVmfs, VsLate, VsIscsi, Pos, Dealt, Built, Enrolled
  <2> QED
      BY <2>5, <2>7, <2>6
<1>8. CASE VsMount
  <2>1. opt.p = "vsphere" /\ pc = "vs_mount" /\ pc /= "idle"
      BY <1>8 DEF VsMount, At
  <2>2. Gives("pbd", NextNode("vs_mount", Goto("vs_mounted")))
      BY <1>8, <2>1, GiveFacts DEF VsMount, Parts, Checked
  <2>3. (NextNode("vs_mount", Goto("vs_mounted"))) => Moves
      BY <2>1, LoopFacts DEF Moves, CallsOf, Operations, Goto, NextNode
  <2>4. Frame'
      BY <2>1, <2>2, <2>3, GivesFrame
  <2>5. Over
      BY <2>2, GivesOver
  <2>6. Vsphere'
      BY <2>1, <2>2, LoopFacts DEF IInv, Steady, Fails, Error, End, Gives, Goto, NextNode,
         Vsphere, VsNfs, VsVmfs, VsLate, VsIscsi, Pos, Dealt, Built, Enrolled
  <2> QED
      BY <2>4, <2>6, <2>5
<1>9. CASE VsMounted
  <2>1. opt.p = "vsphere" /\ pc = "vs_mounted" /\ pc /= "idle"
      BY <1>9 DEF VsMounted, At
  <2>2. Builds(One("datastore"), "warned" \notin {"ok"}, Done)
      BY <1>9, BuildFacts DEF VsMounted
  <2>3. Done => Moves
      BY <2>1, LoopFacts DEF Moves, CallsOf, Operations, Done, End
  <2>4. op = "install"
      BY <2>1, LoopFacts DEF CallsOf, Operations
  <2>5. "datastore" \in Things /\ "datastore" \in Makes
      BY <2>1 DEF Things, Makes
  <2>6. Frame'
      BY <2>1, <2>2, <2>3, <2>5, OneFrame
  <2>7. Over
      BY <2>2, <2>5, OneOver
  <2>8. Vsphere'
      BY <2>1, <2>2, <2>5, <2>4, OneFacts, LoopFacts DEF IInv, Steady, Fails, Error, End,
         Builds, Things, Done, Vsphere, VsNfs, VsVmfs, VsLate, VsIscsi, Pos, Dealt, Built,
         Enrolled
  <2> QED
      BY <2>6, <2>8, <2>7
<1>10. CASE VsVolume
  <2>1. opt.p = "vsphere" /\ pc = "vs_volume" /\ pc /= "idle"
      BY <1>10 DEF VsVolume, At
  <2>2. CASE made["volume"] > 0
    <3>1. Steady /\ UNCHANGED <<has, registered, made, others, seen>> /\ Error
        BY <1>10, <2>2, GoFacts DEF VsVolume
    <3>2. Moves
        BY <2>1, <3>1, LoopFacts DEF Moves, Error, End
    <3>3. Frame'
        BY <2>1, <3>1, <3>2, StillFrame
    <3>4. Vsphere'
        BY <2>1, <3>1, LoopFacts DEF Error, End, IInv, Steady, Vsphere, VsNfs, VsVmfs,
           VsLate, VsIscsi, Pos, Dealt, Built, Enrolled
    <3>5. Over
        BY <3>1, StillOver
    <3> QED
        BY <3>3, <3>4, <3>5
  <2>3. CASE ~(made["volume"] > 0)
    <3>1. Builds(One("volume"), "warned" \notin Checked, Goto("vs_connect"))
        BY <1>10, <2>3, BuildFacts DEF VsVolume
    <3>2. Goto("vs_connect") => Moves
        BY <2>1, LoopFacts DEF Moves, CallsOf, Operations, Goto
    <3>3. "volume" \in Things /\ "volume" \in Makes
        BY <2>1 DEF Things, Makes
    <3>4. Frame'
        BY <2>1, <3>1, <3>2, <3>3, OneFrame
    <3>5. Vsphere'
        BY <2>1, <3>1, <3>3, OneFacts, LoopFacts DEF Builds, Checked, Things, Goto, Fails,
           Error, End, IInv, Steady, Vsphere, VsNfs, VsVmfs, VsLate, VsIscsi, Pos, Dealt,
           Built, Enrolled
    <3>6. Over
        BY <3>1, <3>3, OneOver
    <3> QED
        BY <3>4, <3>5, <3>6
  <2> QED
      BY <2>2, <2>3
<1>11. CASE VsConnect
  <2>1. opt.p = "vsphere" /\ pc = "vs_connect" /\ pc /= "idle"
      BY <1>11 DEF VsConnect, At
  <2>2. Asks(Cardinality(members) = 1, Goto("vs_format"), Error)
      BY <1>11, AskFacts DEF VsConnect
  <2>3. Moves
      BY <2>1, <2>2, LoopFacts DEF Asks, Moves, CallsOf, Operations, Goto, Error, End, Fails
  <2>4. Frame'
      BY <2>1, <2>2, <2>3, StillFrame DEF Asks
  <2>5. Over
      BY <2>2, StillOver DEF Asks
  <2>6. Vsphere'
      BY <2>1, <2>2, LoopFacts DEF IInv, Steady, Fails, Error, End, Asks, Goto, Vsphere,
         VsNfs, VsVmfs, VsLate, VsIscsi, Pos, Dealt, Built, Enrolled
  <2> QED
      BY <2>4, <2>6, <2>5
<1>12. CASE VsFormat
  <2>1. opt.p = "vsphere" /\ pc = "vs_format" /\ pc /= "idle"
      BY <1>12 DEF VsFormat, At
  <2>2. Steady /\ UNCHANGED <<has, registered, made, others, seen>> /\ Error
      BY <1>12, GoFacts DEF VsFormat, DeviceFound
  <2>3. Moves
      BY <2>1, <2>2, LoopFacts DEF Moves, Error, End
  <2>4. Frame'
      BY <2>1, <2>2, <2>3, StillFrame
  <2>5. Vsphere'
      BY <2>1, <2>2, LoopFacts DEF Error, End, IInv, Steady, Vsphere, VsNfs, VsVmfs, VsLate,
         VsIscsi, Pos, Dealt, Built, Enrolled
  <2>6. Over
      BY <2>2, StillOver
  <2> QED
      BY <2>4, <2>5, <2>6
<1>13. CASE VsArray
  <2>1. opt.p = "vsphere" /\ pc = "vs_array" /\ pc /= "idle"
      BY <1>13 DEF VsArray, At
  <2>2. Asks(TRUE, Goto("vs_unvasa"), Error)
      BY <1>13, AskFacts DEF VsArray
  <2>3. Moves
      BY <2>1, <2>2, LoopFacts DEF Asks, Moves, CallsOf, Operations, Goto, Error, End, Fails
  <2>4. Frame'
      BY <2>1, <2>2, <2>3, StillFrame DEF Asks
  <2>5. Over
      BY <2>2, StillOver DEF Asks
  <2>6. Vsphere'
      BY <2>1, <2>2, LoopFacts DEF IInv, Steady, Fails, Error, End, Asks, Goto, Vsphere,
         VsNfs, VsVmfs, VsLate, VsIscsi, Pos, Dealt, Built, Enrolled
  <2> QED
      BY <2>4, <2>6, <2>5
<1>14. CASE VsUnregisterVasa
  <2>1. opt.p = "vsphere" /\ pc = "vs_unvasa" /\ pc /= "idle"
      BY <1>14 DEF VsUnregisterVasa, At
  <2>2. Builds(Gone({"vasa"}), "warned" \notin Unnoticed, Goto("vs_unplug"))
      BY <1>14, BuildFacts DEF VsUnregisterVasa
  <2>3. Goto("vs_unplug") => Moves
      BY <2>1, LoopFacts DEF Moves, CallsOf, Operations, Goto
  <2>4. {"vasa"} \subseteq Things /\ op = "teardown"
      BY <2>1, LoopFacts DEF Things, CallsOf, Operations
  <2>5. Frame'
      BY <2>1, <2>2, <2>3, <2>4, GoneFrame
  <2>6. Over
      BY <2>2, GoneOver
  <2>7. Vsphere'
      BY <2>1, <2>2, <2>4, GoneFacts, LoopFacts DEF IInv, Steady, Fails, Error, End, Builds,
         Things, Unnoticed, Goto, Vsphere, VsNfs, VsVmfs, VsLate, VsIscsi, Pos, Dealt,
         Built, Enrolled
  <2> QED
      BY <2>5, <2>7, <2>6
<1>15. CASE VsUnregister
  <2>1. opt.p = "vsphere" /\ pc = "vs_unplug" /\ pc /= "idle"
      BY <1>15 DEF VsUnregister, At
  <2>2. op = "teardown"
      BY <2>1, LoopFacts DEF CallsOf, Operations
  <2>3. Done => Moves
      BY <2>1, LoopFacts DEF Moves, Done, End
  <2>4. CASE opt.detached
    <3>1. Steady /\ UNCHANGED <<has, registered, made, others, seen>> /\ Done
        BY <1>15, <2>4, GoFacts DEF VsUnregister
    <3>2. Frame'
        BY <2>1, <2>3, <3>1, StillFrame
    <3>3. Vsphere'
        BY <2>1, <2>2, <2>4, <3>1, LoopFacts DEF Done, End, IInv, Steady, Vsphere, VsNfs,
           VsVmfs, VsLate, VsIscsi, Pos, Dealt, Built, Enrolled
    <3>4. Over
        BY <3>1, StillOver
    <3> QED
        BY <3>2, <3>3, <3>4
  <2>5. CASE ~opt.detached
    <3>1. Builds(Gone({"plugin"}), "warned" \notin Unnoticed, Done)
        BY <1>15, <2>5, BuildFacts DEF VsUnregister
    <3>2. Frame'
        BY <2>1, <2>3, <3>1, GoneFrame
    <3>3. Vsphere'
        BY <2>1, <2>2, <3>1, GoneFacts, LoopFacts DEF Builds, Unnoticed, Things, Done,
           Fails, Error, End, IInv, Steady, Vsphere, VsNfs, VsVmfs, VsLate, VsIscsi, Pos,
           Dealt, Built, Enrolled
    <3>4. Over
        BY <3>1, GoneOver
    <3> QED
        BY <3>2, <3>3, <3>4
  <2> QED
      BY <2>4, <2>5
<1> QED
    BY <1>1, <1>2, <1>3, <1>4, <1>5, <1>6, <1>7, <1>8, <1>9, <1>10, <1>11, <1>12, <1>13,
       <1>14, <1>15 DEF VsphereSteps

-----------------------------------------------------------------------------
(* The steps between operations.                                            *)

\* The operator of OpenShift starts the cluster.
LEMMA PxStartsKept ==
    ASSUME IInv, PxStarts
    PROVE  Frame' /\ Openshift' /\ Over
<1>1. /\ opt.p = "openshift" /\ "driver" \in Things /\ "driver" \in Makes
      /\ made["operator"] > 0 /\ made["portworx"] > 0 /\ made' = One("driver")
      /\ UNCHANGED <<opt, pc, at, scope, op, answer, ops, members, has, registered, others, seen,
                     faults, missed, blind>>
    BY DEF PxStarts, ctl, run, fault, Things, Makes
<1>2. /\ made' \in [Things -> 0..2] /\ made'["driver"] = 1
      /\ \A t \in Things \ {"driver"} : made'[t] = made[t]
    BY <1>1, OneFacts
<1>3. TypeOK'
    BY <1>1, <1>2 DEF IInv, TypeOK, CallsOf
<1>4. Framed'
    BY <1>1 DEF IInv, Framed
<1>5. Confined'
    BY <1>1, <1>2 DEF IInv, Confined, Makes
<1>6. Single'
  <2>1. ASSUME ~blind'
        PROVE  /\ others' \/ AdoptedDeleted'
               /\ \A t \in Things \ {"record"} : made'[t] <= 1
      BY <1>1, <1>2, <2>1 DEF IInv, Single, AdoptedDeleted, Things
  <2> QED
      BY <2>1 DEF Single
<1>7. Openshift'
    BY <1>1, <1>2 DEF IInv, Openshift, PxLate, Pos, Built, Things, PxMakes, Whole
<1>8. Over
    BY <1>1, <1>2 DEF Over, Enabled, Things
<1> QED
    BY <1>3, <1>4, <1>5, <1>6, <1>7, <1>8 DEF Frame

\* What an answer does to what is remembered, at the start of an operation.
LEMMA StartKept ==
    ASSUME IInv, NEW o \in Operations, pc = "idle", Start(o), ops' \in 0..MaxOps
    PROVE  IInv' /\ Over
<1>1. PICK a \in Refusable :
        /\ Hear(a, Refusable)
        /\ pc' = (IF a = "ok" THEN FirstStep(o, opt.p) ELSE "idle")
        /\ answer' = (IF a = "ok" THEN "none" ELSE "error")
  <2>1. (IF o = "install" THEN Refusable ELSE {"ok"}) \subseteq Refusable
      BY DEF Refusable
  <2> QED
      BY <2>1 DEF Start
<1>2. /\ op' = o /\ scope' = ScopeOf(o) /\ scope' /= {} /\ at' = First(scope')
      /\ FirstStep(o, opt.p) /= "none" /\ seen' = {}
      /\ UNCHANGED <<opt, members, has, registered, made, others>>
    BY DEF Start, world
<1>3. /\ opt \in Setups /\ members \in (SUBSET Nodes) \ {{}} /\ registered \subseteq members
      /\ has \in [Nodes -> SUBSET Parts] /\ made \in [Things -> 0..2]
      /\ others \in BOOLEAN /\ faults \in 0..MaxFaults /\ missed \in BOOLEAN
      /\ missed => faults > 0
      /\ blind \in BOOLEAN /\ (blind => missed)
    BY DEF IInv, TypeOK, Framed
<1>4. /\ faults' \in 0..MaxFaults /\ (faults' = 0 => faults = 0) /\ (a /= "ok" => faults' > 0)
      /\ faults > 0 => faults' > 0
    BY <1>1, <1>3, InstallAssumption DEF Hear
<1>5. missed' = missed /\ blind' = blind
  <2>1. a \notin {"late", "silent"}
      BY <1>1 DEF Refusable
  <2>2. missed' = (missed \/ a \in {"late", "silent"})
      BY <1>1, Zenon DEF Hear
  <2>3. blind' = (blind \/ (a = "silent" /\ pc \in LookFirst))
      BY <1>1, Zenon DEF Hear
  <2>4. missed' = missed
      BY <1>3, <2>1, <2>2
  <2>5. blind' = blind
      BY <1>3, <2>1, <2>3
  <2> QED
      BY <2>4, <2>5
<1>6. scope' \subseteq members /\ (o /= "reconcile" => scope' = members)
    BY <1>2 DEF ScopeOf
<1>7. at' \in scope' /\ \A n \in scope' : ~(n < at')
  <2>1. scope' \in SUBSET Nodes /\ Nodes \subseteq Nat
      BY <1>3, <1>6 DEF Nodes
  <2>2. at' \in scope' /\ \A n \in scope' : at' <= n
      BY <1>2, <2>1, FirstFacts
  <2>3. ASSUME NEW n \in scope' PROVE ~(n < at')
    <3>1. n \in Nat /\ at' \in Nat /\ at' <= n
        BY <2>1, <2>2
    <3> QED
        BY <3>1
  <2> QED
      BY <2>2, <2>3
<1>8. opt.p \in Platforms
    BY <1>3, InstallAssumption DEF Setup
<1>9. /\ pc' = "idle" \/ pc' \in CallsOf(op)'
      /\ (pc' = "idle" /\ answer' = "error") \/ (pc' = FirstStep(o, opt.p) /\ answer' = "none")
      /\ pc' /= "idle" => answer' = "none"
      /\ FirstStep(o, opt.p) /= "idle"
      /\ o = "reconcile" => opt.p \in {"proxmox", "xcpng", "hpevme"}
  <2>1. o = "reconcile" => opt.p \in {"proxmox", "xcpng", "hpevme"}
      BY <1>2, <1>8 DEF FirstStep, Operations, Platforms
  <2>2. FirstStep(o, opt.p) \in CallsOf(o)
    <3>1. CASE o = "install"
        BY <1>8, <3>1 DEF FirstStep, CallsOf, Platforms
    <3>2. CASE o = "reconcile"
        BY <2>1, <3>2 DEF FirstStep, CallsOf
    <3>3. CASE o = "teardown"
        BY <1>8, <3>3 DEF FirstStep, CallsOf, Platforms
    <3> QED
        BY <3>1, <3>2, <3>3 DEF Operations
  <2>3. CallsOf(op)' = CallsOf(o)
      BY <1>2 DEF CallsOf
  <2>4. FirstStep(o, opt.p) /= "idle"
      BY <1>8 DEF FirstStep, Operations, Platforms
  <2>5. (pc' = "idle" /\ answer' = "error") \/ (pc' = FirstStep(o, opt.p) /\ answer' = "none")
      BY <1>1
  <2>6. pc' = "idle" \/ pc' \in CallsOf(op)'
      BY <2>2, <2>3, <2>5
  <2> QED
      BY <2>1, <2>4, <2>5, <2>6
<1>10. TypeOK'
  <2>1. at' \in Nodes /\ scope' \subseteq Nodes
      BY <1>3, <1>6, <1>7
  <2>2. op' \in Operations \cup {"none"} /\ answer' \in {"none", "ok", "error"}
      BY <1>1, <1>2
  <2>3. seen' \subseteq Things
      BY <1>2
  <2> QED
      BY <1>2, <1>3, <1>4, <1>5, <1>9, <2>1, <2>2, <2>3 DEF TypeOK
<1>11. Framed'
    BY <1>2, <1>3, <1>4, <1>5, <1>6, <1>7, <1>9 DEF Framed
<1>12. Confined' /\ Single'
    BY <1>2, <1>5 DEF IInv, Confined, Single, AdoptedDeleted, Makes
<1>13. Pos \in {"none", "ok", "error"}
    BY DEF Pos, IInv, TypeOK
<1>14. Pos' = "error" \/ (Pos' = FirstStep(o, opt.p) /\ pc' = Pos')
    BY <1>9 DEF Pos
<1>15. Proxmox'
  <2>1. opt.p = "proxmox" => Pos' \in {"error", "pve_probe", "pve_remove"}
      BY <1>2, <1>14 DEF FirstStep, Operations
  <2> QED
      BY <1>2, <1>4, <1>5, <2>1
         DEF IInv, Proxmox, PveEnd, PveLoop, PveLate, PveMade, Dealt, Built, Enrolled, Installing,
             Extending, Removing, Unreachable
<1>16. Xcpng'
  <2>1. opt.p = "xcpng" => Pos' \in {"error", "xcp_register", "xcp_plugin", "xcp_forget"}
      BY <1>2, <1>14 DEF FirstStep, Operations
  <2>2. /\ opt.p = "xcpng" /\ o = "install" => Pos' /= "xcp_plugin"
        /\ opt.p = "xcpng" /\ o = "reconcile" => Pos' /= "xcp_register"
      BY <1>2, <1>14 DEF FirstStep, Operations
  <2>3. CASE ~(opt.p = "xcpng" /\ Pos' = "xcp_plugin")
      BY <1>2, <2>1, <2>2, <2>3
         DEF Xcpng, XcpEnd, XcpLoop, XcpLate, XcpMade, Dealt, Built, Enrolled, Installing,
             Extending, Removing
  <2>4. CASE opt.p = "xcpng" /\ Pos' = "xcp_plugin"
    <3>1. op' = "reconcile"
        BY <1>2, <1>9, <1>14, <2>2, <2>4 DEF FirstStep, Operations
    <3> QED
        BY <1>2, <1>7, <2>4, <3>1
           DEF Xcpng, XcpEnd, XcpLoop, XcpLate, XcpMade, Dealt, Built, Enrolled, Installing,
               Extending, Removing
  <2> QED
      BY <2>3, <2>4
<1>17. Hpevme'
  <2>1. opt.p = "hpevme" => Pos' \in {"error", "hpe_plugin", "hpe_register", "hpe_disconnect"}
      BY <1>2, <1>14 DEF FirstStep, Operations
  <2>2. opt.p = "hpevme" /\ o = "install" => Pos' /= "hpe_register"
      BY <1>2, <1>14 DEF FirstStep, Operations
  <2> QED
      BY <1>2, <1>4, <1>5, <2>1, <2>2
         DEF IInv, Hpevme, HpeLoop, HpeLate, Dealt, Built, Enrolled, Installing, Extending
<1>18. Openshift'
  <2>1. opt.p = "openshift" => Pos' \in {"error", "px_look", "px_delete"}
                              /\ pc' \in {"idle", "px_look", "px_delete"}
      BY <1>2, <1>9, <1>14 DEF FirstStep, Operations
  <2> QED
      BY <1>2, <1>5, <2>1 DEF IInv, Openshift, PxLate, Built, PxMakes, Whole
<1>19. Openstack'
  <2>1. opt.p = "openstack" => Pos' \in {"error", "os_read", "os_delete"}
      BY <1>2, <1>14 DEF FirstStep, Operations
  <2> QED
      BY <1>2, <1>4, <1>5, <1>13, <2>1 DEF IInv, Openstack, OsLoop, OsLate, Built, Dealt
<1>20. Vsphere'
  <2>1. opt.p = "vsphere" => Pos' \in {"error", "vs_plugin", "vs_array"}
      BY <1>2, <1>14 DEF FirstStep, Operations
  <2> QED
      BY <1>2, <1>5, <2>1 DEF IInv, Vsphere, VsNfs, VsVmfs, VsLate, VsIscsi, Dealt, Built, Enrolled
<1>21. Over
    BY <1>2, StillOver
<1> QED
    BY <1>10, <1>11, <1>12, <1>15, <1>16, <1>17, <1>18, <1>19, <1>20, <1>21 DEF IInv

\* A node joins, with nothing on it.
LEMMA JoinKept ==
    ASSUME IInv, NEW n \in Nodes, Join(n)
    PROVE  IInv' /\ Over
<1>1. /\ pc = "idle" /\ n \notin members /\ members' = members \cup {n}
      /\ UNCHANGED <<opt, pc, at, scope, op, answer, ops, has, registered, made, others, seen,
                     faults, missed, blind>>
    BY DEF Join, ctl, world, fault
<1>2. has[n] = {}
    BY <1>1 DEF IInv, Confined
<1>3. TypeOK'
    BY <1>1 DEF IInv, TypeOK, CallsOf
<1>4. Framed' /\ Confined' /\ Single'
    BY <1>1 DEF IInv, Framed, Confined, Single, AdoptedDeleted, Makes
<1>5. Proxmox'
    BY <1>1, <1>2
       DEF IInv, Proxmox, PveEnd, PveLoop, PveLate, PveMade, Pos, Dealt, Built, Enrolled, Installing,
           Extending, Removing, Unreachable
<1>6. Xcpng'
    BY <1>1, <1>2
       DEF IInv, Xcpng, XcpEnd, XcpLoop, XcpLate, XcpMade, Pos, Dealt, Built, Enrolled, Installing,
           Extending, Removing
<1>7. Hpevme' /\ Openshift' /\ Openstack' /\ Vsphere'
    BY <1>1 DEF IInv, Hpevme, HpeLoop, HpeLate, Openshift, PxLate, Openstack, OsLoop,
       OsLate, Vsphere, VsNfs, VsVmfs, VsLate, VsIscsi, Pos, Dealt, Built, Enrolled,
       Installing, Extending, PxMakes, Whole
<1>8. Over
    BY <1>1, StillOver
<1> QED
    BY <1>3, <1>4, <1>5, <1>6, <1>7, <1>8 DEF IInv

\* At the start nothing is there.
LEMMA IInvInit == Init => IInv
<1> SUFFICES ASSUME Init PROVE IInv
    OBVIOUS
<1>1. /\ opt \in Setups /\ pc = "idle" /\ op = "none" /\ answer = "none"
      /\ members \in {1..n : n \in Nodes} /\ at = 1 /\ scope = {}
      /\ has = [n \in Nodes |-> {}] /\ registered = {}
      /\ made = [t \in Things |->
                   IF t = "foreign" /\ opt.p = "openshift" /\ opt.taken THEN 1 ELSE 0]
      /\ seen = {} /\ others = TRUE /\ ops = 0 /\ faults = 0 /\ missed = FALSE /\ blind = FALSE
    BY DEF Init
<1>2. members \in (SUBSET Nodes) \ {{}} /\ 1 \in Nodes
  <2>1. PICK n \in Nodes : members = 1..n
      BY <1>1
  <2>2. n \in Nat /\ 1 <= n /\ n <= NNodes /\ NNodes \in Nat
      BY InstallAssumption DEF Nodes
  <2>3. 1 \in 1..n /\ 1..n \subseteq 1..NNodes
      BY <2>2
  <2> QED
      BY <2>1, <2>3 DEF Nodes
<1>3. TypeOK
  <2>1. ops \in 0..MaxOps /\ faults \in 0..MaxFaults
      BY <1>1, InstallAssumption
  <2>2. has \in [Nodes -> SUBSET Parts] /\ made \in [Things -> 0..2]
      BY <1>1
  <2> QED
      BY <1>1, <1>2, <2>1, <2>2 DEF TypeOK
<1>4. Pos = "none"
    BY <1>1 DEF Pos
<1>5. /\ \A t \in Things : t /= "foreign" => made[t] = 0
      /\ made["foreign"] <= 1 /\ (opt.p /= "openshift" => made["foreign"] = 0)
      /\ "foreign" \in Things
    BY <1>1 DEF Things
<1>6. \A n \in Nodes : has[n] = {}
    BY <1>1
<1>7. opt.p \in Platforms
    BY <1>1, InstallAssumption DEF Setup
<1>8. Makes \subseteq Things
    BY <1>7 DEF Makes, Things, Platforms
<1>9. Framed /\ Confined /\ Single
    BY <1>1, <1>5, <1>6, <1>8 DEF Framed, Confined, Single
<1>10. Proxmox /\ Xcpng /\ Hpevme
    BY <1>1, <1>4, <1>5 DEF Proxmox, Xcpng, Hpevme, Installing, Extending, Removing, Things
<1>11. Openshift /\ Openstack /\ Vsphere
    BY <1>1, <1>4, <1>5 DEF Openshift, Openstack, Vsphere, Things, Built, OsLoop, OsLate,
       PxLate, PxMakes, Whole
<1> QED
    BY <1>3, <1>9, <1>10, <1>11 DEF IInv

\* Every step keeps the invariant, and builds only on what is there.
LEMMA IInvNext ==
    ASSUME IInv, [Next]_vars
    PROVE  IInv' /\ (Next => Over)
<1>1. ASSUME NEW o \in Operations, Begin(o) PROVE IInv' /\ Over
  <2>1. ops' \in 0..MaxOps
      BY <1>1, InstallAssumption DEF Begin, IInv, TypeOK
  <2> QED
      BY <1>1, <2>1, StartKept DEF Begin
<1>2. CASE Retry
  <2>1. ops' \in 0..MaxOps
      BY <1>2 DEF Retry, IInv, TypeOK
  <2> QED
      BY <1>2, <2>1, StartKept DEF Retry, Operations
<1>3. ASSUME NEW n \in Nodes, Join(n) PROVE IInv' /\ Over
    BY <1>3, JoinKept
<1>4. CASE ProxmoxSteps
  <2>1. opt.p = "proxmox" /\ opt' = opt
      BY <1>4, PlatformFacts
  <2> QED
      BY <1>4, <2>1, ProxmoxKept, OnePlatform DEF Frame
<1>5. CASE XcpngSteps
  <2>1. opt.p = "xcpng" /\ opt' = opt
      BY <1>5, PlatformFacts
  <2> QED
      BY <1>5, <2>1, XcpngKept, OnePlatform DEF Frame
<1>6. CASE HpevmeSteps
  <2>1. opt.p = "hpevme" /\ opt' = opt
      BY <1>6, PlatformFacts
  <2> QED
      BY <1>6, <2>1, HpevmeKept, OnePlatform DEF Frame
<1>7. CASE OpenshiftSteps
  <2>1. opt.p = "openshift" /\ opt' = opt
      BY <1>7, PlatformFacts
  <2> QED
      BY <1>7, <2>1, OpenshiftKept, OnePlatform DEF Frame
<1>8. CASE PxStarts
  <2>1. opt.p = "openshift" /\ opt' = opt
      BY <1>8 DEF PxStarts
  <2> QED
      BY <1>8, <2>1, PxStartsKept, OnePlatform DEF Frame
<1>9. CASE OpenstackSteps
  <2>1. opt.p = "openstack" /\ opt' = opt
      BY <1>9, PlatformFacts
  <2> QED
      BY <1>9, <2>1, OpenstackKept, OnePlatform DEF Frame
<1>10. CASE VsphereSteps
  <2>1. opt.p = "vsphere" /\ opt' = opt
      BY <1>10, PlatformFacts
  <2> QED
      BY <1>10, <2>1, VsphereKept, OnePlatform DEF Frame
<1>11. CASE UNCHANGED vars
  <2>1. UNCHANGED <<opt, pc, at, scope, op, answer, ops, members, has, registered, made, others, seen,
                    faults, missed, blind>>
      BY <1>11 DEF vars, ctl, run, world, fault
  <2>2. TypeOK' /\ Framed' /\ Confined' /\ Single'
    <3>1. TypeOK /\ Framed /\ Confined /\ Single
        BY DEF IInv
    <3>2. TypeOK'
        BY <2>1, <3>1 DEF TypeOK, CallsOf
    <3>3. Framed'
        BY <2>1, <3>1 DEF Framed, Makes
    <3>4. Confined' /\ Single'
        BY <2>1, <3>1 DEF Confined, Single, AdoptedDeleted, Makes
    <3> QED
        BY <3>2, <3>3, <3>4
  <2>3. Proxmox' /\ Xcpng' /\ Hpevme'
    <3>1. Proxmox /\ Xcpng /\ Hpevme
        BY DEF IInv
    <3>2. Proxmox'
        BY <2>1, <3>1 DEF Proxmox, PveEnd, PveLoop, PveLate, PveMade, Pos, Dealt, Built, Enrolled,
                          Installing, Extending, Removing, Unreachable
    <3>3. Xcpng'
        BY <2>1, <3>1 DEF Xcpng, Pos, Dealt, Built, Enrolled, Installing, Extending, Removing,
                          Unreachable
    <3>4. Hpevme'
        BY <2>1, <3>1 DEF Hpevme, HpeLoop, HpeLate, Pos, Dealt, Built, Enrolled, Installing,
                          Extending, Removing, Unreachable
    <3> QED
        BY <3>2, <3>3, <3>4
  <2>4. Openshift' /\ Openstack' /\ Vsphere'
      BY <2>1 DEF IInv, Openshift, Openstack, Vsphere, Pos, Dealt, Built, Enrolled, PxMakes,
         Whole
  <2>5. Over
      BY <2>1, StillOver
  <2> QED
      BY <2>2, <2>3, <2>4, <2>5 DEF IInv
<1> QED
    BY <1>1, <1>2, <1>3, <1>4, <1>5, <1>6, <1>7, <1>8, <1>9, <1>10, <1>11
       DEF Next, Steps, HostSteps, ClusterSteps

\* The invariant of every reachable state.
LEMMA IInvHolds == Spec => []IInv
<1>1. IInv /\ [Next]_vars => IInv'
    BY IInvNext
<1> QED
    BY IInvInit, <1>1, PTL DEF Spec

-----------------------------------------------------------------------------
(* What follows.                                                            *)

\* The installation keeps its variables in their types, each operation making
\* its own calls (api/service.py and the connectors).
THEOREM TypeCorrect == Spec => []TypeOK
<1>1. IInv => TypeOK
    BY DEF IInv
<1> QED
    BY IInvHolds, <1>1, PTL

\* However often an install is repeated on however many nodes, and whatever
\* calls failed or timed out before, there is one of each thing and what others
\* run on the cluster still works, as long as the calls that look first
\* (PxLook, ReadCinderConf, XcpExisting, XcpClobber) are not silently lost, and
\* but for a StorageCluster of others that has the name a teardown deletes.
THEOREM AddsOnly == Spec => []AddsOnlyItsOwn
<1>1. IInv => AddsOnlyItsOwn
    BY DEF IInv, Single, AddsOnlyItsOwn
<1> QED
    BY IInvHolds, <1>1, PTL

\* After a teardown that answered ok and did not miss an answer, no definition of
\* the integration that the teardown can reach is left, and no plugin file on any
\* node of the cluster, whatever installs, failed installs and reconciliations
\* came before (remove of the six connectors).  A StorageCluster or a plugin it
\* does not reach is left: Definitions has neither.
THEOREM Teardown == Spec => []TeardownRemoves
<1>1. ASSUME IInv, Ended("teardown", "ok"), ~missed
      PROVE  /\ \A t \in Definitions : made[t] = 0
             /\ \A n \in members : "plugin" \notin has[n]
  <2>1. /\ pc = "idle" /\ op = "teardown" /\ Pos = "ok" /\ opt.p \in Platforms
        /\ members \subseteq Nodes
      BY <1>1, InstallAssumption DEF Ended, Pos, IInv, TypeOK, Setup
  <2>2. \A t \in Things \ Makes : t /= "foreign" => made[t] = 0
      BY <1>1 DEF IInv, Confined
  <2>3. ASSUME NEW t \in Definitions PROVE made[t] = 0
    <3>1. t \in Things /\ t /= "foreign"
        BY <2>3 DEF Definitions, Things
    <3>2. CASE t \in Makes
      <4>1. CASE opt.p = "proxmox"
          BY <1>1, <2>1, <2>3, <3>2, <4>1 DEF IInv, Proxmox, Removing, Makes, Definitions
      <4>2. CASE opt.p = "xcpng"
          BY <1>1, <2>1, <2>3, <3>2, <4>2 DEF IInv, Xcpng, Removing, Makes, Definitions
      <4>3. CASE opt.p = "hpevme"
          BY <1>1, <2>1, <2>3, <3>2, <4>3 DEF Makes, Definitions
      <4>4. CASE opt.p = "openshift"
          BY <1>1, <2>1, <2>3, <3>2, <4>4 DEF IInv, Openshift, Makes, Definitions, PxMakes,
             Whole
      <4>5. CASE opt.p = "openstack"
          BY <1>1, <2>1, <2>3, <3>2, <4>5 DEF IInv, Openstack, Makes, Definitions
      <4>6. CASE opt.p = "vsphere"
          BY <1>1, <2>1, <2>3, <3>2, <4>6 DEF IInv, Vsphere, Makes, Definitions
      <4> QED
          BY <2>1, <4>1, <4>2, <4>3, <4>4, <4>5, <4>6 DEF Platforms
    <3> QED
        BY <2>2, <3>1, <3>2
  <2>4. ASSUME NEW n \in members PROVE "plugin" \notin has[n]
      BY <1>1, <2>1 DEF IInv, Confined, Proxmox, Xcpng, Removing
  <2> QED
      BY <2>3, <2>4
<1>2. IInv => TeardownRemoves
    BY <1>1 DEF TeardownRemoves
<1> QED
    BY IInvHolds, <1>2, PTL

\* An install that answered ok left everything the platform needs on every node
\* it was for, wherever the attempts before it stopped; a reconciliation left
\* every node registered and connected when the array could be reached
\* (_steps and reconcile_hosts of api/service.py, the connectors' deploy,
\* configure, register_hosts and setup_connectivity).
THEOREM Configured == Spec => []OkMeansConfigured
<1>1. ASSUME IInv, Ended("install", "ok"), ~missed, opt.p = "openstack" => faults = 0
      PROVE  Installed
  <2>1. /\ pc = "idle" /\ op = "install" /\ Pos = "ok" /\ opt.p \in Platforms
        /\ made \in [Things -> 0..2]
      BY <1>1, InstallAssumption DEF Ended, Pos, IInv, TypeOK, Setup
  <2>2. CASE opt.p = "proxmox"
      BY <1>1, <2>1, <2>2
         DEF IInv, Proxmox, PveEnd, PveLoop, PveLate, PveMade, Dealt, Built, Enrolled, Installing,
             Installed, Equipped, PartsOf, NeedsHost, ThingsOf
  <2>3. CASE opt.p = "xcpng"
      BY <1>1, <2>1, <2>3
         DEF IInv, Xcpng, XcpEnd, XcpLoop, XcpLate, XcpMade, Dealt, Built, Enrolled, Installing,
             Installed, Equipped, PartsOf, NeedsHost, ThingsOf
  <2>4. CASE opt.p = "hpevme"
      BY <1>1, <2>1, <2>4
         DEF IInv, Hpevme, HpeLoop, HpeLate, Dealt, Built, Enrolled, Installing,
             Installed, Equipped, PartsOf, NeedsHost, ThingsOf
  <2>5. CASE opt.p = "openshift"
    <3>1. PartsOf = {} /\ ~NeedsHost
        BY <2>5 DEF PartsOf, NeedsHost
    <3>2. made["foreign"] \in 0..2
        BY <2>1 DEF Things
    <3>3. /\ made["portworx"] > 0 => made["secret"] > 0 /\ (Whole => made["operator"] > 0)
          /\ made["foreign"] = 0 => made["portworx"] > 0
          /\ ~opt.taken => made["class"] > 0
          /\ opt.bind => made["binding"] > 0
        BY <1>1, <2>1, <2>5 DEF IInv, Openshift, PxLate, Built
    <3>4. \A t \in ThingsOf : made[t] > 0
        BY <2>5, <3>2, <3>3 DEF ThingsOf, Whole
    <3> QED
        BY <3>1, <3>4 DEF Installed, Equipped
  <2>6. CASE opt.p = "openstack"
      BY <1>1, <2>1, <2>6
         DEF IInv, Openstack, OsLoop, OsLate, Dealt, Built,
             Installed, Equipped, PartsOf, NeedsHost, ThingsOf
  <2>7. CASE opt.p = "vsphere"
      BY <1>1, <2>1, <2>7
         DEF IInv, Vsphere, VsNfs, VsVmfs, VsLate, VsIscsi, Dealt, Built, Enrolled,
             Installed, Equipped, PartsOf, NeedsHost, ThingsOf
  <2> QED
      BY <2>1, <2>2, <2>3, <2>4, <2>5, <2>6, <2>7 DEF Platforms
<1>2. ASSUME IInv, Ended("reconcile", "ok"), faults = 0, opt.portals, scope \cap opt.cut = {},
             NEW n \in scope
      PROVE  /\ n \in registered
             /\ made["storage"] + made["sr"] > 0 => "plugin" \in has[n]
             /\ "session" \in PartsOf => "session" \in has[n]
  <2>1. /\ pc = "idle" /\ op = "reconcile" /\ Pos = "ok"
        /\ opt.p \in {"proxmox", "xcpng", "hpevme"}
      BY <1>2 DEF Ended, Pos, IInv, Framed
  <2>2. "storage" \in Things /\ "sr" \in Things
      BY DEF Things
  <2>3. CASE opt.p = "proxmox"
    <3>1. n \in registered /\ registered \subseteq scope /\ "session" \in has[n]
        BY <1>2, <2>1, <2>3
           DEF IInv, Proxmox, PveEnd, PveLoop, PveLate, Dealt, Enrolled, Extending
    <3>2. made["sr"] = 0 /\ made["storage"] \in 0..2
        BY <1>2, <2>2, <2>3 DEF IInv, TypeOK, Confined, Makes
    <3>3. registered \cap opt.cut = {}
        BY <1>2, <3>1
    <3>4. made["storage"] > 0 => "plugin" \in has[n]
        BY <1>2, <2>3, <3>1, <3>3 DEF IInv, Proxmox
    <3> QED
        BY <3>1, <3>2, <3>4
  <2>4. CASE opt.p = "xcpng"
      BY <1>2, <2>1, <2>4
         DEF IInv, Xcpng, XcpEnd, XcpLoop, XcpLate, Dealt, Enrolled, Extending
  <2>5. CASE opt.p = "hpevme"
    <3>1. made["sr"] = 0 /\ made["storage"] = 0
        BY <1>2, <2>2, <2>5 DEF IInv, Confined, Makes
    <3>2. n \in registered /\ ("session" \in PartsOf => "session" \in has[n])
        BY <1>2, <2>1, <2>5
           DEF IInv, Hpevme, HpeLoop, HpeLate, Dealt, Enrolled, Extending, PartsOf
    <3> QED
        BY <3>1, <3>2
  <2> QED
      BY <2>1, <2>3, <2>4, <2>5
<1>3. IInv => OkMeansConfigured
    BY <1>1, <1>2 DEF OkMeansConfigured
<1> QED
    BY IInvHolds, <1>3, PTL

\* No step defines something on the cluster whose support is not there, nor
\* takes away plugin files a storage uses: a storage is enabled when all nodes
\* are equipped, Portworx created over its operator and secret, a Cinder backend
\* enabled over its client.
THEOREM OverPlugin == Spec => DefinedOverPlugin
<1>1. ASSUME IInv, [Next]_vars PROVE [Over]_vars
    BY <1>1, IInvNext
<1>2. [][Over]_vars <=> DefinedOverPlugin
    BY PTL DEF DefinedOverPlugin, Over
<1> QED
    BY IInvHolds, <1>1, <1>2, PTL DEF Spec

=============================================================================
