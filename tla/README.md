# Formal models of PHIF

PHIF (the Pure hypervisor integration framework) is a Python service that puts
Pure Storage FlashArrays behind several hypervisors and moves VMs between them
on array-native clones. This directory holds TLA+ modules translated from its
code, the TLC configurations that check them on small instances, and theorems
about them that the TLA+ proof system checks for every instance.

`PROJECT.json` is the index: the components, the runs, which lines each
definition stands for (`map`), the hazards of the code and the properties that
watch them, the mutations each property detects, and the theorems. Paths below
are relative to `src/backend/phif/` unless they start with `src/`.

## 1. The system

One FastAPI process with one asyncio event loop and one SQL database. A request
does not hold a lock across an `await`: whatever it read from the database may
be stale when it commits. Long operations are jobs: tasks of the same loop, fed
by an in-memory semaphore and followed over WebSockets. A restart of the process
loses every task; `jobs/reconcile.py` and the scheduler repair what they left.

| Part | State | Operations | Talks to | What is hard |
|---|---|---|---|---|
| **Migration service** `migrate/service.py`, `migrate/steps.py`, `migrate/spec.py` | the saga's local variables, the rollback stack, the `Migration` row | `MigrationService.run`, `run_migration`, `run_migration_group` | two connectors, FlashArray clients, job log | a failure at any of some twenty awaits; calls that fail after they took effect; answers that are not answers; compensations that fail; the point of no return |
| **Groups and scheduler** `api/migrations.py`, `jobs/scheduler.py` | the `MigrationGroup` row, `_active`, per-group locks | create, run-now, cancel, delete, the polling cycle, `kick` | the group runner, the `Migration` rows | requests, scheduler and runner overwrite one row; done-callbacks; resume after a restart; timeouts |
| **Job engine and log stream** `jobs/manager.py`, `jobs/reconcile.py`, `api/jobs.py` | `Job` rows, subscriber queues, log buffer, semaphore | `create_and_run`, `_run`, `_finalize`, `stream_logs`, `reconcile_orphaned_jobs` | every operation; WebSocket viewers | database errors between two records; restart between two records; subscribing while a job ends |
| **Hypervisor operations** `api/service.py`, `api/hypervisors.py`, `jobs/monitor.py` | `Hypervisor` row: connection and state JSON, status, drift | operations, wizard, PATCH, validate, the monitor's cycle | connectors, job engine | JSON columns read, kept over a long operation, and written back whole |
| **FlashArray client** `flasharray/client.py` | the array: volumes, hosts, host groups, protection groups, connections | volume, host, replication and fleet calls | REST API of the array | idempotent calls that swallow "already exists" answers; adopted hosts and groups |
| **Connectors** `connectors/{vsphere,openshift,proxmox,xcpng,hpevme,nutanix,openstack}` | none of their own: the platform's | install, validate, hosts, datastores, the calls of a migration | platform API, SSH, FlashArray | exit statuses that are not looked at; half-done installations; asynchronous power changes |
| **Connector base** `connectors/base.py` | none | host-group assessment and reconciliation, contract of the calls | connectors, FlashArray | pruning hosts by names derived from what was adopted |
| **Host-side plugins** Proxmox `PureFAPlugin.pm`, XCP-ng SMAPIv3, HPE VME Morpheus | device maps, locks and the array's volumes | storage operations of the hypervisor | the array, multipath | two hosts working on one volume; names and limits; maps that vanish |
| **vSphere plugin manager** `vsphere_plugin/manager.py` | the plugin's registration | deploy, register, remove | vCenter, jobs | half-done deployment |
| **Persistence, settings, vault, command runner, other API** | rows, secrets | CRUD, SSH | | thin wrappers, pure I/O |
| **Frontend, Helm chart, Ansible** | | | the API | not part of the protocol |

What makes each part correct:

- *Migration*: data is never given up before it is somewhere else; a failed
  migration leaves the source as it was and restarted; a dry run changes
  nothing; copies that are said to be clean are; the two VMs of a move do not
  run together; every run ends.
- *Groups*: no more migrations in flight than asked for; a VM is not migrated
  twice at a time; canceling and failing stop what has not started; a recorded
  success is one; the group ends, also after restarts.
- *Jobs*: no row stays in progress without a task; verdicts of a job and of its
  migration agree and are never revised; a viewer is told the end, and not
  before it is recorded; a job that waits gets its turn.
- *Host groups*: the nodes of a cluster end in one host group, the one the
  connection names; a failure on the way does not split them; reconciliation
  removes what it was asked to and no host of a listed node; a reconciled cluster
  has nothing left to reconcile; a node that is not ready is not registered.
- *The migrated VM*: every captured disk arrives at the device the guest expects
  and the VM boots from the right one; a creation that fails leaves nothing
  behind and takes nothing of others with it; no volume is freed that a device is
  on.
- *Installation*: an install that answered ok is complete, and one that fails can
  be repeated until it is; nothing is defined before what it stands on; a
  teardown removes the definitions and no plugin under a live storage; what
  others run on the cluster is left alone.
- *Hypervisor row*: what an operator set is not undone by an operation that
  started earlier; the status tells what is on the cluster; the assessment the
  monitor keeps settles on the truth.

## 2. The modules

| Module | What it is | Source |
|---|---|---|
| `ColdCutover` | abstract specification: what a migration promises about the data | none: a promise |
| `Migration` | one migration, every step of the saga and of its rollback | `migrate/service.py`, `migrate/steps.py`, the calls it makes in `connectors/*` and `flasharray/client.py` |
| `MigrationProofs` | theorems about `Migration`: data, dry runs, the refinement of `ColdCutover` | |
| `MigrationRollbackProofs` | theorems about `Migration`: rollback, and what runs beside what | |
| `MigrationGroups` | one group: row, scheduler, runner, member tasks, requests, restarts | `migrate/service.py`, `jobs/scheduler.py`, `api/migrations.py`, `jobs/reconcile.py` |
| `MigrationGroupsProofs` | theorems about `MigrationGroups` | |
| `JobEngine` | jobs, their `Migration` rows, log streaming, reconciliation | `jobs/manager.py`, `jobs/reconcile.py`, `api/jobs.py`, `api/migrations.py`, `migrate/service.py` |
| `JobEngineProofs` | theorems about `JobEngine` | |
| `HostGroups` | a cluster's nodes as hosts of an array: registration, assessment, reconciliation, pruning | `flasharray/client.py`, `connectors/base.py`, `connectors/{proxmox,xcpng,hpevme}/connector.py`, `api/service.py` |
| `HostGroupsProofs` | theorems about `HostGroups` | |
| `VmParts` | the state of a VM being rebuilt at its destination: devices, volumes, what the connector remembers | `migrate/spec.py`, `migrate/service.py`, `connectors/*` |
| `VmSource` | `capture_vm_spec` of the seven connectors and the staging of VMFS disks | `connectors/*/connector.py` |
| `VmOnDemand` | creation and deletion where disks are made one at a time: Proxmox, XCP-ng, Nutanix | `connectors/{proxmox,xcpng,nutanix}/connector.py` |
| `VmProvisioned` | creation and deletion where the VM comes with its disks: HPE VME, OpenShift, OpenStack | `connectors/{hpevme,openshift,openstack}/connector.py` |
| `VmVsphere` | creation, conversion and deletion on vSphere | `connectors/vsphere/connector.py` |
| `VmRebuild` | the five above composed: one migration between any two platforms | `migrate/service.py` |
| `VmRebuildProofs` | theorems about `VmRebuild` | |
| `InstallParts` | the state an installation shares: parts of nodes, things of the cluster, calls and their answers | `jobs/runner.py`, `connectors/base.py` |
| `InstallHosts` | installation, reconciliation and teardown node by node: Proxmox, XCP-ng, HPE VME | `connectors/{proxmox,xcpng,hpevme}/connector.py` |
| `InstallClusters` | installation and teardown through a manager: OpenShift, OpenStack, vSphere | `connectors/{openshift,openstack,vsphere}/connector.py` |
| `Installation` | the wizard, an operator who retries, nodes that join: the two above composed | `api/service.py` |
| `InstallationProofs` | theorems about `Installation` | |
| `HypervisorRow` | a hypervisor's database row and its writers: operations, wizard, requests, monitor | `api/service.py`, `api/hypervisors.py`, `jobs/monitor.py` |
| `HypervisorRowProofs` | theorems about `HypervisorRow` | |
| `MCMigration`, `MCMigrationGroups`, `MCJobEngine`, `MCHostGroups`, `MCVmRebuild`, `MCInstallation`, `MCHypervisorRow` | instances for TLC | |

The first three machines are layers of one system and each abstracts the next one
down. A migration that `MigrationGroups` launches is a record that turns into
one of the verdicts `Migration` ends in; it ends because `Migration` terminates
(checked there), which is what justifies the fairness `MigrationGroups` assumes
of it. The operation a `JobEngine` job runs is likewise reduced to the lines it
logs and its verdict. `MigrationGroups` in turn abstracts `JobEngine`'s tasks to
two facts: a job ends, and it may leave its `Migration` row pending ("stuck").
`HostGroups` stands beside them: its jobs are the connector actions that a
hypervisor's operations run. `VmRebuild` opens up the calls that `Migration`
treats as one answer each: where `Migration` says "the destination VM exists",
`VmRebuild` says which devices it has, what is on them and what a connector will
find again when it must remove it. `Installation` comes before all of them: it
puts the nodes in the state the others start from, and its `Register` is the
whole of what `HostGroups` takes apart.

### 2.1 Migration

`pc` names the step of `MigrationService.run` about to execute; each step is an
action named after the method (`_quiesce_source` is `QuiesceSource`, and so on),
and ends where the coroutine waits for something the outside world may change
meanwhile. The per-disk loop is `CreateManagedDisk`, `ReplicateVolume` and
`CopyVolume` with the index `next`. `stack` is `RollbackStack._entries`;
`Unwind` pops one entry and runs its compensation. `SettleSource` and
`SettleDest` are the guests: a VM asked to stop does so later or ignores it, a
VM asked to start may fall back.

A connector call ends in an *answer*: it was done, refused (a failed
`OpResult`), raised, raised after it took effect ("late"), or did nothing and
answered ok ("silent"). Which of these a platform gives was read from the
connectors. OpenShift, Proxmox, XCP-ng and OpenStack do not look at the exit
status of some stop, start and delete commands, and form the set `Silent`;
vSphere waits for the power-off, stages VMFS disks through scratch clones and
frees volumes best-effort (`VSphere`); Nutanix and HPE VME raise. The data is
abstracted to what a volume holds: nothing, a blank volume, a crash-consistent
or a clean copy. `opt` is the run's request together with the traits of its
environment; it never changes.

A crash of the process at any point of a migration needs no action of its own:
it is a behaviour that stops there, nothing of the saga is resumed, and every
safety property holds in every state.

### 2.2 MigrationGroups

`row` is the group's database row. A request, a scheduler cycle, a runner and
each `_group_update_member` read it, wait, and commit: each is two or three
actions (`RunNow`/`RunCommit`/`KickNow`, `SchedulerRead`/`SchedulerCommit`/
`SchedulerKick`, `RunnerRead`/`RunnerCommit`/..., `UpdateRead`/`UpdateWrite`),
with what it read kept in between. `Flush` is what an ORM session commits: only
the columns that differ from what it read. `active` is `_active[group]`,
`StartRunner` and `DoneCallback` are `kick` and the lambda it registers. The
event loop runs a done-callback right after the task, except for coroutines that
were ready before it: `opt.lag` lets a kick be one of those. `Restart` drops all
tasks and fails the unfinished migrations (`reconcile_orphaned_jobs`).

### 2.3 JobEngine

`task[j]` follows one request from the guard of `create_migration` through
`run_migration`, `create_and_run` and `_run` to the publication of `__END__`.
`Enter` is the semaphore, in FIFO order. A database error may hit any write
(`Fault`, bounded); each error goes where the code's `try` blocks send it.
`client[c]` is `stream_logs`: it reads the row and replays, then (a separate
step, after the session closed) subscribes, then forwards lines. `Restart` is
the end of the process followed by `reconcile_orphaned_jobs`.

### 2.4 HostGroups

`host` is the array: the initiators each host holds, one host per initiator, and
the group it is in. A job is `register_hosts` or `reconcile_cluster`; `pc` names
the call to the array or to the nodes about to be made, and between two of them
the cluster, the nodes' fitness and the array may change (`ClusterChanges`,
`NodeChanges`, `AdministratorAddsHost`). `Match`, `Decide`, `CreateHost`,
`CreateGroup` and `AddMember` are `_register_host_group`; `ReadMembers` and
`Score` are `assess_cluster`; `Prune`, `RemoveMember` and `DeleteHost` are
`_prune_departed_fa_hosts`. Any call may raise.

The platforms differ in the names they give and in what a reconciliation does
about a registration that failed. A name is a structure here (a node, bare or
after a group's name; a group alone; or one chosen by hand), since which names
coincide is what the assessment depends on: `ClusterName`, `NewName` and `Known`
are the three naming schemes. `opt.garbled` lets a node list come back
unreadable, which the connectors take for a cluster of one.

`find_host_by_initiator` and `get_host` are one step (a change between the two is
as one before both, or makes the second raise), and so are the reads of all
nodes' initiators. Left out: NFS, which registers nothing; initiators and names
typed into an action's fields; dry runs, which stop before the array is touched;
and the parts of a reconciliation that install the plugin and the transport,
except that they may raise.

### 2.5 VmRebuild

A migration is followed through the calls of one source and one destination
connector: `capture_vm_spec`, staging, `_ensure_unique_dest_name`, `create_vm`,
`create_managed_disk`, the copy, `finalize_destination_disks`, conversion, boot
order and start, or the rollback's `delete_vm`. `opt` names the two platforms and
the request. The question is about *identity*: a disk is known by its place in
the captured spec, by its order (the number in its slot on Proxmox and OpenShift,
a running number elsewhere), by the device it becomes, and by the volume made
for it; the code goes from one to the other in different ways per platform
(`memory` is `_mig_disks` and `_provisioned_disks`, `noted` the remembered
instance). `hw` are source VMs whose disks are numbered with gaps, out of order,
twice, are on another bus than SCSI, or lie on storage that is not an array's.
Contents are the number of the source disk that was copied. The bus is kept for
what Proxmox makes of it as a destination: every disk goes to `scsi<order>`, but
the boot order is set by slots named after the bus at the source (`OnScsi`), and a
slot that does not exist is a failure, after which the migration is undone.
Nothing else reads a bus: the match of a source's device key in vSphere's boot
order can only choose the disk that the position chooses.

The seven destinations are three shapes, one module each. `others` is what
belongs to other people at the destination: a sibling migrated before, a VM of
the same name, a VM that took the id `qm create` was about to use
(`NeighbourTakesId`). A call's answers are those of section 2.1 under other
names: `Checked` calls fail or fail late, `Unchecked` ones (`check=False`) pass
unnoticed, and `missed` remembers that effect and answer have differed.

### 2.6 Installation

`has[n]` are the parts of node *n* (packages, plugin, daemons restarted since,
initiator, session, multipath, plug of the SR), `made` the things of the cluster
or its manager and how many of each (0, 1 or more), `registered` the nodes with a
host on the array. A connector's procedure is a sequence of calls; `pc` names the
one to be made, and each is an action: on the node a loop is at (`at`) or once for
the cluster. `Give`, `Take`, `Build`, `Ask` and `Register` are the five kinds of
call, and `Each`, `NextNode` and `Goto` the control between them. A call that
raises ends the procedure and leaves what was done before. What can come of a call
depends on how it is made: an SSH command with `check=False` passes a bad exit
status and a timeout, but a connection that is refused or lost still raises
(`Unchecked`); a local command with `check=False`, or an exception that is
swallowed, passes in every case (`Unnoticed`), except that OpenShift logs in before
a step's first command (`Session`). `missed` says that some effect differed from its
answer, `blind` that this happened to a call in `LookFirst`: a listing whose failure
looks like an empty list, or the forgetting of an SR that a new one replaces.

What belongs to others is `others` and, on OpenShift, `made["foreign"]`, a Portworx
that was there before. A teardown deletes one StorageCluster by name; `opt.reached`
says whose has that name and namespace, PHIF's own (not when a spec from Portworx
Central named it) or an adopted one. `opt.detached` is the operator that came
without a Subscription, and the vSphere plugin whose server is not named.

A reconciliation applies no interface binding: `setup_connectivity` is called with
the nodes only.

`Begin` starts the wizard's sequence, a reconciliation (for the nodes without a
host) or a teardown, `Retry` repeats an install that ended in an error, `Join`
adds a node between operations. `PxStarts` is Portworx coming up by itself.
Jobs of one hypervisor run one after another here. Nutanix installs nothing and
has no part. The fallback of an unreadable node list is in `HostGroups`.

### 2.7 Hypervisor row

`row[h]` is the row: whether it exists, its status and its state JSON (the opt-out,
the recorded assessment, the last inputs). `visit[v]` is a database session: the
row as it was read (`copy`), as the session has it now (`new`), and the connector
calls still to make; `monitor` is the one session of a monitor's cycle, with every
row as read at its start. `world[h]` is the cluster: how much of the integration is
on it (none, part, all), and has its membership changed.

`Load` reads the row, `Dispatch` is one call of the connector: `Answer` (success,
with all of the step's work done or with a call that failed unnoticed) or `Refuse`
(a failure or an exception). A step that fails may have done any part of its work
(`Stopped`): a deploy that raises may leave nothing, part, or everything behind, and
so may a teardown. A teardown that answers may pass over what it was to remove on the
hypervisors in `Keeps` (HPE VME leaves all of it, vSphere a plugin whose server is
not named). `Commit` writes the columns whose values differ from
those read and is a failure when the row is gone. `BeginCycle`, `Skip`, `Assess`,
`Store` and `EndCycle` are the monitor's. `Delete`, `Drift` and `Restart` come from
outside. `history` is kept for the properties only: the operator's last wish,
whether jobs overlapped, and `causes`: why the status may be wrong since a deploy or
a teardown last did all of its work. Which parts of an integration are left where is
the subject of `Installation`; here it is only how much.

## 3. What the runs check

| Run | Question | Distinct states |
|---|---|---|
| `migration` | Is a migration safe whatever the platforms answer, does it end, does it implement `ColdCutover`? | 438 thousand |
| `groups` | Does a group keep its promises under requests, restarts, timeouts and stuck jobs? | 526 thousand |
| `jobs` | Are jobs recorded, finished and followed correctly under database errors and a restart? | 240 thousand |
| `host_groups` | Do registration and reconciliation keep cluster and array in step, whatever fails or changes on the way? | 2.4 million |
| `rebuild` | Is the VM at the destination the one that was captured, and is a failed one removed without a trace? | 126 thousand |
| `installation` | Can an installation be interrupted anywhere and repeated, extended and torn down? | 244 thousand |
| `hypervisor_row` | Do jobs, requests and the monitor keep the row true while they overwrite it, and whatever their steps leave behind? | 1.4 million |
| `group_double_launch`, `hosts_pruned`, `rebuild_sweep`, `rebuild_overwrites`, `whole_vm` | the statements of section 6, each refuted by a trace | |

`migration` checks ten properties. The ones that took thought:

- `NoDataLoss` relates the source volumes, the destination volumes and the
  existence of the destination VM, at every step and through every rollback.
- `EradicationFollowsRemoval` excepts the platforms that answer ok for a delete
  that did nothing. There the code does eradicate the volumes of a VM that still
  exists; the exception is by name so that nothing else hides behind it.
- `RollbackIsComplete`: what `unwind()` reports as undone is undone, and the
  source is asked to start again. Its conditions are the cases in which it cannot
  know (a refused start is not an exception, a silent platform lies).
- `NoDoubleBoot` holds until a rollback starts. In the rollback the source is
  restarted before the destination is torn down (last in, first out).
- `BootsOnlyComplete`: no VM is started on disks that were not all copied, nor, where
  the platform said that the source was off, on copies a running guest was still
  writing.
- `ImplementsColdCutover` maps the saga to the abstract cutover: every disk
  arrives, then the commit, then the source is given up.

`groups`: `WithinConcurrency` counts the migrations in flight, and those of one
member, over runners, re-runs and restarts (a timeout gives the slot away while
the migration still runs; the property says so by its condition).
`LaunchesStop` bounds what starts after a cancellation by the tasks that had
already passed the check, and says the same of a failure.
`RecordsAreTrue` ties the group's record, written back whole by several tasks, to
the migrations that really succeeded, and leaves no member shown in flight when a
group has ended by itself. `GroupFinishes` is about what is left when everybody
has gone.

`jobs`: `NoOrphans` and `VerdictsAgree` relate the `Job` row, the `Migration` row
and the task; `EndMeansRecorded` relates what a viewer was told to what is
recorded; `VerdictsAreFinal` is an action property over restarts too;
`WaitingJobsEnd` and `FollowersEnd` are the liveness of the semaphore and of the
log stream, whatever the database does after the start of a job.

`host_groups`: `NeverSplits` is about every step of a registration, those before a
failure included; `RegisteredTogether` adds that the connection names the group.
`ReconcileSettles` compares a cluster with its group after a reconciliation that
took many calls. Its condition (`Conventional`) lists what the code does not
cope with: hosts reused under names the assessment does not know, members of other
groups, the name of a former cluster of one, a Proxmox node that was registered
when it stood alone, and a node that does not answer (on Proxmox it keeps the
others from being registered, and the failure is not looked at).  All three are
about arrays on which no host is without initiators at the start of the job
(`whole`): such a host is found by its name, with whatever group it is in, and the
code does not look at that group.  An earlier job of the same hypervisor leaves one
behind when it registers an XCP-ng node whose initiators it could not read, so this
takes two jobs to come about.  `RemovalsSpareNodes` holds under every interleaving.

`rebuild`: `RebuildComplete` says of a VM, after some fifteen calls on two
platforms, that its devices, their contents and its boot device are those
captured, for sources numbered in every awkward way and on any bus. On Proxmox a
source disk on a bus other than SCSI never gets that far: the migration is undone,
and `RollbackLeavesNothing` speaks of it (section 6). `RollbackLeavesNothing` is
its counterpart for a run that failed at any call: nothing is left but what
`KnownLeak` names, each with its cause in the code. `FreedVolumesUnused` is an
action property: no step frees a volume a device of the VM, or its home, is on.

`installation`: `OkMeansConfigured` looks at the cluster after an install that
answered ok, however many attempts it took and wherever they stopped, and after a
reconciliation of nodes that joined. `RetriesSucceed` is its liveness: an operator
who repeats the install gets there once calls stop failing; `Attainable` names the
setups in which the code does not. `DefinedOverPlugin` is about the order of effects
within every attempt, joining nodes and teardowns included. `AddsOnlyItsOwn` holds
through failures, through calls that took effect and were reported as errors (the SR
whose creation timed out is found and taken by the next attempt) and through those
that failed unnoticed. It has two exceptions. A look that failed unnoticed (`blind`)
is followed by nothing that would notice: an unreadable `cinder.conf` costs the
backends of others their place on the list. And a teardown deletes an adopted
StorageCluster that has the name it deletes (`AdoptedDeleted`). `TeardownRemoves`
speaks of what a teardown names: it excepts what is `detached`, Portworx under a
name that `opt.reached` does not have, the only backend on Cinder's list, and HPE
VME, which says that it removes nothing.

`hypervisor_row`: `RowIsTrue` has two parts. Nothing locks the row, so a wish
committed while a job or a cycle is under way may be lost; `WishesStand` is what
remains: a wish on record while nobody held an older copy survives whatever begins
later (section 6 has the other half). `StatusTells` compares the status with what is
on the cluster over sequences of operations whose steps may stop anywhere.
"Deployed" means that all of the integration is there, and "not_deployed" that none
of it is, unless two jobs overlapped, a restart cut one off, or one of `causes` has
come up since a deploy or a teardown last did all of its work. Each cause is a place
where the code's bookkeeping cannot know: an error that a success elsewhere cleared
(a validation makes a failed deploy "deployed"), a deploy or wizard that raised, a
teardown that failed, a call that failed unnoticed, a teardown that passed over
something, a reconciliation that put the plugin on nodes, and the removal of an NFS
SR, which reports the same status. For each status only the causes that can make it
wrong are excepted. Connectors that do not report a removal are left out.
`AssessmentSettles` holds although the monitor overwrites rows with stale ones and
loses its cycle to a deleted row, because every later cycle reads anew and compares
with what it reads.

Every property of a passing run has a mutation in `PROJECT.json`: an operator
that stands beside the definition it replaces, commented "Fault", with a mistake
one could make in that code, and which the run then reports.

### Bounds

- `NDisks = 2`: the first and the last disk differ, and one may be done while
  the other is not. The theorems cover every number.
- `StartAttempts = 2`: one retry that may meet a VM coming up from the first.
- `MCOptions` of `MCMigration` leaves out combinations whose difference no step
  reads (the comments on each line); every mode, failure kind and platform kind
  occurs.
- `NMembers = 2`, `concurrency` 1 and 2, `MaxLaunches = 3`: each member launched,
  and one again. `Slots` is two runners: the most that can overlap after one
  late callback. `requests` and `restarts` are bounded by option records: two
  requests on a sequential group, one on a parallel one, a restart with a
  request, and a restart with late callbacks; the product is out of reach.
- `Jobs`: a migration and another operation on one slot (`MaxConcurrent = 1`), so
  that one waits for the other's end; one viewer; `MaxFaults = 2`, which is what
  it takes to lose both the verdict and the failure record; one restart.
- `NNodes = 2`, two host groups: the node the connection names and another, of
  which each may be in the cluster or not, ready or not, and have a host of a
  conventional, single or other name in either group, in none, or no host. One
  job and one outside change at any point of it: every arrangement that an
  earlier job could leave is an initial state, except hosts without initiators,
  which the properties except as well. What the theorems add is two jobs at once and
  everything larger.

- `rebuild`: `NDisks = 3`, so that one disk of a VM may be first, last or between,
  numbers may have gaps, and a clean-up may meet a gap with something behind it;
  `MaxFaults = 2`, a failure of the run and one of its clean-up. `MCRuns` has
  every source with every destination, and the options (move, VMFS, hot copy,
  conversion, vVols, names that collide) on the routes that read them.
- `installation`: `NNodes = 2`, the first and a later node of a loop, one of which
  may join after the install; `MaxFaults = 2`, a failed install and one fault of
  the next attempt; `MaxOps = 3`, which is install, then two of reconcile,
  teardown and install again, with any number of retries. `MCSetups` has, for
  platform, each transport and option that a branch of it reads; on OpenShift a
  Portworx of PHIF's, of Central's name, or of others, whose StorageCluster has the
  name a teardown deletes or another.
- `hypervisor_row`: two sessions beside the monitor's, so that two jobs may overlap.
  `MCStarts` has three courses: on one hypervisor, three jobs or requests without a
  failure (two that overlap and one after them), or two with a failure or restart and a
  change of membership (a deploy that fails and what clears its error); on two, one
  operated and one only monitored, one job with a failure and a change of membership,
  so that a cycle has another row before or after the one in question, and that row may
  be deleted. A row may be deleted at any point of each. All of it at once is out of
  TLC's reach; for the two safety properties the theorems cover any number of
  everything.

Deadlock checking is off in every run but `rebuild`, where `Finished` lets an
ended run stand still: migrations, groups, jobs and registrations are meant to
come to an end, and an installation has no more operations to begin.

### Fairness

- `Migration`: weak fairness of `Step`, the coroutine as a whole. The event loop
  resumes a coroutine whose await is done, and every await in the saga is bounded
  by a client timeout or an attempt count. Nothing is assumed of the guests.
- `MigrationGroups`: weak fairness of the scheduler's polling task, of the request
  being served, of each runner and each member task (each is a coroutine of the
  loop), and of the end of each migration (`Terminates` of `Migration`). Users and
  restarts are not fair.
- `JobEngine`: weak fairness of each task, and of each WebSocket handler as a
  whole. Requests, errors and restarts are not fair.
- `HostGroups` states no liveness, and no fairness: every call may raise.
- `VmRebuild` states no liveness; a run that could stand still before its end would
  be a deadlock.
- `Installation`: weak fairness of `Steps`, the job that runs, and of `Retry`, the
  operator of whom `RetriesSucceed` speaks; nobody is made to begin anything.
  Faults are bounded, which is the assumption that calls stop failing.
- `HypervisorRow`: weak fairness of each session that is under way and of the
  monitor's loop, which catches what a cycle raises and sleeps again; monitoring
  is switched on in the settings. Nobody has to ask for anything.

## 4. What is proved

Eight modules hold theorems, one or two for each of the machines named above; TLAPS
checks them for every value of the constants. The assumptions are those the
machines' modules declare, by name, and TLC evaluates them in every run.

Each argument is one inductive invariant `IInv`, whose parts are named, and each
proof that a step preserves it has a step for each action. The invariants were
checked by TLC on the instances of the runs, and on others that no run has,
before they were proved. That uncovered two behaviours the runs are too small for;
they are described with `HostGroups` below.

### Migration

For every number of disks, every set of platforms and options, and every answer:

| Theorem | Module | Statement |
|---|---|---|
| `TypeCorrect` | `MigrationProofs` | `Spec => []TypeOK` |
| `DataSurvives` | | `Spec => []NoDataLoss` |
| `VolumesFollowVm` | | `Spec => []EradicationFollowsRemoval` |
| `RollbackSafe` | | `Spec => []RollbackKeepsSource` |
| `DryRunIsIdle` | | `Spec => DryRunChangesNothing` |
| `Refinement` | | `Spec => ImplementsColdCutover` |
| `OneVmRuns` | `MigrationRollbackProofs` | `Spec => []NoDoubleBoot` |
| `BootIsSafe` | | `Spec => []BootsOnlyComplete` |
| `RollbackUndoesAll` | | `Spec => []RollbackIsComplete` |

Assumptions: `SizeAssumption` (there is a disk, the number of attempts is a
number), `PlatformAssumption` and `OptionAssumption` (only a vSphere source has
VMFS disks: `prepare_source_disks` is a no-op elsewhere).

The first invariant is `IInv == TypeOK /\ Safe /\ DryRunIdle`
(`Invariance`). None of the properties is inductive alone. `NoDataLoss` needs to
know, when the source is given up, that every disk has been copied and the
destination exists; `CopiesComplete` says so for each stretch of the saga, and
inside the loop for the disks it has passed. That a copy has content needs, for
a VMFS source, that the clones do (`ClonesHoldData`), and for a cross-array copy
that the replicated snapshot does. `SourceGivenUp` says that nothing leads from
the finalization back to the rollback and that the volumes go after the VM;
`LoopIndex` and `LaterDisksAbsent` keep the loops inside the disks and are what
the refinement needs to see an abort as one step. `DryRunIdle` says which steps
a dry run never enters. The refinement maps each action to a step of `ColdCutover`
or to a stutter, using `IInv` before and after.

The second, `RollbackInv`, stands on the first. `SourceQuiet` says that nothing but
a rollback starts the source again, so that what was off when the copies began is
off when the destination boots; with it `CopiesClean` and `BootedAfterCopy` give
`BootsOnlyComplete` and `NoDoubleBoot`. `UndoCovers` is about the stack: the VM to
remove is its first entry, and whatever a rollback has to undo has an entry, as
long as a call that fails had no effect and no compensation has failed.
`RestartCovers` is the same of the source's restart: it is pushed before the first
disk is made, and after it was popped the source is on its way up. Both together
say of a rollback that has emptied the stack what `RollbackIsComplete` says.

### MigrationGroups

For every number of members, runners, launches, and every set of option records:

| Theorem | Statement |
|---|---|
| `TypeCorrect` | `Spec => []TypeOK` |
| `RecordsTrue` | `Spec => []RecordsAreTrue` |
| `LaunchesStopped` | `Spec => []LaunchesStop` |
| `ConcurrencyKept` | `Spec => []WithinConcurrency` |
| `OneRunner` | `Spec => [](~opt.lag => NeverDoubleLaunched)` |

Assumptions: `BoundAssumption` (there is a member; the bound is a number),
`OptionAssumption`, `SlotAssumption` (0 is nobody's slot).

`OneRunner` is the other half of `group_double_launch`: late callbacks are not only
enough for a second runner, they are what it takes. Its invariant, `Single`, says
more: without them the registered runner is the only one, and of all the updates of
members one at a time is between its read and its write, because it holds the
group's lock. On `Single` rests `RecordingsDue`: a member recorded as running, in
the row or in a copy of it about to be written back, has a task that will still
record its end. `SuccessesTrue` says that every success in the row, and in every
copy of it that a request, a runner or an update may write, is of a VM that was
migrated; it needs no condition, since a stale copy can take a success back but not
invent one. `SlotsBounded` counts the members a runner has in flight against the
semaphore, and those that may still launch after a cancellation or an error;
`AllAwaited` says that without timeouts every migration under way has a task that
waits for it, so that counting tasks counts migrations (`TasksFit` and `Counted` tie
a task to its migration and a migration to its launch).

### JobEngine

For every set of requests and viewers, every number of slots, and any number of
database errors and restarts:

| Theorem | Statement |
|---|---|
| `TypeCorrect` | `Spec => []TypeOK` |
| `NothingIsOrphaned` | `Spec => []NoOrphans` |
| `RecordsAgree` | `Spec => []VerdictsAgree` |
| `ToldWhatIsRecorded` | `Spec => []EndMeansRecorded` |
| `VerdictsStand` | `Spec => VerdictsAreFinal` |

Assumptions: `EntryAssumption` and `BoundAssumption` (the bounds are numbers and
there is a slot). The inductive invariant is `IInv == TypeOK /\ (\A j \in Jobs :
Follows(j)) /\ Queued /\ (\A c \in Clients : Told(c))`. `Follows` ties both rows and
the log to the place a job's task has reached: `RowFollows` and `MigFollows` hold
with errors too where the code writes before it goes on, and only while `faults = 0`
where a failed write is given up, which is why three of the properties are about a
working database and `VerdictsAreFinal` is not. `Counted` bounds the lines emitted
at each place, so that no log passes its type. `Queued` says that the semaphore's
queue holds distinct tasks, all of them waiting, without which the one that enters
could be anywhere. `Told` says of a viewer that the end is among the lines it got or
is about to get only if the job has its verdict; with `LogFollows` it gives
`EndMeansRecorded`. Every step of a job keeps `Follows` of that job (`JobKeeps`, one
step per action) and leaves the others alone (`OtherJobs`); it revises no verdict
(`JobFinal`), keeps the queue (`JobQueue`) and tells viewers nothing early
(`JobTells`). A restart is `RestartKeeps`.

### HostGroups

For every number of nodes, set of group names and of jobs, any number of starts and
of outside changes:

| Theorem | Statement |
|---|---|
| `TypeCorrect` | `Spec => []TypeOK` |
| `Together` | `Spec => []RegisteredTogether` |
| `Settles` | `Spec => []ReconcileSettles` |
| `NodesSpared` | `Spec => RemovalsSpareNodes` |
| `NoSplits` | `Spec => NeverSplits` |

Assumptions: `SizeAssumption` (there is a node; the bounds are numbers),
`OptionAssumption` and `GroupAssumption` (there are finitely many group names, and
none of them is one of the words the model uses otherwise; `Cardinality` of the
groups seen is meaningless without it).

`Rooted` says that a host holds the initiators of at most the node its name is made
for: the naming schemes never let two nodes meet in one host (`NodeOf`). `AllFit`
says three things of each job. `Shapely`: how far it is tells what it has gathered
(among others that the hosts it will remove are under no name of a listed node,
whoever interferes; this is all that `NodesSpared` needs). `Sound`: what a
registration that nobody interfered with knows of the array at each of its calls:
the hosts it matched are all there are of its nodes and lie in the groups it saw, so
after `Decide` in the one it adopts or in none (`Agreed`), every host is where it
will be looked for (`Placed`), and those the loop has passed are members (`Joined`).
`Reconciled`: the same of a reconciliation of a conventional cluster, from the
assessment (every ready node is about to be registered or has its host in the group)
to the removals (every other member is doomed). Any step of another job or of the
outside ends what `Sound` and `Reconciled` say, which is `DisturbedFits`.

Two conditions of the properties come from proof attempts that failed, which TLC
then confirmed on instances wider than the run (two jobs after each other):

- *A host without initiators.* XCP-ng registers a node whose initiators it could not
  read all the same, and puts the empty host into the group. If a later registration
  adopts another group, it finds that host by its name; `create_host` and the
  addition to the group both take "already" for success, and the node ends in the
  group it was in, although `_register_host_group` says it will "ensure the effective
  group contains all" (`flasharray/client.py:1199`). Hence `whole`, in all three
  properties about groups.
- *A node that stood alone.* A Proxmox node without a cluster is registered under the
  address of the connection. Once the cluster grows it is listed by its name, its host
  counts as departed, and a reconciliation with removals deletes it although the node
  uses it. Hence the wording of `Conventional`, which is about names by which nodes of
  a cluster are looked for.

### VmRebuild

For every number of disks and of faults, every set of source VMs, and every set of
runs, a run being two of the seven platforms and the options of a request:

| Theorem | Statement |
|---|---|
| `TypeCorrect` | `Spec => []TypeOK` |
| `Rebuilt` | `Spec => []RebuildComplete` |
| `RolledBack` | `Spec => []RollbackLeavesNothing` |
| `FreedUnused` | `Spec => FreedVolumesUnused` |
| `Invariance` | `Spec => []IInv` |

Assumption: `PartsAssumption` (there is a disk, the bounds are numbers, the runs are
runs, and a source VM has at least one disk and at most `NDisks`).

`RebuildComplete` speaks of the end only, after a run that has gone from the disks of
the source to the captured spec, from there to volumes, to what the connector
remembers, to devices, and has copied in between. The invariant says at each step how
far that is:

- `Frame` is the loops: where each step may come, how many volumes have been handed
  back by then (`dest`), and that nothing is known of a VM before `create_vm` has
  returned. `Untouched` and `Bodies` say what cannot be there yet, or any longer.
- `Provision`, `Attachment` and `Contents` tie a disk to its place in the spec, while
  no answer has been missed and no two disks have one order. There are two shapes.
  Where disks are made one at a time, and on vSphere, the devices are those of the
  disks passed so far, each at the address of its order (`ByOrder`). Where the VM comes
  with its disks, there is one device at each of the first addresses (`OnePerAddr`), and
  what the connector remembers leads from the order of a disk to its volume
  (`Recalled`). `Contents` adds that the volume handed back for the disk at place i is
  the i-th, with that disk's content once the loop has passed it, or converted to a
  VMDK.
- `Backed` is the part of it that needs no distinct orders: the volume about to be
  copied onto exists, and vVol disks are at the first units in their order.
- `Rollback` is what a clean-up would find if the run failed now: `Standing` has a
  clause for each way of finding volumes (with the VM, by name, by order, from memory),
  and every step that makes a volume must make it findable; `Disowned` says which VMs
  the service does not know and who removes them. Once the clean-up is over, `Cleared`
  is the property. `Leftovers` is the same of the account, the snapshot, the clones
  and the ports.

That `Captured` is a sequence of disks of the source with addresses, for each of the
seven connectors, rests on lemmas about sorting by rank: in a finite strict order the
ranks are the numbers below its size, each taken once (`Places`). The same lemmas give
the devices of the VMs that list their boot disk first, and the first free address
(`FreeAddr`). `Taken` counts the devices of a complete VM by a bijection with the disks.

Each action has a lemma, with one step for each part of the invariant; those of a
destination are given its sets of steps (`ProxmoxForm` and so on). The runs have three
disks and two faults. `FreedUnused` follows action by action: a step
that destroys volumes takes the VM along, keeps what the VM's devices are on, or, on
vSphere, comes when the VM is gone or its home has moved, which `Bodies` says.

### HypervisorRow

For every number of hypervisors and sessions at once, every wizard:

| Theorem | Statement |
|---|---|
| `TypeCorrect` | `Spec => []TypeOK` |
| `RowTrue` | `Spec => []RowIsTrue` |

Assumptions: `SetAssumption` and `BoundAssumption` (kinds of the constants; there is
a hypervisor) and `WizardAssumption`: the wizard of a connector whose teardown
reports a removal deploys something. The `wizard_steps` of those connectors do; with
a wizard that does not, "deployed" would be told of nothing.

`WishesKept` is the invariant behind `WishesStand`: if a wish was committed while
nobody held an older copy, then every copy of the row that may still be written, a
session's or the monitor's, agrees with it. `StatusesKept` follows the one session
that works on an undisturbed row: its copy is the row, what the row says is told of the
cluster or has its cause at every step in between (`Working`), and what it is about to
record is what its steps have left on the cluster (`Ended`). A step that stops may
leave any extent of its work, which is why the causes are part of the invariant. The
runs have two sessions beside the monitor; the theorem has any number.

### Installation

For every number of nodes, faults and operations, and every set of setups of the six
platforms:

| Theorem | Statement |
|---|---|
| `TypeCorrect` | `Spec => []TypeOK` |
| `Configured` | `Spec => []OkMeansConfigured` |
| `Teardown` | `Spec => []TeardownRemoves` |
| `AddsOnly` | `Spec => []AddsOnlyItsOwn` |
| `OverPlugin` | `Spec => DefinedOverPlugin` |

Assumption: `InstallAssumption` (there is a node and an operation, the bounds are
numbers, the setups are setups).

The invariant says, of each platform, what has been done by the time a call is about
to be made: `Dealt` of a part that a loop gives to the nodes one after another
(those passed have it, the one it is at, all of them afterwards), `Built` of a
thing, `Enrolled` of the registration. `Pos` is where an operation is, or how it
ended, so that the conjunct for the place after the last call, `ok`, is the
property. An install makes all of its calls each time it is repeated, which is why
nothing need be known of the attempts before it. Three platforms need more, because
they do not: XCP-ng must not create an SR when there is one (which it knows while no
look was `blind`), OpenShift passes over a Portworx that is there (so, of a Portworx
of PHIF's, a driver stands on a cluster, and a cluster on its operator and secret,
at all times; `Whole` says when a teardown leaves no part of it behind), and
OpenStack passes over a stanza that is there (so, as long as nothing has failed, a
stanza that is there is complete). `OkMeansConfigured` of a Proxmox reconciliation
needs that a defined storage has its plugin on every registered node, at all times,
since the new nodes are not the only ones in the scope in the end.

`AddsOnly` rests on `Single`, which holds under every answer while not `blind`: each
call that makes a second of something (`AppendStanza`, `XcpCreate`) comes after the
look that would have shown the first, and nothing between the two makes one. The
invariant of each platform says so for the calls in between.

Five lemmas say what a call of each kind does for every answer (`GiveFacts`,
`TakeFacts`, `BuildFacts`, `AskFacts`, `RegisterFacts`), and `FrameFacts` what every
call leaves as it must be. Each platform then has one lemma with a step for each of
its calls (`ProxmoxKept` and so on), which also shows that the step defines nothing
without its support (`Over`); the calls of one platform do not disturb the others
(`OnePlatform`).

### What stays with TLC

- Liveness under fairness (`Terminates`, `GroupFinishes`, `WaitingJobsEnd`,
  `FollowersEnd`, `RetriesSucceed`, `AssessmentSettles`): ENABLED is out of the
  prover's reach.
- The runs that expect a violation, which are traces.

## 5. Plan

In order of importance; each module is written so that it can be proved about
(constants with named assumptions, one action per operation, recursion only as
recursive functions).

1. *Done*: `ColdCutover`; `Migration`, `MigrationGroups`, `JobEngine`, `HostGroups`,
   `HypervisorRow`, `Installation` and `VmRebuild`, each with the theorems of
   section 4.
2. `VolumePlugin`: the host-side storage plugins: two hosts mapping, unmapping,
   snapshotting and deleting volumes of one array.
3. `HostGroups`, the rest: operator-typed names and initiators.

## 6. Where code and documentation disagree

Each of these is the property of a run in which TLC finds it violated.
`PROJECT.json` quotes the lines.

- `NeverDoubleLaunched` (`group_double_launch`): a late done-callback pops the
  next runner's registration, and the group gets a second live runner.
- `RemovesOnlyDeparted` (`hosts_pruned`): XCP-ng knows a node's host by one name
  only, and a reconciliation with removals deletes hosts in use that have another.
- `SiblingsKeepDisks` (`rebuild_sweep`): the clean-up of a failed creation on
  OpenShift selects PVCs by a label that every migrated VM's disks have.
- `NamesakeNeverLost` (`rebuild_overwrites`): a name is compared as captured and
  used as normalised, so another VM of the normalised name is replaced.
- `WholeVmMoved` (`whole_vm`): a disk on other storage is passed over, and a move
  then removes the source.

Others were met while modelling and have no run of their own; properties except
most of them by name:

- Proxmox makes every disk in a SCSI slot and sets the boot order by slots named after
  the source's bus (`proxmox/connector.py:2262`), so that a VM with a disk on virtio,
  sata or ide is copied in full and then undone, although the doc of `_pve_slot` calls
  the slots valid "even when the source platform isn't Proxmox" (1857).
- The teardown of OpenShift deletes one StorageCluster name and ignores that there is
  none (`openshift/connector.py:1702`): one that a Central spec named runs on, without
  its operator, and one of others that has the name goes. `TeardownRemoves` and
  `AddsOnlyItsOwn` except them (`reached`, `AdoptedDeleted`).
- The teardown of vSphere passes over the plugin when its server is not named
  (`vsphere/connector.py:1776`) and reports not_deployed, which its documentation
  does not say; `TeardownRemoves` excepts it (`detached`), `StatusTells` by its
  cause (`kept`).
- A `cinder.conf` that could not be read counts as empty (`openstack/connector.py:404`),
  and the backends of others go off `enabled_backends`; `AddsOnlyItsOwn` excepts it
  (`blind`).
- A deploy that raises leaves the row as it was (`api/service.py:205`; the comment:
  "A failed deploy leaves the integration in an error state"), with any part of the
  integration on the cluster, and so does a teardown that cannot reach a later node
  (`proxmox/connector.py:2394`); `StatusTells` excepts them (`raised`, `undone`).
- A job that read the row before an opt-out of monitoring was committed writes the
  state column back whole, without it (`api/service.py:203`); `WishesStand` speaks of
  wishes committed while nobody held an older copy.
- A repeated OpenStack deploy answers "already present" and skips what the first
  attempt did not get to (`openstack/connector.py:745`); the wizard records a
  deployed integration. `OkMeansConfigured` excepts OpenStack after a fault.
- The teardowns of OpenShift and OpenStack report no status that
  `api/service.py:162` takes, and the hypervisor stays "deployed".
- A validation or any operation that succeeds turns "error" into "deployed"
  (`api/service.py:169`, `api/hypervisors.py:198`), also after a deploy that never
  succeeded.
- Staging a VMFS source stops the VM before its power state is read
  (`migrate/service.py:428`), so a move leaves the destination off.
- `_await_power` takes "unknown" for the end of the wait (`service.py:132`), so
  the copy may start while the guest still writes; `BootsOnlyComplete` has this as
  its condition.
- Run-now writes back the members it read and may undo a success recorded since
  (`api/migrations.py:476`).
- The guard against a second migration of a VM (`api/migrations.py:327`) reads rows
  that are committed several awaits later.
- A job's log is saved when the job ends (`jobs/manager.py:109`), so a viewer of a
  running job never sees its earlier lines.
- HPE VME counts the name of a former cluster of one for every node, so nodes that
  joined it are not reported as new; `ReconcileSettles` excepts it.
- Removing the only Cinder backend leaves its name in `enabled_backends`: `grep`
  empties the list and `xargs -r` then runs nothing
  (`openstack/connector.py:1515`); `TeardownRemoves` excepts it.
- The vSphere wizard looks for a device "3624a9370..." among names that begin with
  "naa.624a9370" (`vsphere/connector.py:975`); `RetriesSucceed` excepts VMFS.
- `nvme connect` is an error on a node that is connected, so an install on Proxmox
  over NVMe-TCP that failed later cannot be repeated; `RetriesSucceed` excepts it.
- Two disks captured under one order are made, remembered and copied as one on
  OpenStack, OpenShift and HPE VME; `RebuildComplete` excepts such sources.

## 7. Not modelled

- Wording, logging, progress figures and schemas: no property is about them.
- SSH and subprocess transport (`jobs/runner.py`) beyond the answers a call can
  give, vault and settings.
- The planning views and the read-only requests of the API; the assessment,
  listing and discovery code of the connectors that changes nothing.
- Day-two storage operations of the connectors (datastores, QoS, snapshots,
  resizing a volume): single calls with no protocol.
- Of the hypervisor's row the name, the connection and the secrets, whose edits
  share the fate of the state column.
- The host-side plugins (section 5, item 2) and the vSphere plugin manager:
  programs deployed to other machines.
- The name clash of replication snapshots within one protection group: it is the
  array that refuses; the refusal is one of `ReplicateVolume`'s failures.
- Two connector jobs of one hypervisor at once: `Installation` runs them one after
  another. (`HostGroups` has them; its run has one, its theorems any number.)
- Frontend, chart and playbooks, which are clients or packaging of the above.
