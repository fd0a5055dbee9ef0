------------------------------ MODULE Migration ------------------------------
(***************************************************************************)
(* One VM's cold migration: MigrationService.run and its RollbackStack     *)
(* (phif/migrate/service.py and phif/migrate/steps.py), driving a source   *)
(* and a destination connector and the FlashArray between them.            *)
(*                                                                         *)
(* A step of the service is one action: it ends at the await after which   *)
(* another process (the guest shutting down, a VM coming up) can be seen.  *)
(* Every call to a platform may be refused, may raise, and may fail after  *)
(* it took effect; some connectors answer "ok" whatever happened.          *)
(***************************************************************************)
EXTENDS Naturals, Sequences

CONSTANTS
    NDisks,        \* number of disks of the VM (spec.disks)
    StartAttempts, \* the start_attempts option
    Platforms,     \* connector kinds a migration may run between
    Silent,        \* those whose stop/start/delete ignore the command's exit
                   \* status and always return OpResult.ok
    VSphere,       \* those that behave like the vSphere connector: VMFS
                   \* disks are staged, a failed start is a failed OpResult,
                   \* freeing a volume is best-effort
    Options        \* the option records a run may be started with

Disks == 1..NDisks
Power == {"running", "stopping", "stopped", "starting"}
\* What a volume, a clone or a replicated snapshot holds: nothing ("none": it
\* does not exist), no data yet, a crash-consistent copy, a clean copy.
Content == {"none", "blank", "fuzzy", "clean"}

OptionType ==
    [mode: {"move", "copy"}, cross: BOOLEAN, dry: BOOLEAN, convert: BOOLEAN,
     shutdown: BOOLEAN, powerOn: {"unset", "on", "off"}, allow: BOOLEAN,
     src: Platforms, dst: Platforms,
     on: BOOLEAN,       \* the source VM is running when the migration starts
     vmfs: BOOLEAN,     \* the source disks are files on a vSphere VMFS
     partial: BOOLEAN,  \* a call may fail AFTER it took effect
     known: BOOLEAN]    \* power_state never answers "unknown"

ASSUME SizeAssumption == NDisks \in Nat \ {0} /\ StartAttempts \in Nat
ASSUME PlatformAssumption ==
    Silent \subseteq Platforms /\ VSphere \subseteq Platforms
ASSUME OptionAssumption ==
    Options \subseteq {o \in OptionType : o.vmfs => o.src \in VSphere}

VARIABLES
    opt,       \* the run's options and the traits of its environment
    pc,        \* the step of MigrationService.run about to execute
    next,      \* the disk the current per-disk loop is at
    srcVm,     \* power state of the source VM, or "gone"
    srcDisk,   \* the disks the source VM runs on
    clone,     \* VMFS source only: the phifmig-src clone of each disk
    recorded,  \* spec.raw["vsphere_scratch"] names the clones
    dstVm,     \* "none", or the power state of the destination VM
    dstDisk,   \* content of each destination volume
    pgroup,    \* the replication protection group and the data in its snapshot
    linked,    \* the two arrays are connected
    stack,     \* RollbackStack._entries
    failures,  \* labels unwind() reports as failed compensations
    wasRunning, poweredOn, tries,
    result     \* the OpResult's data.phase

srcVars  == <<srcVm, srcDisk, clone, recorded>>
dstVars  == <<dstVm, dstDisk>>
arrVars  == <<pgroup, linked>>
undoVars == <<stack, failures>>
bootVars == <<wasRunning, poweredOn, tries>>
vars == <<opt, pc, next, srcVars, dstVars, arrVars, undoVars, bootVars, result>>

-----------------------------------------------------------------------------
(* Answers of the platforms.                                               *)

\* done: took effect, answered ok; refused: a failed OpResult; raised: an
\* exception; late: took effect, then raised; silent: no effect, answered ok.
Effect(a) == a \in {"done", "late"}
Raised(a) == a \in {"raised", "late"}

\* Fault: the success flag of the OpResult is not looked at.
OkUnchecked(a) == ~Raised(a)
Ok(a) == a \in {"done", "silent"}

\* What a connector call of platform p may end in.
ConnectorCall(p) ==
    {"done", "refused", "raised"}
        \union (IF opt.partial THEN {"late"} ELSE {})
        \union (IF p \in Silent THEN {"silent"} ELSE {})

\* A FlashArray REST call: never silently ignored, never a failed OpResult.
ArrayCall == {"done", "raised"} \union (IF opt.partial THEN {"late"} ELSE {})

\* power_state of a VM in state s.
PowerReads(s) ==
    {IF s \in {"running", "stopping"} THEN "running" ELSE "stopped"}
        \union (IF opt.known THEN {} ELSE {"unknown"})

\* A stop that took effect: vSphere's waits for power-off, others may return
\* while the guest is still shutting down.
Stopped(p, s) ==
    IF s = "stopped" THEN {"stopped"}
    ELSE IF p \in VSphere THEN {"stopped"} ELSE {"stopping", "stopped"}

\* A start that took effect.  A VM that still reads "running" while it shuts
\* down is "already running" to most connectors, which then do nothing.
Started(s) ==
    IF s = "stopped" THEN {"starting"}
    ELSE IF s = "stopping" THEN {"stopping", "starting"} ELSE {s}

-----------------------------------------------------------------------------
(* Derived views.                                                          *)

\* Fault: only the shutdown_source option is consulted.
QuiescesOnRequest == opt.shutdown
Quiesces == opt.mode = "move" \/ opt.shutdown
HotClone == opt.mode = "copy" /\ ~opt.shutdown

\* The content read from disk d's volume now: clean only if nothing writes.
SourceContent(d) ==
    IF opt.vmfs THEN clone[d] ELSE IF srcVm = "stopped" THEN "clean" ELSE "fuzzy"

Copied(d) == dstDisk[d] \in {"clean", "fuzzy"}

ShouldPowerOn ==
    IF opt.powerOn /= "unset" THEN opt.powerOn = "on"
    ELSE opt.mode = "move" /\ wasRunning

\* Fault: the source is finalized in a dry run too.
FinalizeAnyRun == IF opt.mode = "move" THEN "deleteSource" ELSE "finish"
Finalize     == IF opt.mode = "move" /\ ~opt.dry THEN "deleteSource" ELSE "finish"
AfterPowerOn == IF opt.cross THEN "cleanReplication" ELSE Finalize

Push(undo)         == stack' = Append(stack, undo)

Init ==
    /\ opt \in Options
    /\ pc = "preflight"
    /\ next = 0
    /\ srcVm = IF opt.on THEN "running" ELSE "stopped"
    /\ srcDisk = [d \in Disks |-> "live"]
    /\ clone = [d \in Disks |-> "none"]
    /\ recorded = FALSE
    /\ dstVm = "none"
    /\ dstDisk = [d \in Disks |-> "none"]
    /\ pgroup = "none"
    /\ linked \in BOOLEAN
    /\ stack = << >>
    /\ failures = {}
    /\ wasRunning = FALSE
    /\ poweredOn = FALSE
    /\ tries = 0
    /\ result = "none"

-----------------------------------------------------------------------------
(* Steps up to the destination VM.                                         *)

\* A step that only reads, or whose effect no property tells apart.
Check(from, to, mayFail) ==
    /\ pc = from
    /\ \/ pc' = to
       \/ mayFail /\ pc' = "unwind"
    /\ UNCHANGED <<opt, next, srcVars, dstVars, arrVars, undoVars, bootVars, result>>

Preflight      == Check("preflight", "capture", TRUE)
CaptureSpec    == Check("capture", "prepare", TRUE)
ResolveVolumes == Check("resolve", "create", TRUE)

\* Only a VMFS source has disks to stage: its VM is snapshotted (hot clone)
\* or stopped, with no compensation pushed for the stop.
PrepareSourceDisks ==
    /\ pc = "prepare"
    /\ IF opt.dry \/ ~opt.vmfs THEN pc' = "resolve" /\ UNCHANGED <<srcVm, next>>
       ELSE \E a \in ConnectorCall(opt.src) \ {"silent"} :
              /\ IF Effect(a) /\ ~HotClone THEN srcVm' = "stopped" ELSE UNCHANGED srcVm
              /\ IF a = "done" THEN pc' = "stage" /\ next' = 1
                 ELSE pc' = "unwind" /\ UNCHANGED next
    /\ UNCHANGED <<opt, srcDisk, clone, recorded, dstVars, arrVars, undoVars, bootVars, result>>

\* The clones are recorded for clean-up only after the last one is made.
StageDisk ==
    /\ pc = "stage"
    /\ \E made \in {"none", "blank", "fuzzy", "clean"} :
         /\ made = "clean" => srcVm = "stopped"
         /\ made = "fuzzy" => srcVm /= "stopped"
         /\ clone' = [clone EXCEPT ![next] = made]
         /\ IF made \in {"none", "blank"} THEN pc' = "unwind" /\ UNCHANGED <<next, recorded>>
            ELSE IF next < NDisks THEN next' = next + 1 /\ UNCHANGED <<pc, recorded>>
            ELSE pc' = "resolve" /\ next' = 0 /\ recorded' = TRUE
    /\ UNCHANGED <<opt, srcVm, srcDisk, dstVars, arrVars, undoVars, bootVars, result>>

CreateDestVm ==
    /\ pc = "create"
    /\ \E a \in IF opt.dry THEN {"planned"} ELSE ConnectorCall(opt.dst) \ {"silent"} :
         /\ dstVm' = IF Effect(a) THEN "stopped" ELSE dstVm
         /\ IF a = "done" THEN Push("teardown") ELSE UNCHANGED stack
         /\ pc' = IF a \notin {"done", "planned"} THEN "unwind"
                  ELSE IF opt.cross THEN "connect" ELSE "quiesce"
    /\ UNCHANGED <<opt, next, srcVars, dstDisk, arrVars, failures, bootVars, result>>

EnsureArrayConnection ==
    /\ pc = "connect"
    /\ \/ pc' = "unwind" /\ UNCHANGED linked
       \/ (linked \/ (opt.allow /\ opt.dry)) /\ pc' = "quiesce" /\ UNCHANGED linked
       \/ /\ ~linked /\ opt.allow /\ ~opt.dry
          /\ \E a \in ArrayCall :
               /\ IF Effect(a) THEN linked' = TRUE ELSE UNCHANGED linked
               /\ pc' = IF Ok(a) THEN "quiesce" ELSE "unwind"
    /\ UNCHANGED <<opt, next, srcVars, dstVars, pgroup, undoVars, bootVars, result>>

-----------------------------------------------------------------------------
(* Quiesce the source, build the destination disks.                        *)

QuiesceSource ==
    /\ pc = "quiesce"
    /\ \/ ~Quiesces /\ pc' = "build" /\ UNCHANGED <<srcVm, stack, wasRunning>>
       \/ Quiesces /\ pc' = "unwind" /\ UNCHANGED <<srcVm, stack, wasRunning>>
       \/ /\ Quiesces
          /\ \E read \in PowerReads(srcVm) :
               /\ wasRunning' = (read /= "stopped")
               /\ IF read = "stopped" \/ opt.dry
                  THEN pc' = "build" /\ UNCHANGED <<srcVm, stack>>
                  ELSE \E a \in ConnectorCall(opt.src) :
                         /\ srcVm' \in IF Effect(a) THEN Stopped(opt.src, srcVm) ELSE {srcVm}
                         /\ IF Ok(a) THEN Push("restart") /\ pc' = "awaitStopped"
                            ELSE pc' = "unwind" /\ UNCHANGED stack
    /\ UNCHANGED <<opt, next, srcDisk, clone, recorded, dstVars, arrVars, failures,
                   poweredOn, tries, result>>

\* Fault: the stop request is taken for the stop.
TrustStopRequest ==
    /\ pc = "awaitStopped"
    /\ pc' = "build"
    /\ UNCHANGED <<opt, next, srcVars, dstVars, arrVars, undoVars, bootVars, result>>

\* _await_power polls; running out of attempts raises.
AwaitSourceStopped ==
    /\ pc = "awaitStopped"
    /\ \/ PowerReads(srcVm) \intersect {"stopped", "unknown"} /= {} /\ pc' = "build"
       \/ pc' = "unwind"
    /\ UNCHANGED <<opt, next, srcVars, dstVars, arrVars, undoVars, bootVars, result>>

BeginBuild ==
    /\ pc = "build"
    /\ pc' = "makeDisk"
    /\ next' = 1
    /\ IF opt.cross THEN Push("pgroup") ELSE UNCHANGED stack
    /\ UNCHANGED <<opt, srcVars, dstVars, arrVars, failures, bootVars, result>>

\* Fault: one disk too many.
AdvanceDiskLong ==
    /\ next' = next + 1
    /\ pc' = IF next < NDisks THEN "makeDisk" ELSE "finalizeDisks"

\* The head of the loop over spec.disks moves on, or leaves it.
AdvanceDisk ==
    IF next < NDisks THEN next' = next + 1 /\ pc' = "makeDisk"
    ELSE pc' = "finalizeDisks" /\ UNCHANGED next

CreateManagedDisk ==
    /\ pc = "makeDisk"
    /\ IF opt.dry THEN AdvanceDisk /\ UNCHANGED dstDisk
       ELSE \E a \in ArrayCall :
              /\ dstDisk' = [dstDisk EXCEPT ![next] = IF Effect(a) THEN "blank" ELSE @]
              /\ pc' = IF ~Ok(a) THEN "unwind" ELSE IF opt.cross THEN "replicate" ELSE "copy"
              /\ UNCHANGED next
    /\ UNCHANGED <<opt, srcVars, dstVm, arrVars, undoVars, bootVars, result>>

\* Fault: a failed replication is only logged.
ReplicateBestEffort ==
    /\ pc = "replicate"
    /\ pgroup' \in {pgroup, "blank", SourceContent(next)}
    /\ pc' = "copy"
    /\ UNCHANGED <<opt, next, srcVars, dstVars, linked, undoVars, bootVars, result>>

\* replicate_volume_to makes the group in four calls: it may fail half-way.
ReplicateVolume ==
    /\ pc = "replicate"
    /\ \/ pgroup' = SourceContent(next) /\ pc' = "copy"
       \/ pgroup' \in {pgroup, "blank"} /\ pc' = "unwind"
    /\ UNCHANGED <<opt, next, srcVars, dstVars, linked, undoVars, bootVars, result>>

CopyVolume ==
    /\ pc = "copy"
    /\ \E a \in ArrayCall :
         /\ dstDisk' = [dstDisk EXCEPT ![next] =
                IF ~Effect(a) THEN @ ELSE IF opt.cross THEN pgroup ELSE SourceContent(next)]
         /\ IF Ok(a) THEN AdvanceDisk ELSE pc' = "unwind" /\ UNCHANGED next
    /\ UNCHANGED <<opt, srcVars, dstVm, arrVars, undoVars, bootVars, result>>

FinalizeDestDisks ==
    Check("finalizeDisks", IF opt.convert THEN "convert" ELSE "setBoot", ~opt.dry)
ConvertDestDisks == Check("convert", "setBoot", ~opt.dry)
SetBoot          == Check("setBoot", "powerOn", ~opt.dry)

-----------------------------------------------------------------------------
(* Power-on and finalization.                                              *)

PowerOnDest ==
    /\ pc = "powerOn"
    /\ poweredOn' = ShouldPowerOn
    /\ pc' = IF ShouldPowerOn /\ ~opt.dry THEN "startDest" ELSE AfterPowerOn
    /\ UNCHANGED <<opt, next, srcVars, dstVars, arrVars, undoVars, wasRunning, tries, result>>

\* Fault: attempts are not counted.
StartDestForever ==
    /\ pc = "startDest"
    /\ \E a \in ConnectorCall(opt.dst) :
         /\ IF Effect(a) THEN dstVm' \in Started(dstVm) ELSE UNCHANGED dstVm
         /\ pc' = IF Raised(a) THEN "unwind" ELSE "awaitRunning"
    /\ UNCHANGED <<opt, next, srcVars, dstDisk, arrVars, undoVars, bootVars, result>>

StartDest ==
    /\ pc = "startDest"
    /\ IF tries = StartAttempts THEN pc' = "unwind" /\ UNCHANGED <<dstVm, tries>>
       ELSE /\ tries' = tries + 1
            /\ \E a \in ConnectorCall(opt.dst) :
                 /\ IF Effect(a) THEN dstVm' \in Started(dstVm) ELSE UNCHANGED dstVm
                 /\ pc' = IF Raised(a) THEN "unwind" ELSE "awaitRunning"
    /\ UNCHANGED <<opt, next, srcVars, dstDisk, arrVars, undoVars, wasRunning, poweredOn, result>>

\* Unlike _await_power, this loop takes nothing but "running" for an answer.
AwaitDestRunning ==
    /\ pc = "awaitRunning"
    /\ \/ \E read \in PowerReads(dstVm) :
            pc' = IF read = "running" THEN AfterPowerOn ELSE "startDest"
       \/ pc' = "unwind"
    /\ UNCHANGED <<opt, next, srcVars, dstVars, arrVars, undoVars, bootVars, result>>

CleanupReplication ==
    /\ pc = "cleanReplication"
    /\ \E a \in ArrayCall : pgroup' = IF Effect(a) THEN "none" ELSE pgroup
    /\ pc' = Finalize
    /\ UNCHANGED <<opt, next, srcVars, dstVars, linked, undoVars, bootVars, result>>

\* Fault: an exception of delete_vm is not caught.
DeleteSourceUncaught ==
    /\ pc = "deleteSource"
    /\ \E a \in ConnectorCall(opt.src) :
         /\ srcVm' = IF Effect(a) THEN "gone" ELSE srcVm
         /\ IF Ok(a) THEN pc' = "eradicate" /\ next' = 1
            ELSE pc' = "unwind" /\ UNCHANGED next
    /\ UNCHANGED <<opt, srcDisk, clone, recorded, dstVars, arrVars, undoVars, bootVars, result>>

\* Past this point failures are warnings: nothing leads back to "unwind".
DeleteSourceVm ==
    /\ pc = "deleteSource"
    /\ \E a \in ConnectorCall(opt.src) :
         /\ srcVm' = IF Effect(a) THEN "gone" ELSE srcVm
         /\ IF Ok(a) THEN pc' = "eradicate" /\ next' = 1
            ELSE pc' = "finish" /\ UNCHANGED next
    /\ UNCHANGED <<opt, srcDisk, clone, recorded, dstVars, arrVars, undoVars, bootVars, result>>

\* Fault: an array error after the eradication aborts the migration.
EradicateUncaught ==
    /\ pc = "eradicate"
    /\ srcDisk' = [srcDisk EXCEPT ![next] = "eradicated"]
    /\ IF next < NDisks THEN next' = next + 1 /\ UNCHANGED pc
       ELSE pc' \in {"finish", "unwind"} /\ UNCHANGED next
    /\ UNCHANGED <<opt, srcVm, clone, recorded, dstVars, arrVars, undoVars, bootVars, result>>

\* Disconnect, destroy, eradicate: any prefix may have happened.
EradicateSourceVolume ==
    /\ pc = "eradicate"
    /\ IF opt.vmfs
       THEN /\ \E left \in {clone[next], "none"} : clone' = [clone EXCEPT ![next] = left]
            /\ UNCHANGED srcDisk
       ELSE /\ \E left \in {"live", "destroyed", "eradicated"} :
                 srcDisk' = [srcDisk EXCEPT ![next] = left]
            /\ UNCHANGED clone
    /\ IF next < NDisks THEN next' = next + 1 /\ UNCHANGED pc
       ELSE pc' = "finish" /\ UNCHANGED next
    /\ UNCHANGED <<opt, srcVm, recorded, dstVars, arrVars, undoVars, bootVars, result>>

Finish ==
    /\ pc = "finish"
    /\ pc' = "scratch"
    /\ result' = "succeeded"
    /\ UNCHANGED <<opt, next, srcVars, dstVars, arrVars, undoVars, bootVars>>

-----------------------------------------------------------------------------
(* Rollback.                                                               *)

UndoPgroup ==
    \E a \in ArrayCall :
        /\ pgroup' = IF Effect(a) THEN "none" ELSE pgroup
        /\ failures' = IF Raised(a) THEN failures \union {"pgroup"} ELSE failures
        /\ UNCHANGED <<srcVm, dstVars>>

\* A start that returns a failed OpResult does not raise: it counts as done.
UndoRestart ==
    \E a \in ConnectorCall(opt.src) \ (IF opt.src \in VSphere THEN {} ELSE {"refused"}) :
        /\ IF Effect(a) THEN srcVm' \in Started(srcVm) ELSE UNCHANGED srcVm
        /\ failures' = IF Raised(a) THEN failures \union {"restart"} ELSE failures
        /\ UNCHANGED <<dstVars, pgroup>>

\* Fault: the delete is skipped when the stop fails.
UndoTeardownIfStopped ==
    \E a \in ConnectorCall(opt.dst) :
        /\ dstVm' = IF Effect(a) /\ Ok(a) THEN "none" ELSE dstVm
        /\ dstDisk' = IF dstVm' = "none" THEN [d \in Disks |-> "none"] ELSE dstDisk
        /\ UNCHANGED <<failures, srcVm, pgroup>>

\* _teardown_dest: stop (whatever it answers), then delete with its disks.
UndoTeardown ==
    \E a \in ConnectorCall(opt.dst), b \in ConnectorCall(opt.dst) \ {"refused"} :
        /\ IF Effect(b)
           THEN /\ dstVm' = "none"
                /\ \E kept \in SUBSET Disks :
                     /\ opt.dst \notin VSphere => kept = {}
                     /\ dstDisk' = [d \in Disks |-> IF d \in kept THEN dstDisk[d] ELSE "none"]
           ELSE /\ IF Effect(a) THEN dstVm' \in Stopped(opt.dst, dstVm) ELSE UNCHANGED dstVm
                /\ UNCHANGED dstDisk
        /\ failures' = IF Raised(b) THEN failures \union {"teardown"} ELSE failures
        /\ UNCHANGED <<srcVm, pgroup>>

\* RollbackStack.unwind: pop the last entry and run it, never stop at a failure.
Unwind ==
    /\ pc = "unwind"
    /\ IF stack = << >>
       THEN /\ pc' = "scratch"
            /\ result' = "rolled_back"
            /\ UNCHANGED <<stack, failures, srcVm, dstVars, pgroup>>
       ELSE /\ stack' = SubSeq(stack, 1, Len(stack) - 1)
            /\ CASE stack[Len(stack)] = "pgroup"   -> UndoPgroup
                 [] stack[Len(stack)] = "restart"  -> UndoRestart
                 [] stack[Len(stack)] = "teardown" -> UndoTeardown
            /\ UNCHANGED <<pc, result>>
    /\ UNCHANGED <<opt, next, srcDisk, clone, recorded, linked, bootVars>>

\* cleanup_migration_scratch: recorded clones only, each deletion best-effort;
\* then a migration that succeeded forgets its compensations.
CleanupScratch ==
    /\ pc = "scratch"
    /\ pc' = "done"
    /\ \E kept \in SUBSET Disks :
         clone' = IF recorded THEN [d \in Disks |-> IF d \in kept THEN clone[d] ELSE "none"]
                  ELSE clone
    /\ stack' = << >>
    /\ UNCHANGED <<opt, next, srcVm, srcDisk, recorded, dstVars, arrVars, failures, bootVars,
                   result>>

-----------------------------------------------------------------------------
(* The VMs themselves: a guest finishes (or ignores) a shutdown, a VM      *)
(* comes up, or does not because its storage device is missing.            *)

SettleSource ==
    /\ \/ srcVm = "stopping" /\ srcVm' \in {"stopped", "running"}
       \/ srcVm = "starting" /\ srcVm' = "running"
    /\ UNCHANGED <<opt, pc, next, srcDisk, clone, recorded, dstVars, arrVars, undoVars,
                   bootVars, result>>

SettleDest ==
    /\ \/ dstVm = "starting" /\ dstVm' \in {"running", "stopped"}
       \/ dstVm = "stopping" /\ dstVm' \in {"stopped", "running"}
    /\ UNCHANGED <<opt, pc, next, srcVars, dstDisk, arrVars, undoVars, bootVars, result>>

Step ==
    \/ Preflight \/ CaptureSpec \/ PrepareSourceDisks \/ StageDisk \/ ResolveVolumes
    \/ CreateDestVm \/ EnsureArrayConnection
    \/ QuiesceSource \/ AwaitSourceStopped \/ BeginBuild
    \/ CreateManagedDisk \/ ReplicateVolume \/ CopyVolume
    \/ FinalizeDestDisks \/ ConvertDestDisks \/ SetBoot
    \/ PowerOnDest \/ StartDest \/ AwaitDestRunning
    \/ CleanupReplication \/ DeleteSourceVm \/ EradicateSourceVolume \/ Finish
    \/ Unwind \/ CleanupScratch

Next == Step \/ SettleSource \/ SettleDest

Spec == Init /\ [][Next]_vars

\* The event loop keeps running the coroutine; nothing is assumed of the VMs.
FairSpec == Spec /\ WF_vars(Step)

-----------------------------------------------------------------------------
(* Properties.                                                             *)

Steps ==
    {"preflight", "capture", "prepare", "stage", "resolve", "create", "connect", "quiesce",
     "awaitStopped", "build", "makeDisk", "replicate", "copy", "finalizeDisks", "convert",
     "setBoot", "powerOn", "startDest", "awaitRunning", "cleanReplication", "deleteSource",
     "eradicate", "finish", "unwind", "scratch", "done"}
Undos == {"teardown", "restart", "pgroup"}

\* The variables' types.
TypeOK ==
    /\ opt \in Options
    /\ pc \in Steps
    /\ next \in 0..NDisks
    /\ srcVm \in Power \union {"gone"}
    /\ srcDisk \in [Disks -> {"live", "destroyed", "eradicated"}]
    /\ clone \in [Disks -> Content]
    /\ dstVm \in Power \union {"none"}
    /\ dstDisk \in [Disks -> Content]
    /\ pgroup \in Content
    /\ stack \in Seq(Undos)
    /\ failures \subseteq Undos
    /\ recorded \in BOOLEAN /\ linked \in BOOLEAN
    /\ wasRunning \in BOOLEAN /\ poweredOn \in BOOLEAN
    /\ tries \in 0..StartAttempts
    /\ result \in {"none", "succeeded", "rolled_back"}

\* Whatever the platforms answer, each disk's content survives: on the source
\* volume, or on the volume of an existing destination VM (service.py:449).
NoDataLoss ==
    \A d \in Disks : srcDisk[d] = "live" \/ (dstVm /= "none" /\ Copied(d))

\* A source volume is only ever destroyed after its VM is gone, when delete_vm
\* does not answer "ok" for nothing (the guard of _finalize_move).
EradicationFollowsRemoval ==
    (\E d \in Disks : srcDisk[d] /= "live") => (srcVm = "gone" \/ opt.src \in Silent)

\* A failed migration still has its source VM and every source volume.
RollbackKeepsSource ==
    pc = "unwind" \/ result = "rolled_back" =>
        srcVm /= "gone" /\ \A d \in Disks : srcDisk[d] = "live"

\* A rollback none of whose compensations failed (in the ways unwind() can see)
\* has started a source that was seen stopped, and, if calls that fail have no
\* effect, has left no destination VM and no protection group behind.
RollbackIsComplete ==
    result = "rolled_back" /\ failures = {} =>
        /\ wasRunning /\ next > 0 /\ ~opt.dry
           /\ opt.known /\ opt.src \notin Silent \union VSphere
           => srcVm \in {"starting", "running"}
        /\ ~opt.partial /\ opt.dst \notin Silent => dstVm = "none" /\ pgroup = "none"

\* The destination is never powered on with a disk that was not copied, nor,
\* after a shutdown for a clean copy, with one that is only crash-consistent, as
\* long as power_state always answers.
BootsOnlyComplete ==
    dstVm \in {"starting", "running"} =>
        \A d \in Disks : Copied(d) /\ (Quiesces /\ opt.known => dstDisk[d] /= "fuzzy")

\* A move never has both VMs running (they share their MAC addresses), until a
\* rollback starts, as long as power_state always answers.
NoDoubleBoot ==
    /\ opt.mode = "move" /\ opt.known
    /\ pc /= "unwind" /\ result /= "rolled_back"
    => ~(srcVm = "running" /\ dstVm \in {"starting", "running"})

\* A dry run leaves both VMs, every volume and both arrays as they were.
DryRunChangesNothing ==
    [][opt.dry => UNCHANGED <<srcVm, srcDisk, clone, dstVars, arrVars>>]_vars

\* Every migration ends: the start attempts run out, the unwinding empties.
Terminates == <>(pc = "done")

Committing == {"deleteSource", "eradicate", "finish"}

Cutover == INSTANCE ColdCutover WITH
    phase <- IF opt.dry THEN "building"
             ELSE IF pc \in Committing \/ result = "succeeded" THEN "committed"
             ELSE IF pc = "unwind" \/ result = "rolled_back" THEN "aborted" ELSE "building",
    atSource <- {d \in Disks : srcDisk[d] = "live"},
    atDest <- {d \in Disks : Copied(d)}

\* A migration implements ColdCutover (a dry run never leaves "building").
ImplementsColdCutover == Cutover!Spec
=============================================================================
