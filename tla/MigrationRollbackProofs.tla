------------------------ MODULE MigrationRollbackProofs ------------------------
(***************************************************************************)
(* Theorems about Migration's two hard promises, for every number of disks *)
(* and every option record: what may run beside what, and what a rollback  *)
(* has undone.  They rest on the inductive invariant of MigrationProofs.   *)
(***************************************************************************)
EXTENDS MigrationProofs

\* The steps before the source VM is asked to stop.
BeforeQuiesce ==
    {"preflight", "capture", "prepare", "stage", "resolve", "create", "connect", "quiesce"}

\* The rollback stack holds compensation u.
Pending(u) == \E i \in 1..Len(stack) : stack[i] = u

\* Nothing but a rollback starts the source VM again, and when power_state can
\* be believed the copies are made, and the destination is booted, without it.
SourceQuiet ==
    /\ pc /= "unwind" /\ result /= "rolled_back" => srcVm /= "starting"
    /\ pc = "stage" => opt.vmfs /\ ~opt.dry /\ (Quiesces => srcVm = "stopped")
    /\ Quiesces /\ opt.known /\ ~opt.dry =>
        /\ pc \in {"build"} \union Copying => srcVm = "stopped"
        /\ pc \in AfterCopy \/ result = "succeeded" => srcVm \in {"stopped", "gone"}

\* After a shutdown every copy, wherever it is, is a clean one.
CopiesClean ==
    Quiesces /\ opt.known =>
        pgroup /= "fuzzy" /\ \A d \in Disks : clone[d] /= "fuzzy" /\ dstDisk[d] /= "fuzzy"

\* A destination VM that was started has all its disks.
BootedAfterCopy ==
    dstVm \in {"starting", "running", "stopping"} =>
        /\ pc \in AfterCopy \union {"unwind"} \/ result /= "none"
        /\ \A d \in Disks : Copied(d)

\* What the compensations of a rollback stack are there for: the VM to remove
\* is its first entry, and what a rollback has to undo has an entry, as long as
\* a call that fails had no effect and no compensation failed.
UndoCovers ==
    /\ pc \in BeforeQuiesce \ {"connect", "quiesce"} => stack = << >>
    /\ result = "rolled_back" => stack = << >>
    /\ \A i \in 1..Len(stack) : stack[i] = "teardown" => i = 1 /\ dstVm /= "none"
    /\ pc = "replicate" => opt.cross
    /\ opt.cross /\ pc \in Copying => Pending("pgroup")
    /\ result /= "succeeded" /\ failures = {} /\ ~opt.partial /\ opt.dst \notin Silent =>
        /\ dstVm /= "none" => Pending("teardown")
        /\ pgroup /= "none" => Pending("pgroup")

\* A source seen running has its restart pushed before the first disk is made.
RestartCovers ==
    /\ pc \in BeforeQuiesce => ~wasRunning
    /\ wasRunning => Quiesces
    /\ pc \in BeforeQuiesce \union {"awaitStopped", "build"} /\ ~opt.vmfs => next = 0
    /\ wasRunning /\ ~opt.dry =>
        /\ pc \in {"awaitStopped", "build"} \union Copying \union (AfterCopy \ Committing) =>
               Pending("restart")
        /\ /\ pc = "unwind" \/ result = "rolled_back"
           /\ next > 0 /\ failures = {} /\ opt.known /\ opt.src \notin Silent \union VSphere
           => (srcVm = "stopped" /\ Pending("restart")) \/ srcVm \in {"starting", "running"}

\* Together they are inductive, given MigrationProofs' invariant.
RollbackInv == SourceQuiet /\ CopiesClean /\ UndoCovers /\ BootedAfterCopy /\ RestartCovers

-----------------------------------------------------------------------------
(* Lemmas about the rollback stack.                                        *)

\* A pushed compensation is pending, and so are the earlier ones.
LEMMA PushPending ==
    ASSUME stack \in Seq(Undos), NEW u \in Undos, Push(u)
    PROVE  /\ Pending(u)' /\ Len(stack) \in Nat /\ Len(stack') = Len(stack) + 1
           /\ \A v \in Undos : Pending(v) => Pending(v)'
           /\ \A i \in 1..Len(stack') :
                  stack'[i] = u \/ (i \in 1..Len(stack) /\ stack'[i] = stack[i])
<1>1. /\ Len(stack') = Len(stack) + 1
      /\ \A i \in 1..Len(stack) : stack'[i] = stack[i]
      /\ stack'[Len(stack) + 1] = u
    BY AppendProperties DEF Push
<1>2. Len(stack) \in Nat
    BY LenProperties
<1> QED
    BY <1>1, <1>2 DEF Pending

\* A pop leaves every compensation pending but the one it takes.
LEMMA PopPending ==
    ASSUME stack \in Seq(Undos), stack /= << >>,
           stack' = SubSeq(stack, 1, Len(stack) - 1)
    PROVE  /\ Len(stack) \in Nat \ {0} /\ Len(stack') = Len(stack) - 1
           /\ \A i \in 1..Len(stack') : i \in 1..Len(stack) /\ stack'[i] = stack[i]
           /\ \A v \in Undos : Pending(v) => v = stack[Len(stack)] \/ Pending(v)'
<1>1. Len(stack) \in Nat \ {0}
    BY EmptySeq, LenProperties
<1>2. \A i \in 1..Len(stack) : stack[i] \in Undos
    BY ElementOfSeq
<1>3. /\ Len(stack') = Len(stack) - 1
      /\ \A i \in 1..Len(stack') : i \in 1..Len(stack) /\ stack'[i] = stack[i]
  <2>1. PICK n \in Nat : n = Len(stack) - 1
      BY <1>1
  <2>2. 1 \in Int /\ n \in Int /\ \A i \in 1..n : stack[i] \in Undos
      BY <1>1, <1>2, <2>1
  <2>3. /\ Len(SubSeq(stack, 1, n)) = IF 1 <= n THEN n - 1 + 1 ELSE 0
        /\ \A i \in 1..(n - 1 + 1) : SubSeq(stack, 1, n)[i] = stack[1 + i - 1]
      BY <2>2, SubSeqProperties
  <2>4. Len(stack') = n /\ \A i \in 1..n : stack'[i] = stack[i]
      BY <2>1, <2>3
  <2> QED
      BY <1>1, <2>1, <2>4
<1>4. ASSUME NEW v \in Undos, NEW i \in 1..Len(stack), stack[i] = v, v /= stack[Len(stack)]
      PROVE  Pending(v)'
  <2>1. i \in 1..Len(stack')
      BY <1>1, <1>3, <1>4
  <2> QED
      BY <1>3, <1>4, <2>1 DEF Pending
<1> QED
    BY <1>1, <1>3, <1>4 DEF Pending

\* An empty stack holds nothing.
LEMMA EmptyPending == stack = << >> => \A u \in Undos : ~Pending(u)
BY EmptySeq DEF Pending

-----------------------------------------------------------------------------
(* The source is quiet, and the copies are clean.                          *)

\* What power_state answers of a source VM that has not been started again.
LEMMA KnownPower ==
    ASSUME TypeOK, opt.known, srcVm \notin {"starting", "gone"}, NEW read \in PowerReads(srcVm)
    PROVE  read = "stopped" <=> srcVm = "stopped"
BY DEF TypeOK, PowerReads, Power

\* The two ways to treat a running source exclude each other.
LEMMA HotOrQuiet == opt \in Options => (HotClone <=> ~Quiesces)
BY OptionAssumption DEF OptionType, HotClone, Quiesces

LEMMA SourceQuietInit == Init => SourceQuiet
BY DEF Init, SourceQuiet, Copying, AfterCopy

LEMMA SourceQuietNext == IInv /\ SourceQuiet /\ [Next]_vars => SourceQuiet'
<1> SUFFICES ASSUME IInv, IInv', SourceQuiet, [Next]_vars PROVE SourceQuiet'
    BY IInvNext
<1>a. UNCHANGED opt
    BY OptionsFixed
<1> USE <1>a, OptionFacts
    DEF IInv, TypeOK, Safe, SourceGivenUp, DryRunIdle, SourceQuiet, Quiesces, Copying, AfterCopy,
        Steps, srcVars, dstVars, arrVars, undoVars, bootVars
<1>1. CASE Preflight \/ CaptureSpec \/ ResolveVolumes \/ FinalizeDestDisks \/ ConvertDestDisks \/ SetBoot
    BY <1>1 DEF Preflight, CaptureSpec, ResolveVolumes, FinalizeDestDisks, ConvertDestDisks,
                SetBoot, Check
<1>2. CASE PrepareSourceDisks
  <2>1. HotClone <=> ~Quiesces
      BY HotOrQuiet
  <2> QED
      BY <1>2, <2>1 DEF PrepareSourceDisks, Effect
<1>3. CASE StageDisk \/ CreateDestVm \/ EnsureArrayConnection
    BY <1>3 DEF StageDisk, CreateDestVm, EnsureArrayConnection
<1>4. CASE QuiesceSource
    BY <1>4, KnownPower DEF QuiesceSource, Stopped, Power
<1>5. CASE AwaitSourceStopped
    BY <1>5, KnownPower DEF AwaitSourceStopped, PowerReads
<1>6. CASE BeginBuild \/ CreateManagedDisk \/ ReplicateVolume \/ CopyVolume
    BY <1>6 DEF BeginBuild, CreateManagedDisk, ReplicateVolume, CopyVolume, AdvanceDisk
<1>7. CASE PowerOnDest \/ StartDest \/ AwaitDestRunning \/ CleanupReplication
    BY <1>7 DEF PowerOnDest, StartDest, AwaitDestRunning, CleanupReplication, AfterPowerOn, Finalize
<1>8. CASE DeleteSourceVm \/ EradicateSourceVolume \/ Finish
    BY <1>8 DEF DeleteSourceVm, EradicateSourceVolume, Finish
<1>9. CASE Unwind
    BY <1>9 DEF Unwind
<1>10. CASE CleanupScratch
    BY <1>10 DEF CleanupScratch
<1>11. CASE SettleSource
    BY <1>11 DEF SettleSource
<1>12. CASE SettleDest \/ UNCHANGED vars
    BY <1>12 DEF SettleDest, vars
<1> QED
    BY <1>1, <1>2, <1>3, <1>4, <1>5, <1>6, <1>7, <1>8, <1>9, <1>10, <1>11, <1>12 DEF Next, Step

LEMMA CopiesCleanInit == Init => CopiesClean
BY DEF Init, CopiesClean

LEMMA CopiesCleanNext == IInv /\ SourceQuiet /\ CopiesClean /\ [Next]_vars => CopiesClean'
<1> SUFFICES ASSUME IInv, SourceQuiet, CopiesClean, [Next]_vars PROVE CopiesClean'
    OBVIOUS
<1>o. UNCHANGED opt
    BY OptionsFixed
<1>q. Quiesces' <=> Quiesces
    BY <1>o DEF Quiesces
<1> SUFFICES ASSUME Quiesces, opt.known
             PROVE  pgroup' /= "fuzzy" /\ \A d \in Disks : clone'[d] /= "fuzzy" /\ dstDisk'[d] /= "fuzzy"
    BY <1>o, <1>q DEF CopiesClean
<1>a. pgroup /= "fuzzy" /\ \A d \in Disks : clone[d] /= "fuzzy" /\ dstDisk[d] /= "fuzzy"
    BY DEF CopiesClean
<1>b. pc \in Copying => next \in Disks
    BY DEF IInv, Safe, LoopIndex
<1>c. pc \in {"replicate", "copy"} => SourceContent(next) /= "fuzzy"
    BY <1>a, <1>b DEF SourceContent, SourceQuiet, IInv, DryRunIdle, Copying
<1> USE <1>a DEF IInv, TypeOK, srcVars, dstVars, arrVars, undoVars, bootVars
<1>1. CASE Preflight \/ CaptureSpec \/ ResolveVolumes \/ FinalizeDestDisks \/ ConvertDestDisks \/ SetBoot
    BY <1>1 DEF Preflight, CaptureSpec, ResolveVolumes, FinalizeDestDisks, ConvertDestDisks,
                SetBoot, Check
<1>2. CASE PrepareSourceDisks \/ CreateDestVm \/ EnsureArrayConnection \/ QuiesceSource
    BY <1>2 DEF PrepareSourceDisks, CreateDestVm, EnsureArrayConnection, QuiesceSource
<1>3. CASE StageDisk
    BY <1>3 DEF StageDisk, SourceQuiet
<1>4. CASE AwaitSourceStopped \/ BeginBuild \/ PowerOnDest \/ StartDest \/ AwaitDestRunning
    BY <1>4 DEF AwaitSourceStopped, BeginBuild, PowerOnDest, StartDest, AwaitDestRunning
<1>5. CASE CreateManagedDisk
    BY <1>5 DEF CreateManagedDisk
<1>6. CASE ReplicateVolume
    BY <1>6, <1>c DEF ReplicateVolume
<1>7. CASE CopyVolume
    BY <1>7, <1>c DEF CopyVolume
<1>8. CASE CleanupReplication \/ DeleteSourceVm \/ Finish
    BY <1>8 DEF CleanupReplication, DeleteSourceVm, Finish
<1>9. CASE EradicateSourceVolume
    BY <1>9 DEF EradicateSourceVolume
<1>10. CASE Unwind
  <2>1. CASE stack = << >>
      BY <1>10, <2>1 DEF Unwind
  <2>2. CASE stack /= << >>
    <3>1. stack[Len(stack)] \in Undos
        BY <2>2, PopType
    <3>2. UNCHANGED clone /\ (UndoPgroup \/ UndoRestart \/ UndoTeardown)
        BY <1>10, <2>2, <3>1 DEF Unwind, Undos
    <3>3. CASE UndoPgroup \/ UndoRestart
        BY <3>2, <3>3 DEF UndoPgroup, UndoRestart
    <3>4. CASE UndoTeardown
        BY <3>2, <3>4 DEF UndoTeardown
    <3> QED
        BY <3>2, <3>3, <3>4
  <2> QED
      BY <2>1, <2>2
<1>11. CASE CleanupScratch
    BY <1>11 DEF CleanupScratch
<1>12. CASE SettleSource \/ SettleDest \/ UNCHANGED vars
    BY <1>12 DEF SettleSource, SettleDest, vars
<1> QED
    BY <1>1, <1>2, <1>3, <1>4, <1>5, <1>6, <1>7, <1>8, <1>9, <1>10, <1>11, <1>12 DEF Next, Step

-----------------------------------------------------------------------------
(* What a rollback will undo.                                              *)

LEMMA UndoCoversInit == Init => UndoCovers
BY EmptySeq DEF Init, UndoCovers, Copying, Pending

\* A step that keeps the stack, and makes nothing a rollback has to undo.
LEMMA UndoCoversKept ==
    ASSUME IInv, UndoCovers, UNCHANGED <<opt, stack, failures>>,
           dstVm' = "none" <=> dstVm = "none",
           pgroup' \in {pgroup, "none"},
           result' \in {result, "succeeded"},
           pc' \in BeforeQuiesce \ {"connect", "quiesce"} => pc \in BeforeQuiesce \ {"connect", "quiesce"},
           pc' \in Copying => pc \in Copying,
           pc' = "replicate" => pc = "replicate" \/ opt.cross
    PROVE  UndoCovers'
<1> USE DEF UndoCovers
<1>1. \A u \in Undos : Pending(u)' <=> Pending(u)
    BY DEF Pending
<1> QED
    BY <1>1 DEF Undos

\* A step that only pushes a compensation other than the removal of the VM.
LEMMA UndoCoversPush ==
    ASSUME IInv, UndoCovers, stack \in Seq(Undos), NEW u \in Undos \ {"teardown"}, Push(u),
           UNCHANGED <<opt, dstVm, pgroup, failures, result>>,
           pc' \notin (BeforeQuiesce \ {"connect", "quiesce"}) \union {"replicate"},
           pc' \in Copying => u = "pgroup",
           result /= "rolled_back"
    PROVE  UndoCovers'
<1>1. /\ Pending(u)' /\ \A v \in Undos : Pending(v) => Pending(v)'
      /\ \A i \in 1..Len(stack') :
             stack'[i] = u \/ (i \in 1..Len(stack) /\ stack'[i] = stack[i])
    BY PushPending
<1> QED
    BY <1>1 DEF UndoCovers, Undos

LEMMA UndoCoversNext == IInv /\ UndoCovers /\ [Next]_vars => UndoCovers'
<1> SUFFICES ASSUME IInv, IInv', UndoCovers, [Next]_vars PROVE UndoCovers'
    BY IInvNext
<1>a. UNCHANGED opt
    BY OptionsFixed
<1>b. stack \in Seq(Undos) /\ failures \subseteq Undos
    BY DEF IInv, TypeOK
<1>c. opt.cross \in BOOLEAN /\ opt.partial \in BOOLEAN
    BY OptionAssumption DEF IInv, TypeOK, OptionType
<1>d. pc \notin {"scratch", "done"} => result = "none"
    BY DEF IInv, Safe, SourceGivenUp
<1> USE <1>a, <1>d DEF BeforeQuiesce, Copying, srcVars, dstVars, arrVars, undoVars, bootVars
<1>1. CASE Preflight \/ CaptureSpec \/ ResolveVolumes \/ FinalizeDestDisks \/ ConvertDestDisks \/ SetBoot
    BY <1>1, UndoCoversKept DEF Preflight, CaptureSpec, ResolveVolumes, FinalizeDestDisks,
           ConvertDestDisks, SetBoot, Check
<1>2. CASE PrepareSourceDisks \/ StageDisk \/ EnsureArrayConnection
    BY <1>2, UndoCoversKept DEF PrepareSourceDisks, StageDisk, EnsureArrayConnection
<1>3. CASE CreateDestVm
  <2>1. stack = << >> /\ Len(stack) = 0
      BY <1>3, EmptySeq DEF CreateDestVm, UndoCovers
  <2>2. UNCHANGED <<pgroup, failures, result>>
      BY <1>3 DEF CreateDestVm
  <2>3. ~Pending("pgroup") /\ ~Pending("teardown")
      BY <2>1, EmptyPending DEF Undos
  <2>4. CASE Push("teardown") /\ dstVm' /= "none"
    <3>1. /\ Pending("teardown")' /\ Len(stack') = 1
          /\ Pending("pgroup") => Pending("pgroup")'
        BY <2>1, <2>4, <1>b, PushPending DEF Undos
    <3> QED
        BY <1>3, <2>1, <2>2, <2>3, <2>4, <3>1 DEF CreateDestVm, UndoCovers
  <2>5. CASE UNCHANGED stack /\ (dstVm' = dstVm \/ opt.partial \/ opt.dst \in Silent)
    <3>1. ~Pending("teardown")' /\ ~Pending("pgroup")'
        BY <2>3, <2>5 DEF Pending
    <3> QED
        BY <1>3, <2>1, <2>2, <2>3, <2>5, <3>1 DEF CreateDestVm, UndoCovers
  <2> QED
      BY <1>3, <2>4, <2>5, <1>c DEF CreateDestVm, ConnectorCall, Effect
<1>4. CASE QuiesceSource
  <2>1. CASE UNCHANGED stack
      BY <1>4, <2>1, UndoCoversKept DEF QuiesceSource
  <2>2. CASE Push("restart")
    <3>1. /\ pc = "quiesce" /\ pc' \in {"build", "awaitStopped", "unwind"}
          /\ UNCHANGED <<dstVm, pgroup, failures, result>>
        BY <1>4 DEF QuiesceSource
    <3> QED
        BY <1>b, <2>2, <3>1, UndoCoversPush DEF Undos
  <2> QED
      BY <1>4, <2>1, <2>2 DEF QuiesceSource
<1>5. CASE AwaitSourceStopped \/ CreateManagedDisk \/ CopyVolume \/ PowerOnDest \/ AwaitDestRunning
    BY <1>5, UndoCoversKept DEF AwaitSourceStopped, CreateManagedDisk, CopyVolume, AdvanceDisk, PowerOnDest,
           AwaitDestRunning, AfterPowerOn, Finalize
<1>6. CASE BeginBuild
  <2>1. CASE ~opt.cross
    <3>1. UNCHANGED <<stack, dstVm, pgroup, failures, result>> /\ pc' = "makeDisk"
        BY <1>6, <2>1 DEF BeginBuild
    <3>2. \A u \in Undos : Pending(u)' <=> Pending(u)
        BY <3>1 DEF Pending
    <3> QED
        BY <2>1, <3>1, <3>2 DEF UndoCovers, Undos
  <2>2. CASE opt.cross
      BY <1>6, <1>b, <2>2, UndoCoversPush DEF BeginBuild, Undos
  <2> QED
      BY <2>1, <2>2
<1>7. CASE ReplicateVolume
  <2>1. /\ pc = "replicate" /\ pc' \in {"copy", "unwind"}
        /\ UNCHANGED <<stack, dstVm, failures, result>>
      BY <1>7 DEF ReplicateVolume
  <2>2. \A u \in Undos : Pending(u)' <=> Pending(u)
      BY <2>1 DEF Pending
  <2> QED
      BY <2>1, <2>2 DEF UndoCovers, Undos
<1>8. CASE StartDest
  <2>1. dstVm \in Power
      BY <1>8 DEF StartDest, IInv, TypeOK, Safe, CopiesComplete, DryRunIdle, AfterCopy
  <2>2. dstVm' /= "none"
      BY <1>8, <2>1 DEF StartDest, Started, Power
  <2> QED
      BY <1>8, <2>1, <2>2, UndoCoversKept DEF StartDest, Power
<1>9. CASE CleanupReplication \/ DeleteSourceVm \/ EradicateSourceVolume \/ Finish
    BY <1>9, UndoCoversKept DEF CleanupReplication, Finalize, DeleteSourceVm, EradicateSourceVolume, Finish
<1>10. CASE Unwind
  <2>1. CASE stack = << >>
    <3>1. pc' = "scratch" /\ UNCHANGED <<stack, dstVm, pgroup, failures>> /\ result = "none"
        BY <1>10, <2>1 DEF Unwind, IInv, TypeOK, Safe, SourceGivenUp
    <3>2. \A u \in Undos : Pending(u)' <=> Pending(u)
        BY <3>1 DEF Pending
    <3> QED
        BY <2>1, <3>1, <3>2 DEF UndoCovers, Undos
  <2>2. CASE stack /= << >>
    <3>1. /\ stack' = SubSeq(stack, 1, Len(stack) - 1) /\ stack[Len(stack)] \in Undos
          /\ pc = "unwind" /\ pc' = "unwind" /\ UNCHANGED result
        BY <1>10, <2>2, PopType, <1>b DEF Unwind
    <3>2. result = "none"
        BY <3>1 DEF IInv, TypeOK, Safe, SourceGivenUp
    <3>3. /\ Len(stack) \in Nat \ {0} /\ Len(stack') = Len(stack) - 1
          /\ \A i \in 1..Len(stack') : i \in 1..Len(stack) /\ stack'[i] = stack[i]
          /\ \A v \in Undos : Pending(v) => v = stack[Len(stack)] \/ Pending(v)'
        BY <2>2, <3>1, <1>b, PopPending
    <3>4. CASE stack[Len(stack)] = "pgroup"
      <4>1. UndoPgroup
          BY <1>10, <2>2, <3>4 DEF Unwind
      <4>2. /\ UNCHANGED dstVm /\ failures \subseteq failures'
            /\ failures' = {} /\ ~opt.partial => pgroup' = "none"
          BY <4>1, <1>b DEF UndoPgroup, ArrayCall, Effect, Raised
      <4> QED
          BY <3>1, <3>2, <3>3, <3>4, <4>2 DEF UndoCovers, Undos
    <3>5. CASE stack[Len(stack)] = "restart"
      <4>1. UndoRestart
          BY <1>10, <2>2, <3>5 DEF Unwind
      <4>2. UNCHANGED <<dstVm, pgroup>> /\ failures \subseteq failures'
          BY <4>1, <1>b DEF UndoRestart
      <4> QED
          BY <3>1, <3>2, <3>3, <3>5, <4>2 DEF UndoCovers, Undos
    <3>6. CASE stack[Len(stack)] = "teardown"
      <4>1. UndoTeardown
          BY <1>10, <2>2, <3>6 DEF Unwind
      <4>2. /\ UNCHANGED pgroup /\ failures \subseteq failures'
            /\ failures' = {} /\ ~opt.partial /\ opt.dst \notin Silent => dstVm' = "none"
          BY <4>1, <1>b DEF UndoTeardown, ConnectorCall, Effect, Raised
      <4>3. Len(stack) = 1 /\ Len(stack') = 0
          BY <3>3, <3>6 DEF UndoCovers
      <4> QED
          BY <3>1, <3>2, <3>3, <3>6, <4>2, <4>3 DEF UndoCovers, Undos
    <3> QED
        BY <3>1, <3>4, <3>5, <3>6 DEF Undos
  <2> QED
      BY <2>1, <2>2
<1>11. CASE CleanupScratch
  <2>1. CASE result = "succeeded"
    <3>1. Len(stack') = 0 /\ pc' = "done" /\ result' = "succeeded"
        BY <1>11, <2>1, EmptySeq DEF CleanupScratch
    <3> QED
        BY <3>1 DEF UndoCovers
  <2>2. CASE result = "rolled_back"
    <3>1. stack = << >>
        BY <2>2 DEF UndoCovers
    <3> QED
        BY <1>11, <3>1, UndoCoversKept DEF CleanupScratch
  <2> QED
      BY <1>11, <2>1, <2>2 DEF CleanupScratch, IInv, TypeOK, Safe, SourceGivenUp
<1>12. CASE SettleSource \/ SettleDest \/ UNCHANGED vars
    BY <1>12, UndoCoversKept DEF SettleSource, SettleDest, vars
<1> QED
    BY <1>1, <1>2, <1>3, <1>4, <1>5, <1>6, <1>7, <1>8, <1>9, <1>10, <1>11, <1>12 DEF Next, Step

-----------------------------------------------------------------------------
(* What is powered on.                                                     *)

LEMMA BootedInit == Init => BootedAfterCopy
BY DEF Init, BootedAfterCopy

LEMMA BootedNext == IInv /\ UndoCovers /\ BootedAfterCopy /\ [Next]_vars => BootedAfterCopy'
<1> SUFFICES ASSUME IInv, IInv', UndoCovers, BootedAfterCopy, [Next]_vars PROVE BootedAfterCopy'
    BY IInvNext
<1> USE DEF IInv, TypeOK, Safe, SourceGivenUp, BootedAfterCopy, AfterCopy, Copying, BeforeCopy, Steps,
            srcVars, dstVars, arrVars, undoVars, bootVars
<1>a. UNCHANGED dstDisk => \A d \in Disks : Copied(d)' <=> Copied(d)
    BY DEF Copied
<1>b. (pc \in AfterCopy => \A d \in Disks : Copied(d)) \/ opt.dry
    BY DEF CopiesComplete
<1>1. CASE Preflight \/ CaptureSpec \/ ResolveVolumes \/ FinalizeDestDisks \/ ConvertDestDisks \/ SetBoot
    BY <1>1, <1>a DEF Preflight, CaptureSpec, ResolveVolumes, FinalizeDestDisks, ConvertDestDisks,
           SetBoot, Check
<1>2. CASE PrepareSourceDisks \/ StageDisk \/ EnsureArrayConnection \/ QuiesceSource
    BY <1>2, <1>a DEF PrepareSourceDisks, StageDisk, EnsureArrayConnection, QuiesceSource
<1>3. CASE CreateDestVm
    BY <1>3, <1>a DEF CreateDestVm
<1>4. CASE AwaitSourceStopped \/ BeginBuild \/ ReplicateVolume
    BY <1>4, <1>a DEF AwaitSourceStopped, BeginBuild, ReplicateVolume
<1>5. CASE CreateManagedDisk \/ CopyVolume
    BY <1>5 DEF CreateManagedDisk, CopyVolume
<1>6. CASE PowerOnDest \/ AwaitDestRunning \/ CleanupReplication
    BY <1>6, <1>a DEF PowerOnDest, AwaitDestRunning, CleanupReplication, AfterPowerOn, Finalize
<1>7. CASE StartDest
    BY <1>7, <1>a, <1>b DEF StartDest, DryRunIdle
<1>8. CASE DeleteSourceVm \/ EradicateSourceVolume \/ Finish \/ CleanupScratch
    BY <1>8, <1>a DEF DeleteSourceVm, EradicateSourceVolume, Finish, CleanupScratch
<1>9. CASE Unwind
  <2>1. CASE stack = << >>
      BY <1>9, <1>a, <2>1 DEF Unwind
  <2>2. CASE stack /= << >>
    <3>1. stack[Len(stack)] \in Undos /\ Len(stack) \in 1..Len(stack)
        BY <2>2, PopType, EmptySeq, LenProperties
    <3>2. CASE UNCHANGED dstVars
        BY <1>9, <1>a, <2>2, <3>2 DEF Unwind
    <3>3. CASE UndoTeardown /\ stack[Len(stack)] = "teardown"
      <4>1. dstVm /= "none" /\ pc' = "unwind"
          BY <1>9, <2>2, <3>1, <3>3 DEF Unwind, UndoCovers
      <4>2. \/ dstVm' = "none"
            \/ dstVm' = dstVm /\ UNCHANGED dstDisk
            \/ dstVm = "stopped" /\ dstVm' = "stopped"
            \/ dstVm /= "stopped" /\ UNCHANGED dstDisk
          BY <3>3 DEF UndoTeardown, Stopped
      <4> QED
          BY <1>a, <4>1, <4>2 DEF Power
    <3> QED
        BY <1>9, <2>2, <3>1, <3>2, <3>3 DEF Unwind, Undos, UndoPgroup, UndoRestart
  <2> QED
      BY <2>1, <2>2
<1>10. CASE SettleDest
    BY <1>10, <1>a DEF SettleDest
<1>11. CASE SettleSource \/ UNCHANGED vars
    BY <1>11, <1>a DEF SettleSource, vars
<1> QED
    BY <1>1, <1>2, <1>3, <1>4, <1>5, <1>6, <1>7, <1>8, <1>9, <1>10, <1>11 DEF Next, Step

-----------------------------------------------------------------------------
(* The restart of the source.                                              *)

LEMMA RestartInit == Init => RestartCovers
BY DEF Init, RestartCovers, BeforeQuiesce, Copying, AfterCopy

LEMMA RestartNext == IInv /\ SourceQuiet /\ UndoCovers /\ RestartCovers /\ [Next]_vars => RestartCovers'
<1> SUFFICES ASSUME IInv, IInv', SourceQuiet, UndoCovers, RestartCovers, [Next]_vars PROVE RestartCovers'
    BY IInvNext
<1>o. UNCHANGED opt
    BY OptionsFixed
<1>q. Quiesces' <=> Quiesces
    BY <1>o DEF Quiesces
<1>r. UNCHANGED stack => (Pending("restart")' <=> Pending("restart"))
    BY DEF Pending
<1>p. stack \in Seq(Undos) /\ failures \subseteq Undos /\ failures' \subseteq Undos
    BY DEF IInv, TypeOK
<1>d. pc \notin {"scratch", "done"} => result = "none"
    BY DEF IInv, Safe, SourceGivenUp
<1>s. /\ wasRunning /\ ~opt.dry /\ opt.known
      /\ pc \in {"build"} \union Copying \union (AfterCopy \ Committing)
      => srcVm = "stopped"
    BY <1>d DEF SourceQuiet, RestartCovers, IInv, Safe, SourceGivenUp, Committing, Copying, AfterCopy
<1> USE <1>o, <1>q, <1>r, <1>d, OptionFacts, PlatformAssumption
    DEF IInv, TypeOK, DryRunIdle, RestartCovers, BeforeQuiesce, Copying, AfterCopy, Committing,
        srcVars, dstVars, arrVars, undoVars, bootVars
<1>1. CASE Preflight \/ CaptureSpec \/ ResolveVolumes \/ FinalizeDestDisks \/ ConvertDestDisks \/ SetBoot
    BY <1>1, <1>s DEF Preflight, CaptureSpec, ResolveVolumes, FinalizeDestDisks,
           ConvertDestDisks, SetBoot, Check
<1>2. CASE PrepareSourceDisks \/ StageDisk \/ CreateDestVm \/ EnsureArrayConnection
    BY <1>2 DEF PrepareSourceDisks, StageDisk, CreateDestVm, EnsureArrayConnection, SourceQuiet
<1>3. CASE QuiesceSource
  <2>1. CASE Push("restart")
    <3>1. Pending("restart")'
        BY <1>p, <2>1, PushPending DEF Undos
    <3> QED
        BY <1>3, <3>1 DEF QuiesceSource
  <2>2. CASE ~Push("restart")
      BY <1>3, <2>2 DEF QuiesceSource, PowerReads
  <2> QED
      BY <1>3, <2>1, <2>2 DEF QuiesceSource
<1>4. CASE AwaitSourceStopped
    BY <1>4 DEF AwaitSourceStopped
<1>5. CASE BeginBuild
  <2>1. Pending("restart") => Pending("restart")'
      BY <1>5, <1>p, PushPending DEF BeginBuild, Undos
  <2> QED
      BY <1>5, <2>1 DEF BeginBuild
<1>6. CASE CreateManagedDisk \/ ReplicateVolume \/ CopyVolume
    BY <1>6, <1>s DEF CreateManagedDisk, ReplicateVolume, CopyVolume, AdvanceDisk
<1>7. CASE PowerOnDest \/ StartDest \/ AwaitDestRunning \/ CleanupReplication
    BY <1>7, <1>s DEF PowerOnDest, StartDest, AwaitDestRunning, CleanupReplication,
           AfterPowerOn, Finalize
<1>8. CASE DeleteSourceVm \/ EradicateSourceVolume \/ Finish
    BY <1>8 DEF DeleteSourceVm, EradicateSourceVolume, Finish
<1>9. CASE Unwind
  <2>1. CASE stack = << >>
      BY <1>9, <2>1, EmptyPending DEF Unwind, Undos
  <2>2. CASE stack /= << >>
    <3>1. /\ stack' = SubSeq(stack, 1, Len(stack) - 1) /\ stack[Len(stack)] \in Undos
          /\ pc = "unwind" /\ pc' = "unwind" /\ UNCHANGED <<wasRunning, next, result>>
        BY <1>9, <1>p, <2>2, PopType DEF Unwind
    <3>2. Pending("restart") => stack[Len(stack)] = "restart" \/ Pending("restart")'
        BY <1>p, <2>2, <3>1, PopPending DEF Undos
    <3>3. CASE stack[Len(stack)] /= "restart"
      <4>1. UNCHANGED srcVm /\ failures \subseteq failures'
          BY <1>9, <1>p, <2>2, <3>1, <3>3 DEF Unwind, Undos, UndoPgroup, UndoTeardown
      <4> QED
          BY <1>p, <3>1, <3>2, <3>3, <4>1
    <3>4. CASE stack[Len(stack)] = "restart"
      <4>1. UndoRestart
          BY <1>9, <2>2, <3>4 DEF Unwind
      <4>2. /\ failures \subseteq failures'
            /\ failures' = {} /\ opt.src \notin Silent \union VSphere => srcVm' \in Started(srcVm)
          BY <4>1, <1>p DEF UndoRestart, ConnectorCall, Effect, Raised
      <4> QED
          BY <1>p, <3>1, <4>2 DEF Started
    <3> QED
        BY <3>3, <3>4
  <2> QED
      BY <2>1, <2>2
<1>10. CASE CleanupScratch
  <2>1. result = "rolled_back" => ~Pending("restart")
      BY EmptyPending DEF UndoCovers, Undos
  <2> QED
      BY <1>10, <2>1 DEF CleanupScratch
<1>11. CASE SettleSource
    BY <1>11 DEF SettleSource
<1>12. CASE SettleDest \/ UNCHANGED vars
    BY <1>12 DEF SettleDest, vars
<1> QED
    BY <1>1, <1>2, <1>3, <1>4, <1>5, <1>6, <1>7, <1>8, <1>9, <1>10, <1>11, <1>12 DEF Next, Step

-----------------------------------------------------------------------------
(* Theorems.                                                               *)

\* The invariant of the power states and of the rollback stack.
THEOREM RollbackInvariance == Spec => []RollbackInv
<1>1. Init => RollbackInv
    BY SourceQuietInit, CopiesCleanInit, UndoCoversInit, BootedInit, RestartInit DEF RollbackInv
<1>2. IInv /\ RollbackInv /\ [Next]_vars => RollbackInv'
    BY SourceQuietNext, CopiesCleanNext, UndoCoversNext, BootedNext, RestartNext DEF RollbackInv
<1> QED
    BY <1>1, <1>2, Invariance, PTL DEF Spec

\* A move never has its VM running at both ends before a rollback starts.
THEOREM OneVmRuns == Spec => []NoDoubleBoot
<1>1. IInv /\ RollbackInv => NoDoubleBoot
    BY DEF IInv, DryRunIdle, RollbackInv, SourceQuiet, BootedAfterCopy, NoDoubleBoot, Quiesces,
           TypeOK, Safe, SourceGivenUp
<1> QED
    BY <1>1, Invariance, RollbackInvariance, PTL

\* The destination VM starts on complete copies, clean ones after a shutdown.
THEOREM BootIsSafe == Spec => []BootsOnlyComplete
<1>1. RollbackInv => BootsOnlyComplete
    BY DEF RollbackInv, CopiesClean, BootedAfterCopy, BootsOnlyComplete
<1> QED
    BY <1>1, RollbackInvariance, PTL

\* A rollback without a failed compensation has undone everything it had to.
THEOREM RollbackUndoesAll == Spec => []RollbackIsComplete
<1>1. IInv /\ RollbackInv => RollbackIsComplete
  <2> SUFFICES ASSUME IInv, RollbackInv, result = "rolled_back", failures = {}
               PROVE  /\ wasRunning /\ next > 0 /\ ~opt.dry
                         /\ opt.known /\ opt.src \notin Silent \union VSphere
                         => srcVm \in {"starting", "running"}
                      /\ ~opt.partial /\ opt.dst \notin Silent => dstVm = "none" /\ pgroup = "none"
      BY DEF RollbackIsComplete
  <2>1. \A u \in Undos : ~Pending(u)
      BY EmptyPending DEF RollbackInv, UndoCovers
  <2> QED
      BY <2>1 DEF RollbackInv, UndoCovers, RestartCovers, Undos
<1> QED
    BY <1>1, Invariance, RollbackInvariance, PTL
=============================================================================
