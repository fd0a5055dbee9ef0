--------------------------- MODULE MigrationProofs ---------------------------
(***************************************************************************)
(* Theorems about Migration, for every number of disks, every set of       *)
(* platforms and options, and every answer the platforms may give.         *)
(***************************************************************************)
EXTENDS Migration, SequenceTheorems, TLAPS

\* The steps between the last copy and the end of a migration.
AfterCopy ==
    {"finalizeDisks", "convert", "setBoot", "powerOn", "startDest", "awaitRunning",
     "cleanReplication", "deleteSource", "eradicate", "finish"}
\* The steps of the loop over the disks, and those before it with a destination VM.
Copying   == {"makeDisk", "replicate", "copy"}
BeforeCopy == {"connect", "quiesce", "awaitStopped", "build"}

\* The clones of a staged source hold data until the finalization.
ClonesHoldData ==
    opt.vmfs /\ ~opt.dry =>
        /\ pc = "stage" => \A d \in Disks : d < next => clone[d] \in {"fuzzy", "clean"}
        /\ pc \in {"resolve", "create"} \union BeforeCopy \union Copying =>
               \A d \in Disks : clone[d] \in {"fuzzy", "clean"}

\* The disks the loop has passed are copied, and stay so until a rollback.
CopiesComplete ==
    ~opt.dry =>
        /\ pc \in BeforeCopy \union Copying \union AfterCopy \/ result = "succeeded" => dstVm /= "none"
        /\ pc \in Copying => \A d \in Disks : d < next => Copied(d)
        /\ pc = "copy" /\ opt.cross => pgroup \in {"fuzzy", "clean"}
        /\ pc \in AfterCopy \/ result = "succeeded" => \A d \in Disks : Copied(d)

\* The disks the loop has not reached have no volume at the destination.
LaterDisksAbsent ==
    /\ pc \notin Copying \union AfterCopy \union {"unwind", "scratch", "done"} =>
           \A d \in Disks : dstDisk[d] = "none"
    /\ pc \in Copying => \A d \in Disks : d > next => dstDisk[d] = "none"
    /\ pc = "makeDisk" => dstDisk[next] = "none"

\* A per-disk loop is at a disk.
LoopIndex == pc \in Copying \union {"stage", "eradicate"} => next \in Disks

\* The source is given up in the finalization only, and its VM first.
SourceGivenUp ==
    /\ result /= "none" <=> pc \in {"scratch", "done"}
    /\ pc \in {"deleteSource", "eradicate"} => ~opt.dry
    /\ srcVm = "gone" => pc \in {"eradicate", "finish"} \/ result = "succeeded"
    /\ pc = "eradicate" => srcVm = "gone" \/ opt.src \in Silent
    /\ pc = "eradicate" => \A d \in Disks : d >= next => srcDisk[d] = "live"
    /\ pc = "deleteSource" => \A d \in Disks : srcDisk[d] = "live"
    /\ \A d \in Disks : srcDisk[d] /= "live" =>
           /\ ~opt.dry
           /\ pc \in {"eradicate", "finish"} \/ result = "succeeded"
           /\ srcVm = "gone" \/ opt.src \in Silent

\* A dry run passes no step that changes something, and has nothing to undo
\* but a protection group that was never made.
DryRunIdle ==
    opt.dry =>
        /\ pc \notin {"stage", "awaitStopped", "replicate", "copy", "startDest",
                      "awaitRunning", "deleteSource", "eradicate"}
        /\ srcVm \in {"running", "stopped"}
        /\ dstVm = "none"
        /\ pgroup = "none"
        /\ \A d \in Disks : clone[d] = "none" /\ dstDisk[d] = "none" /\ srcDisk[d] = "live"
        /\ stack \in Seq({"pgroup"})

Safe == ClonesHoldData /\ CopiesComplete /\ LaterDisksAbsent /\ LoopIndex /\ SourceGivenUp
IInv == TypeOK /\ Safe /\ DryRunIdle

-----------------------------------------------------------------------------
(* Lemmas.                                                                 *)

\* What the assumptions say of a run's options.
LEMMA OptionFacts ==
    ASSUME opt \in Options
    PROVE  /\ opt.vmfs => opt.src \in VSphere
           /\ opt.dry \in BOOLEAN /\ opt.cross \in BOOLEAN /\ opt.vmfs \in BOOLEAN
           /\ opt.convert \in BOOLEAN /\ opt.on \in BOOLEAN
BY OptionAssumption DEF OptionType

\* The rollback stack keeps its type when a compensation is pushed ...
LEMMA PushType ==
    ASSUME stack \in Seq(Undos), NEW u \in Undos, Push(u)
    PROVE  stack' \in Seq(Undos)
BY AppendProperties DEF Push

\* ... and when the last one is popped.
LEMMA PopType ==
    ASSUME stack \in Seq(Undos), stack /= << >>
    PROVE  /\ SubSeq(stack, 1, Len(stack) - 1) \in Seq(Undos)
           /\ stack[Len(stack)] \in Undos
<1>1. Len(stack) \in Nat \ {0}
    BY EmptySeq, LenProperties
<1>2. \A i \in 1..Len(stack) : stack[i] \in Undos
    BY ElementOfSeq
<1>3. SubSeq(stack, 1, Len(stack) - 1) \in Seq(Undos)
    BY <1>1, <1>2, SubSeqProperties, SMT
<1> QED
    BY <1>1, <1>2, <1>3

\* The same of a stack that holds nothing but protection groups.
LEMMA PopOfPgroups ==
    ASSUME stack \in Seq({"pgroup"}), stack /= << >>
    PROVE  /\ SubSeq(stack, 1, Len(stack) - 1) \in Seq({"pgroup"})
           /\ stack[Len(stack)] = "pgroup"
<1>1. Len(stack) \in Nat \ {0}
    BY EmptySeq, LenProperties
<1>2. \A i \in 1..Len(stack) : stack[i] \in {"pgroup"}
    BY ElementOfSeq
<1>3. SubSeq(stack, 1, Len(stack) - 1) \in Seq({"pgroup"})
    BY <1>1, <1>2, SubSeqProperties, SMT
<1> QED
    BY <1>1, <1>2, <1>3

LEMMA TypeInit == Init => TypeOK
<1> SUFFICES ASSUME Init PROVE TypeOK
    OBVIOUS
<1>1. stack \in Seq(Undos)
    BY EmptySeq DEF Init
<1>2. srcVm \in Power \union {"gone"} /\ opt \in Options /\ linked \in BOOLEAN
    BY DEF Init, Power
<1>3. 0 \in 0..NDisks /\ 0 \in 0..StartAttempts
    BY SizeAssumption
<1> QED
    BY <1>1, <1>2, <1>3 DEF Init, TypeOK, Steps, Content

LEMMA TypeNext == IInv /\ [Next]_vars => TypeOK'
<1> SUFFICES ASSUME TypeOK, Safe, [Next]_vars PROVE TypeOK'
    BY DEF IInv
<1> USE SizeAssumption, OptionFacts
    DEF TypeOK, Steps, Power, Disks, Content, srcVars, dstVars, arrVars, undoVars, bootVars
<1>1. CASE Preflight
    BY <1>1 DEF Preflight, Check
<1>2. CASE CaptureSpec
    BY <1>2 DEF CaptureSpec, Check
<1>3. CASE ResolveVolumes
    BY <1>3 DEF ResolveVolumes, Check
<1>4. CASE PrepareSourceDisks
    BY <1>4 DEF PrepareSourceDisks
<1>5. CASE StageDisk
  <2>1. clone' \in [Disks -> Content]
      BY <1>5 DEF StageDisk
  <2>2. next' \in 0..NDisks /\ pc' \in Steps
      BY <1>5 DEF StageDisk
  <2>3. recorded' \in BOOLEAN
      BY <1>5 DEF StageDisk
  <2> QED
      BY <1>5, <2>1, <2>2, <2>3 DEF StageDisk
<1>6. CASE CreateDestVm
  <2>1. stack' \in Seq(Undos)
      BY <1>6, PushType DEF CreateDestVm, Undos
  <2> QED
      BY <1>6, <2>1 DEF CreateDestVm
<1>7. CASE EnsureArrayConnection
  <2>1. linked' \in BOOLEAN
      BY <1>7 DEF EnsureArrayConnection
  <2>2. pc' \in Steps
      BY <1>7 DEF EnsureArrayConnection
  <2> QED
      BY <1>7, <2>1, <2>2 DEF EnsureArrayConnection
<1>8. CASE QuiesceSource
  <2>1. stack' \in Seq(Undos)
      BY <1>8, PushType DEF QuiesceSource, Undos
  <2>2. srcVm' \in Power \union {"gone"}
      BY <1>8 DEF QuiesceSource, Stopped
  <2>3. wasRunning' \in BOOLEAN
      BY <1>8 DEF QuiesceSource
  <2>4. pc' \in Steps
      BY <1>8 DEF QuiesceSource
  <2> QED
      BY <1>8, <2>1, <2>2, <2>3, <2>4 DEF QuiesceSource
<1>9. CASE AwaitSourceStopped
    BY <1>9 DEF AwaitSourceStopped
<1>10. CASE BeginBuild
  <2>1. stack' \in Seq(Undos)
      BY <1>10, PushType DEF BeginBuild, Undos
  <2> QED
      BY <1>10, <2>1 DEF BeginBuild
<1>11. CASE CreateManagedDisk
    BY <1>11 DEF CreateManagedDisk, AdvanceDisk, ArrayCall
<1>12. CASE ReplicateVolume
  <2>1. SourceContent(next) \in Content
      BY <1>12 DEF Safe, LoopIndex, Copying, ReplicateVolume, SourceContent
  <2>2. pgroup' \in Content
      BY <1>12, <2>1 DEF ReplicateVolume, SourceContent
  <2> QED
      BY <1>12, <2>2 DEF ReplicateVolume
<1>13. CASE CopyVolume
  <2>1. dstDisk' \in [Disks -> Content]
      BY <1>13 DEF Safe, LoopIndex, Copying, CopyVolume, SourceContent
  <2>2. next' \in 0..NDisks /\ pc' \in Steps
      BY <1>13 DEF CopyVolume, AdvanceDisk
  <2> QED
      BY <1>13, <2>1, <2>2 DEF CopyVolume
<1>14. CASE FinalizeDestDisks
    BY <1>14 DEF FinalizeDestDisks, Check
<1>15. CASE ConvertDestDisks
    BY <1>15 DEF ConvertDestDisks, Check
<1>16. CASE SetBoot
    BY <1>16 DEF SetBoot, Check
<1>17. CASE PowerOnDest
  <2>1. ShouldPowerOn \in BOOLEAN
      BY Zenon DEF ShouldPowerOn
  <2>2. pc' \in Steps
      BY <1>17 DEF PowerOnDest, AfterPowerOn, Finalize
  <2>3. poweredOn' \in BOOLEAN
      BY <1>17, <2>1 DEF PowerOnDest
  <2> QED
      BY <1>17, <2>2, <2>3 DEF PowerOnDest
<1>18. CASE StartDest
    BY <1>18 DEF StartDest, Started
<1>19. CASE AwaitDestRunning
    BY <1>19 DEF AwaitDestRunning, AfterPowerOn, Finalize
<1>20. CASE CleanupReplication
    BY <1>20 DEF CleanupReplication, Finalize
<1>21. CASE DeleteSourceVm
    BY <1>21 DEF DeleteSourceVm
<1>22. CASE EradicateSourceVolume
  <2>1. next' \in 0..NDisks /\ pc' \in Steps
      BY <1>22 DEF EradicateSourceVolume
  <2>2. clone' \in [Disks -> Content]
      BY <1>22 DEF EradicateSourceVolume
  <2>3. srcDisk' \in [Disks -> {"live", "destroyed", "eradicated"}]
      BY <1>22 DEF EradicateSourceVolume
  <2> QED
      BY <1>22, <2>1, <2>2, <2>3 DEF EradicateSourceVolume
<1>23. CASE Finish
    BY <1>23 DEF Finish
<1>24. CASE Unwind
  <2>1. stack' \in Seq(Undos) /\ (stack /= << >> => stack[Len(stack)] \in Undos)
      BY <1>24, PopType DEF Unwind
  <2>2. CASE stack = << >>
      BY <1>24, <2>1, <2>2 DEF Unwind
  <2>3. CASE stack /= << >> /\ stack[Len(stack)] = "pgroup"
      BY <1>24, <2>1, <2>3 DEF Unwind, UndoPgroup, Undos
  <2>4. CASE stack /= << >> /\ stack[Len(stack)] = "restart"
      BY <1>24, <2>1, <2>4 DEF Unwind, UndoRestart, Started, Undos
  <2>5. CASE stack /= << >> /\ stack[Len(stack)] = "teardown"
      BY <1>24, <2>1, <2>5 DEF Unwind, UndoTeardown, Stopped, Undos
  <2> QED
      BY <2>1, <2>2, <2>3, <2>4, <2>5 DEF Undos
<1>25. CASE CleanupScratch
  <2>1. stack' \in Seq(Undos)
      BY <1>25, EmptySeq DEF CleanupScratch
  <2> QED
      BY <1>25, <2>1 DEF CleanupScratch
<1>26. CASE SettleSource
    BY <1>26 DEF SettleSource
<1>27. CASE SettleDest
    BY <1>27 DEF SettleDest
<1>28. CASE UNCHANGED vars
    BY <1>28 DEF vars
<1> QED
    BY <1>1, <1>2, <1>3, <1>4, <1>5, <1>6, <1>7, <1>8, <1>9, <1>10, <1>11, <1>12, <1>13, <1>14, <1>15, <1>16, <1>17, <1>18, <1>19, <1>20, <1>21, <1>22, <1>23, <1>24, <1>25, <1>26, <1>27, <1>28 DEF Next, Step

LEMMA SafeInit == Init => Safe
BY DEF Init, Safe, ClonesHoldData, CopiesComplete, LaterDisksAbsent, LoopIndex, SourceGivenUp,
       Disks, Copying, BeforeCopy, AfterCopy

LEMMA SafeNext == IInv /\ [Next]_vars => Safe'
<1> SUFFICES ASSUME TypeOK, TypeOK', Safe, [Next]_vars PROVE Safe'
    BY TypeNext DEF IInv
<1> USE SizeAssumption, OptionFacts
    DEF TypeOK, Safe, ClonesHoldData, CopiesComplete, LaterDisksAbsent, LoopIndex, SourceGivenUp,
        Disks, Content, Copying, BeforeCopy, AfterCopy, Copied, Steps,
        srcVars, dstVars, arrVars, undoVars, bootVars
<1>1. CASE Preflight
    BY <1>1 DEF Preflight, Check
<1>2. CASE CaptureSpec
    BY <1>2 DEF CaptureSpec, Check
<1>3. CASE ResolveVolumes
    BY <1>3 DEF ResolveVolumes, Check
<1>4. CASE PrepareSourceDisks
    BY <1>4 DEF PrepareSourceDisks
<1>5. CASE StageDisk
    BY <1>5 DEF StageDisk
<1>6. CASE CreateDestVm
    BY <1>6 DEF CreateDestVm, Undos, ConnectorCall, Effect, Ok
<1>7. CASE EnsureArrayConnection
    BY <1>7 DEF EnsureArrayConnection
<1>8. CASE QuiesceSource
    BY <1>8 DEF QuiesceSource, Stopped, Power, PowerReads
<1>9. CASE AwaitSourceStopped
    BY <1>9 DEF AwaitSourceStopped
<1>10. CASE BeginBuild
    BY <1>10 DEF BeginBuild
<1>11. CASE CreateManagedDisk
    BY <1>11 DEF CreateManagedDisk, AdvanceDisk, ArrayCall, SourceContent, Effect, Ok
<1>12. CASE ReplicateVolume
    BY <1>12 DEF ReplicateVolume, SourceContent
<1>13. CASE CopyVolume
    BY <1>13 DEF CopyVolume, AdvanceDisk, ArrayCall, SourceContent, Effect, Ok
<1>14. CASE FinalizeDestDisks
    BY <1>14 DEF FinalizeDestDisks, Check
<1>15. CASE ConvertDestDisks
    BY <1>15 DEF ConvertDestDisks, Check
<1>16. CASE SetBoot
    BY <1>16 DEF SetBoot, Check
<1>17. CASE PowerOnDest
    BY <1>17 DEF PowerOnDest, AfterPowerOn, Finalize, ShouldPowerOn
<1>18. CASE StartDest
    BY <1>18 DEF StartDest, Started
<1>19. CASE AwaitDestRunning
    BY <1>19 DEF AwaitDestRunning, AfterPowerOn, Finalize
<1>20. CASE CleanupReplication
    BY <1>20 DEF CleanupReplication, Finalize, ConnectorCall, Effect, Ok
<1>21. CASE DeleteSourceVm
    BY <1>21 DEF DeleteSourceVm, ConnectorCall, Effect, Ok
<1>22. CASE EradicateSourceVolume
    BY <1>22 DEF EradicateSourceVolume
<1>23. CASE Finish
    BY <1>23 DEF Finish
<1>24. CASE Unwind
  <2>1. CASE stack = << >>
      BY <1>24, <2>1 DEF Unwind
  <2>2. stack /= << >> => stack[Len(stack)] \in Undos
      BY <1>24, PopType DEF Unwind
  <2>3. CASE stack /= << >>
    <3>1. pc' = "unwind" /\ UNCHANGED <<opt, next, srcDisk, clone, recorded, linked, result>>
        BY <1>24, <2>3 DEF Unwind
    <3>2. srcVm /= "gone" => srcVm' /= "gone"
        BY <1>24, <2>2, <2>3 DEF Unwind, UndoPgroup, UndoRestart, UndoTeardown, Started, Undos
    <3>3. /\ result = "none" /\ srcVm /= "gone"
          /\ \A d \in Disks : srcDisk[d] = "live"
        BY <1>24 DEF Unwind
    <3> QED
        BY <1>24, <3>1, <3>2, <3>3 DEF Unwind
  <2> QED
      BY <2>1, <2>3
<1>25. CASE CleanupScratch
    BY <1>25 DEF CleanupScratch
<1>26. CASE SettleSource
    BY <1>26 DEF SettleSource
<1>27. CASE SettleDest
    BY <1>27 DEF SettleDest
<1>28. CASE UNCHANGED vars
    BY <1>28 DEF vars
<1> QED
    BY <1>1, <1>2, <1>3, <1>4, <1>5, <1>6, <1>7, <1>8, <1>9, <1>10, <1>11, <1>12, <1>13, <1>14, <1>15, <1>16, <1>17, <1>18, <1>19, <1>20, <1>21, <1>22, <1>23, <1>24, <1>25, <1>26, <1>27, <1>28 DEF Next, Step

LEMMA DryInit == Init => DryRunIdle
<1> SUFFICES ASSUME Init PROVE DryRunIdle
    OBVIOUS
<1>1. stack \in Seq({"pgroup"})
    BY EmptySeq DEF Init
<1> QED
    BY <1>1 DEF Init, DryRunIdle

\* What a dry run's step does: it keeps the invariant, and changes nothing.
LEMMA DryNext ==
    ASSUME IInv, TypeOK', opt.dry, [Next]_vars
    PROVE  DryRunIdle' /\ UNCHANGED <<srcVm, srcDisk, clone, dstVars, arrVars>>
<1> USE SizeAssumption, OptionFacts
    DEF IInv, TypeOK, DryRunIdle, Disks, Content, srcVars, dstVars, arrVars, undoVars, bootVars
<1>1. CASE Preflight
    BY <1>1 DEF Preflight, Check
<1>2. CASE CaptureSpec
    BY <1>2 DEF CaptureSpec, Check
<1>3. CASE ResolveVolumes
    BY <1>3 DEF ResolveVolumes, Check
<1>4. CASE PrepareSourceDisks
    BY <1>4 DEF PrepareSourceDisks
<1>5. CASE StageDisk
    BY <1>5 DEF StageDisk
<1>6. CASE CreateDestVm
    BY <1>6 DEF CreateDestVm, Effect
<1>7. CASE EnsureArrayConnection
    BY <1>7 DEF EnsureArrayConnection
<1>8. CASE QuiesceSource
    BY <1>8 DEF QuiesceSource
<1>9. CASE AwaitSourceStopped
    BY <1>9 DEF AwaitSourceStopped
<1>10. CASE BeginBuild
  <2>1. stack' \in Seq({"pgroup"})
    <3>1. Append(stack, "pgroup") \in Seq({"pgroup"})
        BY AppendProperties
    <3> QED
        BY <1>10, <3>1 DEF BeginBuild, Push
  <2> QED
      BY <1>10, <2>1 DEF BeginBuild
<1>11. CASE CreateManagedDisk
    BY <1>11 DEF CreateManagedDisk, AdvanceDisk
<1>12. CASE ReplicateVolume
    BY <1>12 DEF ReplicateVolume
<1>13. CASE CopyVolume
    BY <1>13 DEF CopyVolume
<1>14. CASE FinalizeDestDisks
    BY <1>14 DEF FinalizeDestDisks, Check
<1>15. CASE ConvertDestDisks
    BY <1>15 DEF ConvertDestDisks, Check
<1>16. CASE SetBoot
    BY <1>16 DEF SetBoot, Check
<1>17. CASE PowerOnDest
    BY <1>17 DEF PowerOnDest, AfterPowerOn, Finalize
<1>18. CASE StartDest
    BY <1>18 DEF StartDest
<1>19. CASE AwaitDestRunning
    BY <1>19 DEF AwaitDestRunning
<1>20. CASE CleanupReplication
    BY <1>20 DEF CleanupReplication, Finalize
<1>21. CASE DeleteSourceVm
    BY <1>21 DEF DeleteSourceVm
<1>22. CASE EradicateSourceVolume
    BY <1>22 DEF EradicateSourceVolume
<1>23. CASE Finish
    BY <1>23 DEF Finish
<1>24. CASE Unwind
  <2>1. CASE stack = << >>
      BY <1>24, <2>1 DEF Unwind
  <2>2. CASE stack /= << >>
    <3>1. stack[Len(stack)] = "pgroup" /\ SubSeq(stack, 1, Len(stack) - 1) \in Seq({"pgroup"})
        BY <2>2, PopOfPgroups
    <3>2. /\ stack' = SubSeq(stack, 1, Len(stack) - 1) /\ UNCHANGED <<srcVm, dstVars>>
          /\ UNCHANGED <<pc, opt, next, srcDisk, clone, recorded, linked, bootVars>>
          /\ pgroup' \in {pgroup, "none"}
        BY <1>24, <2>2, <3>1 DEF Unwind, UndoPgroup
    <3> QED
        BY <3>1, <3>2
  <2> QED
      BY <2>1, <2>2
<1>25. CASE CleanupScratch
  <2>1. stack' \in Seq({"pgroup"})
      BY <1>25, EmptySeq DEF CleanupScratch
  <2> QED
      BY <1>25, <2>1 DEF CleanupScratch
<1>26. CASE SettleSource
    BY <1>26 DEF SettleSource
<1>27. CASE SettleDest
    BY <1>27 DEF SettleDest
<1>28. CASE UNCHANGED vars
    BY <1>28 DEF vars
<1> QED
    BY <1>1, <1>2, <1>3, <1>4, <1>5, <1>6, <1>7, <1>8, <1>9, <1>10, <1>11, <1>12, <1>13, <1>14, <1>15, <1>16, <1>17, <1>18, <1>19, <1>20, <1>21, <1>22, <1>23, <1>24, <1>25, <1>26, <1>27, <1>28 DEF Next, Step

\* No step changes the options.
LEMMA OptionsFixed == [Next]_vars => UNCHANGED opt
BY DEF Next, Step, vars, Preflight, CaptureSpec, ResolveVolumes, Check, PrepareSourceDisks,
       StageDisk, CreateDestVm, EnsureArrayConnection, QuiesceSource, AwaitSourceStopped,
       BeginBuild, CreateManagedDisk, ReplicateVolume, CopyVolume, FinalizeDestDisks,
       ConvertDestDisks, SetBoot, PowerOnDest, StartDest, AwaitDestRunning, CleanupReplication,
       DeleteSourceVm, EradicateSourceVolume, Finish, Unwind, CleanupScratch, SettleSource,
       SettleDest

-----------------------------------------------------------------------------
(* Theorems.                                                               *)

LEMMA IInvNext == IInv /\ [Next]_vars => IInv'
<1> SUFFICES ASSUME IInv, [Next]_vars PROVE IInv'
    OBVIOUS
<1>1. TypeOK' /\ Safe'
    BY TypeNext, SafeNext
<1>2. DryRunIdle'
    BY <1>1, DryNext, OptionsFixed DEF DryRunIdle
<1> QED
    BY <1>1, <1>2 DEF IInv

\* The inductive invariant holds of every behaviour of the service.
THEOREM Invariance == Spec => []IInv
<1>1. Init => IInv
    BY TypeInit, SafeInit, DryInit DEF IInv
<1> QED
    BY <1>1, IInvNext, PTL DEF Spec

\* Every variable keeps its type.
THEOREM TypeCorrect == Spec => []TypeOK
<1>1. IInv => TypeOK
    BY DEF IInv
<1> QED
    BY <1>1, Invariance, PTL

\* No answer of any platform loses the content of a disk.
THEOREM DataSurvives == Spec => []NoDataLoss
<1>1. IInv => NoDataLoss
    BY DEF IInv, TypeOK, Safe, CopiesComplete, SourceGivenUp, NoDataLoss, AfterCopy
<1> QED
    BY <1>1, Invariance, PTL

\* The guard of _finalize_move protects the volumes of a VM that still exists.
THEOREM VolumesFollowVm == Spec => []EradicationFollowsRemoval
<1>1. IInv => EradicationFollowsRemoval
    BY DEF IInv, Safe, SourceGivenUp, EradicationFollowsRemoval
<1> QED
    BY <1>1, Invariance, PTL

\* A migration that fails leaves the source as it needs it.
THEOREM RollbackSafe == Spec => []RollbackKeepsSource
<1>1. IInv => RollbackKeepsSource
    BY DEF IInv, TypeOK, Safe, SourceGivenUp, RollbackKeepsSource
<1> QED
    BY <1>1, Invariance, PTL

\* A dry run changes nothing outside the service, whatever the platforms do.
THEOREM DryRunIsIdle == Spec => DryRunChangesNothing
<1>1. IInv /\ IInv' /\ [Next]_vars
      => [opt.dry => UNCHANGED <<srcVm, srcDisk, clone, dstVars, arrVars>>]_vars
    BY DryNext DEF IInv
<1> QED
    BY <1>1, Invariance, PTL DEF Spec, DryRunChangesNothing

-----------------------------------------------------------------------------
(* Migration implements ColdCutover.                                       *)

LEMMA CutoverInit == Init => Cutover!Init
BY OptionFacts DEF Init, Cutover!Init, Committing, Copied

\* The abstract phase of a wet run (the mapping of Migration, named).
Phase ==
    IF opt.dry THEN "building"
    ELSE IF pc \in Committing \/ result = "succeeded" THEN "committed"
    ELSE IF pc = "unwind" \/ result = "rolled_back" THEN "aborted" ELSE "building"
AtSource == {d \in Disks : srcDisk[d] = "live"}
AtDest   == {d \in Disks : Copied(d)}

LEMMA CutoverNext == IInv /\ IInv' /\ [Next]_vars => [Cutover!Next]_(Cutover!vars)
<1> SUFFICES ASSUME IInv, IInv', [Next]_vars
             PROVE  Cutover!Next \/ UNCHANGED <<Phase, AtSource, AtDest>>
    BY DEF Cutover!vars, Phase, AtSource, AtDest
<1>a. Cutover!Next <=>
        \/ \E d \in Disks : /\ Phase = "building"
                            /\ AtDest' = AtDest \union {d} /\ UNCHANGED <<Phase, AtSource>>
        \/ \E d \in Disks : /\ Phase = "committed"
                            /\ AtSource' = AtSource \ {d} /\ UNCHANGED <<Phase, AtDest>>
        \/ /\ Phase = "building" /\ AtDest = Disks
           /\ Phase' = "committed" /\ UNCHANGED <<AtSource, AtDest>>
        \/ /\ Phase = "building" /\ Phase' = "aborted" /\ UNCHANGED AtSource
           /\ \E ds \in SUBSET Disks : AtDest' = AtDest \union ds
        \/ Phase = "aborted" /\ AtDest' \in SUBSET AtDest /\ UNCHANGED <<Phase, AtSource>>
    BY DEF Cutover!Next, Cutover!CopyDisk, Cutover!Retire, Cutover!Commit, Cutover!Abort,
           Cutover!Discard, Phase, AtSource, AtDest
<1>b. UNCHANGED opt
    BY OptionsFixed
<1>c. ASSUME UNCHANGED <<AtSource, AtDest>>, Phase = "building", Phase' \in {"building", "aborted"}
      PROVE  Cutover!Next \/ UNCHANGED <<Phase, AtSource, AtDest>>
  <2>1. {} \in SUBSET Disks /\ AtDest' = AtDest \union {}
      BY <1>c
  <2> QED
      BY <1>a, <1>c, <2>1
<1>d. ASSUME NEW d \in Disks, Phase = "building", UNCHANGED <<Phase, AtSource>>,
             AtDest' = AtDest \/ AtDest' = AtDest \union {d}
      PROVE  Cutover!Next \/ UNCHANGED <<Phase, AtSource, AtDest>>
    BY <1>a, <1>d
<1>e. ASSUME NEW d \in Disks, Phase = "building", Phase' = "aborted", UNCHANGED AtSource,
             AtDest' = AtDest \/ AtDest' = AtDest \union {d}
      PROVE  Cutover!Next
  <2>1. PICK ds \in {{}, {d}} : AtDest' = AtDest \union ds
      BY <1>e
  <2>2. ds \in SUBSET Disks
      BY <2>1
  <2> QED
      BY <1>a, <1>e, <2>1, <2>2
<1>1. CASE opt.dry
  <2>1. UNCHANGED <<srcDisk, dstDisk>>
      BY <1>1, DryNext DEF IInv, dstVars
  <2> QED
      BY <1>1, <1>b, <2>1 DEF Phase, AtSource, AtDest, Copied
<1>2. CASE ~opt.dry
  <2> DEFINE Kept == UNCHANGED <<srcDisk, dstDisk, result>>
             Building == pc \notin Committing \union {"unwind", "scratch", "done"}
  <2> USE <1>b, <1>2, SizeAssumption, OptionFacts
      DEF IInv, TypeOK, Safe, SourceGivenUp, Disks, Content, Committing,
          srcVars, dstVars, arrVars, undoVars, bootVars
  <2>1. ASSUME Kept, Building, pc' \notin Committing \union {"scratch", "done"}
        PROVE  Cutover!Next \/ UNCHANGED <<Phase, AtSource, AtDest>>
    <3>1. UNCHANGED <<AtSource, AtDest>> /\ Phase = "building" /\ Phase' \in {"building", "aborted"}
        BY <2>1 DEF Phase, AtSource, AtDest, Copied
    <3> QED
        BY <1>c, <3>1
  <2>2. ASSUME Kept, Phase' = Phase
        PROVE  UNCHANGED <<Phase, AtSource, AtDest>>
      BY <2>2 DEF AtSource, AtDest, Copied
  <2>3. ASSUME Kept, pc \in AfterCopy, Building, pc' \in AfterCopy
        PROVE  Cutover!Next \/ UNCHANGED <<Phase, AtSource, AtDest>>
    <3>1. UNCHANGED <<AtSource, AtDest>> /\ AtDest = Disks
        BY <2>3 DEF AtSource, AtDest, Copied, CopiesComplete
    <3>2. Phase = "building" /\ Phase' \in {"building", "committed"}
        BY <2>3 DEF Phase, AfterCopy
    <3> QED
        BY <1>a, <3>1, <3>2
  <2>4. CASE Preflight \/ CaptureSpec \/ ResolveVolumes \/ FinalizeDestDisks \/ ConvertDestDisks \/ SetBoot
      BY <2>1, <2>4 DEF Preflight, CaptureSpec, ResolveVolumes, FinalizeDestDisks,
                        ConvertDestDisks, SetBoot, Check
  <2>5. CASE PrepareSourceDisks \/ StageDisk \/ CreateDestVm \/ EnsureArrayConnection
      BY <2>1, <2>5 DEF PrepareSourceDisks, StageDisk, CreateDestVm, EnsureArrayConnection
  <2>6. CASE QuiesceSource \/ AwaitSourceStopped \/ BeginBuild \/ ReplicateVolume
      BY <2>1, <2>6 DEF QuiesceSource, AwaitSourceStopped, BeginBuild, ReplicateVolume
  <2>7. CASE StartDest
      BY <2>1, <2>7 DEF StartDest
  <2>8. CASE AwaitDestRunning
    <3>1. Kept /\ pc = "awaitRunning" /\ pc' \in AfterCopy \union {"unwind"}
        BY <2>8 DEF AwaitDestRunning, AfterPowerOn, Finalize, AfterCopy
    <3> QED
        BY <2>1, <2>3, <3>1 DEF AfterCopy
  <2>9. CASE PowerOnDest
    <3>1. Kept /\ pc = "powerOn" /\ pc' \in AfterCopy
        BY <2>9 DEF PowerOnDest, AfterPowerOn, Finalize, AfterCopy
    <3> QED
        BY <2>3, <3>1 DEF AfterCopy
  <2>10. CASE CleanupReplication
    <3>1. Kept /\ pc = "cleanReplication" /\ pc' \in AfterCopy
        BY <2>10 DEF CleanupReplication, Finalize, AfterCopy
    <3> QED
        BY <2>3, <3>1 DEF AfterCopy
  <2>11. CASE CreateManagedDisk
    <3>1. UNCHANGED <<srcDisk, result>> /\ pc = "makeDisk" /\ pc' \notin Committing \union {"scratch", "done"}
        BY <2>11 DEF CreateManagedDisk, AdvanceDisk
    <3>2. UNCHANGED <<AtSource, AtDest>>
        BY <2>11, <3>1 DEF CreateManagedDisk, AtSource, AtDest, Copied, LaterDisksAbsent, LoopIndex, Copying
    <3>3. Phase = "building" /\ Phase' \in {"building", "aborted"}
        BY <3>1 DEF Phase
    <3> QED
        BY <1>c, <3>2, <3>3
  <2>12. CASE CopyVolume
    <3>1. UNCHANGED <<srcDisk, result>> /\ pc = "copy" /\ next \in Disks
          /\ pc' \in {"makeDisk", "finalizeDisks", "unwind"}
        BY <2>12 DEF CopyVolume, AdvanceDisk, LoopIndex, Copying
    <3>2. UNCHANGED AtSource
        BY <3>1 DEF AtSource
    <3>3. (IF opt.cross THEN pgroup ELSE SourceContent(next)) \in {"clean", "fuzzy"}
        BY <3>1 DEF SourceContent, CopiesComplete, ClonesHoldData, Copying
    <3>4. /\ \A d \in Disks : d /= next => dstDisk'[d] = dstDisk[d]
          /\ \/ dstDisk'[next] = dstDisk[next]
             \/ dstDisk'[next] = IF opt.cross THEN pgroup ELSE SourceContent(next)
        BY <2>12, <3>1 DEF CopyVolume
    <3>5. AtDest' = AtDest \/ AtDest' = AtDest \union {next}
        BY <3>1, <3>3, <3>4 DEF AtDest, Copied
    <3>6. Phase = "building" /\ Phase' \in {"building", "aborted"}
        BY <3>1 DEF Phase
    <3> QED
        BY <1>d, <1>e, <3>1, <3>2, <3>5, <3>6, Zenon
  <2>13. CASE DeleteSourceVm
    <3>1. Kept /\ Phase' = Phase
        BY <2>13 DEF DeleteSourceVm, Phase
    <3> QED
        BY <2>2, <3>1
  <2>14. CASE EradicateSourceVolume
    <3>1. UNCHANGED <<dstDisk, result>> /\ next \in Disks /\ Phase = "committed" /\ Phase' = "committed"
        BY <2>14 DEF EradicateSourceVolume, LoopIndex, Phase
    <3>2. AtSource' = AtSource \/ AtSource' = AtSource \ {next}
      <4>1. srcDisk[next] = "live" /\ \A d \in Disks : d /= next => srcDisk'[d] = srcDisk[d]
          BY <2>14, <3>1 DEF EradicateSourceVolume
      <4> QED
          BY <3>1, <4>1 DEF AtSource
    <3>3. AtDest' = AtDest
        BY <3>1 DEF AtDest, Copied
    <3> QED
        BY <1>a, <3>1, <3>2, <3>3
  <2>15. CASE Finish
    <3>1. UNCHANGED <<AtSource, AtDest>> /\ Phase' = Phase
        BY <2>15 DEF Finish, AtSource, AtDest, Copied, Phase
    <3> QED
        BY <3>1
  <2>16. CASE Unwind
    <3>1. UNCHANGED srcDisk /\ Phase = "aborted" /\ Phase' = "aborted"
        BY <2>16 DEF Unwind, Phase
    <3>2. AtSource' = AtSource
        BY <3>1 DEF AtSource
    <3>3. \A d \in Disks : dstDisk'[d] = dstDisk[d] \/ dstDisk'[d] = "none"
      <4>1. CASE stack = << >>
          BY <2>16, <4>1 DEF Unwind
      <4>2. CASE stack /= << >>
        <5>1. stack[Len(stack)] \in Undos
            BY <4>2, PopType
        <5>2. UNCHANGED dstVars \/ UndoTeardown
            BY <2>16, <4>2, <5>1 DEF Unwind, Undos, UndoPgroup, UndoRestart
        <5>3. CASE UndoTeardown
            BY <5>3 DEF UndoTeardown
        <5> QED
            BY <5>2, <5>3
      <4> QED
          BY <4>1, <4>2
    <3>4. AtDest' \in SUBSET AtDest
        BY <3>3 DEF AtDest, Copied
    <3> QED
        BY <1>a, <3>1, <3>2, <3>4
  <2>17. CASE CleanupScratch
    <3>1. Kept /\ Phase' = Phase
        BY <2>17 DEF CleanupScratch, Phase
    <3> QED
        BY <2>2, <3>1
  <2>18. CASE SettleSource \/ SettleDest \/ UNCHANGED vars
    <3>1. Kept /\ Phase' = Phase
        BY <2>18 DEF SettleSource, SettleDest, vars, Phase
    <3> QED
        BY <2>2, <3>1
  <2> QED
      BY <2>4, <2>5, <2>6, <2>7, <2>8, <2>9, <2>10, <2>11, <2>12, <2>13, <2>14, <2>15, <2>16, <2>17,
         <2>18 DEF Next, Step
<1> QED
    BY <1>1, <1>2

\* Whatever happens, a migration is a cold cutover: it copies every disk
\* before it gives up any, and an aborted one keeps them all.
THEOREM Refinement == Spec => ImplementsColdCutover
<1>1. Init => Cutover!Init
    BY CutoverInit
<1>2. IInv /\ IInv' /\ [Next]_vars => [Cutover!Next]_(Cutover!vars)
    BY CutoverNext
<1> QED
    BY <1>1, <1>2, Invariance, PTL DEF Spec, ImplementsColdCutover, Cutover!Spec
=============================================================================
