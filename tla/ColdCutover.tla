----------------------------- MODULE ColdCutover -----------------------------
(***************************************************************************)
(* What a VM migration promises about the data, whatever the platforms     *)
(* and the network do: a disk's content is first copied to the             *)
(* destination, and the source copy may only be given up once EVERY disk   *)
(* has arrived and the migration has committed.  A migration that aborts   *)
(* keeps the whole source and throws the destination copies away.          *)
(*                                                                         *)
(* Migration (the translation of phif/migrate/service.py) is shown to      *)
(* implement this specification.                                           *)
(***************************************************************************)
CONSTANT Disks

VARIABLES
    phase,    \* "building", "committed" or "aborted"
    atSource, \* the disks whose content the source still holds
    atDest    \* the disks whose content the destination holds

vars == <<phase, atSource, atDest>>

Init ==
    /\ phase = "building"
    /\ atSource = Disks
    /\ atDest = {}

\* One more disk has been copied.
CopyDisk(d) ==
    /\ phase = "building"
    /\ atDest' = atDest \union {d}
    /\ UNCHANGED <<phase, atSource>>

\* Every disk has arrived: from here on the migration cannot abort.
Commit ==
    /\ phase = "building"
    /\ atDest = Disks
    /\ phase' = "committed"
    /\ UNCHANGED <<atSource, atDest>>

\* The source copy of a disk is given up.
Retire(d) ==
    /\ phase = "committed"
    /\ atSource' = atSource \ {d}
    /\ UNCHANGED <<phase, atDest>>

\* The migration fails; the copy in flight may still have completed.
Abort ==
    /\ phase = "building"
    /\ phase' = "aborted"
    /\ \E d \in SUBSET Disks : atDest' = atDest \union d
    /\ UNCHANGED atSource

\* Rollback frees some of the destination copies.
Discard ==
    /\ phase = "aborted"
    /\ atDest' \in SUBSET atDest
    /\ UNCHANGED <<phase, atSource>>

Next ==
    \/ \E d \in Disks : CopyDisk(d) \/ Retire(d)
    \/ Commit
    \/ Abort
    \/ Discard

Spec == Init /\ [][Next]_vars
=============================================================================
