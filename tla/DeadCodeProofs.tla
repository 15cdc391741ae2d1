--------------------------- MODULE DeadCodeProofs ---------------------------
(***************************************************************************)
(* Proofs about DeadCode, for any set of instructions and any set of       *)
(* blocks: marking computes the least set that has every critical          *)
(* instruction and is closed under operands, a sweep frees nothing that is *)
(* still held, and when the rounds stop nothing dead is left.  That they   *)
(* stop is model-checked.                                                  *)
(*                                                                         *)
(* The marked instructions are bounded from below by what has been worked  *)
(* off (Marking) and from above by every set that could serve as a result  *)
(* (Needed); what is to be freed is held by nothing that is kept, and by   *)
(* nothing the first loop has been at (Unlinking); the last round is the   *)
(* one in which nothing changed (QuietRound).                              *)
(***************************************************************************)
EXTENDS DeadCode, TLAPS

\* A candidate for the result of marking.
Sufficient(S) == ins \cap critical \subseteq S /\ ClosedUnderOperands(S)

\* Only the operands of queued instructions may still have to be marked.
Marking ==
    phase \in {"mark", "sweep"} =>
        /\ ins \cap critical \subseteq marked
        /\ \A i \in marked \ work : ops[i] \cap ins \subseteq marked
        /\ phase = "sweep" => work = {}

\* Everything marked is in every candidate.
Needed ==
    phase \in {"mark", "sweep"} => \A S \in SUBSET ins : Sufficient(S) => marked \subseteq S

\* Nothing that is kept holds what is to be freed, nor does what the first loop
\* of sweep has been at.
Unlinking ==
    Sweeping =>
        /\ \A j \in ins \ wait_del : ops[j] \cap wait_del = {}
        /\ \A j \in wait_del : ops[j] # {} => phase = "unlink" /\ j \in left

\* While a round has changed nothing, there is no block to erase; if it still
\* has not at its end, everything there is is needed.
QuietRound ==
    /\ phase \in {"queue", "mark", "sweep", "unlink", "erase", "again"} /\ ~changed => Erasable = {}
    /\ Sweeping /\ wait_del = {} => \A S \in SUBSET ins : Sufficient(S) => ins \subseteq S
    /\ phase = "again" /\ ~changed =>
          \A S \in SUBSET ins : Sufficient(S) => ins \subseteq S
    /\ phase = "done" =>
          Erasable = {} /\ \A S \in SUBSET ins : Sufficient(S) => ins \subseteq S

DeadCodeInv == DeadCodeTypeOK /\ Marking /\ Needed /\ Unlinking /\ QuietRound

-----------------------------------------------------------------------------
LEMMA InitInv == Init => DeadCodeInv
BY DEF Init, Begin, DeadCodeInv, DeadCodeTypeOK, Marking, Needed,
       Unlinking, Sweeping, QuietRound

\* Every step keeps the types.
LEMMA StepType ==
    ASSUME DeadCodeTypeOK, [Eliminate]_dvars
    PROVE  DeadCodeTypeOK'
<1> USE DEF DeadCodeTypeOK, fixed, swept
<1>1. CASE ClearBasicBlocks
  BY <1>1 DEF ClearBasicBlocks, Unlinked
<1>2. CASE QueueCritical
  BY <1>2 DEF QueueCritical
<1>3. ASSUME NEW i \in Ins, MarkOperands(i) PROVE DeadCodeTypeOK'
  BY <1>3 DEF MarkOperands, NewlyMarked
<1>4. CASE MarkEnds
  BY <1>4 DEF MarkEnds
<1>5. CASE Sweep
  BY <1>5 DEF Sweep
<1>6. CASE Again
  BY <1>6 DEF Again
<1>7. CASE UNCHANGED dvars
  BY <1>7 DEF dvars
<1>8. ASSUME NEW i \in Ins, Unlink(i) PROVE DeadCodeTypeOK'
  BY <1>8 DEF Unlink
<1>9. CASE UnlinkEnds
  BY <1>9 DEF UnlinkEnds
<1>10. ASSUME NEW i \in Ins, Erase(i) PROVE DeadCodeTypeOK'
  BY <1>10 DEF Erase
<1>11. CASE SweepEnds
  BY <1>11 DEF SweepEnds
<1> QED BY <1>1, <1>2, <1>3, <1>4, <1>5, <1>6, <1>7, <1>8, <1>9, <1>10, <1>11 DEF Eliminate

LEMMA StepMarking ==
    ASSUME DeadCodeTypeOK, Marking, [Eliminate]_dvars
    PROVE  Marking'
<1> USE DEF Marking, fixed, swept
<1>1. CASE ClearBasicBlocks
  BY <1>1 DEF ClearBasicBlocks, Unlinked
<1>2. CASE QueueCritical
  BY <1>2 DEF QueueCritical
<1>3. ASSUME NEW i \in Ins, MarkOperands(i) PROVE Marking'
  BY <1>3 DEF MarkOperands, NewlyMarked
<1>4. CASE MarkEnds
  BY <1>4 DEF MarkEnds
<1>5. CASE Sweep
  BY <1>5 DEF Sweep
<1>6. CASE Again
  BY <1>6 DEF Again
<1>7. CASE UNCHANGED dvars
  BY <1>7 DEF dvars
<1>8. ASSUME NEW i \in Ins, Unlink(i) PROVE Marking'
  BY <1>8 DEF Unlink
<1>9. CASE UnlinkEnds
  BY <1>9 DEF UnlinkEnds
<1>10. ASSUME NEW i \in Ins, Erase(i) PROVE Marking'
  BY <1>10 DEF Erase
<1>11. CASE SweepEnds
  BY <1>11 DEF SweepEnds
<1> QED BY <1>1, <1>2, <1>3, <1>4, <1>5, <1>6, <1>7, <1>8, <1>9, <1>10, <1>11 DEF Eliminate

LEMMA StepNeeded ==
    ASSUME DeadCodeTypeOK, Needed, [Eliminate]_dvars
    PROVE  Needed'
<1> USE DEF Needed, Sufficient, ClosedUnderOperands, fixed, swept
<1>1. CASE ClearBasicBlocks
  BY <1>1 DEF ClearBasicBlocks, Unlinked
<1>2. CASE QueueCritical
  BY <1>2 DEF QueueCritical
<1>3. ASSUME NEW i \in Ins, MarkOperands(i) PROVE Needed'
  <2>1. i \in marked
    BY <1>3 DEF MarkOperands, DeadCodeTypeOK
  <2>2. ASSUME NEW S \in SUBSET ins, Sufficient(S) PROVE NewlyMarked(i) \subseteq S
    BY <2>1, <2>2, <1>3 DEF MarkOperands, NewlyMarked
  <2> QED BY <2>2, <1>3 DEF MarkOperands
<1>4. CASE MarkEnds
  BY <1>4 DEF MarkEnds
<1>5. CASE Sweep
  BY <1>5 DEF Sweep
<1>6. CASE Again
  BY <1>6 DEF Again
<1>7. CASE UNCHANGED dvars
  BY <1>7 DEF dvars
<1>8. ASSUME NEW i \in Ins, Unlink(i) PROVE Needed'
  BY <1>8 DEF Unlink
<1>9. CASE UnlinkEnds
  BY <1>9 DEF UnlinkEnds
<1>10. ASSUME NEW i \in Ins, Erase(i) PROVE Needed'
  BY <1>10 DEF Erase
<1>11. CASE SweepEnds
  BY <1>11 DEF SweepEnds
<1> QED BY <1>1, <1>2, <1>3, <1>4, <1>5, <1>6, <1>7, <1>8, <1>9, <1>10, <1>11 DEF Eliminate

LEMMA StepUnlinking ==
    ASSUME DeadCodeTypeOK, Marking, Unlinking, [Eliminate]_dvars
    PROVE  Unlinking'
<1> USE DEF Unlinking, Sweeping, fixed, swept
<1>1. CASE ClearBasicBlocks
  BY <1>1 DEF ClearBasicBlocks
<1>2. CASE QueueCritical
  BY <1>2 DEF QueueCritical
<1>3. ASSUME NEW i \in Ins, MarkOperands(i) PROVE Unlinking'
  BY <1>3 DEF MarkOperands
<1>4. CASE MarkEnds
  BY <1>4 DEF MarkEnds
<1>5. CASE Sweep
  <2>1. /\ wait_del' = ins \ marked /\ left' = wait_del' /\ phase' = "unlink"
        /\ ops' = ops /\ ins' = ins
    BY <1>5 DEF Sweep
  <2>2. ASSUME NEW j \in ins' \ wait_del' PROVE ops'[j] \cap wait_del' = {}
    BY <1>5, <2>1, <2>2 DEF Sweep, Marking
  <2> QED BY <2>1, <2>2
<1>6. CASE Again
  BY <1>6 DEF Again
<1>7. CASE UNCHANGED dvars
  BY <1>7 DEF dvars
<1>8. ASSUME NEW i \in Ins, Unlink(i) PROVE Unlinking'
  <2>1. ops'[i] = {} /\ \A j \in Ins : j # i => ops'[j] = ops[j]
    BY <1>8 DEF Unlink, DeadCodeTypeOK
  <2> QED BY <1>8, <2>1 DEF Unlink, DeadCodeTypeOK
<1>9. CASE UnlinkEnds
  BY <1>9 DEF UnlinkEnds
<1>10. ASSUME NEW i \in Ins, Erase(i) PROVE Unlinking'
  BY <1>10 DEF Erase
<1>11. CASE SweepEnds
  BY <1>11 DEF SweepEnds
<1> QED BY <1>1, <1>2, <1>3, <1>4, <1>5, <1>6, <1>7, <1>8, <1>9, <1>10, <1>11 DEF Eliminate

LEMMA StepQuietRound ==
    ASSUME DeadCodeTypeOK, Needed, QuietRound, [Eliminate]_dvars
    PROVE  QuietRound'
<1> USE DEF QuietRound, Sweeping, fixed, swept
<1>1. CASE ClearBasicBlocks
  <2>1. ASSUME Erasable = {} PROVE blocks' = blocks /\ pred' = pred
    BY <1>1, <2>1 DEF ClearBasicBlocks, Unlinked, DeadCodeTypeOK
  <2>2. changed' <=> Erasable # {}
    BY <1>1 DEF ClearBasicBlocks, Unlinked
  <2>3. ~changed' => Erasable' = {}
    BY <2>1, <2>2 DEF Erasable
  <2> QED BY <1>1, <2>3 DEF ClearBasicBlocks, Unlinked
<1>2. CASE QueueCritical
  BY <1>2 DEF QueueCritical, Erasable
<1>3. ASSUME NEW i \in Ins, MarkOperands(i) PROVE QuietRound'
  BY <1>3 DEF MarkOperands, Erasable
<1>4. CASE MarkEnds
  BY <1>4 DEF MarkEnds, Erasable
<1>5. CASE Sweep
  <2>1. /\ phase' = "unlink" /\ Erasable' = Erasable /\ changed' = changed
        /\ ins' = ins /\ ops' = ops /\ critical' = critical
    BY <1>5 DEF Sweep, Erasable
  <2>2. ASSUME wait_del' = {}, NEW S \in SUBSET ins', Sufficient(S)' PROVE ins' \subseteq S
    <3>1. Sufficient(S) /\ S \in SUBSET ins
      BY <2>1, <2>2 DEF Sufficient, ClosedUnderOperands
    <3>2. ins \subseteq marked
      BY <1>5, <2>2 DEF Sweep
    <3> QED BY <1>5, <2>1, <3>1, <3>2 DEF Needed, Sweep
  <2> QED BY <1>5, <2>1, <2>2 DEF Sweep
<1>6. CASE Again
  BY <1>6 DEF Again, Erasable, Sufficient, ClosedUnderOperands, DeadCodeTypeOK
<1>7. CASE UNCHANGED dvars
  BY <1>7 DEF dvars, Erasable, Sufficient, ClosedUnderOperands
<1>8. ASSUME NEW i \in Ins, Unlink(i) PROVE QuietRound'
  BY <1>8 DEF Unlink, Erasable, DeadCodeTypeOK
<1>9. CASE UnlinkEnds
  BY <1>9 DEF UnlinkEnds, Erasable, Sufficient, ClosedUnderOperands
<1>10. ASSUME NEW i \in Ins, Erase(i) PROVE QuietRound'
  BY <1>10 DEF Erase, Erasable, DeadCodeTypeOK
<1>11. CASE SweepEnds
  <2>1. /\ phase' = "again" /\ Erasable' = Erasable /\ changed' = (changed \/ wait_del # {})
        /\ ins' = ins /\ ops' = ops /\ critical' = critical
    BY <1>11 DEF SweepEnds, Erasable
  <2>2. ASSUME ~changed', NEW S \in SUBSET ins', Sufficient(S)' PROVE ins' \subseteq S
    BY <1>11, <2>1, <2>2 DEF SweepEnds, Sufficient, ClosedUnderOperands
  <2> QED BY <1>11, <2>1, <2>2 DEF SweepEnds
<1> QED BY <1>1, <1>2, <1>3, <1>4, <1>5, <1>6, <1>7, <1>8, <1>9, <1>10, <1>11 DEF Eliminate

LEMMA Invariance == Spec => []DeadCodeInv
<1>1. DeadCodeInv /\ [Eliminate]_dvars => DeadCodeInv'
  BY StepType, StepMarking, StepNeeded, StepUnlinking, StepQuietRound DEF DeadCodeInv
<1> QED BY InitInv, <1>1, PTL DEF Spec

-----------------------------------------------------------------------------
\* The marks are on live instructions only, whatever a round destroyed.
THEOREM DeadCodeTypes == Spec => []DeadCodeTypeOK
<1>1. DeadCodeInv => DeadCodeTypeOK
  BY DEF DeadCodeInv
<1> QED BY Invariance, <1>1, PTL

\* mark() reaches every instruction that a critical one needs, for use graphs
\* of any size and with any cycles.
THEOREM MarkingIsComplete == Spec => []MarkingComplete
<1>1. DeadCodeInv => MarkingComplete
  BY DEF DeadCodeInv, Marking, MarkingComplete, ClosedUnderOperands
<1> QED BY Invariance, <1>1, PTL

\* mark() marks nothing else: what it marks is in every set that would do.
THEOREM MarkingIsMinimal == Spec => []MarkingMinimal
<1>1. DeadCodeInv => MarkingMinimal
  BY DEF DeadCodeInv, DeadCodeTypeOK, Needed, Sufficient, MarkingMinimal
<1> QED BY Invariance, <1>1, PTL

\* sweep() frees no instruction that another one, kept or freed after it, still
\* holds, whatever the order of its set and the cycles among its operands.
THEOREM SweepIsSafe == Spec => ErasedUnused
<1>1. ASSUME DeadCodeInv, [Eliminate]_dvars, Sweeping, NEW i \in ins \ ins', NEW j \in ins
      PROVE  i \notin ops[j]
  <2>1. phase = "erase" /\ i \in wait_del
    <3>1. CASE UNCHANGED dvars
      BY <1>1, <3>1 DEF dvars
    <3>2. CASE Eliminate
      BY <1>1, <3>2 DEF Eliminate, ClearBasicBlocks, QueueCritical, MarkOperands, MarkEnds, Sweep,
         Unlink, UnlinkEnds, Erase, SweepEnds, Again, Sweeping, DeadCodeInv, DeadCodeTypeOK
    <3> QED BY <1>1, <3>1, <3>2
  <2> QED BY <1>1, <2>1 DEF DeadCodeInv, Unlinking
<1>2. DeadCodeInv /\ [Eliminate]_dvars =>
        [ Sweeping => \A i \in ins \ ins', j \in ins : i \notin ops[j] ]_dvars
  BY <1>1
<1> QED BY Invariance, <1>2, PTL DEF Spec, ErasedUnused

\* When run() returns, no erasable block and no unneeded instruction is left.
THEOREM NothingDeadIsLeft == Spec => []NothingDeadLeft
<1>1. DeadCodeInv => NothingDeadLeft
  BY DEF DeadCodeInv, QuietRound, Sufficient, NothingDeadLeft
<1> QED BY Invariance, <1>1, PTL
=============================================================================
