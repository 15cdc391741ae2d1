------------------------------ MODULE DeadCode ------------------------------
(***************************************************************************)
(* Dead code elimination on one function (src/passes/DeadCode.cpp): erase  *)
(* blocks without predecessors, mark what critical instructions need,      *)
(* sweep the rest, until nothing changes.                                  *)
(*                                                                         *)
(* ops holds the instructions among the operands.  When an instruction is  *)
(* destroyed, ~Value sets the operands that held it to null: an element of *)
(* ops[i] that is no longer in ins stands for such a null operand.  sweep  *)
(* goes through the set wait_del twice, in the order an unordered_set of   *)
(* pointers happens to have.  The deque work_list is a set: in which order *)
(* it is worked off cannot be observed.  run goes round all functions of   *)
(* the module while one of them changes; rounds on a function that does    *)
(* not change any more are left out.                                       *)
(***************************************************************************)
EXTENDS Naturals, FiniteSets

CONSTANTS
    Ins,        \* instructions
    Blocks      \* basic blocks, numbered; 1 is the entry

ASSUME DeadCodeAssumption == Blocks \subseteq Nat

VARIABLES
    home,       \* the block of each instruction
    ops,        \* its operands, until remove_all_operands
    critical,   \* the instructions is_critical accepts
    succ,       \* the successors of each block
    blocks,     \* basic_blocks_
    pred,       \* pre_bbs_
    ins,        \* instructions not yet destroyed
    marked,
    work,       \* work_list
    wait_del,   \* what sweep found not marked
    left,       \* what its loop has still to visit
    changed,
    phase       \* "clear", "queue", "mark", "sweep", "unlink", "erase", "again" or "done"

fixed == <<home, critical, succ>>
swept == <<ops, wait_del, left>>
dvars == <<home, critical, succ, ops, wait_del, left,
           blocks, pred, ins, marked, work, changed, phase>>

EntryBlock == 1

\* The function handed to the pass, with instructions I in blocks B; nothing
\* branches to its entry.
Begin(I, B) ==
    /\ home \in [I -> B] /\ ops \in [I -> SUBSET I]
    /\ critical \in SUBSET I /\ succ \in [B -> SUBSET (B \ {EntryBlock})]
    /\ blocks = B
    /\ pred = [b \in B |-> {p \in B : b \in succ[p]}]
    /\ ins = I
    /\ marked = {} /\ work = {} /\ wait_del = {} /\ left = {}
    /\ changed = FALSE /\ phase = "clear"

-----------------------------------------------------------------------------
Erasable == {b \in blocks \ {EntryBlock} : pred[b] = {}}

\* The predecessors without the blocks in gone, which Function::remove takes out
\* of them; ~BranchInst then finds nothing to remove, its operands that are gone
\* already are null.
Unlinked(preds, gone) == [b \in DOMAIN preds |-> preds[b] \ gone]

\* Mutant: changed is never set back.
ClearBasicBlocksSticky ==
    /\ phase = "clear"
    /\ blocks' = blocks \ Erasable
    /\ pred' = Unlinked(pred, Erasable)
    /\ ins' = {i \in ins : home[i] \notin Erasable}
    /\ changed' = (changed \/ Erasable # {})
    /\ phase' = "queue"
    /\ UNCHANGED <<fixed, swept, marked, work>>

\* clear_basic_blocks: the blocks are collected first, then each is taken out
\* of the predecessors of its successors and freed with its instructions.
ClearBasicBlocks ==
    /\ phase = "clear"
    /\ blocks' = blocks \ Erasable
    /\ pred' = Unlinked(pred, Erasable)
    /\ ins' = {i \in ins : home[i] \notin Erasable}
    /\ changed' = (Erasable # {})
    /\ phase' = "queue"
    /\ UNCHANGED <<fixed, swept, marked, work>>

\* Mutant: marked is not cleared.
QueueCriticalAgain ==
    /\ phase = "queue"
    /\ marked' = marked \cup (ins \cap critical)
    /\ work' = ins \cap critical
    /\ phase' = "mark"
    /\ UNCHANGED <<fixed, swept, blocks, pred, ins, changed>>

\* mark(Function*) forgets the last round and queues the critical instructions ...
QueueCritical ==
    /\ phase = "queue"
    /\ marked' = ins \cap critical
    /\ work' = ins \cap critical
    /\ phase' = "mark"
    /\ UNCHANGED <<fixed, swept, blocks, pred, ins, changed>>

\* Mutant: operands in another block are left alone.
NewlyMarkedLocal(i) == {j \in (ops[i] \cap ins) \ marked : home[j] = home[i]}

\* Operands that are instructions and not yet marked.
NewlyMarked(i) == (ops[i] \cap ins) \ marked

\* ... and works the queue off: mark(Instruction*).
MarkOperands(i) ==
    /\ phase = "mark" /\ i \in work
    /\ marked' = marked \cup NewlyMarked(i)
    /\ work' = (work \ {i}) \cup NewlyMarked(i)
    /\ UNCHANGED <<fixed, swept, blocks, pred, ins, changed, phase>>

MarkEnds ==
    /\ phase = "mark" /\ work = {}
    /\ phase' = "sweep"
    /\ UNCHANGED <<fixed, swept, blocks, pred, ins, marked, work, changed>>

\* sweep collects whatever is not marked ...
Sweep ==
    /\ phase = "sweep"
    /\ wait_del' = ins \ marked
    /\ left' = wait_del'
    /\ phase' = "unlink"
    /\ UNCHANGED <<fixed, ops, blocks, pred, ins, marked, work, changed>>

\* Mutant: one loop that does both.
UnlinkAndErase(i) ==
    /\ phase = "unlink" /\ i \in left
    /\ ops' = [ops EXCEPT ![i] = {}]
    /\ ins' = ins \ {i}
    /\ left' = left \ {i}
    /\ UNCHANGED <<fixed, wait_del, blocks, pred, marked, work, changed, phase>>

\* ... takes the operands from each of them ...
Unlink(i) ==
    /\ phase = "unlink" /\ i \in left
    /\ ops' = [ops EXCEPT ![i] = {}]
    /\ left' = left \ {i}
    /\ UNCHANGED <<fixed, wait_del, blocks, pred, ins, marked, work, changed, phase>>

UnlinkEnds ==
    /\ phase = "unlink" /\ left = {}
    /\ left' = wait_del
    /\ phase' = "erase"
    /\ UNCHANGED <<fixed, ops, wait_del, blocks, pred, ins, marked, work, changed>>

\* ... and frees them.
Erase(i) ==
    /\ phase = "erase" /\ i \in left
    /\ ins' = ins \ {i}
    /\ left' = left \ {i}
    /\ UNCHANGED <<fixed, ops, wait_del, blocks, pred, marked, work, changed, phase>>

\* Mutant: changed is overwritten.
SweepEndsForgetting ==
    /\ phase = "erase" /\ left = {}
    /\ changed' = (wait_del # {})
    /\ wait_del' = {}
    /\ phase' = "again"
    /\ UNCHANGED <<fixed, ops, left, blocks, pred, ins, marked, work>>

SweepEnds ==
    /\ phase = "erase" /\ left = {}
    /\ changed' = (changed \/ wait_del # {})
    /\ wait_del' = {}
    /\ phase' = "again"
    /\ UNCHANGED <<fixed, ops, left, blocks, pred, ins, marked, work>>

\* do ... while (changed).
Again ==
    /\ phase = "again"
    /\ phase' = IF changed THEN "clear" ELSE "done"
    /\ UNCHANGED <<fixed, swept, blocks, pred, ins, marked, work, changed>>

Eliminate ==
    \/ ClearBasicBlocks
    \/ QueueCritical
    \/ \E i \in Ins : MarkOperands(i)
    \/ MarkEnds
    \/ Sweep
    \/ \E i \in Ins : Unlink(i)
    \/ UnlinkEnds
    \/ \E i \in Ins : Erase(i)
    \/ SweepEnds
    \/ Again

Init == Begin(Ins, Blocks)

Spec == Init /\ [][Eliminate]_dvars

-----------------------------------------------------------------------------
\* The types; and while marks are in use they are on live instructions, the
\* queued ones among them.
DeadCodeTypeOK ==
    /\ home \in [Ins -> Blocks] /\ ops \in [Ins -> SUBSET Ins]
    /\ critical \subseteq Ins /\ succ \in [Blocks -> SUBSET Blocks]
    /\ blocks \subseteq Blocks /\ pred \in [Blocks -> SUBSET Blocks]
    /\ ins \subseteq Ins /\ marked \subseteq Ins /\ work \subseteq Ins
    /\ wait_del \subseteq Ins /\ left \subseteq wait_del
    /\ changed \in BOOLEAN
    /\ phase \in {"clear", "queue", "mark", "sweep", "unlink", "erase", "again", "done"}
    /\ phase \in {"mark", "sweep"} => work \subseteq marked /\ marked \subseteq ins

\* A set of instructions that has what its members need of the present ones.
ClosedUnderOperands(S) == \A i \in S : ops[i] \cap ins \subseteq S

\* When marking ends, everything a marked instruction needs is marked, and so
\* is every critical instruction, whatever cycles the operands have.
MarkingComplete ==
    phase = "sweep" => /\ ins \cap critical \subseteq marked
                       /\ ClosedUnderOperands(marked)

\* Nothing more than that is marked: no marked instruction can be left out.
MarkingMinimal ==
    phase = "sweep" =>
        \A S \in SUBSET marked :
            ins \cap critical \subseteq S /\ ClosedUnderOperands(S) => S = marked

\* One of the two loops of sweep is running.
Sweeping == phase \in {"unlink", "erase"}

\* When sweep frees an instruction, nothing that is still there holds it, be it
\* kept or freed later, in whatever order the set is gone through and whatever
\* cycles the operands have: its destructor finds no use to set to null.
ErasedUnused ==
    [][ Sweeping => \A i \in ins \ ins', j \in ins : i \notin ops[j] ]_dvars

\* What is left has no block without predecessors but the entry, also none
\* that lost its predecessors on the way, and no instruction that nothing
\* critical needs.
NothingDeadLeft ==
    phase = "done" =>
        /\ Erasable = {}
        /\ \A S \in SUBSET ins :
              ins \cap critical \subseteq S /\ ClosedUnderOperands(S) => S = ins

\* The rounds come to an end: every one that calls for another has erased a
\* block or an instruction.
EliminationEnds == <>(phase = "done")
=============================================================================
