------------------------------- MODULE UseDef -------------------------------
(***************************************************************************)
(* The use-def chains of lightir (src/lightir/Value.cpp, User.cpp and the  *)
(* inline parts of User.hpp, Value.hpp and Instruction.hpp).               *)
(*                                                                         *)
(* Every User keeps a vector of operands and every Value keeps the list of *)
(* the (user, operand number) pairs that use it.  Both directions are      *)
(* updated by hand in each of set_operand, add_operand, remove_operand and *)
(* remove_all_operands; replace_all_use_with and ~Value walk one direction *)
(* while they edit the other.                                              *)
(*                                                                         *)
(* Abstractions.  use_list_ is a set: the code only tests it for           *)
(* emptiness, takes an element, and removes ALL elements equal to a use    *)
(* (list::remove_if), so multiplicities and order are not observable; the  *)
(* element begin() gives is any element.  Operand numbers count from 1.    *)
(* An object that is freed may be allocated again at the same address, so  *)
(* a stale use is a use of somebody else's operand.                        *)
(***************************************************************************)
EXTENDS Naturals, Sequences, FiniteSets

CONSTANTS
    Inst,           \* addresses of instructions (all of them are Users)
    Phi,            \* those that hold PhiInst objects
    Block,          \* addresses of basic blocks (Values, never Users)
    Leaf,           \* constants and arguments (Values without operands)
    Null,           \* nullptr
    MaxOperands,    \* bound on the length of an operand vector
    MaxCtorOperands \* bound on the operands a constructor adds

ASSUME UseDefAssumption ==
    /\ Phi \subseteq Inst
    /\ Inst \cap Block = {} /\ Inst \cap Leaf = {} /\ Block \cap Leaf = {}
    /\ Null \notin Inst \cup Block \cup Leaf
    /\ MaxOperands \in Nat /\ MaxCtorOperands \in 0..MaxOperands

Value == Inst \cup Block \cup Leaf

\* What may stand in a value position of a phi; a label is no first-class value.
Datum == Inst \cup Leaf

VARIABLES
    alive,      \* Values constructed and not yet destroyed
    operands,   \* User::operands_
    uses,       \* Value::use_list_
    job         \* the replace_all_use_with activation in progress, if any

vars == <<alive, operands, uses, job>>

Use == Inst \X (1..MaxOperands)

Idle == [kind |-> "idle", old |-> Null, new |-> Null]

Jobs == [kind : {"idle", "replace", "destroy"},
         old  : Value \cup {Null}, new : Value \cup {Null}]

TypeOK ==
    /\ alive \subseteq Value
    /\ operands \in [Inst -> Seq(Value \cup {Null})]
    /\ \A u \in Inst : Len(operands[u]) <= MaxOperands
    /\ uses \in [Value -> SUBSET Use]
    /\ job \in Jobs

-----------------------------------------------------------------------------
(* The operations of User and Value, on a use-list function us.            *)

AddUse(us, v, use) == [us EXCEPT ![v] = @ \cup {use}]

RemoveUse(us, v, use) ==
    IF v = Null THEN us ELSE [us EXCEPT ![v] = @ \ {use}]

\* The numbers at which operand vector s holds v.
At(s, v) == {i \in DOMAIN s : s[i] = v}

\* User::set_operand: unregister the old operand, register the new one.
UsesAfterSet(us, u, s, i, v) ==
    LET cleared == RemoveUse(us, s[i], <<u, i>>)
    IN  IF v = Null THEN cleared ELSE AddUse(cleared, v, <<u, i>>)

\* User::add_operand for each element of more, in order.
UsesAfterAppend(us, u, s, more) ==
    [v \in Value |-> us[v] \cup {<<u, Len(s) + i>> : i \in At(more, v)}]

\* User::remove_all_operands.
UsesAfterClear(us, u, s) ==
    [v \in Value |-> us[v] \ {<<u, i>> : i \in At(s, v)}]

\* Mutant: the operands behind k keep their old numbers on the use lists.
UsesAfterEraseStale(us, u, s, k) == RemoveUse(us, s[k], <<u, k>>)

\* User::remove_operand(k).  The uses of the operands behind k are renumbered
\* first and operand k is unregistered LAST: had s[k+1] = s[k], the renumbered
\* use <<u, k>> would be removed with it.
UsesAfterErase(us, u, s, k) ==
    [v \in Value |->
        LET behind  == {i \in At(s, v) : i > k}
            shifted == (us[v] \ {<<u, i>> : i \in behind})
                         \cup {<<u, i - 1>> : i \in behind}
        IN  IF s[k] = v THEN shifted \ {<<u, k>>} ELSE shifted]

\* vector::erase.
Erase(s, k) == [i \in 1..(Len(s) - 1) |-> IF i < k THEN s[i] ELSE s[i + 1]]

-----------------------------------------------------------------------------
Init ==
    /\ alive = Leaf
    /\ operands = [u \in Inst |-> <<>>]
    /\ uses = [v \in Value |-> {}]
    /\ job = Idle

\* The constructors of the Instruction subclasses: add_operand for each operand.
Create(u, ops) ==
    /\ job = Idle
    /\ u \notin alive
    /\ u \in Phi => ops = <<>>        \* every pass creates its phis empty
    /\ alive' = alive \cup {u}
    /\ operands' = [operands EXCEPT ![u] = ops]
    /\ uses' = UsesAfterAppend(uses, u, <<>>, ops)
    /\ UNCHANGED job

\* BasicBlock::create.
CreateBlock(b) ==
    /\ job = Idle
    /\ b \notin alive
    /\ alive' = alive \cup {b}
    /\ UNCHANGED <<operands, uses, job>>

\* PhiInst::add_phi_pair_operand.
AddPhiPairOperand(u, val, bb) ==
    /\ job = Idle
    /\ u \in alive \cap Phi
    /\ Len(operands[u]) + 2 <= MaxOperands
    /\ operands' = [operands EXCEPT ![u] = @ \o <<val, bb>>]
    /\ uses' = UsesAfterAppend(uses, u, operands[u], <<val, bb>>)
    /\ UNCHANGED <<alive, job>>

\* PhiInst::remove_phi_operand: the first pair whose block is bb is erased,
\* value first.  remove_operand dereferences every operand from there on.
RemovePhiOperand(u, bb) ==
    /\ job = Idle
    /\ u \in alive \cap Phi
    /\ \E i \in 1..(Len(operands[u]) - 1) :
         LET s   == operands[u]
             one == Erase(s, i)
         IN  /\ i % 2 = 1 /\ s[i + 1] = bb
             /\ \A j \in 1..(i - 1) : j % 2 = 1 => s[j + 1] # bb
             /\ \A j \in i..Len(s) : s[j] # Null
             /\ operands' = [operands EXCEPT ![u] = Erase(one, i)]
             /\ uses' = UsesAfterErase(UsesAfterErase(uses, u, s, i), u, one, i)
    /\ UNCHANGED <<alive, job>>

\* User::set_operand as the passes call it: to point a branch at another block.
SetOperand(u, i, bb) ==
    /\ job = Idle
    /\ u \in alive \ Phi
    /\ i \in DOMAIN operands[u]
    /\ operands[u][i] \in Block
    /\ operands' = [operands EXCEPT ![u][i] = bb]
    /\ uses' = UsesAfterSet(uses, u, operands[u], i, bb)
    /\ UNCHANGED <<alive, job>>

\* User::remove_all_operands, the first phase of DeadCode::sweep.
RemoveAllOperands(u) ==
    /\ job = Idle
    /\ u \in alive
    /\ operands' = [operands EXCEPT ![u] = <<>>]
    /\ uses' = UsesAfterClear(uses, u, operands[u])
    /\ UNCHANGED <<alive, job>>

\* Mutant: no early return for a value that is to replace itself.
BeginReplaceAlways(old, new) ==
    /\ job = Idle
    /\ job' = [kind |-> "replace", old |-> old, new |-> new]
    /\ UNCHANGED <<alive, operands, uses>>

\* Value::replace_all_use_with(new), entered.
BeginReplace(old, new) ==
    /\ job = Idle
    /\ old # new
    /\ job' = [kind |-> "replace", old |-> old, new |-> new]
    /\ UNCHANGED <<alive, operands, uses>>

\* Mutant: a ~User that leaves its uses behind.
BeginDestroyInstKeepingUses(u) ==
    /\ job = Idle
    /\ u \in alive
    /\ alive' = alive \ {u}
    /\ job' = [kind |-> "destroy", old |-> u, new |-> Null]
    /\ UNCHANGED <<operands, uses>>

\* ~Instruction: ~User removes the operands, then ~Value runs
\* replace_all_use_with(nullptr).  From here on the User part is gone.
BeginDestroyInst(u) ==
    /\ job = Idle
    /\ u \in alive
    /\ alive' = alive \ {u}
    /\ operands' = [operands EXCEPT ![u] = <<>>]
    /\ uses' = UsesAfterClear(uses, u, operands[u])
    /\ job' = [kind |-> "destroy", old |-> u, new |-> Null]

\* ~BasicBlock: only ~Value.
BeginDestroyBlock(b) ==
    /\ job = Idle
    /\ b \in alive
    /\ alive' = alive \ {b}
    /\ job' = [kind |-> "destroy", old |-> b, new |-> Null]
    /\ UNCHANGED <<operands, uses>>

\* One iteration of the loop in replace_all_use_with: the user the head of the
\* list names gets set_operand, which is what must shorten the list.
ReplaceOne ==
    /\ job.kind # "idle"
    /\ \E use \in uses[job.old] :
         LET u == use[1]
             i == use[2]
         IN  /\ i \in DOMAIN operands[u]      \* assert of set_operand
             /\ operands' = [operands EXCEPT ![u][i] = job.new]
             /\ uses' = UsesAfterSet(uses, u, operands[u], i, job.new)
    /\ UNCHANGED <<alive, job>>

\* Mutant: only the first use is replaced.
ReplaceDoneEarly ==
    /\ job.kind # "idle"
    /\ job' = Idle
    /\ UNCHANGED <<alive, operands, uses>>

\* The loop ends when the list is empty.
ReplaceDone ==
    /\ job.kind # "idle"
    /\ uses[job.old] = {}
    /\ job' = Idle
    /\ UNCHANGED <<alive, operands, uses>>

\* Operand vectors a constructor may be given.
CtorOperands == UNION {[1..n -> alive] : n \in 0..MaxCtorOperands}

Next ==
    \/ \E u \in Inst, ops \in CtorOperands : Create(u, ops)
    \/ \E b \in Block : CreateBlock(b)
    \/ \E u \in Inst, val \in alive \cap Datum, bb \in alive \cap Block :
          AddPhiPairOperand(u, val, bb)
    \/ \E u \in Inst, bb \in Block : RemovePhiOperand(u, bb)
    \/ \E u \in Inst, i \in 1..MaxOperands, bb \in alive \cap Block :
          SetOperand(u, i, bb)
    \/ \E u \in Inst : RemoveAllOperands(u)
    \/ \E old \in alive \cap Inst, new \in alive \cap Datum : BeginReplace(old, new)
    \/ \E u \in Inst : BeginDestroyInst(u)
    \/ \E b \in Block : BeginDestroyBlock(b)
    \/ ReplaceOne
    \/ ReplaceDone

Spec == Init /\ [][Next]_vars

\* A single-threaded loop that has been entered keeps running.
Fairness == WF_vars(ReplaceOne) /\ WF_vars(ReplaceDone)

FairSpec == Spec /\ Fairness

-----------------------------------------------------------------------------
(* Properties.                                                             *)

\* Use lists us hold exactly the positions of each value in the vectors ops.
Agree(us, ops) ==
    \A v \in Value :
        us[v] = {use \in Use : /\ use[2] \in DOMAIN ops[use[1]]
                              /\ ops[use[1]][use[2]] = v}

\* The two directions agree, as the comment at User.hpp:28 describes.  Every
\* consumer of a use list (FuncInfo, LICM, DeadCode) relies on it.
UseDefExact == Agree(uses, operands)

Alternates(s) ==
    /\ Len(s) % 2 = 0
    /\ \A i \in DOMAIN s :
          s[i] \in (IF i % 2 = 1 THEN Datum ELSE Block) \cup {Null}

\* Operands of a phi come in (value, block) pairs, so that get_phi_pairs can
\* cast every second one; remove_phi_operand keeps use lists exact only
\* because no value is its own block.
PhiAlternates == \A u \in Phi : Alternates(operands[u])

\* No pointer to freed memory survives a destructor: users on a use list are
\* alive, operands are alive, and an object under destruction is never among
\* the users that ~Value calls set_operand on.
NoDanglingUse ==
    /\ \A u \in Inst \ alive : operands[u] = <<>>
    /\ \A v \in Value : \A use \in uses[v] : use[1] \in alive
    /\ \A u \in Inst : \A i \in DOMAIN operands[u] :
          \/ operands[u][i] \in alive \cup {Null}
          \/ job.kind = "destroy" /\ operands[u][i] = job.old
    /\ \A v \in Value \ alive :
          uses[v] # {} => job.kind = "destroy" /\ job.old = v

\* The activation in progress was entered with arguments its callers pass.
JobOK ==
    \/ job = Idle
    \/ /\ job.kind = "replace" /\ job.old # job.new
       /\ job.old \in alive \cap Inst /\ job.new \in alive \cap Datum
    \/ /\ job.kind = "destroy" /\ job.new = Null
       /\ job.old \in (Inst \cup Block) \ alive

\* The inductive invariant.
IInv == TypeOK /\ UseDefExact /\ PhiAlternates /\ NoDanglingUse /\ JobOK

\* replace_all_use_with and ~Value leave their loop: every iteration shortens
\* the list they take the head of.
ReplaceTerminates == job.kind # "idle" ~> job.kind = "idle"

\* What the passes may assume of the calls as wholes.
Substituted(s, old, new) == [i \in DOMAIN s |-> IF s[i] = old THEN new ELSE s[i]]

AbstractOperands ==
    IF job.kind = "idle" THEN operands
    ELSE [u \in Inst |-> Substituted(operands[u], job.old, job.new)]

Graph == INSTANCE DefGraph WITH operands <- AbstractOperands

\* A replacement or destruction done one use at a time is the atomic
\* substitution of DefGraph.
ImplementsDefGraph == Graph!Spec
=============================================================================
