------------------------------ MODULE Machine -------------------------------
(***************************************************************************)
(* The instructions of the LoongArch machine that CodeGen emits, as far as *)
(* it relies on them.  A register holds a datum: a number, a float (in     *)
(* halves), an address relative to the stack pointer of the caller, a      *)
(* saved register, or Junk.  A byte of memory is the k-th byte of a datum; *)
(* what is loaded is a datum if its bytes lie there, and else Junk.        *)
(* An instruction is a record: i names it, r is the register it sets.      *)
(***************************************************************************)
EXTENDS Integers, Sequences, FiniteSets, TLC

Datum(t, n) == [t |-> t, n |-> n]
Num(n) == Datum("num", n)
Float(h) == Datum("float", h)
Addr(a) == Datum("addr", a)
Saved(n) == Datum("saved", n)
Junk == Datum("junk", 0)

Min12 == -2048
Max12 == 2047

\* Bytes a datum needs: a number below 128 fits in one.
Fits(d, width) ==
    CASE d.t = "num" -> width = 4 \/ (width = 1 /\ d.n \in 0..127)
      [] d.t = "float" -> width = 4
      [] d.t \in {"addr", "saved"} -> width = 8
      [] OTHER -> FALSE

Loaded(mem, a, width) ==
    IF /\ \A k \in 0..(width - 1) :
             a + k \in DOMAIN mem /\ mem[a + k] = [of |-> mem[a].of, k |-> k]
       /\ Fits(mem[a].of, width)
    THEN mem[a].of
    ELSE Junk

Stored(mem, a, width, d) ==
    [b \in DOMAIN mem \cup a..(a + width - 1) |->
        IF b \in a..(a + width - 1) THEN [of |-> d, k |-> b - a] ELSE mem[b]]

\* Addition of numbers, and of a number to an address.
Plus(d, e) ==
    CASE d.t = "num" /\ e.t = "num" -> Num(d.n + e.n)
      [] d.t = "addr" /\ e.t = "num" -> Addr(d.n + e.n)
      [] OTHER -> Junk

Both(t, d, e) == d.t = t /\ e.t = t
Bit(b) == IF b THEN 1 ELSE 0

\* ftint.w rounds to the nearest, to the even one of two.
Nearest(h) == IF h % 2 = 0 THEN h \div 2 ELSE 2 * ((h + 1) \div 4)

\* xor is used to compare, and xori with 1 on a bit.
Computed(op, d, e) ==
    CASE op = "add" -> Plus(d, e)
      [] op = "sub" /\ e.t = "num" -> Plus(d, Num(-e.n))
      [] op = "mul" /\ Both("num", d, e) -> Num(d.n * e.n)
      [] op = "xor" /\ Both("num", d, e) -> Num(Bit(d.n # e.n))
      [] op = "slt" /\ Both("num", d, e) -> Num(Bit(d.n < e.n))
      [] op = "sltu" /\ Both("num", d, e) -> Num(Bit(d.n # e.n))
      [] op = "fsub" /\ Both("float", d, e) -> Float(d.n - e.n)
      [] op = "ceq" /\ Both("float", d, e) -> Num(Bit(d.n = e.n))
      [] op = "fslt" /\ Both("float", d, e) -> Num(Bit(d.n < e.n))
      [] op = "fsle" /\ Both("float", d, e) -> Num(Bit(d.n <= e.n))
      [] op = "xori" /\ d.t = "num" -> Num(1 - d.n)
      [] op = "ffint" /\ d.t = "num" -> Float(2 * d.n)
      [] op = "ftint" /\ d.t = "float" -> Num(Nearest(d.n))
      [] OTHER -> Junk

-----------------------------------------------------------------------------
(* Instructions: li loads any constant, far or near; the offset of a load  *)
(* or store and the number in addi must fit in 12 bits.                    *)
Li(r, d) == [i |-> "li", r |-> r, d |-> d]
Op(op, r, p, q) == [i |-> "op", op |-> op, r |-> r, p |-> p, q |-> q]
Addi(r, p, imm) == [i |-> "addi", r |-> r, p |-> p, imm |-> imm]
Ld(width, r, p, imm) == [i |-> "ld", r |-> r, p |-> p, imm |-> imm, width |-> width]
St(width, q, p, imm) == [i |-> "st", r |-> q, p |-> p, imm |-> imm, width |-> width]
Move(r, p) == [i |-> "move", r |-> r, p |-> p]
Call(result, d) == [i |-> "call", r |-> result, d |-> d]

Near(n) == n \in Min12..Max12
Encodes(ins) == ins.i \in {"addi", "ld", "st"} => Near(ins.imm)

R(class, n) == <<class, n>>
Zero == R("zero", 0)
Sp == R("sp", 0)
Fp == R("fp", 0)
Ra == R("ra", 0)

Kept == {"sp", "fp", "zero"}

Execute(m, ins) ==
    LET set(d) == [m EXCEPT !.regs = [@ EXCEPT ![ins.r] = d]]
        at == m.regs[ins.p].n + ins.imm
    IN  CASE ins.i = "li" -> set(ins.d)
          [] ins.i = "move" -> set(m.regs[ins.p])
          [] ins.i = "addi" -> set(Plus(m.regs[ins.p], Num(ins.imm)))
          [] ins.i = "op" -> set(Computed(ins.op, m.regs[ins.p], m.regs[ins.q]))
          [] ins.i = "ld" ->
                set(IF m.regs[ins.p].t = "addr" THEN Loaded(m.mem, at, ins.width) ELSE Junk)
          [] ins.i = "st" ->
                IF m.regs[ins.p].t = "addr"
                THEN [m EXCEPT !.mem = Stored(@, at, ins.width, m.regs[ins.r])] ELSE m
             \* A callee returns d, and keeps what lies above the stack pointer.
          [] ins.i = "call" ->
                [regs |-> [r \in DOMAIN m.regs |->
                              IF r = ins.r THEN ins.d
                              ELSE IF r[1] \in Kept THEN m.regs[r] ELSE Junk],
                 mem |-> [a \in {b \in DOMAIN m.mem : b >= m.regs[Sp].n} |-> m.mem[a]]]

ExecuteAll(m, code) ==
    LET after[k \in 0..Len(code)] == IF k = 0 THEN m ELSE Execute(after[k - 1], code[k])
    IN  after[Len(code)]
=============================================================================
