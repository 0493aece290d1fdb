-------------------------------- MODULE MCCpu --------------------------------
(***************************************************************************)
(* Routines as games have them, the initial states TLC runs them from, and  *)
(* what each must have computed when it returns, with or without an         *)
(* interrupt at any of its instructions.  The code lies across a page       *)
(* boundary, so return addresses differ in both bytes.                      *)
(***************************************************************************)
EXTENDS Cpu, Sequences

On(o, s)    == [op |-> o, src |-> s]
OnN(o, x)   == [op |-> o, src |-> "d8", n |-> x]
At(o, x, s) == [op |-> o, n |-> x, src |-> s]
Ld(d, s)    == [op |-> "LD", dst |-> d, src |-> s]
LdN(d, x)   == [op |-> "LD", dst |-> d, src |-> "d8", n |-> x]
Ld16(d, x)  == [op |-> "LD16", dst |-> d, n |-> x]
To(o, d)    == [op |-> o, dst |-> d]
By(o, x)    == [op |-> o, n |-> x]
Mem(o, a, x) == [op |-> o, by |-> a, n |-> x]
Go(o, c, x) == [op |-> o, cc |-> c, n |-> x]
Ret(c)      == [op |-> "RET", cc |-> c]
Op(o)       == [op |-> o]

Base == 235                     \* the address before the first instruction
HexAt == Base + 23

(* A in hexadecimal at (HL); the second half is also called, for one digit. *)
HexCode == <<On("PUSH", "af"), On("SWAP", "a"), By("RST", HexAt + 4), To("POP", "af"),
  OnN("AND", 15), OnN("ADD", 144), Op("DAA"), OnN("ADC", 64), Op("DAA"),
  By("STA", 1), Ret("always")>>

(* HL = B * C                                                               *)
MulAt == HexAt + Len(HexCode)
MulCode == <<Ld16("hl", 0), LdN("d", 0), Ld("e", "c"),
  On("SRL", "b"), Go("JR", "nc", 1), On("ADDHL", "de"),
  On("SLA", "e"), On("RL", "d"), On("INC", "b"), On("DEC", "b"), Go("JR", "nz", -8),
  Ret("always")>>

(* C / E: quotient in C, remainder in A                                     *)
DivAt == MulAt + Len(MulCode)
DivCode == <<On("XOR", "a"), LdN("b", 8),
  On("SLA", "c"), Op("RLA"), On("CP", "e"), Go("JR", "c", 2),
  On("SUB", "e"), At("SET", 0, "c"), On("DEC", "b"), Go("JR", "nz", -8),
  Ret("always")>>

(* BC + DE and BC - DE, decimal                                             *)
SumAt == DivAt + Len(DivCode)
SumCode == <<Ld("a", "c"), On("ADD", "e"), Op("DAA"), Ld("c", "a"),
  Ld("a", "b"), On("ADC", "d"), Op("DAA"), Ld("b", "a"), Ret("always")>>

DiffAt == SumAt + Len(SumCode)
DiffCode == <<Ld("a", "c"), Op("SCF"), Op("CCF"), On("SBC", "e"), Op("DAA"), Ld("c", "a"),
  Ld("a", "b"), On("SBC", "d"), Op("DAA"), Ld("b", "a"), Ret("always")>>

(* The absolute value of HL                                                 *)
AbsAt == DiffAt + Len(DiffCode)
AbsCode == <<At("BIT", 7, "h"), Ret("z"),
  Ld("a", "l"), Op("CPL"), Ld("l", "a"), Ld("a", "h"), Op("CPL"), Ld("h", "a"),
  To("INC16", "hl"), Ret("always")>>

(* A with its bits in reverse order                                         *)
ReverseAt == AbsAt + Len(AbsCode)
ReverseCode == <<Ld("c", "a"), LdN("b", 8),
  On("SRL", "c"), Op("RLA"), On("DEC", "b"), Go("JP", "nz", ReverseAt + 2), Ret("always")>>

(* DE = BC, by way of a local variable on the stack                         *)
FrameAt == ReverseAt + Len(ReverseCode)
FrameCode == <<By("ADDSP", 254), By("LDHLSP", 0), Ld("(hl)", "c"), To("INC16", "hl"),
  Ld("(hl)", "b"), By("LDA", -1), Ld("d", "a"), By("LDA", 1), Ld("e", "a"),
  Op("LDSPHL"), By("ADDSP", 1), Ret("always")>>

(* HL shifted right, signed                                                 *)
HalfAt == FrameAt + Len(FrameCode)
HalfCode == <<On("SRA", "h"), On("RR", "l"), Ret("always")>>

(* A into memory by every kind of address, the caller's SP into HL          *)
CopyAt == HalfAt + Len(HalfCode)
CopyCode == <<By("LD_SP", 0), Ld16("hl", 2), On("ADDHL", "sp"),
  To("DEC16", "sp"), To("INC16", "sp"), Ld16("bc", 2), Ld16("de", 3),
  Mem("LD_A", "bc", 0), LdN("a", 0), Mem("LDA_", "bc", 0),
  Mem("LD_A", "de", 0), LdN("a", 0), Mem("LDA_", "de", 0),
  Mem("LD_A", "a16", 4), LdN("a", 0), Mem("LDA_", "a16", 4),
  LdN("c", 129), Mem("LD_A", "c", 0), LdN("a", 0), Mem("LDA_", "a8", 129),
  Mem("LD_A", "a8", 130), LdN("a", 0), LdN("c", 130), Mem("LDA_", "c", 0), Ret("always")>>

(* The handler counts in high memory.                                       *)
MCHandler == CopyAt + Len(CopyCode)
HandlerCode == <<On("PUSH", "af"), On("PUSH", "hl"),
  Mem("LDA_", "a8", 128), On("INC", "a"), Mem("LD_A", "a8", 128), Ld("h", "a"), Op("SCF"),
  To("POP", "hl"), To("POP", "af"), Op("RETI")>>

Main == <<Go("CALL", "always", HexAt), Op("HALT"), Go("CALL", "always", MulAt), Op("HALT"),
  Ld16("hl", DivAt), Go("CALL", "nz", Base + 20), Op("HALT"),
  Go("CALL", "always", SumAt), Op("HALT"), Go("CALL", "always", DiffAt), Op("HALT"),
  Go("CALL", "always", AbsAt), Op("HALT"), Go("CALL", "always", ReverseAt), Op("HALT"),
  Go("CALL", "always", FrameAt), Op("HALT"), Go("CALL", "always", HalfAt), Op("HALT"),
  Op("JPHL"), Go("CALL", "always", CopyAt), Op("HALT")>>

Rom ==
  [x \in 1..Base |-> Op("NOP")]
  \o Main \o HexCode \o MulCode \o DivCode \o SumCode \o DiffCode \o AbsCode
  \o ReverseCode \o FrameCode \o HalfCode \o CopyCode \o HandlerCode

MCCode == Rom

Count == 65408                  \* 0xFF80, the handler's counter
MCCells == 0..15 \cup Count..Count + 2
Buffer == 0                     \* where the digits go, far below the stack

-----------------------------------------------------------------------------
(* Initial states                                                           *)

Regs(a, b, c, d, e, hl) ==
  [a |-> a, b |-> b, c |-> c, d |-> d, e |-> e, h |-> hl \div 256, l |-> hl % 256]

From(entry, rs) ==
  {[reg |-> r, mem |-> [x \in MCCells |-> 170], ip |-> Base + entry] : r \in rs}

Edges == {0, 1, 2, 15, 85, 127, 128, 200, 255}
Digits == {0, 1, 5, 9, 80, 89, 144, 153}      \* bytes of two digits
Words == {0, 1, 255, 256, 32767, 32768, 43690, 65535}

MCStarts ==
  From(1, {Regs(16 * i + ((7 * i) % 16), 0, 0, 0, 0, Buffer) : i \in 0..15}) \cup
  From(3, {Regs(0, b, c, 0, 0, 0) : b, c \in Edges}) \cup
  From(5, {Regs(0, 0, c, 0, e, 0) : c \in Edges, e \in {1, 3, 10, 128}}) \cup
  From(8, {Regs(0, b, c, d, e, 0) : b, d \in {0, 153}, c, e \in Digits}) \cup
  From(10, {Regs(0, b, c, d, e, 0) : b, d \in {0, 80}, c, e \in Digits}) \cup
  From(12, {Regs(0, 0, 0, 0, 0, w) : w \in Words}) \cup
  From(14, {Regs(a, 0, 0, 0, 0, 0) : a \in Edges}) \cup
  From(16, {Regs(0, b, 7, 0, 0, 0) : b \in Edges}) \cup
  From(18, {Regs(0, 0, 0, 0, 0, w) : w \in Words}) \cup
  From(21, {Regs(a, 0, 0, 0, 0, 0) : a \in Edges})

(* What a routine may be called with: any registers, but the digits go to  *)
(* the buffer, the divisor fits and decimal numbers have decimal digits.    *)
IsDecimal(x) == x % 16 < 10 /\ x \div 16 < 10

Callable(s) ==
  /\ s.reg \in [Reg8 -> Byte] /\ s.mem \in [MCCells -> Byte]
  /\ s.mem[Count] + MaxIrqs < 256
  /\ \/ s.ip = Base + 1 /\ s.reg["h"] = 0 /\ s.reg["l"] = Buffer
     \/ s.ip = Base + 5 /\ s.reg["e"] \in 1..128
     \/ s.ip \in {Base + 8, Base + 10} /\ \A x \in {"b", "c", "d", "e"} : IsDecimal(s.reg[x])
     \/ s.ip \in {Base + 3, Base + 12, Base + 14, Base + 16, Base + 18, Base + 21}

ASSUME RoutineAssumption ==
  /\ Code = MCCode /\ Handler = MCHandler /\ Cells = MCCells /\ Top = 16
  /\ MaxIrqs \in Nat
  /\ \A s \in Starts : Callable(s)

-----------------------------------------------------------------------------
(* What the routines must compute                                           *)

Ascii(x) == IF x < 10 THEN 48 + x ELSE 55 + x

Decimal(hi, lo) == (hi \div 16) * 1000 + (hi % 16) * 100 + (lo \div 16) * 10 + (lo % 16)

SignedWord(w) == IF w < 32768 THEN w ELSE w - 65536

Correct(r, s) ==
  LET hl == s.h * 256 + s.l
      x  == Decimal(s.b, s.c)
      y  == Decimal(s.d, s.e)
  IN CASE start.ip = Base + 1  -> mem[Buffer] = Ascii(s.a \div 16) /\ mem[Buffer + 1] = Ascii(s.a % 16)
       [] start.ip = Base + 3  -> HL = s.b * s.c
       [] start.ip = Base + 5  -> r.c = s.c \div s.e /\ r.a = s.c % s.e
       [] start.ip = Base + 8  -> Decimal(r.b, r.c) + 10000 * f.c = x + y
       [] start.ip = Base + 10 -> Decimal(r.b, r.c) - 10000 * f.c = x - y
       [] start.ip = Base + 12 -> SignedWord(hl) \in {HL, -HL}
       [] start.ip = Base + 14 -> \A i \in 0..7 : BitOf(r.a, i) = BitOf(s.a, 7 - i)
       [] start.ip = Base + 16 -> r.d = s.b /\ r.e = s.c
       [] start.ip = Base + 18 -> SignedWord(HL) = SignedWord(hl) \div 2
       [] start.ip = Base + 21 -> /\ HL = Top
                                  /\ mem[0] + 256 * mem[1] = Top - 2
                                  /\ \A p \in 2..4 \cup Count + 1..Count + 2 : mem[p] = s.a
                                  /\ r.a = s.a

(* A routine called with CALL returns to the instruction after it with the  *)
(* stack where it was and the result its source promises, although an       *)
(* interrupt handler that saves the registers it uses (PUSH, POP, RETI) ran *)
(* in between, once for each interrupt: the flags DAA, ADC, RL and the      *)
(* conditional jumps read are the ones left by the instruction before.      *)
RoutinesCompute ==
  Done => /\ sp = Top /\ master
          /\ ip = IF start.ip = Base + 5 THEN start.ip + 2 ELSE start.ip + 1
          /\ mem[Count] = start.mem[Count] + MaxIrqs - irqs
          /\ Correct(reg, start.reg)

(* Every routine returns: its loops end because DEC sets Z as the jumps     *)
(* read it and the return address on the stack is whole.                    *)
RoutinesReturn == <>Done
=============================================================================
