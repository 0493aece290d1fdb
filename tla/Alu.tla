--------------------------------- MODULE Alu ---------------------------------
(***************************************************************************)
(* The arithmetic of the CPU (CpuInstr.cpp): what each group of             *)
(* instructions computes from its operands and from the flags.  A byte is a *)
(* number in 0..255, a flag 0 or 1 as in the code; the low nibble of F is   *)
(* always zero (SET_FLAGS and POP AF see to it), so F is a record.          *)
(***************************************************************************)
EXTENDS Integers

Byte == 0..255
Word == 0..65535
Flag == [z : 0..1, n : 0..1, h : 0..1, c : 0..1]

Bool(p) == IF p THEN 1 ELSE 0

Flags(z, n, h, c) == [z |-> z, n |-> n, h |-> h, c |-> c]

Result(v, f) == [v |-> v, f |-> f]

Zero(v) == Bool(v = 0)

-----------------------------------------------------------------------------
(* Addition and subtraction on the accumulator                              *)

(* The macros ADD and ADC: res is a byte, the sums of h and c are ints.     *)
AddBytes(a, v, carry) ==
  LET res == (a + v + carry) % 256
  IN Result(res, Flags(Zero(res), 0,
                       Bool((a % 16) + (v % 16) + carry > 15), Bool(a + v + carry > 255)))

Add(a, v, f) == AddBytes(a, v, 0)

Adc(a, v, f) == AddBytes(a, v, f.c)

Sub(a, v, f) ==
  LET res == (a - v) % 256
  IN Result(res, Flags(Bool(a = v), 1, Bool(v % 16 > a % 16), Bool(v > a)))

Sbc(a, v, f) ==
  LET res == (a - v - f.c) % 256
  IN Result(res, Flags(Zero(res), 1, Bool((a % 16) - (v % 16) - f.c < 0), Bool(a < v + f.c)))

Cp(a, v, f) == Result(a, Sub(a, v, f).f)

(* INCL and DECL: the carry is kept.                                        *)
Inc(v, f) ==
  LET res == (v + 1) % 256
  IN Result(res, Flags(Zero(res), 0, Bool((v % 16) + 1 > 15), f.c))

Dec(v, f) ==
  LET res == (v - 1) % 256
  IN Result(res, Flags(Zero(res), 1, Bool((v - 1) % 16 = 15), f.c))

-----------------------------------------------------------------------------
(* Bit by bit                                                               *)

Value(i) == <<1, 2, 4, 8, 16, 32, 64, 128>>[i + 1]

BitOf(v, i) == (v \div Value(i)) % 2

Bitwise8(Op(_, _), a, v) ==
  LET on(i) == Op(BitOf(a, i), BitOf(v, i)) * Value(i)
  IN on(0) + on(1) + on(2) + on(3) + on(4) + on(5) + on(6) + on(7)

And(a, v, f) ==
  LET both(x, y) == x * y
      res == Bitwise8(both, a, v)
  IN Result(res, Flags(Zero(res), 0, 1, 0))

Or(a, v, f) ==
  LET either(x, y) == Bool(x + y > 0)
      res == Bitwise8(either, a, v)
  IN Result(res, Flags(Zero(res), 0, 0, 0))

Xor(a, v, f) ==
  LET one(x, y) == Bool(x # y)
      res == Bitwise8(one, a, v)
  IN Result(res, Flags(Zero(res), 0, 0, 0))

TestBit(i, v, f) == Flags(Bool(BitOf(v, i) = 0), 0, 1, f.c)

Reset(i, v) == v - BitOf(v, i) * Value(i)

SetBit(i, v) == v + (1 - BitOf(v, i)) * Value(i)

-----------------------------------------------------------------------------
(* The accumulator and its flags                                            *)

(* instruction_27: a is an int that may pass 0xFF or fall below zero; the   *)
(* second correction of an addition looks at a after the first one, and     *)
(* only bit 8 of the int can set the carry.                                 *)
Mut_Daa(a, f) ==                 \* tests the accumulator before the correction
  LET low  == IF f.n = 0 THEN (IF f.h = 1 \/ a % 16 > 9 THEN a + 6 ELSE a)
                         ELSE (IF f.h = 1 THEN (a - 6) % 256 ELSE a)
      high == IF f.n = 0 THEN (IF f.c = 1 \/ a > 159 THEN low + 96 ELSE low)
                         ELSE (IF f.c = 1 THEN low - 96 ELSE low)
      res  == high % 256
  IN Result(res, Flags(Zero(res), f.n, 0, IF (high \div 256) % 2 = 1 THEN 1 ELSE f.c))

Daa(a, f) ==
  LET low  == IF f.n = 0 THEN (IF f.h = 1 \/ a % 16 > 9 THEN a + 6 ELSE a)
                         ELSE (IF f.h = 1 THEN (a - 6) % 256 ELSE a)
      high == IF f.n = 0 THEN (IF f.c = 1 \/ low > 159 THEN low + 96 ELSE low)
                         ELSE (IF f.c = 1 THEN low - 96 ELSE low)
      res  == high % 256
  IN Result(res, Flags(Zero(res), f.n, 0, IF (high \div 256) % 2 = 1 THEN 1 ELSE f.c))

Cpl(a, f) == Result(255 - a, Flags(f.z, 1, 1, f.c))

Scf(a, f) == Result(a, Flags(f.z, 0, 0, 1))

Ccf(a, f) == Result(a, Flags(f.z, 0, 0, 1 - f.c))

-----------------------------------------------------------------------------
(* Shifts and rotations; after RLCA, RRCA, RLA and RRA z is 0.              *)

Shifted(res, out) == Result(res, Flags(Zero(res), 0, 0, out))

Rlc(v, f) == Shifted(((2 * v) % 256) + (v \div 128), v \div 128)

Rrc(v, f) == Shifted((v \div 2) + 128 * (v % 2), v % 2)

Rl(v, f) == Shifted(((2 * v) % 256) + f.c, v \div 128)

Rr(v, f) == Shifted((v \div 2) + 128 * f.c, v % 2)

Sla(v, f) == Shifted((2 * v) % 256, v \div 128)

Sra(v, f) == Shifted((v \div 2) + 128 * (v \div 128), v % 2)

Swap(v, f) == Shifted(((v % 16) * 16) + (v \div 16), 0)

Srl(v, f) == Shifted(v \div 2, v % 2)

-----------------------------------------------------------------------------
(* Sixteen bits                                                             *)

AddHL(hl, v, f) ==
  Result((hl + v) % 65536,
         Flags(f.z, 0, Bool((hl % 4096) + (v % 4096) > 4095), Bool(hl + v > 65535)))

Signed(v) == IF v < 128 THEN v ELSE v - 256

(* ADD SP,e8 and LD HL,SP+e8: the flags are those of the low byte's sum.    *)
AddSP(sp, v) ==
  Result((sp + Signed(v)) % 65536,
         Flags(0, 0, Bool((sp % 16) + (v % 16) > 15), Bool((sp % 256) + v > 255)))
=============================================================================
