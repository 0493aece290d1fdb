--------------------------------- MODULE Cpu ---------------------------------
(***************************************************************************)
(* The CPU executing programs: the register file, the stack and memory, and *)
(* the control flow of CpuInstr.cpp, with an interrupt that may be taken    *)
(* before any instruction.  Alu says what the arithmetic computes,          *)
(* Interrupts when an interrupt is taken.                                   *)
(*                                                                          *)
(* Abstractions: instructions are decoded records and a code address counts *)
(* instructions, so an opcode and its operands take one address; memory is  *)
(* the RAM cells the programs use; the Sync calls within an instruction,    *)
(* which change no register, are left out; HALT ends the program.           *)
(***************************************************************************)
EXTENDS Alu

CONSTANTS Code,        \* the program: address -> instruction
          Starts,      \* initial states: [reg, mem, ip]
          Cells,       \* the addresses of RAM in use
          Top,         \* where the stack starts
          Handler,     \* the address of the interrupt handler
          MaxIrqs      \* bound: interrupts per run

VARIABLES reg,         \* the registers A to L
          f,           \* the flags
          sp, ip,
          mem,
          master,      \* the master enable of interrupts
          irqs,        \* interrupts still to come
          start        \* history: the initial registers, memory and entry

programVars == <<reg, f, sp, ip, mem, master, irqs, start>>

Reg8 == {"a", "b", "c", "d", "e", "h", "l"}

ProgramInit ==
  /\ start \in Starts
  /\ reg = start.reg /\ mem = start.mem /\ ip = start.ip
  /\ f = Flags(0, 0, 0, 0)
  /\ sp = Top
  /\ master = TRUE /\ irqs = MaxIrqs

-----------------------------------------------------------------------------
(* Operands                                                                 *)

High == [bc |-> "b", de |-> "d", hl |-> "h", af |-> "a"]
Low  == [bc |-> "c", de |-> "e", hl |-> "l"]

Pair(p) == IF p = "sp" THEN sp ELSE reg[High[p]] * 256 + reg[Low[p]]

HL == Pair("hl")

SetPair(p, w) == [reg EXCEPT ![High[p]] = w \div 256, ![Low[p]] = w % 256]

StorePair(p, w) ==
  IF p = "sp" THEN sp' = w /\ UNCHANGED reg
              ELSE reg' = SetPair(p, w) /\ UNCHANGED sp

I == Code[ip]

Decoded(ops) ==
  /\ I.op \in ops
  /\ UNCHANGED <<irqs, start>>

Next1 == ip' = (ip + 1) % 65536

Operand ==
  CASE I.src = "d8"   -> I.n
    [] I.src = "(hl)" -> mem[HL]
    [] OTHER          -> reg[I.src]

Store(dst, v) ==
  IF dst = "(hl)" THEN mem' = [mem EXCEPT ![HL] = v] /\ UNCHANGED reg
                  ELSE reg' = [reg EXCEPT ![dst] = v] /\ UNCHANGED mem

Condition(cc) ==
  CASE cc = "always" -> TRUE
    [] cc = "nz" -> f.z = 0
    [] cc = "z"  -> f.z = 1
    [] cc = "nc" -> f.c = 0
    [] cc = "c"  -> f.c = 1

-----------------------------------------------------------------------------
(* Loads                                                                    *)

LoadByte ==
  /\ Decoded({"LD"})
  /\ Store(I.dst, Operand)
  /\ Next1
  /\ UNCHANGED <<f, sp, master>>

LoadWord ==
  /\ Decoded({"LD16"})
  /\ StorePair(I.dst, I.n)
  /\ Next1
  /\ UNCHANGED <<f, mem, master>>

(* The addresses the accumulator is loaded from and stored to: a pair, an   *)
(* immediate word, or 0xFF00 and a byte                                     *)
Address ==
  CASE I.by = "a16" -> I.n
    [] I.by = "a8"  -> 65280 + I.n
    [] I.by = "c"   -> 65280 + reg["c"]
    [] OTHER        -> Pair(I.by)

LoadA ==
  /\ Decoded({"LDA_"})
  /\ reg' = [reg EXCEPT !["a"] = mem[Address]]
  /\ Next1
  /\ UNCHANGED <<f, sp, mem, master>>

StoreA ==
  /\ Decoded({"LD_A"})
  /\ mem' = [mem EXCEPT ![Address] = reg["a"]]
  /\ Next1
  /\ UNCHANGED <<reg, f, sp, master>>

StoreSP ==
  /\ Decoded({"LD_SP"})
  /\ mem' = [mem EXCEPT ![I.n] = sp % 256, ![(I.n + 1) % 65536] = sp \div 256]
  /\ Next1
  /\ UNCHANGED <<reg, f, sp, master>>

(* LD A,(HL+) and LD A,(HL-): I.n is 1 or -1                                *)
LoadStep ==
  /\ Decoded({"LDA"})
  /\ reg' = [SetPair("hl", (HL + I.n) % 65536) EXCEPT !["a"] = mem[HL]]
  /\ Next1
  /\ UNCHANGED <<f, sp, mem, master>>

StoreStep ==
  /\ Decoded({"STA"})
  /\ mem' = [mem EXCEPT ![HL] = reg["a"]]
  /\ reg' = SetPair("hl", (HL + I.n) % 65536)
  /\ Next1
  /\ UNCHANGED <<f, sp, master>>

LoadHLSP ==
  /\ Decoded({"LDHLSP"})
  /\ LET r == AddSP(sp, I.n) IN reg' = SetPair("hl", r.v) /\ f' = r.f
  /\ Next1
  /\ UNCHANGED <<sp, mem, master>>

LoadSPHL ==
  /\ Decoded({"LDSPHL"})
  /\ sp' = HL
  /\ Next1
  /\ UNCHANGED <<reg, f, mem, master>>

-----------------------------------------------------------------------------
(* Arithmetic                                                               *)

Compute(op, a, v) ==
  CASE op = "ADD" -> Add(a, v, f)
    [] op = "ADC" -> Adc(a, v, f)
    [] op = "SUB" -> Sub(a, v, f)
    [] op = "SBC" -> Sbc(a, v, f)
    [] op = "AND" -> And(a, v, f)
    [] op = "XOR" -> Xor(a, v, f)
    [] op = "OR"  -> Or(a, v, f)
    [] op = "CP"  -> Cp(a, v, f)

Accumulate ==
  /\ Decoded({"ADD", "ADC", "SUB", "SBC", "AND", "XOR", "OR", "CP"})
  /\ LET r == Compute(I.op, reg["a"], Operand)
     IN reg' = [reg EXCEPT !["a"] = r.v] /\ f' = r.f
  /\ Next1
  /\ UNCHANGED <<sp, mem, master>>

Adjust ==
  /\ Decoded({"DAA", "CPL", "SCF", "CCF"})
  /\ LET r == CASE I.op = "DAA" -> Daa(reg["a"], f)
                [] I.op = "CPL" -> Cpl(reg["a"], f)
                [] I.op = "SCF" -> Scf(reg["a"], f)
                [] I.op = "CCF" -> Ccf(reg["a"], f)
     IN reg' = [reg EXCEPT !["a"] = r.v] /\ f' = r.f
  /\ Next1
  /\ UNCHANGED <<sp, mem, master>>

CountByte ==
  /\ Decoded({"INC", "DEC"})
  /\ LET r == IF I.op = "INC" THEN Inc(Operand, f) ELSE Dec(Operand, f)
     IN Store(I.src, r.v) /\ f' = r.f
  /\ Next1
  /\ UNCHANGED <<sp, master>>

CountWord ==
  /\ Decoded({"INC16", "DEC16"})
  /\ StorePair(I.dst, (Pair(I.dst) + (IF I.op = "INC16" THEN 1 ELSE -1)) % 65536)
  /\ Next1
  /\ UNCHANGED <<f, mem, master>>

AddWord ==
  /\ Decoded({"ADDHL"})
  /\ LET r == AddHL(HL, Pair(I.src), f) IN reg' = SetPair("hl", r.v) /\ f' = r.f
  /\ Next1
  /\ UNCHANGED <<sp, mem, master>>

AddToSP ==
  /\ Decoded({"ADDSP"})
  /\ LET r == AddSP(sp, I.n) IN sp' = r.v /\ f' = r.f
  /\ Next1
  /\ UNCHANGED <<reg, mem, master>>

-----------------------------------------------------------------------------
(* Rotations, shifts and bits                                               *)

RotateA ==
  /\ Decoded({"RLCA", "RRCA", "RLA", "RRA"})
  /\ LET r == CASE I.op = "RLCA" -> Rlc(reg["a"], f)
                [] I.op = "RRCA" -> Rrc(reg["a"], f)
                [] I.op = "RLA"  -> Rl(reg["a"], f)
                [] I.op = "RRA"  -> Rr(reg["a"], f)
     IN reg' = [reg EXCEPT !["a"] = r.v] /\ f' = [r.f EXCEPT !.z = 0]
  /\ Next1
  /\ UNCHANGED <<sp, mem, master>>

Shift(op, v) ==
  CASE op = "RLC"  -> Rlc(v, f)
    [] op = "RRC"  -> Rrc(v, f)
    [] op = "RL"   -> Rl(v, f)
    [] op = "RR"   -> Rr(v, f)
    [] op = "SLA"  -> Sla(v, f)
    [] op = "SRA"  -> Sra(v, f)
    [] op = "SWAP" -> Swap(v, f)
    [] op = "SRL"  -> Srl(v, f)
    [] op = "RES"  -> Result(Reset(I.n, v), f)
    [] op = "SET"  -> Result(SetBit(I.n, v), f)

CB ==
  /\ Decoded({"RLC", "RRC", "RL", "RR", "SLA", "SRA", "SWAP", "SRL", "RES", "SET"})
  /\ LET r == Shift(I.op, Operand) IN Store(I.src, r.v) /\ f' = r.f
  /\ Next1
  /\ UNCHANGED <<sp, master>>

Bit ==
  /\ Decoded({"BIT"})
  /\ f' = TestBit(I.n, Operand, f)
  /\ Next1
  /\ UNCHANGED <<reg, sp, mem, master>>

-----------------------------------------------------------------------------
(* The stack                                                                *)

PushWord(hi, lo) ==
  /\ mem' = [mem EXCEPT ![(sp - 1) % 65536] = hi, ![(sp - 2) % 65536] = lo]
  /\ sp' = (sp - 2) % 65536

Popped == mem[sp] + 256 * mem[(sp + 1) % 65536]

F == f.z * 128 + f.n * 64 + f.h * 32 + f.c * 16

Push ==
  /\ Decoded({"PUSH"})
  /\ PushWord(reg[High[I.src]], IF I.src = "af" THEN F ELSE reg[Low[I.src]])
  /\ Next1
  /\ UNCHANGED <<reg, f, master>>

(* POP AF clears the low nibble of F.                                       *)
Pop ==
  /\ Decoded({"POP"})
  /\ IF I.dst = "af"
     THEN /\ reg' = [reg EXCEPT !["a"] = Popped \div 256]
          /\ f' = Flags(BitOf(Popped, 7), BitOf(Popped, 6), BitOf(Popped, 5), BitOf(Popped, 4))
     ELSE reg' = SetPair(I.dst, Popped) /\ UNCHANGED f
  /\ sp' = (sp + 2) % 65536
  /\ Next1
  /\ UNCHANGED <<mem, master>>

-----------------------------------------------------------------------------
(* Control flow                                                             *)

(* JR: the displacement counts from the next instruction.                   *)
JumpRelative ==
  /\ Decoded({"JR"})
  /\ ip' = IF Condition(I.cc) THEN (ip + 1 + I.n) % 65536 ELSE (ip + 1) % 65536
  /\ UNCHANGED <<reg, f, sp, mem, master>>

Jump ==
  /\ Decoded({"JP"})
  /\ ip' = IF Condition(I.cc) THEN I.n ELSE (ip + 1) % 65536
  /\ UNCHANGED <<reg, f, sp, mem, master>>

Mut_JumpHL ==                    \* the wrong register pair
  /\ Decoded({"JPHL"})
  /\ ip' = Pair("de")
  /\ UNCHANGED <<reg, f, sp, mem, master>>

JumpHL ==
  /\ Decoded({"JPHL"})
  /\ ip' = HL
  /\ UNCHANGED <<reg, f, sp, mem, master>>

Call ==
  /\ Decoded({"CALL"})
  /\ IF Condition(I.cc)
     THEN PushWord((ip + 1) \div 256, (ip + 1) % 256) /\ ip' = I.n
     ELSE Next1 /\ UNCHANGED <<sp, mem>>
  /\ UNCHANGED <<reg, f, master>>

Restart ==
  /\ Decoded({"RST"})
  /\ PushWord((ip + 1) \div 256, (ip + 1) % 256)
  /\ ip' = I.n
  /\ UNCHANGED <<reg, f, master>>

Return ==
  /\ Decoded({"RET"})
  /\ IF Condition(I.cc)
     THEN ip' = Popped /\ sp' = (sp + 2) % 65536
     ELSE Next1 /\ UNCHANGED sp
  /\ UNCHANGED <<reg, f, mem, master>>

(* RETI; the delay of its effect is in Interrupts.                          *)
ReturnFromInterrupt ==
  /\ Decoded({"RETI"})
  /\ ip' = Popped
  /\ sp' = (sp + 2) % 65536
  /\ master' = TRUE
  /\ UNCHANGED <<reg, f, mem>>

Done == I.op = "HALT"

(* interrupt_routine, after serve_interrupt cleared the master enable       *)
Interrupt ==
  /\ master /\ irqs > 0 /\ ~Done
  /\ master' = FALSE
  /\ irqs' = irqs - 1
  /\ PushWord(ip \div 256, ip % 256)
  /\ ip' = Handler
  /\ UNCHANGED <<reg, f, start>>

-----------------------------------------------------------------------------
Instruction ==
  \/ LoadByte \/ LoadWord \/ LoadA \/ StoreA \/ StoreSP \/ LoadStep \/ StoreStep \/ LoadHLSP \/ LoadSPHL
  \/ Accumulate \/ Adjust \/ CountByte \/ CountWord \/ AddWord \/ AddToSP
  \/ RotateA \/ CB \/ Bit \/ Push \/ Pop
  \/ JumpRelative \/ Jump \/ JumpHL \/ Call \/ Restart \/ Return \/ ReturnFromInterrupt

ProgramNext == Instruction \/ Interrupt

(* Step is called in a loop by the emulation thread or by a command.        *)
ProgramSpec == ProgramInit /\ [][ProgramNext]_programVars /\ WF_programVars(ProgramNext)

=============================================================================
