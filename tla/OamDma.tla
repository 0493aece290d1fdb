--------------------------------- MODULE OamDma ---------------------------------
(***************************************************************************)
(* Memory's OAM DMA (the write of FF46, reset_dma, DmaAdvance) and the       *)
(* accesses of the game to the two pages concerned.  A transfer copies one  *)
(* byte per T-state, all T-states of a Sync at once and before the PPU      *)
(* advances, and reads its source through Memory::Read, which hides OAM     *)
(* itself in the PPU modes 2 and 3 - from this reader only: nothing keeps   *)
(* the game from writing either page meanwhile, in any mode.                *)
(***************************************************************************)
EXTENDS Integers

CONSTANTS Length,        \* 160 (0xA0)
          Bytes,         \* values the game writes
          FF             \* what Read returns for a hidden byte

VARIABLES
  running, page, index,  \* m_dma.running, source_base, current_index
  ram, oam,              \* a page of work RAM, m_oam
  age,                   \* history: T-states since FF46 was written, at most Length
  before,                \* history: the source as it was then
  changed,               \* history: indices the game has written since
  hidden                 \* history: indices that were read while hidden

vars == <<running, page, index, ram, oam, age, before, changed, hidden>>

Index == 0..Length - 1

Init ==
  /\ running = FALSE /\ page = "none" /\ index = 0
  /\ ram \in [Index -> Bytes] /\ oam = [i \in Index |-> FF]
  /\ age = 0 /\ before = ram /\ changed = Index /\ hidden = {}

(* FF46: a transfer still running is dropped.                               *)
Mut_Start(p) ==                  \* ... or rather, continued with the new page
  /\ running' = TRUE /\ page' = p
  /\ age' = 0 /\ changed' = {} /\ hidden' = {}
  /\ before' = IF p = "oam" THEN oam ELSE ram
  /\ UNCHANGED <<index, ram, oam>>

Start(p) ==
  /\ running' = TRUE /\ page' = p /\ index' = 0
  /\ age' = 0 /\ changed' = {} /\ hidden' = {}
  /\ before' = IF p = "oam" THEN oam ELSE ram
  /\ UNCHANGED <<ram, oam>>

Source(i, hides) ==
  IF page = "ram" THEN ram[i] ELSE IF hides THEN FF ELSE oam[i]

(* DmaAdvance, with OAM hidden or not: the last byte ends the transfer      *)
(* within the call and resets the source register.                          *)
Advance(n, hides) ==
  IF ~running THEN UNCHANGED vars
  ELSE LET next == IF index + n < Length THEN index + n ELSE Length
           now  == index..next - 1
       IN /\ oam' = [i \in Index |-> IF i \in now THEN Source(i, hides) ELSE oam[i]]
          /\ IF next = Length
             THEN running' = FALSE /\ page' = "none" /\ index' = 0
             ELSE index' = next /\ UNCHANGED <<running, page>>
          /\ age' = IF age + n < Length THEN age + n ELSE Length
          /\ hidden' = IF hides /\ page = "oam" THEN hidden \cup now ELSE hidden
          /\ UNCHANGED <<ram, before, changed>>

WriteRam(i, v) ==
  /\ ram' = [ram EXCEPT ![i] = v]
  /\ changed' = IF page = "ram" /\ i >= index THEN changed \cup {i} ELSE changed
  /\ UNCHANGED <<running, page, index, oam, age, before, hidden>>

WriteOam(i, v) ==
  /\ oam' = [oam EXCEPT ![i] = v]
  /\ changed' = changed \cup {i}
  /\ UNCHANGED <<running, page, index, ram, age, before, hidden>>

(* Every byte of the page is copied, as it was when the transfer began, in  *)
(* the T-state that is its turn; but a byte the game wrote in its way, and  *)
(* 0xFF for each one read from OAM while hidden.                            *)
Copies ==
  /\ running => age = index
  /\ \A i \in Index \ changed :
       i < age => oam[i] = IF i \in hidden THEN FF ELSE before[i]
=============================================================================
