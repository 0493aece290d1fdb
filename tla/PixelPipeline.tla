----------------------------- MODULE PixelPipeline -----------------------------
(***************************************************************************)
(* The pixel pipeline of one scanline: PixelPipeline::Reset, Advance,        *)
(* sprite_fetch, AdvanceFifo and Popfifo, driven by PPU::mode_transfer, on   *)
(* the list of objects that PPU::mode_oam found for the line.               *)
(*                                                                          *)
(* A background pixel is the pair of its layer and its column in that       *)
(* layer; a sprite pixel is the pair of the sprite's place in the sorted    *)
(* list of the line and the column in the sprite.  Colours are left out:    *)
(* all sprites are opaque, which is where their placement can be seen.      *)
(***************************************************************************)
EXTENDS Integers, Sequences, FiniteSets, Scanline

CONSTANTS FifoSize,      \* PixelPipeline::fifo_size: 320
          ScxValues,     \* values of SCX
          WindowStarts,  \* values of WX - 7
          Entries,       \* objects in OAM: 40
          MaxObjects,    \* objects of one line: 10
          Tables,        \* contents of OAM: for each entry its x_pos, or Off
          MaxWrites      \* LCDC writes of the game during one line

Tile == 8
SpriteDots == 6
Off == 255               \* the entry's object is not on the line of the scan

ASSUME PipelineAssumption ==
  /\ Width \in 1..Off - 1 /\ MaxWrites \in Nat                  \* m_x is a byte
  /\ FifoSize \in Nat /\ Width + Tile - 1 <= FifoSize
  /\ ScxValues \subseteq 0..255 /\ WindowStarts \subseteq -7..248
  /\ Entries \in 1..40 /\ MaxObjects \in Nat \ {0}
  /\ Tables \subseteq [0..Entries - 1 -> -8..247 \cup {Off}]

VARIABLES
  scx, windowStart,             \* SCX, and WX - 7
  lineTrigger,                  \* m_wy_trigger of the line
  oam,                          \* m_oam as mode_oam read it for this line
  sprites,                      \* m_sprites, of m_line_sprites objects
  fetchMode, modeDots,          \* m_mode, m_mode_dots
  temp, tempLast,               \* m_temp_bg and its m_temp_bg.last + 1
  bgFifo,                       \* m_fifo
  spritex, spriteFifo,          \* m_spritex, m_sprite_fifo
  overWindow,                   \* m_over_window
  fetchStatus, fetchDots,       \* m_sprite_fetch_status, m_sprite_fetch_dots
  drawn,                        \* m_drawn_sprites
  frame,                        \* pixels of this line moved to m_frame
  taken, writes,                \* dots and LCDC writes of the line so far
  objEnable,                    \* LCDC bit 1
  dark                          \* history: the columns pushed with objects disabled

registers == <<scx, windowStart, lineTrigger, oam, sprites>>
lcdc == <<windowEnable, objEnable, writes, dark>>
pipelineVars == <<scx, windowStart, windowEnable, lineTrigger, oam, sprites, fetchMode,
                  modeDots, temp, tempLast, x, bgFifo, spritex, spriteFifo, overWindow,
                  fetchStatus, fetchDots, drawn, frame, taken, writes, objEnable, dark>>

Blank == <<0, 0>>

-----------------------------------------------------------------------------
(* mode_oam and the sorting of Reset                                        *)

(* oam_index is the index of the dot that reads the entry's second half,    *)
(* less four, in a byte                                                     *)
OamIndex(e) == (4 * e + 2 - 4) % 256

(* The first MaxObjects entries on the line, in the order of OAM            *)
Found(t) ==
  LET scan[n \in 0..Entries] ==
        IF n = 0 THEN <<>>
        ELSE IF Len(scan[n - 1]) < MaxObjects /\ t[n - 1] # Off
             THEN Append(scan[n - 1], [x |-> t[n - 1], index |-> OamIndex(n - 1)])
             ELSE scan[n - 1]
  IN scan[Entries]

Mut_Before(a, b) ==                  \* by position only, the order of OAM reversed
  a.x < b.x \/ (a.x = b.x /\ a.index > b.index)

Before(a, b) == a.x < b.x \/ (a.x = b.x /\ a.index < b.index)

(* std::sort: p[i] is the entry that comes i-th; every entry has a place,   *)
(* and none comes before an earlier one.                                    *)
IsSorting(p, list) ==
  /\ \A k \in 1..Len(list) : \E i \in 1..Len(list) : p[i] = k
  /\ \A i, j \in 1..Len(list) : i < j => ~Before(list[p[j]], list[p[i]])

SpriteList(t) ==
  LET list  == Found(t)
      order == CHOOSE p \in [1..Len(list) -> 1..Len(list)] : IsSorting(p, list)
  IN [i \in 1..Len(list) |-> list[order[i]]]

X(i) == sprites[i].x

(* after the first Reset                                                    *)
PipelineInit ==
  /\ scx \in ScxValues /\ windowStart \in WindowStarts
  /\ oam \in Tables /\ sprites = SpriteList(oam)
  /\ windowEnable \in BOOLEAN /\ lineTrigger \in BOOLEAN
  /\ fetchMode = 0 /\ modeDots = 0
  /\ temp = <<>> /\ tempLast = 0
  /\ x = 0 /\ bgFifo = <<>>
  /\ spritex = 0 /\ spriteFifo = <<>>
  /\ overWindow = FALSE
  /\ fetchStatus = 0 /\ fetchDots = 0
  /\ drawn = 0
  /\ frame = <<>> /\ taken = 0 /\ writes = 0
  /\ objEnable \in BOOLEAN /\ dark = {}

-----------------------------------------------------------------------------
MinOf(a, b) == IF a <= b THEN a ELSE b
MaxOf(a, b) == IF a >= b THEN a ELSE b
From(s, n) == SubSeq(s, n + 1, Len(s))

(* sprite_fetch, on its last dot: the sprite's pixels overlay the pixels    *)
(* waiting in the fifo from its front on, and the rest is appended.         *)
Mut_Overlay(i, queue) ==             \* forgets the columns left of the screen
  [k \in 1..MaxOf(Tile, Len(queue)) |->
     IF k > Tile \/ (k <= Len(queue) /\ queue[k] # Blank)
     THEN queue[k] ELSE <<i, k - 1>>]

Overlay(i, queue) ==
  LET ignore == IF X(i) < 0 THEN -X(i) ELSE 0
  IN  [k \in 1..MaxOf(Tile - ignore, Len(queue)) |->
         IF k > Tile - ignore \/ (k <= Len(queue) /\ queue[k] # Blank)
         THEN queue[k] ELSE <<i, ignore + k - 1>>]

Mut_FetchedTile ==                   \* discards SCX % 8 pixels of every tile
  LET layer == IF overWindow THEN "window" ELSE "background"
      first == IF overWindow THEN (x - windowStart) \div Tile
                             ELSE (scx + x) \div Tile
      shift == IF ~overWindow THEN scx % Tile ELSE 0
  IN [k \in 1..Tile - shift |-> <<layer, first * Tile + shift + k - 1>>]

(* the eight pixels of the tile the fetcher has read                        *)
FetchedTile ==
  LET layer == IF overWindow THEN "window" ELSE "background"
      first == IF overWindow THEN (x - windowStart) \div Tile
                             ELSE (scx + x) \div Tile
      shift == IF x = 0 /\ ~overWindow THEN scx % Tile ELSE 0
  IN [k \in 1..Tile - shift |-> <<layer, first * Tile + shift + k - 1>>]

Never == Width

(* the column at or after `from' where the first sprite not among the d     *)
(* drawn ones is met: with objects disabled none is, and one passed by      *)
(* entirely is never met, nor are those after it                            *)
SpriteAt(d, from) ==
  IF objEnable /\ d < Len(sprites) /\ MaxOf(from, X(d + 1)) < X(d + 1) + Tile
  THEN MinOf(MaxOf(from, X(d + 1)), Never)
  ELSE Never

Mut_WindowAt(from, over) ==          \* the window begins again at every tile
  IF lineTrigger /\ windowEnable THEN MinOf(MaxOf(from, windowStart), Never)
  ELSE Never

WindowAt(from, over) ==
  IF lineTrigger /\ windowEnable /\ ~over THEN MinOf(MaxOf(from, windowStart), Never)
  ELSE Never

-----------------------------------------------------------------------------
(* Dots of Advance; each ends with AdvanceFifo and the test of mode_transfer *)

(* AdvanceFifo moves the front of both queues to the frame, if the          *)
(* background fifo has one.  When the last column has been pushed, the      *)
(* remaining pixels are flushed.                                            *)
Mut_Show(f, s, all) ==               \* the sprite fifo is not popped with the other
  LET n == IF all THEN Len(f) ELSE MinOf(1, Len(f))
  IN /\ frame' = frame \o [k \in 1..n |-> <<f[k], s[k]>>]
     /\ bgFifo' = From(f, n)
     /\ spriteFifo' = IF all THEN From(s, n) ELSE s

Show(f, s, all) ==
  LET n == IF all THEN Len(f) ELSE MinOf(1, Len(f))
  IN /\ frame' = frame \o [k \in 1..n |-> <<f[k], s[k]>>]
     /\ bgFifo' = From(f, n)
     /\ spriteFifo' = From(s, n)

AdvanceDot == x < Width /\ taken' = taken + 1

(* The five steps of the background fetcher take two dots each but the last *)
FetchTile ==
  /\ AdvanceDot
  /\ fetchStatus = 0 /\ fetchMode < 4
  /\ modeDots' = (modeDots + 1) % 2
  /\ fetchMode' = IF modeDots = 1 THEN fetchMode + 1 ELSE fetchMode
  /\ Show(bgFifo, spriteFifo, FALSE)
  /\ UNCHANGED <<registers, lcdc, temp, tempLast, x, spritex, overWindow,
                 fetchStatus, fetchDots, drawn>>

FetchSprite ==
  /\ AdvanceDot
  /\ fetchStatus = 1 /\ fetchDots + 1 < SpriteDots
  /\ fetchDots' = fetchDots + 1
  /\ Show(bgFifo, spriteFifo, FALSE)
  /\ UNCHANGED <<registers, lcdc, fetchMode, modeDots, temp, tempLast, x, spritex,
                 overWindow, fetchStatus, drawn>>

(* The loop of mode 4, with d sprites drawn: pixels move from m_temp_bg to   *)
(* the fifos until the queue is empty or the line complete, the window      *)
(* begins (the rest of the tile is dropped) or a sprite is met.             *)
Push(queue, sprFifo, sprEnd, d) ==
  LET over   == overWindow /\ ~(lineTrigger /\ ~windowEnable)
      limit  == MinOf(x + Len(queue), Width)
      win    == WindowAt(x, over)
      spr    == SpriteAt(d, x)
      stop   == MinOf(limit, MinOf(win, spr))
      atWin  == stop < limit /\ stop = win
      atSpr  == stop < limit /\ stop # win
      blanks == MaxOf(stop - sprEnd, 0)
  IN /\ x' = stop
     /\ spritex' = sprEnd + blanks
     /\ temp' = IF atWin THEN <<>> ELSE From(queue, stop - x)
     /\ tempLast' = IF atWin THEN 0
                    ELSE tempLast + (IF fetchStatus = 1 THEN 0 ELSE Len(FetchedTile))
     /\ overWindow' = (over \/ atWin)
     /\ fetchStatus' = (IF atSpr THEN 1 ELSE 0)
     /\ fetchDots' = 0
     /\ fetchMode' = (IF atSpr THEN 4 ELSE 0)
     /\ Show(bgFifo \o SubSeq(queue, 1, stop - x),
             sprFifo \o [k \in 1..blanks |-> Blank], stop = Width)
     /\ dark' = (IF objEnable THEN dark ELSE dark \cup x..stop - 1)
     /\ UNCHANGED <<registers, windowEnable, objEnable, modeDots, writes>>

PushTile ==
  /\ AdvanceDot
  /\ fetchStatus = 0 /\ fetchMode = 4
  /\ Push(temp \o FetchedTile, spriteFifo, spritex, drawn)
  /\ UNCHANGED drawn

(* The sprite is read: its pixels are placed and the loop goes on.          *)
PushSprite ==
  /\ AdvanceDot
  /\ fetchStatus = 1 /\ fetchDots + 1 = SpriteDots
  /\ LET overlaid == Overlay(drawn + 1, spriteFifo)
     IN Push(temp, overlaid, spritex + Len(overlaid) - Len(spriteFifo), drawn + 1)
  /\ drawn' = drawn + 1

(* The game writes LCDC between two dots; a sprite being read is completed. *)
WriteLcdc ==
  /\ x < Width /\ writes < MaxWrites
  /\ windowEnable' \in BOOLEAN /\ objEnable' \in BOOLEAN
  /\ writes' = writes + 1
  /\ UNCHANGED <<registers, fetchMode, modeDots, temp, tempLast, x, bgFifo, spritex,
                 spriteFifo, overWindow, fetchStatus, fetchDots, drawn, frame, taken, dark>>

(* PPU::mode_oam, at the end of its scan of the next line                   *)
Reset ==
  /\ x = Width
  /\ oam' \in Tables /\ sprites' = SpriteList(oam')
  /\ lineTrigger' \in BOOLEAN
  /\ fetchMode' = 0 /\ modeDots' = 0
  /\ temp' = <<>> /\ tempLast' = 0
  /\ x' = 0 /\ bgFifo' = <<>>
  /\ spritex' = 0 /\ spriteFifo' = <<>>
  /\ overWindow' = FALSE
  /\ fetchStatus' = 0 /\ fetchDots' = 0
  /\ drawn' = 0 /\ frame' = <<>> /\ taken' = 0 /\ writes' = 0 /\ dark' = {}
  /\ UNCHANGED <<scx, windowStart, windowEnable, objEnable>>

PipelineNext == FetchTile \/ FetchSprite \/ PushTile \/ PushSprite \/ WriteLcdc \/ Reset

PipelineSpec == PipelineInit /\ [][PipelineNext]_pipelineVars

-----------------------------------------------------------------------------
(* Properties                                                               *)

(* The queues never hold more than their capacity, which `last' only nears. *)
(* The two fifos are popped together and refer to the same columns; the     *)
(* sprite fifo never runs out before the background fifo (AdvanceFifo reads *)
(* its front without testing it).                                           *)
FifosInStep ==
  /\ Len(sprites) <= MaxObjects /\ tempLast <= FifoSize /\ spritex <= FifoSize
  /\ Len(frame) + Len(bgFifo) = x
  /\ x <= spritex
  /\ Len(frame) + Len(spriteFifo) = spritex

(* A sprite's pixel is shown at its column, or one column to the left of it *)
(* when seven pixels were waiting in the fifo as the sprite was met.  Only  *)
(* when the sprite's first columns were passed with objects disabled is it  *)
(* shown later, and by no more columns than those.                          *)
Left(i) == MaxOf(X(i), 0)

SpritesNearColumn ==
  \A c \in DOMAIN frame :
    LET p == frame[c][2]
    IN p # Blank =>
         \E late \in 0..Tile - 1 : /\ Left(p[1])..Left(p[1]) + late - 1 \subseteq dark
                                  /\ (c - 1) - (X(p[1]) + p[2]) \in {late - 1, late}

(* Of the objects that cover a column the leftmost one is shown, at equal   *)
(* places the first in OAM, entry 0 coming last: its oam_index is 254.      *)
(* Objects beyond the line's limit count for nothing.  The rightmost column *)
(* of an object may be left to another one (SpritesNearColumn).  Excepted   *)
(* are an object whose left end was passed with objects disabled and those  *)
(* behind one of which no column was passed with objects enabled, as is the *)
(* case of one that has no column on the screen: it is never met.           *)
Priority(e) == <<oam[e], IF e = 0 THEN Entries ELSE e>>
Within == {n \in DOMAIN oam : Cardinality({m \in 0..n : oam[m] # Off}) <= MaxObjects}
Columns(e) == {c \in 0..Width - 1 : c \in oam[e]..oam[e] + Tile - 1}
Reached(e) == \A f \in Within : oam[f] <= oam[e] => ~(Columns(f) \subseteq dark)

FirstSpriteShown ==
  x = Width =>
    \A e \in Within : \A c \in oam[e]..oam[e] + Tile - 2 :
      c \in 0..Width - 1 /\ MaxOf(oam[e], 0) \notin dark /\ Reached(e) =>
        LET p     == frame[c + 1][2]
            shown == CHOOSE n \in DOMAIN oam : OamIndex(n) = sprites[p[1]].index
        IN /\ p # Blank
           /\ \/ Priority(shown)[1] < Priority(e)[1]
              \/ /\ Priority(shown)[1] = Priority(e)[1]
                 /\ Priority(shown)[2] <= Priority(e)[2]

(* Background pixels come from the column the scroll register says as long  *)
(* as the window was not left on this line; window pixels count from WX.    *)
ColumnsFollowRegisters ==
  \A c \in DOMAIN frame :
    LET p == frame[c][1]
    IN /\ p[1] = "background" /\ (\A b \in 1..c : frame[b][1][1] = "background")
            => p[2] = scx + c - 1
       /\ p[1] = "window" /\ windowStart >= 0 /\ writes = 0
            => p[2] = c - 1 - windowStart

(* The line is complete in time for mode 0: nine dots for a tile, the first *)
(* one and the first of the window in addition, six for a sprite, and a     *)
(* tile lost each time the window is switched off and on again.             *)
LineInTime ==
  taken <= 9 * (2 + (Width + Tile - 1) \div Tile + writes \div 2) + SpriteDots * Len(sprites)

(* The longest line with that many objects and writes; 258 dots with the    *)
(* numbers of the code and no write                                         *)
LongestLine ==
  9 * (2 + (Width + Tile - 1) \div Tile + MaxWrites \div 2) + SpriteDots * MaxObjects

(* What PpuModes sees of the line: a frame of this one line, of which the   *)
(* scan took one dot.                                                       *)
Modes == INSTANCE PpuModes WITH
  Height <- 1, Lines <- 2, OamDots <- 1, LineDots <- LongestLine + 2,
  MaxTransfer <- LongestLine, Burst <- Tile, LycValues <- {0}, WyValues <- {0},
  enable <- TRUE, mode <- IF x < Width THEN 3 ELSE 0, ly <- 0, dots <- 1 + taken,
  row <- IF x < Width THEN 0 ELSE 1, col <- IF x < Width THEN Len(frame) ELSE 0,
  waiting <- Len(bgFifo), lyc <- 0, lycFlag <- TRUE, wy <- 0, wxVisible <- TRUE,
  wyTrigger <- lineTrigger, windowLine <- 0, irq <- {}, lycKnown <- 0,
  since <- IF writes = 0 THEN [line |-> 0, row |-> 255] ELSE [line |-> 1, row |-> 0]

(* What PpuModes assumes of the pipeline is so: until the line is complete,  *)
(* a dot completes at most a tile and shows one pixel, the last dot all     *)
(* that are left, and no line takes longer than the longest.                *)
KeepsPromise ==
  [][x < Width =>
       \/ Modes!SetControl
       \/ \E k \in 0..Tile : Modes!TransferDot(k) \/ Modes!EndTransfer(k)]_pipelineVars
=============================================================================
