------------------------------- MODULE PpuModes -------------------------------
(***************************************************************************)
(* The scanline state machine of the PPU: PPU::Tick, mode_hblank,           *)
(* mode_vblank, mode_oam, mode_transfer, EnableLcd, DisableLcd and the      *)
(* register writes of the game, which may fall between any two dots.        *)
(*                                                                          *)
(* The pixel pipeline is abstracted to what mode_transfer sees of it: GetX  *)
(* grows by any amount up to Burst a dot, every pixel it counts enters the  *)
(* fifo, and the line is complete within MaxTransfer dots (PixelPipeline    *)
(* checks both for the code's pipeline).  m_pixel_index is kept as the pair *)
(* (row, col) with m_pixel_index = 160 * row + col.                         *)
(***************************************************************************)
EXTENDS Integers, Scanline

CONSTANTS Height,          \* 144 in the code
          Lines,           \* 154
          LineDots,        \* 456
          OamDots,         \* 80
          MaxTransfer,     \* longest mode 3, in dots
          Burst,           \* most pixels the pipeline completes in one dot
          LycValues,       \* values the game writes to LYC
          WyValues         \* values the game writes to WY

ASSUME PpuAssumption ==
  /\ Width \in Nat \ {0} /\ Height \in Nat \ {0}
  /\ Lines \in Nat /\ Height < Lines /\ Lines < 256   \* LY is a byte
  /\ OamDots \in Nat \ {0} /\ MaxTransfer \in Nat \ {0} /\ LineDots \in Nat
  /\ OamDots + MaxTransfer < LineDots
  /\ Burst \in Nat
  /\ LycValues \subseteq Nat /\ WyValues \subseteq Nat

HBlank == 0
VBlank == 1
OamScan == 2
Transfer == 3

VARIABLES
  enable,                 \* LCDC bit 7
  mode,                   \* m_ctx.mode_flag
  ly,                     \* m_ctx.lcd_y
  dots,                   \* m_current_scanline_cycles
  row, col,               \* m_pixel_index
  waiting,                \* PixelPipeline: m_fifo.size()
  lyc, lycFlag,           \* m_ctx.lyc, m_ctx.lyc_ly_flag
  wy, wxVisible,          \* m_ctx.wy, m_ctx.wx < 166
  wyTrigger, windowLine,  \* m_wy_trigger, m_window_line
  irq,                    \* the interrupts requested by the last step
  lycKnown,               \* history: LYC as it was when lycFlag was computed
  since                   \* history: the first line that begins with the window
                          \* registers as they are, and m_window_line before it

screen   == <<row, col, x, waiting>>
compare  == <<lyc, lycFlag, lycKnown>>
window   == <<wy, wxVisible, wyTrigger, windowLine, since>>
vars == <<enable, windowEnable, mode, ly, dots, row, col, x, waiting, lyc, lycFlag,
          wy, wxVisible, wyTrigger, windowLine, irq, lycKnown, since>>

Unknown == 256   \* no LYC byte

FrameStart == [line |-> 0, row |-> 255]

Init ==
  /\ enable = FALSE /\ windowEnable = FALSE
  /\ mode = HBlank /\ ly = 0 /\ dots = 0
  /\ row = 0 /\ col = 0 /\ x = 0 /\ waiting = 0
  /\ lyc = 0 /\ lycFlag = FALSE /\ lycKnown = Unknown
  /\ wy = 0 /\ wxVisible = TRUE
  /\ wyTrigger = FALSE /\ windowLine = 255 /\ since = FrameStart
  /\ irq = {}

-----------------------------------------------------------------------------
(* checkWyTrigger, run as line l begins                                     *)

WindowReached(l) == l >= wy /\ windowEnable

WindowVisible(l) == wy < Height - 1 /\ wxVisible /\ l >= wy

Mut_CheckWyTrigger(l) ==          \* counts lines on which no window can be seen
  /\ wyTrigger' = WindowReached(l)
  /\ windowLine' = IF WindowReached(l) THEN (windowLine + 1) % 256 ELSE windowLine
  /\ UNCHANGED since

CheckWyTrigger(l) ==
  /\ wyTrigger' = WindowReached(l)
  /\ windowLine' = IF WindowReached(l) /\ WindowVisible(l)
                   THEN (windowLine + 1) % 256 ELSE windowLine
  /\ UNCHANGED since

(* LY = LYC is evaluated when LY changes, never when LYC is written.        *)
Mut_CompareLyc(l) ==              \* compares before LY is incremented
  /\ lycFlag' = (ly = lyc)
  /\ lycKnown' = lyc

CompareLyc(l) ==
  /\ lycFlag' = (l = lyc)
  /\ lycKnown' = lyc

LycRequest(l) == IF l = lyc THEN {"stat"} ELSE {}

NextDot == dots' = dots + 1

EndOfLine == dots + 1 = LineDots

-----------------------------------------------------------------------------
(* One dot of each mode                                                     *)

HBlankDot ==
  /\ enable /\ mode = HBlank /\ ~EndOfLine
  /\ NextDot /\ irq' = {}
  /\ UNCHANGED <<enable, windowEnable, mode, ly, screen, compare, window>>

StartScan == mode' = OamScan

(* The next visible line begins.                                            *)
HBlankToScan ==
  /\ enable /\ mode = HBlank /\ EndOfLine
  /\ ly + 1 # Height
  /\ ly' = ly + 1 /\ dots' = 0
  /\ CheckWyTrigger(ly + 1)
  /\ StartScan
  /\ CompareLyc(ly + 1)
  /\ \E statOam \in BOOLEAN :
       irq' = (IF statOam THEN {"stat"} ELSE {}) \cup LycRequest(ly + 1)
  /\ UNCHANGED <<enable, windowEnable, screen, lyc, wy, wxVisible>>

Mut_ResetPixelIndex == UNCHANGED <<row, col>>

ResetPixelIndex == row' = 0 /\ col' = 0

(* The last visible line is over: VBLANK is requested, the frame is shown.  *)
Mut_EnterVBlank ==                \* the byte of IF is read before stat_source
  /\ enable /\ mode = HBlank /\ EndOfLine
  /\ ly + 1 = Height
  /\ ly' = Height /\ dots' = 0
  /\ mode' = VBlank
  /\ ResetPixelIndex
  /\ CompareLyc(Height)
  /\ irq' = IF Height = lyc THEN {"stat"} ELSE {"vblank"}
  /\ UNCHANGED <<enable, windowEnable, x, waiting, lyc, window>>

EnterVBlank ==
  /\ enable /\ mode = HBlank /\ EndOfLine
  /\ ly + 1 = Height
  /\ ly' = Height /\ dots' = 0
  /\ mode' = VBlank
  /\ ResetPixelIndex
  /\ CompareLyc(Height)
  /\ \E statVblank \in BOOLEAN :
       irq' = {"vblank"} \cup (IF statVblank THEN {"stat"} ELSE {}) \cup LycRequest(Height)
  /\ UNCHANGED <<enable, windowEnable, x, waiting, lyc, window>>

VBlankDot ==
  /\ enable /\ mode = VBlank /\ ~EndOfLine
  /\ NextDot /\ irq' = {}
  /\ UNCHANGED <<enable, windowEnable, mode, ly, screen, compare, window>>

VBlankLine ==
  /\ enable /\ mode = VBlank /\ EndOfLine
  /\ ly + 1 # Lines
  /\ ly' = ly + 1 /\ dots' = 0
  /\ CompareLyc(ly + 1)
  /\ irq' = LycRequest(ly + 1)
  /\ windowLine' = 255 /\ since' = FrameStart
  /\ UNCHANGED <<enable, windowEnable, mode, screen, lyc, wy, wxVisible, wyTrigger>>

(* The next frame begins.  checkWyTrigger may count line 0 as a window      *)
(* line, but m_window_line is set to 255 after it.                          *)
VBlankToScan ==
  /\ enable /\ mode = VBlank /\ EndOfLine
  /\ ly + 1 = Lines
  /\ ly' = 0 /\ dots' = 0
  /\ wyTrigger' = WindowReached(0)
  /\ windowLine' = 255 /\ since' = FrameStart
  /\ StartScan
  /\ CompareLyc(0)
  /\ \E statOam \in BOOLEAN :
       irq' = (IF statOam THEN {"stat"} ELSE {}) \cup LycRequest(0)
  /\ UNCHANGED <<enable, windowEnable, screen, lyc, wy, wxVisible>>

(* PixelPipeline::Reset at the end of the scan                              *)
OamDot ==
  /\ enable /\ mode = OamScan
  /\ NextDot /\ irq' = {}
  /\ IF dots + 1 >= OamDots
     THEN mode' = Transfer /\ x' = 0 /\ waiting' = 0
     ELSE UNCHANGED <<mode, x, waiting>>
  /\ UNCHANGED <<enable, windowEnable, ly, row, col, compare, window>>

-----------------------------------------------------------------------------
(* mode_transfer: the pipeline completes k pixels, one pixel is shown       *)

Shown(k) == IF waiting + k > 0 THEN 1 ELSE 0

(* writing n pixels of one line at (row, col)                               *)
Write(n) ==
  IF col + n = Width THEN row' = row + 1 /\ col' = 0
                     ELSE col' = col + n /\ UNCHANGED row

(* What is assumed of the pipeline: with `left` dots left of MaxTransfer the *)
(* missing pixels can still be completed.                                   *)
InTime(done, left) == left > 0 /\ Width - done <= Burst * left

TransferDot(k) ==
  /\ enable /\ mode = Transfer
  /\ x + k < Width
  /\ InTime(x + k, OamDots + MaxTransfer - (dots + 1))
  /\ x' = x + k
  /\ waiting' = waiting + k - Shown(k)
  /\ Write(Shown(k))
  /\ NextDot /\ irq' = {}
  /\ UNCHANGED <<enable, windowEnable, mode, ly, compare, window>>

(* how many pixels the closing loop moves to the frame: until the index is  *)
(* a multiple of 160 or the fifo is empty                                   *)
Flushed(c, f) == IF c = 0 \/ c = Width THEN 0 ELSE IF f < Width - c THEN f ELSE Width - c

(* The last pixel was completed: the fifo is flushed, mode 0 begins.        *)
EndTransfer(k) ==
  /\ enable /\ mode = Transfer
  /\ x + k = Width
  /\ LET f == waiting + k - Shown(k)
         n == Flushed(col + Shown(k), f)
     IN /\ waiting' = f - n
        /\ Write(Shown(k) + n)
  /\ x' = Width
  /\ mode' = HBlank
  /\ NextDot
  /\ \E statHblank \in BOOLEAN : irq' = IF statHblank THEN {"stat"} ELSE {}
  /\ UNCHANGED <<enable, windowEnable, ly, compare, window>>

-----------------------------------------------------------------------------
(* Register writes                                                          *)

(* The game changes a register checkWyTrigger looks at.                     *)
FromNextLine == since' = [line |-> ly + 1, row |-> windowLine]

(* EnableLcd and DisableLcd differ only in the mode they enter.             *)
Restart(m) ==
  /\ mode' = m
  /\ ly' = 0 /\ dots' = 0
  /\ ResetPixelIndex
  /\ lycFlag' = FALSE /\ lycKnown' = Unknown
  /\ wyTrigger' = FALSE /\ windowLine' = 255 /\ since' = FrameStart

SwitchLcd ==
  /\ enable' = ~enable
  /\ windowEnable' \in BOOLEAN
  /\ Restart(IF enable THEN HBlank ELSE OamScan)
  /\ irq' = {}
  /\ UNCHANGED <<x, waiting, lyc, wy, wxVisible>>

(* Any other write of LCDC                                                  *)
SetControl ==
  /\ windowEnable' \in BOOLEAN /\ irq' = {}
  /\ FromNextLine
  /\ UNCHANGED <<enable, mode, ly, dots, screen, compare, wy, wxVisible,
                 wyTrigger, windowLine>>

SetLYC(v) ==
  /\ lyc' = v /\ irq' = {}
  /\ UNCHANGED <<enable, windowEnable, mode, ly, dots, screen, lycFlag, lycKnown, window>>

SetWY(v) ==
  /\ wy' = v /\ irq' = {}
  /\ FromNextLine
  /\ UNCHANGED <<enable, windowEnable, mode, ly, dots, screen, compare, wxVisible,
                 wyTrigger, windowLine>>

SetWX ==
  /\ wxVisible' = ~wxVisible /\ irq' = {}
  /\ FromNextLine
  /\ UNCHANGED <<enable, windowEnable, mode, ly, dots, screen, compare, wy,
                 wyTrigger, windowLine>>

-----------------------------------------------------------------------------
Dot ==
  \/ HBlankDot \/ HBlankToScan \/ EnterVBlank
  \/ VBlankDot \/ VBlankLine \/ VBlankToScan
  \/ OamDot
  \/ \E k \in 0..Burst : TransferDot(k) \/ EndTransfer(k)

Game ==
  \/ SwitchLcd \/ SetControl \/ SetWX
  \/ \E v \in LycValues : SetLYC(v)
  \/ \E v \in WyValues : SetWY(v)

Next == Dot \/ Game

(* Sync is called by every instruction, so dots never stop while the        *)
(* emulation runs.                                                          *)
Spec == Init /\ [][Next]_vars /\ WF_vars(Dot)

-----------------------------------------------------------------------------
(* Properties                                                               *)

(* Every variable keeps its type; the line counter of the window is a byte. *)
TypeOK ==
  /\ enable \in BOOLEAN /\ windowEnable \in BOOLEAN
  /\ mode \in {HBlank, VBlank, OamScan, Transfer}
  /\ ly \in Nat /\ dots \in Nat
  /\ row \in Nat /\ col \in Nat /\ x \in Nat /\ waiting \in Nat
  /\ lyc \in Nat /\ lycFlag \in BOOLEAN /\ lycKnown \in Nat
  /\ wy \in Nat /\ wxVisible \in BOOLEAN
  /\ wyTrigger \in BOOLEAN /\ windowLine \in 0..255
  /\ since \in [line : Nat, row : 0..255]
  /\ irq \subseteq {"vblank", "stat"}

(* The pixel index, the line and the mode agree at every dot: the frame     *)
(* buffer is never overrun, each line is written completely and before the  *)
(* dot at which mode_hblank tests for the end of the line, and the frame    *)
(* given to ShowFrame holds all its lines.                                  *)
LineInv ==
  enable =>
    \/ /\ mode = OamScan
       /\ ly < Height /\ dots < OamDots
       /\ row = ly /\ col = 0
    \/ /\ mode = Transfer
       /\ ly < Height /\ OamDots <= dots /\ dots < OamDots + MaxTransfer
       /\ row = ly /\ x < Width /\ waiting <= x /\ col = x - waiting
    \/ /\ mode = HBlank
       /\ ly < Height /\ OamDots < dots /\ dots < LineDots
       /\ row = ly + 1 /\ col = 0 /\ waiting = 0
    \/ /\ mode = VBlank
       /\ Height <= ly /\ ly < Lines /\ dots < LineDots
       /\ row = 0 /\ col = 0

(* The coincidence flag of STAT speaks of the line now in LY, and of the    *)
(* value LYC had when that line began (the code does not update it on a     *)
(* write of LYC, nor when the LCD is switched on).                          *)
LycFlagCurrent == lycFlag = (ly = lycKnown)

(* The row of the window that a visible line shows follows from LY, WY and  *)
(* when the game last touched WY, WX or LCDC: with the window on, a row is  *)
(* counted for each line from WY on that began since then, and 255 stands   *)
(* before row 0.  Left alone for a frame, line LY shows row LY - WY; with   *)
(* WY = 0 row LY - 1, as line 0 is never counted (the reset comes after     *)
(* checkWyTrigger, and EnableLcd begins line 0 without it).                 *)
FirstLine == CHOOSE l \in {1, wy, since.line} : \A n \in {1, wy, since.line} : n <= l

Counted ==
  IF windowEnable /\ wxVisible /\ wy < Height - 1 /\ FirstLine <= ly
  THEN ly - FirstLine + 1 ELSE 0

WindowRowFollowsLines ==
  enable /\ mode # VBlank => windowLine = (since.row + Counted) % 256

(* While the LCD stays on, VBLANK is requested again and again.             *)
FramesKeepComing == <>[]enable => []<>("vblank" \in irq)
=============================================================================
