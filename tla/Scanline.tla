-------------------------------- MODULE Scanline --------------------------------
(* What the scanline machine of the PPU and its pixel pipeline have in       *)
(* common: the width of the screen, the column the pipeline has reached      *)
(* (PixelPipeline::GetX) and the LCDC bit both read.                         *)
CONSTANT Width           \* 160

VARIABLES windowEnable,  \* LCDC bit 5
          x              \* PixelPipeline::m_x
=============================================================================
