-------------------------------- MODULE Session --------------------------------
(***************************************************************************)
(* The emulator in use, and in use again later: the thread that runs        *)
(* the game, the display thread it hands its frames to, and the command     *)
(* line that saves and loads in the middle of both.                         *)
(***************************************************************************)
EXTENDS Saves

CONSTANT MaxFrames

VARIABLES frame, pixels, window, present, holder, emu, display

Hand == INSTANCE FrameHandOff

handVars == <<frame, pixels, window, present, holder, emu, display>>
savesVars == <<process, game, cli, done, buffer, files, answer, given, mangled, commands>>

SessionInit == Init /\ Hand!Init

(* PPU::Tick shows the frame it completes before the other devices of the   *)
(* step are advanced.                                                       *)
GameThread ==
  \/ emu = "game" /\ BeginStep /\ UNCHANGED handVars
  \/ emu = "game" /\ AdvancePart /\ UNCHANGED handVars
  \/ AdvancePart /\ Advanced[advanced + 1] = "ppu" /\ Hand!ShowFrame
  \/ UNCHANGED savesVars /\ Hand!InShowFrame

SessionNext ==
  \/ GameThread
  \/ CommandLine /\ UNCHANGED handVars
  \/ UNCHANGED savesVars /\ Hand!DisplayThread
  \/ Exit /\ Hand!Restart

SessionSpec == SessionInit /\ [][SessionNext]_<<savesVars, handVars>>

LastFrameShown == Hand!LastFrameShown
=============================================================================
