----------------------------- MODULE FrameHandOff -----------------------------
(***************************************************************************)
(* How a frame gets from the PPU to the window.  ShowFrame copies it into   *)
(* the display's buffer under a mutex and announces it afterwards, outside  *)
(* the mutex; the display thread polls the announcement, draws the buffer   *)
(* under the mutex and takes the announcement back before it unlocks.       *)
(*                                                                          *)
(* A frame is a number and is copied and drawn in two halves.               *)
(***************************************************************************)
EXTENDS Integers

CONSTANT MaxFrames       \* bound: frames the game completes

VARIABLES
  frame,                 \* history: number of the latest frame
  pixels,                \* m_pixel_buffer
  window,                \* what the window shows
  present,               \* m_frame_present
  holder,                \* the thread that holds m_buffer_mutex
  emu,                   \* where the thread that called ShowFrame is
  display                \* where the display thread is

vars == <<frame, pixels, window, present, holder, emu, display>>

Init ==
  /\ frame = 0 /\ pixels = <<0, 0>> /\ window = <<0, 0>>
  /\ present = FALSE /\ holder = "nobody"
  /\ emu = "game" /\ display = "poll"

-----------------------------------------------------------------------------
(* The thread that runs the game                                            *)

ShowFrame ==
  /\ emu = "game" /\ frame < MaxFrames
  /\ frame' = frame + 1
  /\ emu' = "lock"
  /\ UNCHANGED <<pixels, window, present, holder, display>>

SetTop ==
  /\ emu = "lock" /\ holder = "nobody"
  /\ holder' = "emu" /\ emu' = "bottom"
  /\ pixels' = [pixels EXCEPT ![1] = frame]
  /\ UNCHANGED <<frame, window, present, display>>

SetBottom ==
  /\ emu = "bottom"
  /\ pixels' = [pixels EXCEPT ![2] = frame]
  /\ holder' = "nobody" /\ emu' = "announce"
  /\ UNCHANGED <<frame, window, present, display>>

FramePresent ==
  /\ emu = "announce"
  /\ present' = TRUE /\ emu' = "game"
  /\ UNCHANGED <<frame, pixels, window, holder, display>>

InShowFrame == SetTop \/ SetBottom \/ FramePresent

-----------------------------------------------------------------------------
(* The display thread: Loop and Render                                      *)

Poll ==
  /\ display = "poll" /\ present
  /\ display' = "lock"
  /\ UNCHANGED <<frame, pixels, window, present, holder, emu>>

DrawTop ==
  /\ display = "lock" /\ holder = "nobody"
  /\ holder' = "display" /\ display' = "bottom"
  /\ window' = [window EXCEPT ![1] = pixels[1]]
  /\ UNCHANGED <<frame, pixels, present, emu>>

Mut_DrawBottom ==        \* unlocks before it takes the announcement back
  \/ /\ display = "bottom" /\ holder = "display"
     /\ window' = [window EXCEPT ![2] = pixels[2]]
     /\ holder' = "nobody"
     /\ UNCHANGED <<frame, pixels, present, display, emu>>
  \/ /\ display = "bottom" /\ holder # "display"
     /\ present' = FALSE /\ display' = "poll"
     /\ UNCHANGED <<frame, pixels, window, holder, emu>>

(* ... and the store at the end of Render, with the destructor of the lock  *)
DrawBottom ==
  /\ display = "bottom"
  /\ window' = [window EXCEPT ![2] = pixels[2]]
  /\ present' = FALSE /\ holder' = "nobody" /\ display' = "poll"
  /\ UNCHANGED <<frame, pixels, emu>>

(* another process, with a window of its own                                *)
Restart ==
  /\ frame' = 0 /\ pixels' = <<0, 0>> /\ window' = <<0, 0>>
  /\ present' = FALSE /\ holder' = "nobody"
  /\ emu' = "game" /\ display' = "poll"

Drawing == DrawTop \/ DrawBottom

DisplayThread == Poll \/ Drawing

-----------------------------------------------------------------------------
(* When nothing is announced and no thread is in the hand-off, the window   *)
(* shows the latest frame; it never shows halves of two frames.             *)
LastFrameShown ==
  /\ display = "poll" => window[1] = window[2]
  /\ emu = "game" /\ display = "poll" /\ ~present => window = <<frame, frame>>
=============================================================================
