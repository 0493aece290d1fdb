------------------------------- MODULE MCDevices -------------------------------
(* A DMA of two bytes (which a step of one or two T-states may end early or *)
(* overshoot), a transfer of five T-states; the game programs the DMA, the  *)
(* whole timer, or the serial port and DIV.                                 *)
EXTENDS Devices
SomeGroups == {{"dma"}, {"timer", "div"}, {"serial", "div"}}
=============================================================================
