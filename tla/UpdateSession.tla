--------------------------- MODULE UpdateSession ----------------------------
(***************************************************************************)
(* What an over-the-air update (firmware/src/ota.c) looks like to the rest *)
(* of the car and to the flash, whatever the PC and the network do.        *)
(*                                                                         *)
(* A PC connects; a good header stops the car; when the car has settled,   *)
(* the image is written to the free slot; with all of it written, and only *)
(* then, the car reboots into it.  Everything else frees the car again.    *)
(* Module Upload, the server itself, implements this specification; module *)
(* Car uses it.                                                            *)
(***************************************************************************)

VARIABLES
  phase,      \* where the update is; "off": the chip resets
  image       \* what the update has written to the free slot

vars == <<phase, image>>

TypeOK ==
  /\ phase \in {"idle", "connected", "stopping", "writing", "rebooting", "off"}
  /\ image \in {"none", "part", "whole"}

Init == phase = "idle" /\ image = "none"

\* ota_active(): the car has no input.
Active == phase \in {"stopping", "writing", "rebooting", "off"}

-----------------------------------------------------------------------------
\* A PC connects.  One upload at a time.
Accept == phase = "idle" /\ phase' = "connected" /\ UNCHANGED image

\* The PC is refused, goes away or stalls before the car was stopped.
Refuse == phase = "connected" /\ phase' = "idle" /\ UNCHANGED image

\* A good header: the car stops.
StopCar == phase = "connected" /\ phase' = "stopping" /\ image' = "none"

\* The car has come to rest.
Settle == phase = "stopping" /\ phase' = "writing" /\ UNCHANGED image

\* A page of the image is written.
Write == phase = "writing" /\ image # "whole" /\ image' \in {"part", "whole"} /\ UNCHANGED phase

\* All pages are written: the PC gets its DONE.
Finish == phase = "writing" /\ image = "whole" /\ phase' = "rebooting" /\ UNCHANGED image

\* The update fails, stalls or loses the PC: the car is free again.
Cancel ==
  /\ phase \in {"stopping", "writing"} /\ image # "whole"
  /\ phase' = "idle" /\ image' = "none"

\* The chip resets into the new image.
Reboot == phase = "rebooting" /\ phase' = "off" /\ UNCHANGED image

\* The chip starts: after the reboot, or after a power cut or the watchdog
\* at any point.
Restart == phase' = "idle" /\ image' = "none"

Next ==
  \/ Accept \/ Refuse \/ StopCar \/ Settle \/ Write \/ Finish \/ Cancel \/ Reboot \/ Restart

Spec == Init /\ [][Next]_vars
=============================================================================
