------------------------------- MODULE MCCar --------------------------------
(* A pad that arms, goes to full power, stops, drives and reverses. *)
EXTENDS Car

MCReports ==
  {Idle,
   [Idle EXCEPT !.buttons = {"A"}],
   [Idle EXCEPT !.buttons = {"B"}],
   [Idle EXCEPT !.buttons = {"LB", "RB"}],
   [Idle EXCEPT !.rt = 1023],
   [Idle EXCEPT !.lt = 1023],
   [Idle EXCEPT !.buttons = {"A"}, !.lx = 300]}
=============================================================================
