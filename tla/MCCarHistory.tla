---------------------------- MODULE MCCarHistory ----------------------------
(* The drivers' hands on the pads of MCCar. *)
EXTENDS MCCar, CarHistory
=============================================================================
