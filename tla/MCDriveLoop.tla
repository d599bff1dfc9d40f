---------------------------- MODULE MCDriveLoop -----------------------------
(* The drive loop on the settings of drive.h, with inputs at their edges. *)
EXTENDS Bridge

\* <<lt, rt>> in raw trigger counts: released; 2 % (still neutral, still
\* released enough to arm); 3 % (arming refused, the smallest output);
\* full forward; full reverse; both, reverse stronger.
MCTriggers == {<<0, 0>>, <<0, 26>>, <<0, 31>>, <<0, 1023>>, <<1023, 0>>, <<1023, 400>>}

MCButtons == {{}, {"A"}, {"B"}, {"A", "B"}, {"RB"}, {"LB", "RB"}, {"A", "LB", "RB"}}

MCInputs ==
  {[buttons |-> b, lt |-> t[1], rt |-> t[2], lx |-> 0] : b \in MCButtons, t \in MCTriggers}
  \cup {[buttons |-> {}, lt |-> 0, rt |-> 1023, lx |-> x] : x \in {-512, 300}}
=============================================================================
