------------------------------ MODULE MCUpload ------------------------------
(* A flash of six sectors: the partition table, partition 0 and partition 1 *)
(* of two sectors (four pages) each, and a spare sector.                    *)
EXTENDS Upload, TLC

MCPartitions == 0 :> [first |-> 1, last |-> 2] @@ 1 :> [first |-> 3, last |-> 4]

\* 33 pages of 2 bytes wrap around a word of 64; 5 do not fit a slot.
MCHeaders ==
  {[magic |-> m, token |-> t, family |-> f, num_blocks |-> n] :
     m \in BOOLEAN, t \in BOOLEAN, f \in Families, n \in {0, 1, 3, 5, 33}}

\* Every address around the slot (mapped at 16..23), and one that wraps.
MCBlocks ==
  {[valid |-> TRUE, family |-> FAMILY, block_no |-> n, num_blocks |-> m, target |-> a] :
     n \in 0 .. 2, m \in {1, 3}, a \in 14 .. 26 \cup {0}}
  \cup {[valid |-> v, family |-> f, block_no |-> 0, num_blocks |-> 3, target |-> 16] :
     v \in BOOLEAN, f \in Families}
=============================================================================
