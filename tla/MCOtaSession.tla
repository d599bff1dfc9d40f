---------------------------- MODULE MCOtaSession ----------------------------
(* The flash of MCUpload; an image of three blocks, so two chunks, the last *)
(* of them padded.                                                          *)
EXTENDS OtaSession, TLC

MCPartitions == 0 :> [first |-> 1, last |-> 2] @@ 1 :> [first |-> 3, last |-> 4]
=============================================================================
