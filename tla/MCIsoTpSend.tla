---------------------------- MODULE MCIsoTpSend ----------------------------
(* Small instances of IsoTpSend for TLC: with frames of 4 bytes a single   *)
(* frame carries 3 bytes, a first frame 2 and a consecutive frame 3, so 3, *)
(* 7, 9 and 12 bytes take 1, 3, 4 and 5 frames.                            *)
EXTENDS IsoTpSend
=============================================================================
