---------------------------- MODULE MCIsoTpLink ----------------------------
(* Small instances of IsoTpLink for TLC, with frames of 4 bytes as in      *)
(* MCIsoTpSend.                                                            *)
EXTENDS IsoTpLink
=============================================================================
