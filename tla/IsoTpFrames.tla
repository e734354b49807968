---------------------------- MODULE IsoTpFrames ----------------------------
(***************************************************************************)
(* The frames both halves of isotp_fast.c exchange: how a message is cut   *)
(* into a first frame and consecutive frames, and the small arithmetic the *)
(* contexts do on them.  A frame's payload is named by the message, the    *)
(* offset and the number of bytes it carries.                              *)
(***************************************************************************)
EXTENDS Integers

CONSTANTS CAN_MAX_DLEN,  \* payload bytes of a CAN frame
          SN_MOD,        \* 2^(width of sn): 16 in the code
          BYTE           \* 2^(width of bs, wft and backlog): 256 in the code

ASSUME FrameAssumptions ==
    /\ CAN_MAX_DLEN \in Nat /\ CAN_MAX_DLEN > 2
    /\ SN_MOD \in Nat /\ SN_MOD > 1
    /\ BYTE \in Nat /\ BYTE > 1

Bytes == 0 .. BYTE - 1

Min2(a, b) == IF a < b THEN a ELSE b

\* Mutants: arithmetic without the wrap-around, and with a wrong one.
Dec8_NoWrap(x) == x - 1
IncSn_WrapsToOne(x) == IF x = SN_MOD - 1 THEN 1 ELSE x + 1

\* uint8_t and 4-bit arithmetic, with its wrap-around.
Inc8(x)  == IF x = BYTE - 1 THEN 0 ELSE x + 1
Dec8(x)  == IF x = 0 THEN BYTE - 1 ELSE x - 1
IncSn(x) == IF x = SN_MOD - 1 THEN 0 ELSE x + 1

SfMax == CAN_MAX_DLEN - 1          \* payload of a single frame
FfLen == CAN_MAX_DLEN - 2          \* payload of a first frame
CfLen == CAN_MAX_DLEN - 1          \* payload of a consecutive frame

\* The i-th frame of message m of length l > SfMax, and how many it has: the
\* segmentation that ISO 15765-2 prescribes, stated without the sender.
SegOff(i)    == IF i = 1 THEN 0 ELSE FfLen + (i - 2) * CfLen
SegLen(l, i) == Min2(l - SegOff(i), IF i = 1 THEN FfLen ELSE CfLen)
NumSegs(l)   == 1 + (l - FfLen + CfLen - 1) \div CfLen
Segment(m, l, i) == [type |-> IF i = 1 THEN "FF" ELSE "CF",
                     sn   |-> IF i = 1 THEN 0 ELSE (i - 1) % SN_MOD,
                     msg  |-> m, off |-> SegOff(i), n |-> SegLen(l, i),
                     len  |-> IF i = 1 THEN l ELSE 0]
=============================================================================
