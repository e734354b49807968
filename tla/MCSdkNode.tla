----------------------------- MODULE MCSdkNode -----------------------------
(* Small instances of SdkNode for TLC. *)
EXTENDS SdkNode

\* Serial alone: a noisy line with and without enforced checksums, requests that
\* do not fit, a host that does not wait or hardly waits, a gateway, restarts.
SerialEnvs == {{"serial", "crc", "enforce", "noise", "stream"}, {"serial", "crc", "noise"},
               {"serial", "crc", "enforce", "long", "stream"}, {"serial", "crc", "prompt"},
               {"serial", "crc", "stream"}, {"serial", "gateway", "stream"},
               {"serial", "crc", "enforce", "dfu"}}

\* Several interfaces share buffer and work queue.
SharedEnvs == {{"serial", "ws", "reports"}, {"serial", "can", "reports"}, {"bt", "ws"},
               {"serial", "bt", "stream"}, {"ws", "reports", "stall"}, {"ws", "tight"}, {"serial", "lora"}}

\* A phone that waits or does not, whose connection is lost or the node restarts.
BtEnvs == {{"bt", "drop", "stream"}, {"bt", "reports", "drop"}, {"bt", "gateway", "stream"},
           {"bt", "dfu"}}

\* Joining with power failures, and with a firmware update that restarts the node.
LoraEnvs == {{"lora", "power"}, {"lora", "dfu"}}

\* Updates: faults of the flash and the power, and what the protocol does not cover.
DfuEnvs == {{"dfu", "flash", "power"}, {"dfu", "resend"}, {"dfu", "flushfail"}, {"dfu", "rivals"}}

MCEnvs == SerialEnvs \cup SharedEnvs \cup BtEnvs \cup LoraEnvs \cup DfuEnvs

\* A phone whose requests need escapes.
HardEnvs == {{"bt", "hard"}}

MCSerLines == <<2, 1, 2>>
MCSerLong  == <<4, 2>>
MCBtMsgs   == <<<<"a", "b", "c">>, <<"x", "END", "y">>, <<"p", "q", "r", "s", "t">>>>
MCBtHard   == <<<<"a", "b", "END">>>>
=============================================================================
