-------------------------------- MODULE Dfu --------------------------------
(***************************************************************************)
(* Firmware update, src/dfu.c: the functions xInit, xWrite and xBoot that  *)
(* clients call over any interface, each within thingset_process_message   *)
(* and so under the lock of the shared buffer.  Zephyr's flash_img writes  *)
(* a block when its buffer is full; MCUboot takes what is in slot 1 when   *)
(* an upgrade was requested.  The clients are the environment: they send   *)
(* their image piece by piece and start over with xInit after an error.    *)
(***************************************************************************)
EXTENDS SdkCore

CONSTANTS
    Clients,        \* the clients that may update the node
    NChunks,        \* pieces of an image
    BLOCK,          \* pieces that fit the buffer of flash_img
    MaxDfuFaults    \* bound: faults of the flash and of the clients' links

ASSUME DfuAssumptions == NChunks \in Nat /\ BLOCK \in Nat /\ Clients # {}

\* Features: dfu; flash: erasing or writing the flash fails; resend: the answer to
\* an xWrite is lost and the client repeats it; flushfail: the last write fails;
\* rivals: a second client; power: the power fails at any time.

VARIABLE dfu
    \* init: dfu_initialized; buf: in the buffer of flash_img; slot: written to
    \* slot 1; reboot: reboot_work is scheduled; upgrade: what boots next (the
    \* slot when the upgrade was requested); next: what client c does next (0:
    \* xInit, n: piece n, NChunks + 1: xBoot, NChunks + 2: nothing); faults; cut: the
    \* node restarted between a client's last piece and its xBoot

Image(c)    == [n \in 1 .. NChunks |-> <<c, n>>]
NoUpgrade   == <<>>
Active      == IF On("rivals") THEN Clients ELSE {CHOOSE c \in Clients : TRUE}
MayFail(f)  == On(f) /\ dfu.faults < MaxDfuFaults
DfuFault(d) == [d EXCEPT !.faults = @ + 1]
Sends(c, n) == On("dfu") /\ c \in Active /\ dfu.next[c] = n /\ lock = Free
Fresh(d, c) == [d EXCEPT !.next[c] = 0]   \* the client got an error

-----------------------------------------------------------------------------

\* Mutant: flash_img goes on where it was.
ImgInit_Continues(d) == [d EXCEPT !.init = TRUE]
\* The slot is erased and flash_img starts at its beginning.
ImgInit(d) == [d EXCEPT !.init = TRUE, !.buf = <<>>, !.slot = <<>>]

\* thingset_dfu_init; if erasing fails the state is left as it is.
thingset_dfu_init(c) ==
    /\ Sends(c, 0)
    /\ \/ dfu' = ImgInit([dfu EXCEPT !.next[c] = 1])
       \/ MayFail("flash") /\ dfu' = Fresh(DfuFault(dfu), c)
    /\ UNCHANGED <<env, coreVars>>

\* flash_img_buffered_write: a block is written when it is full, or to flush.
Buffered(d, data, flush) ==
    LET b == d.buf \o data IN
    IF Len(b) >= BLOCK \/ flush THEN [d EXCEPT !.slot = @ \o b, !.buf = <<>>]
                                ELSE [d EXCEPT !.buf = b]

WriteAllowed(d) == d.init

\* thingset_dfu_write: -EBUSY, an error of the flash, or done.
thingset_dfu_write(c) ==
    /\ \E n \in 1 .. NChunks :
         /\ Sends(c, n)
         /\ \/ /\ ~WriteAllowed(dfu) /\ dfu' = Fresh(dfu, c)
            \/ /\ WriteAllowed(dfu)
               /\ dfu' = Buffered([dfu EXCEPT !.next[c] = n + 1], <<<<c, n>>>>, FALSE)
            \/ /\ WriteAllowed(dfu) /\ MayFail("resend")
               /\ dfu' = Buffered(DfuFault(dfu), <<<<c, n>>>>, FALSE)
            \/ /\ WriteAllowed(dfu) /\ MayFail("flash") /\ Len(dfu.buf) + 1 >= BLOCK
               /\ dfu' = Fresh(DfuFault(dfu), c)
    /\ UNCHANGED <<env, coreVars>>

\* What is in the flash after thingset_dfu_boot has flushed the buffer: it ignores
\* the result and does not look at dfu_initialized.
Flushed == {IF dfu.init THEN Buffered(dfu, <<>>, TRUE) ELSE dfu}
           \cup (IF MayFail("flushfail") THEN {DfuFault([dfu EXCEPT !.buf = <<>>])} ELSE {})

\* thingset_dfu_boot: the upgrade is requested, which may fail; the reboot follows
\* a second later.
thingset_dfu_boot(c) ==
    /\ Sends(c, NChunks + 1)
    /\ \E d \in Flushed :
         \/ dfu' = [d EXCEPT !.next[c] = NChunks + 2, !.upgrade = d.slot, !.reboot = TRUE]
         \/ MayFail("flash") /\ dfu' = Fresh(DfuFault(d), c)
    /\ UNCHANGED <<env, coreVars>>

\* The node restarts: flash_img's buffer and dfu_initialized are lost.
DfuReboot ==
    dfu' = [dfu EXCEPT !.init = FALSE, !.buf = <<>>, !.reboot = FALSE,
                       !.cut = @ \/ \E c \in Active : dfu.next[c] = NChunks + 1]

DfuInit == dfu = [init |-> FALSE, buf |-> <<>>, slot |-> <<>>, reboot |-> FALSE,
                  upgrade |-> NoUpgrade, next |-> [c \in Clients |-> 0], faults |-> 0,
                  cut |-> FALSE]

DfuNext == \E c \in Clients : \/ thingset_dfu_init(c) \/ thingset_dfu_write(c)
                              \/ thingset_dfu_boot(c)

-----------------------------------------------------------------------------
(* Properties *)

\* An upgrade is requested for one client's whole image, whatever calls failed
\* and restarted before and whenever the node restarted (unless just before
\* xBoot); with one client that does not repeat a piece, and a last write that
\* succeeds (see the README for the others).
UpgradeWhole ==
    ~On("rivals") /\ ~On("resend") /\ ~On("flushfail") /\ ~dfu.cut
        => dfu.upgrade = NoUpgrade \/ \E c \in Clients : dfu.upgrade = Image(c)
=============================================================================
