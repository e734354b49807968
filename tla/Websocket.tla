----------------------------- MODULE Websocket -----------------------------
(***************************************************************************)
(* The WebSocket interface, src/websocket.c: the thread that connects to   *)
(* the server, answers its requests and connects again, and the reporting  *)
(* work that uses the same socket.  Sockets, resolver and server are the   *)
(* environment; each of their calls may fail.                              *)
(***************************************************************************)
EXTENDS SdkCore

CONSTANTS
    MaxNetFaults,   \* bound: calls that fail and connections that are lost
    MaxWsMsgs,      \* bound: requests of the server
    HEAP            \* address lists the heap has room for
                    \* (one more than MaxNetFaults: no attempt fails for lack of it)

\* Features: ws, reports; stall: a send may never return (the server stops
\* reading, and websocket_send_msg is called with SYS_FOREVER_MS); tight: the heap
\* has room for one address list.

VARIABLE ws     \* [pc, sock, websock: the two variables, -1 or the socket's number;
                \*  open: sockets that are open; heap; faults, msgs, up: environment]

WsThread == "ws"
Sockets  == 1 .. 2                  \* descriptors the node has
FreeFd   == Sockets \ ws.open
NewFd    == CHOOSE f \in FreeFd : \A g \in FreeFd : f <= g
Heap     == IF On("tight") THEN 1 ELSE HEAP

\* The thread is at pc; a call returns an error, or the connection is lost.
At(pc)    == On("ws") /\ ws.pc = pc
Fails     == ws.faults < MaxNetFaults
Failed(w) == [w EXCEPT !.faults = @ + 1]
WsStep    == UNCHANGED <<env, lock, buf, wq, timers, cur>>

-----------------------------------------------------------------------------
(* connect_server *)

\* zsock_getaddrinfo; nobody frees the list it returns.
Resolve ==
    /\ At("resolve") /\ WsStep
    /\ \/ ws.heap > 0 /\ ws' = [ws EXCEPT !.heap = @ - 1, !.pc = "socket"]
       \/ Fails /\ ws' = [Failed(ws) EXCEPT !.pc = "sleep"]
       \/ ws.heap = 0 /\ ws' = [ws EXCEPT !.pc = "sleep"]

OpenSocket ==
    /\ At("socket") /\ WsStep
    /\ \/ /\ FreeFd # {}
          /\ ws' = [ws EXCEPT !.sock = NewFd, !.open = @ \cup {NewFd}, !.pc = "connect"]
       \/ Fails /\ ws' = [Failed(ws) EXCEPT !.sock = -1, !.pc = "sleep"]

\* label fail: also reached when the options of a TLS socket cannot be set.
ConnectFail(w) == [w EXCEPT !.open = @ \ {w.sock}, !.sock = -1, !.pc = "sleep"]

Connect ==
    /\ At("connect") /\ WsStep
    /\ \/ ws' = [ws EXCEPT !.pc = "upgrade"]
       \/ Fails /\ ws' = ConnectFail(Failed(ws))

-----------------------------------------------------------------------------
(* websocket_thread *)

Sleep == At("sleep") /\ WsStep /\ ws' = [ws EXCEPT !.pc = "resolve"]

\* Mutant: the connection is kept although the upgrade failed.
UpgradeFail_Leaks(w) == [w EXCEPT !.websock = -1, !.pc = "sleep"]
UpgradeFail(w) == [w EXCEPT !.websock = -1, !.open = @ \ {w.sock}, !.pc = "sleep"]

\* websocket_connect, which opens a descriptor of its own.
Upgrade ==
    /\ At("upgrade") /\ WsStep
    /\ \/ /\ FreeFd # {}
          /\ ws' = [ws EXCEPT !.websock = NewFd, !.open = @ \cup {NewFd}, !.pc = "recv"]
       \/ Fails /\ ws' = UpgradeFail(Failed(ws))

\* websocket_disconnect closes both sockets; websock keeps its value.
WsClosed(w) == [w EXCEPT !.open = {}, !.pc = "resolve"]

\* recv_data returns a request, or -1 after the connection was lost.
Recv ==
    /\ At("recv") /\ WsStep
    /\ \/ ws.msgs < MaxWsMsgs /\ ws' = [ws EXCEPT !.msgs = @ + 1, !.pc = "lock"]
       \/ Fails /\ ws' = WsClosed(Failed(ws))

\* thingset_process_message with the shared buffer.
WsFill ==
    /\ At("lock") /\ TakeAndFill(WsThread, <<"ws", <<ws.msgs>>>>)
    /\ ws' = [ws EXCEPT !.pc = "send"]
    /\ UNCHANGED <<env, wq, timers, cur>>

\* thingset_websocket_send to the server; its result is ignored.
WsSend ==
    /\ At("send") /\ Give
    /\ ws' = [ws EXCEPT !.pc = "recv"]
    /\ UNCHANGED <<env, buf, wq, timers, cur>>

\* ... which never returns.
WsStall ==
    /\ At("send") /\ On("stall")
    /\ ws' = [ws EXCEPT !.pc = "stalled"]
    /\ UNCHANGED <<env, lock, buf, wq, timers, cur>>

WsReportStall ==
    /\ Running("wsrep", "send") /\ On("stall")
    /\ cur' = [cur EXCEPT !.pc = "stalled"]
    /\ UNCHANGED <<env, lock, buf, wq, timers, ws>>

\* websocket_regular_report_handler looks at websock without any lock.
WsReport == /\ ReportBegin("wsrep", ws.websock >= 0) \/ Fill("wsrep") \/ ReportSend("wsrep")
            /\ UNCHANGED ws

WsInit == ws = [pc |-> "resolve", sock |-> -1, websock |-> -1, open |-> {}, heap |-> Heap,
                faults |-> 0, msgs |-> 0]

\* The node restarts: sockets and heap are new.
WsReboot == ws' = [ws EXCEPT !.pc = "resolve", !.sock = -1, !.websock = -1, !.open = {},
                             !.heap = Heap]

WsNext == Resolve \/ OpenSocket \/ Connect \/ Sleep \/ Upgrade \/ Recv \/ WsFill \/ WsSend

-----------------------------------------------------------------------------
(* Properties *)

\* A report is sent to a socket that is open.  Refuted: websock keeps the number of
\* a socket that the thread has closed.
ReportSocketOpen == Running("wsrep", "send") => ws.websock \in ws.open

\* Whichever calls failed and however often the connection was lost, the node is
\* connected again: every error path returns the descriptors, of which there are
\* only as many as one connection needs.  Not so when the heap is full: the address
\* lists are never freed (see the README).
WsReconnects ==
    On("ws") /\ ~On("tight") ~> ws.pc \in {"recv", "lock", "send", "stalled"}
=============================================================================
