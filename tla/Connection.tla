----------------------------- MODULE Connection -----------------------------
(***************************************************************************)
(* One websocket connection (create_ws_handler, src/websocket.rs): the     *)
(* receiver, ping and sender tasks that share h, ch, ping_cntr, is_closed  *)
(* and the queue tx2/rx2.  The atomics h and ch are always stored together *)
(* with no await between, so one variable stands for both.                 *)
(*                                                                         *)
(* main.rs runs the current_thread runtime: a task runs from one await to  *)
(* the next without interleaving, which is one action here.  A task whose  *)
(* send waits for a permit is known by its place in the queue; the control *)
(* variables only tell apart what it does next.                            *)
(***************************************************************************)
EXTENDS EventLoop

CONSTANTS
  MaxMissed,   \* the 2 of `ping_cnt > 2`
  Client       \* bound: what the client on each connection may do

(* headers: first frames it may send, Malformed for one that is no header; *)
(* msgs: data frames after that; leaves: it may go away; ticks: its        *)
(* connection lasts for PING_INTERVAL and longer.                          *)
ASSUME ConnAssumption ==
  /\ MaxMissed \in Nat
  /\ Client \in [Conn -> [headers: SUBSET (Header \cup {Malformed}), msgs: Nat,
                          leaves: BOOLEAN, ticks: BOOLEAN]]

VARIABLES
  rpc,         \* rpc[c]: where the receiver task is suspended
  ppc,         \* ppc[c]: where the ping task is suspended
  spc,         \* spc[c]: where the sender task is suspended
  h,           \* h[c]: the atomics h and ch
  is_closed,   \* is_closed[c]
  ping_cntr,   \* ping_cntr[c]
  net,         \* net[c]: the peer can still be read from and written to
  sent,        \* sent[c]: data frames read from c so far
  writing,     \* writing[c]: the frame in ws_tx.send(msg).await
  received,    \* history variable: data frames written to c's socket
  late         \* history variable: c's header came after its sender task ended

connVars == <<rpc, ppc, spc, h, is_closed, ping_cntr, net, sent, writing, received, late>>

ConnInit ==
  /\ rpc = [c \in Conn |-> "first"]
  /\ ppc = [c \in Conn |-> "start"]
  /\ spc = [c \in Conn |-> "recv"]
  /\ h = [c \in Conn |-> NoHash]
  /\ is_closed = [c \in Conn |-> FALSE]
  /\ ping_cntr = [c \in Conn |-> 0]
  /\ net = [c \in Conn |-> TRUE]
  /\ sent = [c \in Conn |-> 0]
  /\ writing = [c \in Conn |-> NoMsg]
  /\ received = [c \in Conn |-> <<>>]
  /\ late = [c \in Conn |-> FALSE]

(* External: the connection to the peer breaks (reset, or a close frame    *)
(* after which nothing more can be exchanged).                             *)
PeerLost(c) ==
  /\ Client[c].leaves
  /\ net[c]
  /\ net' = [net EXCEPT ![c] = FALSE]
  /\ UNCHANGED <<chanVars, loopVars, now, rpc, ppc, spc, h, is_closed, ping_cntr, sent, writing, received, late>>

(* tx.send(event).await of connection c has not got its permit yet.        *)
EventBlocked(c, types) ==
  \E i \in TASK_BUF + 1 .. Len(events) : events[i].conn = c /\ events[i].type \in types

Enqueue(type, c, hash, n) ==
  events' = Append(events, [type |-> type, conn |-> c, h |-> hash, n |-> n])

-----------------------------------------------------------------------------
(* The receiver task                                                       *)

(* First frame not text, not a header, not ASCII, or with an empty field.  *)
RxFirstInvalid(c) ==
  /\ Malformed \in Client[c].headers
  /\ rpc[c] = "first"
  /\ net[c]
  /\ is_closed' = [is_closed EXCEPT ![c] = TRUE]
  /\ rpc' = [rpc EXCEPT ![c] = "done"]
  /\ UNCHANGED <<chanVars, loopVars, now, ppc, spc, h, ping_cntr, net, sent, writing, received, late>>

(* The header is good but verify_auth refuses it: h and ch stay stored.    *)
RxFirstRefused(c, hdr) ==
  /\ hdr \in Client[c].headers
  /\ rpc[c] = "first"
  /\ net[c]
  /\ ~verify_auth(hdr)
  /\ h' = [h EXCEPT ![c] = HashHeader(hdr)]
  /\ is_closed' = [is_closed EXCEPT ![c] = TRUE]
  /\ rpc' = [rpc EXCEPT ![c] = "done"]
  /\ UNCHANGED <<chanVars, loopVars, now, ppc, spc, ping_cntr, net, sent, writing, received, late>>

RxFirstHeader(c, hdr) ==
  /\ hdr \in Client[c].headers
  /\ rpc[c] = "first"
  /\ net[c]
  /\ verify_auth(hdr)
  /\ h' = [h EXCEPT ![c] = HashHeader(hdr)]
  /\ Enqueue("Init", c, HashHeader(hdr), 0)
  /\ err' = [err EXCEPT ![c] = "queued"]
  /\ late' = [late EXCEPT ![c] = (spc[c] = "done")]
  /\ rpc' = [rpc EXCEPT ![c] = "awaitErr"]
  /\ UNCHANGED <<tx2, rx2, loopVars, now, ppc, spc, is_closed, ping_cntr, net, sent, writing, received>>

(* The stream ends before a first frame: the task goes on to await err_rx  *)
(* while it still owns err_tx.                                             *)
RxFirstEnd(c) ==
  /\ rpc[c] = "first"
  /\ ~net[c]
  /\ rpc' = [rpc EXCEPT ![c] = "awaitErr"]
  /\ UNCHANGED <<chanVars, loopVars, now, ppc, spc, h, is_closed, ping_cntr, net, sent, writing, received, late>>

RxConfirmed(c) ==
  /\ rpc[c] = "awaitErr"
  /\ err[c] = "confirmed"
  /\ rpc' = [rpc EXCEPT ![c] = "loop"]
  /\ UNCHANGED <<chanVars, loopVars, now, ppc, spc, h, is_closed, ping_cntr, net, sent, writing, received, late>>

RxRejectedKeepsHash(c) ==
  /\ rpc[c] = "awaitErr"
  /\ err[c] = "dropped"
  /\ is_closed' = [is_closed EXCEPT ![c] = TRUE]
  /\ tx2' = SendTo(c, Frame("rx", "close", NoMsg))
  /\ rpc' = [rpc EXCEPT ![c] = "done"]
  /\ UNCHANGED <<events, rx2, err, loopVars, now, ppc, spc, h, ping_cntr, net, sent, writing, received, late>>

(* err_tx was dropped: a duplicate.  h and ch are reset, a close frame is  *)
(* queued for the client.                                                  *)
RxRejected(c) ==
  /\ rpc[c] = "awaitErr"
  /\ err[c] = "dropped"
  /\ is_closed' = [is_closed EXCEPT ![c] = TRUE]
  /\ h' = [h EXCEPT ![c] = NoHash]
  /\ tx2' = SendTo(c, Frame("rx", "close", NoMsg))
  /\ rpc' = [rpc EXCEPT ![c] = "done"]
  /\ UNCHANGED <<events, rx2, err, loopVars, now, ppc, spc, ping_cntr, net, sent, writing, received, late>>

(* Awaiting ws_rx.next() in the frame loop: the last Msg has been sent.    *)
Reading(c) == rpc[c] = "loop" /\ ~EventBlocked(c, {"Msg"})

RxLeaveSilently(c) ==
  /\ is_closed' = [is_closed EXCEPT ![c] = TRUE]
  /\ rpc' = [rpc EXCEPT ![c] = "done"]
  /\ UNCHANGED <<events, tx2, rx2, err, loopVars, now, ppc, spc, h, ping_cntr, sent, writing, received, late>>

RxLeaveForgetsHash(c) ==
  /\ is_closed' = [is_closed EXCEPT ![c] = TRUE]
  /\ h' = [h EXCEPT ![c] = NoHash]
  /\ tx2' = SendTo(c, Frame("rx", "none", NoMsg))
  /\ rpc' = [rpc EXCEPT ![c] = "done"]
  /\ UNCHANGED <<events, rx2, err, loopVars, now, ppc, spc, ping_cntr, sent, writing, received, late>>

RxLeaveLogsOff(c) ==
  /\ is_closed' = [is_closed EXCEPT ![c] = TRUE]
  /\ tx2' = SendTo(c, Frame("rx", "none", NoMsg))
  /\ IF h[c] = NoHash THEN UNCHANGED events ELSE Enqueue("Logoff", c, h[c], 0)
  /\ rpc' = [rpc EXCEPT ![c] = "done"]
  /\ UNCHANGED <<rx2, err, loopVars, now, ppc, spc, h, ping_cntr, sent, writing, received, late>>

(* Leaving the frame loop: is_closed, then None to the sender task.        *)
RxLeave(c) ==
  /\ is_closed' = [is_closed EXCEPT ![c] = TRUE]
  /\ tx2' = SendTo(c, Frame("rx", "none", NoMsg))
  /\ rpc' = [rpc EXCEPT ![c] = "done"]
  /\ UNCHANGED <<events, rx2, err, loopVars, now, ppc, spc, h, ping_cntr, sent, writing, received, late>>

RxStreamEnd(c) ==
  /\ Reading(c)
  /\ ~net[c]
  /\ RxLeave(c)
  /\ UNCHANGED net

RxCloseFrame(c) ==
  /\ Client[c].leaves
  /\ Reading(c)
  /\ net[c]
  /\ RxLeave(c)
  /\ net' = [net EXCEPT ![c] = FALSE]

(* Any frame after the connection was closed by another task.              *)
RxFrameWhenClosed(c) ==
  /\ Reading(c)
  /\ net[c]
  /\ is_closed[c] \/ h[c] = NoHash
  /\ RxLeave(c)
  /\ UNCHANGED net

RxPong(c) ==
  /\ Reading(c)
  /\ net[c]
  /\ ~is_closed[c] /\ h[c] # NoHash
  /\ ping_cntr' = [ping_cntr EXCEPT ![c] = 0]
  /\ UNCHANGED <<chanVars, loopVars, now, rpc, ppc, spc, h, is_closed, net, sent, writing, received, late>>

(* Every other frame is published.                                         *)
RxData(c) ==
  /\ Reading(c)
  /\ net[c]
  /\ ~is_closed[c] /\ h[c] # NoHash
  /\ sent[c] < Client[c].msgs
  /\ sent' = [sent EXCEPT ![c] = @ + 1]
  /\ ping_cntr' = [ping_cntr EXCEPT ![c] = 0]
  /\ Enqueue("Msg", c, h[c], sent[c] + 1)
  /\ UNCHANGED <<tx2, rx2, err, loopVars, now, rpc, ppc, spc, h, is_closed, net, writing, received, late>>

-----------------------------------------------------------------------------
(* The ping task                                                           *)

(* The first tick completes at once; then is_closed is checked.  A ping    *)
(* task that never sees its second tick changes nothing: ticks bounds it.  *)
PingStart(c) ==
  /\ Client[c].ticks
  /\ ppc[c] = "start"
  /\ ppc' = [ppc EXCEPT ![c] = IF is_closed[c] THEN "done" ELSE "tick"]
  /\ UNCHANGED <<chanVars, loopVars, now, rpc, spc, h, is_closed, ping_cntr, net, sent, writing, received, late>>

PingTick(c) ==
  /\ ppc[c] = "tick"
  /\ tx2' = SendTo(c, Frame("ping", "ping", NoMsg))
  /\ ppc' = [ppc EXCEPT ![c] = IF rx2[c] THEN "sending" ELSE "done"]
  /\ UNCHANGED <<events, rx2, err, loopVars, now, rpc, spc, h, is_closed, ping_cntr, net, sent, writing, received, late>>

PingSentUncounted(c) ==
  /\ ppc[c] = "sending"
  /\ rx2[c]
  /\ ~Blocked(tx2[c], WS_BUF, "ping")
  /\ IF ping_cntr[c] > MaxMissed
     THEN /\ is_closed' = [is_closed EXCEPT ![c] = TRUE]
          /\ tx2' = SendTo(c, Frame("ping", "none", NoMsg))
          /\ ppc' = [ppc EXCEPT ![c] = "done"]
     ELSE /\ ppc' = [ppc EXCEPT ![c] = IF is_closed[c] THEN "done" ELSE "tick"]
          /\ UNCHANGED <<is_closed, tx2>>
  /\ UNCHANGED <<events, rx2, err, loopVars, now, rpc, spc, h, ping_cntr, net, sent, writing, received, late>>

(* The ping is queued: count it, and give the peer up after too many.      *)
PingSent(c) ==
  /\ ppc[c] = "sending"
  /\ rx2[c]
  /\ ~Blocked(tx2[c], WS_BUF, "ping")
  /\ ping_cntr' = [ping_cntr EXCEPT ![c] = @ + 1]
  /\ IF ping_cntr[c] > MaxMissed
     THEN /\ is_closed' = [is_closed EXCEPT ![c] = TRUE]
          /\ tx2' = SendTo(c, Frame("ping", "none", NoMsg))
          /\ ppc' = [ppc EXCEPT ![c] = "done"]
     ELSE /\ ppc' = [ppc EXCEPT ![c] = IF is_closed[c] THEN "done" ELSE "tick"]
          /\ UNCHANGED <<is_closed, tx2>>
  /\ UNCHANGED <<events, rx2, err, loopVars, now, rpc, spc, h, net, sent, writing, received, late>>

(* The receiving half is gone: the send fails.                             *)
PingStop(c) ==
  /\ ppc[c] = "sending"
  /\ ~rx2[c]
  /\ ppc' = [ppc EXCEPT ![c] = "done"]
  /\ UNCHANGED <<chanVars, loopVars, now, rpc, spc, h, is_closed, ping_cntr, net, sent, writing, received, late>>

-----------------------------------------------------------------------------
(* The sender task                                                         *)

(* rx2.next(): None, or any frame once is_closed is set, ends the loop.    *)
TxNext(c) ==
  /\ spc[c] = "recv"
  /\ tx2[c] # <<>>
  /\ tx2' = [tx2 EXCEPT ![c] = Tail(@)]
  /\ IF Head(tx2[c]).kind = "none" \/ is_closed[c]
     THEN spc' = [spc EXCEPT ![c] = "closing"] /\ UNCHANGED writing
     ELSE /\ spc' = [spc EXCEPT ![c] = "write"]
          /\ writing' = [writing EXCEPT ![c] = Head(tx2[c]).msg]
  /\ UNCHANGED <<events, rx2, err, loopVars, now, rpc, ppc, h, is_closed, ping_cntr, net, sent, received, late>>

(* Every clone of tx2 has been dropped: by the other two tasks, by the     *)
(* channel table and by the Init event.                                    *)
TxDrained(c) ==
  /\ spc[c] = "recv"
  /\ tx2[c] = <<>>
  /\ rpc[c] = "done" /\ ppc[c] = "done"
  /\ ~Registered(c)
  /\ \A i \in DOMAIN events : ~(events[i].type = "Init" /\ events[i].conn = c)
  /\ spc' = [spc EXCEPT ![c] = "closing"]
  /\ UNCHANGED <<chanVars, loopVars, now, rpc, ppc, h, is_closed, ping_cntr, net, sent, writing, received, late>>

(* ws_tx.send(msg) resolves: the peer took the frame, or the socket broke. *)
TxWritten(c) ==
  /\ spc[c] = "write"
  /\ net[c]
  /\ spc' = [spc EXCEPT ![c] = "recv"]
  /\ writing' = [writing EXCEPT ![c] = NoMsg]
  /\ received' = [received EXCEPT ![c] = IF writing[c] = NoMsg THEN @ ELSE Append(@, writing[c])]
  /\ UNCHANGED <<chanVars, loopVars, now, rpc, ppc, h, is_closed, ping_cntr, net, sent, late>>

TxFailedStaysOpen(c) ==
  /\ spc[c] = "write"
  /\ ~net[c]
  /\ writing' = [writing EXCEPT ![c] = NoMsg]
  /\ spc' = [spc EXCEPT ![c] = "closing"]
  /\ UNCHANGED <<chanVars, loopVars, now, rpc, ppc, h, is_closed, ping_cntr, net, sent, received, late>>

TxFailed(c) ==
  /\ spc[c] = "write"
  /\ ~net[c]
  /\ is_closed' = [is_closed EXCEPT ![c] = TRUE]
  /\ writing' = [writing EXCEPT ![c] = NoMsg]
  /\ spc' = [spc EXCEPT ![c] = "closing"]
  /\ UNCHANGED <<chanVars, loopVars, now, rpc, ppc, h, ping_cntr, net, sent, received, late>>

(* The future ends and rx2 with it: what is queued is dropped, whoever is  *)
(* blocked on the queue gets an error.                                     *)
TxDrop(c) ==
  /\ spc' = [spc EXCEPT ![c] = "done"]
  /\ rx2' = [rx2 EXCEPT ![c] = FALSE]
  /\ tx2' = [tx2 EXCEPT ![c] = <<>>]

TxClosedUnchecked(c) ==
  /\ spc[c] = "closing"
  /\ Enqueue("Logoff", c, h[c], 0)
  /\ spc' = [spc EXCEPT ![c] = "logoff"]
  /\ UNCHANGED <<tx2, rx2, err, loopVars, now, rpc, ppc, h, is_closed, ping_cntr, net, sent, writing, received, late>>

(* The close frame is written, or could not be; then Logoff if this        *)
(* connection ever stored a hash.  rx2 is not read any more but is alive.  *)
TxClosed(c) ==
  /\ spc[c] = "closing"
  /\ IF h[c] # NoHash
     THEN /\ Enqueue("Logoff", c, h[c], 0)
          /\ spc' = [spc EXCEPT ![c] = "logoff"]
          /\ UNCHANGED <<tx2, rx2>>
     ELSE TxDrop(c) /\ UNCHANGED events
  /\ UNCHANGED <<err, loopVars, now, rpc, ppc, h, is_closed, ping_cntr, net, sent, writing, received, late>>

TxLoggedOff(c) ==
  /\ spc[c] = "logoff"
  /\ ~EventBlocked(c, {"Logoff"})
  /\ h' = [h EXCEPT ![c] = NoHash]
  /\ TxDrop(c)
  /\ UNCHANGED <<events, err, loopVars, now, rpc, ppc, is_closed, ping_cntr, net, sent, writing, received, late>>
=============================================================================
