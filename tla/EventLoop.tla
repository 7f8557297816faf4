----------------------------- MODULE EventLoop ------------------------------
(***************************************************************************)
(* The websocket event loop (spawn_event_loop, src/websocket.rs): the one  *)
(* task that owns the channel tables.  It receives WsEvents from every     *)
(* connection over one bounded queue and sends frames to every connection  *)
(* over that connection's own bounded queue.                               *)
(*                                                                         *)
(* Both queues are tokio mpsc channels.  A send takes its place in the     *)
(* queue when it is first polled and waits there for a permit, first come  *)
(* first served; so a queue is one sequence whose first `capacity` items   *)
(* are in the buffer and whose later items belong to blocked senders.      *)
(*                                                                         *)
(* Every send of the loop is an await, hence a step of its own: the other  *)
(* tasks run between any two of them, but no other event is handled before *)
(* the current handler has finished.                                       *)
(***************************************************************************)
EXTENDS Naturals, Sequences, MlesHeader

CONSTANTS
  Conn,        \* websocket connections
  NoHash,      \* the value 0 of the atomics h and ch: not connected
  Limit,       \* --limit: history length of a channel
  TASK_BUF,    \* capacity of the event queue (16 in the code)
  WS_BUF,      \* capacity of a connection's queue (128 in the code)
  CLEANUP,     \* CHANNEL_CLEANUP_DAYS in ticks of the model's clock
  MaxTime      \* bound: the clock stops here

ASSUME LoopAssumption ==
  /\ NoHash \notin Header
  /\ Limit \in Nat
  /\ TASK_BUF \in Nat \ {0}
  /\ WS_BUF \in Nat \ {0}
  /\ CLEANUP \in Nat
  /\ MaxTime \in Nat

VARIABLES
  events,      \* the WsEvent queue, blocked senders included
  tx2,         \* tx2[c]: frames queued for connection c, blocked senders included
  rx2,         \* rx2[c]: the receiving half of c's queue is alive
  err,         \* err[c]: the oneshot err_tx/err_rx of connection c
  ch_db,       \* channel -> (h -> connection whose tx2 was registered)
  msg_db,      \* channel -> ChannelInfo
  phase,       \* where the loop is suspended
  cur,         \* the event being handled
  replay,      \* history frames still to be sent by the Init handler
  targets,     \* connections still to be sent to by the Msg handler
  now,         \* SystemTime::now()
  log,         \* history variable: messages in the order the loop took them
  joined,      \* history variable: what a joining connection found
  active       \* history variable: when a channel's last message was settled

loopVars == <<ch_db, msg_db, phase, cur, replay, targets, log, joined, active>>
chanVars == <<events, tx2, rx2, err>>

(* A websocket frame a client sent, identified by its connection and its   *)
(* number on it; frame 0 is the header frame itself.                       *)
Message == [conn: Conn, n: Nat, h: Header]
NoMsg == [n |-> 0]

(* WsEvent.  The channel of an event is the channel of its header hash.    *)
Event == [type: {"Init", "Msg", "Logoff"}, conn: Conn, h: Header, n: Nat]
MsgOf(e) == [conn |-> e.conn, n |-> e.n, h |-> e.h]

(* What travels to a connection's sender task, and which task sent it.     *)
Frame(by, kind, msg) == [by |-> by, kind |-> kind, msg |-> msg]

-----------------------------------------------------------------------------
(* tokio::sync::mpsc, external.                                            *)

(* The send of task `who` into q has not got its permit yet.               *)
Blocked(q, capacity, who) == \E i \in capacity + 1 .. Len(q) : q[i].by = who

(* send(..) on c's queue: an error, ignored by every caller of the loop,   *)
(* once the receiver is dropped.                                           *)
SendTo(c, f) == [tx2 EXCEPT ![c] = IF rx2[c] THEN Append(@, f) ELSE @]

LoopBlocked == \E c \in Conn : Blocked(tx2[c], WS_BUF, "loop")

-----------------------------------------------------------------------------
(* HashMap insert and remove.                                              *)
Put(f, k, v) == [x \in DOMAIN f \cup {k} |-> IF x = k THEN v ELSE f[x]]
Del(f, k) == [x \in DOMAIN f \ {k} |-> f[x]]

(* ch_db.get(&ch), an absent channel having nobody in it.                  *)
UidDb(ch) == IF ch \in DOMAIN ch_db THEN ch_db[ch] ELSE <<>>
Registered(c) == \E ch \in DOMAIN ch_db : \E h \in DOMAIN ch_db[ch] : ch_db[ch][h] = c

add_message_unbounded(msg, queue) == Append(queue, msg)
add_message(msg, queue) ==
  Append(IF Len(queue) = Limit /\ queue # <<>> THEN Tail(queue) ELSE queue, msg)

(* The end of the Init and Msg handlers: the message joins the history and *)
(* the channel counts as active now.                                       *)
RememberStale(ch, msg) == [msg_db EXCEPT ![ch].messages = add_message(msg, @)]
Remember(ch, msg) ==
  [msg_db EXCEPT ![ch] = [messages |-> add_message(msg, @.messages),
                          last_activity |-> now]]

LoopInit ==
  /\ events = <<>>
  /\ tx2 = [c \in Conn |-> <<>>]
  /\ rx2 = [c \in Conn |-> TRUE]
  /\ err = [c \in Conn |-> "held"]
  /\ ch_db = <<>>
  /\ msg_db = <<>>
  /\ phase = "select"
  /\ cur = NoHash
  /\ replay = <<>>
  /\ targets = {}
  /\ now = 0
  /\ log = [ch \in Channels |-> <<>>]
  /\ joined = [c \in Conn |-> [h |-> NoHash, from |-> 0, at |-> 0]]
  /\ active = [ch \in Channels |-> 0]

(* The select! arm that takes the next event.                              *)
Take(type) ==
  /\ phase = "select"
  /\ events # <<>>
  /\ Head(events).type = type
  /\ events' = Tail(events)

-----------------------------------------------------------------------------
(* WsEvent::Init                                                           *)

(* A vacant (ch, h): register the connection, confirm over the oneshot and *)
(* start to replay the history.                                            *)
InitJoin ==
  /\ Take("Init")
  /\ LET e == Head(events)
         ch == e.h.channel
         info == IF ch \in DOMAIN msg_db THEN msg_db[ch]
                 ELSE [messages |-> <<>>, last_activity |-> now]
     IN  /\ e.h \notin DOMAIN UidDb(ch)
         /\ ch_db' = Put(ch_db, ch, Put(UidDb(ch), e.h, e.conn))
         /\ msg_db' = Put(msg_db, ch, info)
         /\ err' = [err EXCEPT ![e.conn] = "confirmed"]
         /\ phase' = "replay"
         /\ cur' = e
         /\ replay' = info.messages
         /\ joined' = [joined EXCEPT ![e.conn] =
                         [h |-> e.h, at |-> Len(log[ch]),
                          from |-> Len(log[ch]) - Len(info.messages)]]
         /\ log' = [log EXCEPT ![ch] = Append(@, MsgOf(e))]
  /\ UNCHANGED <<tx2, rx2, targets, now, active>>

ReplaySend ==
  /\ phase = "replay"
  /\ replay # <<>>
  /\ ~LoopBlocked
  /\ tx2' = SendTo(cur.conn, Frame("loop", "data", Head(replay)))
  /\ replay' = Tail(replay)
  /\ UNCHANGED <<events, rx2, err, ch_db, msg_db, phase, cur, targets, now, log, joined, active>>

InitDone ==
  /\ phase = "replay"
  /\ replay = <<>>
  /\ ~LoopBlocked
  /\ msg_db' = Remember(cur.h.channel, MsgOf(cur))
  /\ active' = [active EXCEPT ![cur.h.channel] = now]
  /\ phase' = "select"
  /\ cur' = NoHash
  /\ UNCHANGED <<chanVars, ch_db, replay, targets, now, log, joined>>

InitDuplicateUnanswered ==
  /\ Take("Init")
  /\ Head(events).h \in DOMAIN UidDb(Head(events).h.channel)
  /\ UNCHANGED <<tx2, rx2, err, loopVars, now>>

(* The same (ch, h) is registered already: err_tx is dropped.              *)
InitDuplicate ==
  /\ Take("Init")
  /\ LET e == Head(events)
     IN  /\ e.h \in DOMAIN UidDb(e.h.channel)
         /\ err' = [err EXCEPT ![e.conn] = "dropped"]
  /\ UNCHANGED <<tx2, rx2, loopVars, now>>

-----------------------------------------------------------------------------
(* WsEvent::Msg                                                            *)

MsgTargetsAnyChannel(e) ==
  {c \in Conn : \E ch \in DOMAIN ch_db : \E x \in DOMAIN ch_db[ch] \ {e.h} : ch_db[ch][x] = c}
MsgTargets(e) == {UidDb(e.h.channel)[x] : x \in DOMAIN UidDb(e.h.channel) \ {e.h}}

MsgTake ==
  /\ Take("Msg")
  /\ LET e == Head(events)
     IN  /\ e.h.channel \in DOMAIN ch_db
         /\ phase' = "broadcast"
         /\ cur' = e
         /\ targets' = MsgTargets(e)
         /\ log' = [log EXCEPT ![e.h.channel] = Append(@, MsgOf(e))]
  /\ UNCHANGED <<tx2, rx2, err, ch_db, msg_db, replay, now, joined, active>>

(* HashMap iteration order is arbitrary.                                   *)
BroadcastSend(c) ==
  /\ phase = "broadcast"
  /\ c \in targets
  /\ ~LoopBlocked
  /\ tx2' = SendTo(c, Frame("loop", "data", MsgOf(cur)))
  /\ targets' = targets \ {c}
  /\ UNCHANGED <<events, rx2, err, ch_db, msg_db, phase, cur, replay, now, log, joined, active>>

BroadcastDone ==
  /\ phase = "broadcast"
  /\ targets = {}
  /\ ~LoopBlocked
  /\ msg_db' = IF cur.h.channel \in DOMAIN msg_db
               THEN Remember(cur.h.channel, MsgOf(cur)) ELSE msg_db
  /\ active' = [active EXCEPT ![cur.h.channel] = now]
  /\ phase' = "select"
  /\ cur' = NoHash
  /\ UNCHANGED <<chanVars, ch_db, replay, targets, now, log, joined>>

(* Nobody is in the channel: the message is dropped.                       *)
MsgDropped ==
  /\ Take("Msg")
  /\ Head(events).h.channel \notin DOMAIN ch_db
  /\ UNCHANGED <<tx2, rx2, err, loopVars, now>>

-----------------------------------------------------------------------------
(* WsEvent::Logoff                                                         *)
RemoveUid(ch, h) ==
  IF ch \notin DOMAIN ch_db THEN ch_db
  ELSE IF DOMAIN ch_db[ch] \ {h} = {} THEN Del(ch_db, ch)
       ELSE Put(ch_db, ch, Del(ch_db[ch], h))

Logoff ==
  /\ Take("Logoff")
  /\ LET e == Head(events) IN ch_db' = RemoveUid(e.h.channel, e.h)
  /\ UNCHANGED <<tx2, rx2, err, msg_db, phase, cur, replay, targets, now, log, joined, active>>

-----------------------------------------------------------------------------
(* The daily clean-up arm: forget the channels idle for over 30 days.      *)
Idle(ch) == now - msg_db[ch].last_activity > CLEANUP

Cleanup ==
  /\ phase = "select"
  /\ msg_db' = [ch \in {x \in DOMAIN msg_db : ~Idle(x)} |-> msg_db[ch]]
  /\ UNCHANGED <<chanVars, ch_db, phase, cur, replay, targets, now, log, joined, active>>

(* External: the wall clock.                                               *)
Clock ==
  /\ now < MaxTime
  /\ now' = now + 1
  /\ UNCHANGED <<chanVars, loopVars>>

(* What the loop's task does when it is scheduled.                         *)
LoopStep ==
  \/ InitJoin \/ ReplaySend \/ InitDone \/ InitDuplicate
  \/ MsgTake \/ BroadcastDone \/ MsgDropped
  \/ \E c \in Conn : BroadcastSend(c)
  \/ Logoff
=============================================================================
