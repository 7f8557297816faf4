---------------------------- MODULE MlesWsProofs ----------------------------
(***************************************************************************)
(* Proofs about the websocket server for every set of connections, users,  *)
(* channels and keys, every queue capacity and every history limit.        *)
(***************************************************************************)
EXTENDS MlesWs, SequenceTheorems, TLAPS

-----------------------------------------------------------------------------
(* Type correctness                                                        *)

(* A send of the loop, the receiver or the ping task keeps the queues typed. *)
LEMMA SendToType ==
  ASSUME TypeOK, NEW c \in Conn, NEW f \in FrameSet
  PROVE  SendTo(c, f) \in [Conn -> Seq(FrameSet)]
BY DEF TypeOK, QueuesOK, SendTo

(* What these tasks send are frames.                                       *)
LEMMA FrameType ==
  ASSUME NEW by \in {"loop", "rx", "ping"}, NEW kind \in {"data", "ping", "close", "none"},
         NEW msg \in Message \cup {NoMsg}
  PROVE  Frame(by, kind, msg) \in FrameSet
BY DEF Frame, FrameSet

(* A WsEvent carries a message and names a channel and a connection.       *)
LEMMA MsgOfType ==
  ASSUME NEW e \in Event
  PROVE  MsgOf(e) \in Message /\ e.h \in Header /\ e.h.channel \in Channels /\ e.conn \in Conn
BY DEF Event, MsgOf, Message, Header

(* tx.send(event) of a connection keeps the event queue typed.             *)
LEMMA EnqueueType ==
  ASSUME TypeOK, NEW type \in {"Init", "Msg", "Logoff"}, NEW c \in Conn, NEW hash \in Header,
         NEW n \in Nat, Enqueue(type, c, hash, n)
  PROVE  events' \in Seq(Event)
BY DEF TypeOK, QueuesOK, Enqueue, Event

(* The event the loop takes is typed, and so is the rest of the queue.     *)
LEMMA TakeType ==
  ASSUME TypeOK, NEW type, Take(type)
  PROVE  /\ events # <<>> /\ phase = "select"
         /\ Head(events) \in Event /\ Head(events).type = type
         /\ events' = Tail(events) /\ events' \in Seq(Event)
BY HeadTailProperties DEF TypeOK, QueuesOK, Take

(* add_message and last_activity keep msg_db a map of channel infos.       *)
LEMMA RememberType ==
  ASSUME TypeOK, NEW ch, NEW msg \in Message
  PROVE  IsMap(Remember(ch, msg), Channels, [messages: Seq(Message), last_activity: Nat])
<1>1. CASE ch \in DOMAIN msg_db
  <2>1. msg_db[ch].messages \in Seq(Message)
    BY <1>1 DEF TypeOK, TablesOK, IsMap
  <2>2. add_message(msg, msg_db[ch].messages) \in Seq(Message)
    BY <2>1, HeadTailProperties, AppendProperties DEF add_message
  <2> QED
    BY <1>1, <2>2 DEF TypeOK, TablesOK, IsMap, Remember
<1>2. CASE ch \notin DOMAIN msg_db
  BY <1>2 DEF TypeOK, TablesOK, IsMap, Remember
<1> QED
  BY <1>1, <1>2

(* The history variable log stays typed when a message is taken.           *)
LEMMA LogType ==
  ASSUME TypeOK, NEW ch \in Channels, NEW m \in Message
  PROVE  [log EXCEPT ![ch] = Append(@, m)] \in [Channels -> Seq(Message)]
<1>1. log \in [Channels -> Seq(Message)]
  BY DEF TypeOK, TablesOK
<1>2. Append(log[ch], m) \in Seq(Message)
  BY <1>1, AppendProperties
<1> QED
  BY <1>1, <1>2

(* ch_db.get(&ch) is a map from header hashes to connections.              *)
LEMMA UidDbType ==
  ASSUME TypeOK, NEW ch
  PROVE  IsMap(UidDb(ch), Header, Conn)
BY DEF TypeOK, TablesOK, UidDb, IsMap, IsTable

(* HashMap insert and remove keep a map a map.                             *)
LEMMA PutMap ==
  ASSUME NEW f, NEW S, NEW T, IsMap(f, S, T), NEW k \in S, NEW v \in T
  PROVE  IsMap(Put(f, k, v), S, T)
BY DEF IsMap, Put

(* HashMap insert keeps ch_db a table.                                     *)
LEMMA PutTable ==
  ASSUME IsTable(ch_db), NEW ch \in Channels, NEW m, IsMap(m, Header, Conn)
  PROVE  IsTable(Put(ch_db, ch, m))
<1>1. /\ DOMAIN Put(ch_db, ch, m) = DOMAIN ch_db \cup {ch}
      /\ Put(ch_db, ch, m) = [x \in DOMAIN Put(ch_db, ch, m) |-> Put(ch_db, ch, m)[x]]
      /\ Put(ch_db, ch, m)[ch] = m
      /\ \A x \in DOMAIN ch_db : x # ch => Put(ch_db, ch, m)[x] = ch_db[x]
  BY DEF Put
<1> QED
  BY <1>1 DEF IsTable

(* The Logoff handler keeps ch_db a table.                                 *)
LEMMA RemoveTable ==
  ASSUME IsTable(ch_db), NEW ch \in Channels, NEW x \in Header
  PROVE  IsTable(RemoveUid(ch, x))
<1>1. CASE ch \notin DOMAIN ch_db
  BY <1>1 DEF RemoveUid
<1>2. CASE ch \in DOMAIN ch_db /\ DOMAIN ch_db[ch] \ {x} = {}
  <2>1. RemoveUid(ch, x) = [y \in DOMAIN ch_db \ {ch} |-> ch_db[y]]
    BY <1>2 DEF RemoveUid, Del
  <2> QED
    BY <2>1 DEF IsTable
<1>3. CASE ch \in DOMAIN ch_db /\ DOMAIN ch_db[ch] \ {x} # {}
  <2>1. IsMap(ch_db[ch], Header, Conn)
    BY <1>3 DEF IsTable
  <2>2. IsMap(Del(ch_db[ch], x), Header, Conn)
    BY <2>1 DEF IsMap, Del
  <2> QED
    BY <1>3, <2>2, PutTable DEF RemoveUid
<1> QED
  BY <1>1, <1>2, <1>3

(* A step of the loop leaves the tasks' variables typed.                   *)
LEMMA TasksKept ==
  ASSUME TypeOK, UNCHANGED connVars
  PROVE  TasksOK'
BY DEF TypeOK, TasksOK, connVars

(* A step of a connection leaves the loop's tables typed.                  *)
LEMMA TablesKept ==
  ASSUME TypeOK, UNCHANGED <<loopVars, now>>
  PROVE  TablesOK'
BY DEF TypeOK, TablesOK, loopVars

(* A step that touches no queue leaves the queues typed.                   *)
LEMMA QueuesKept ==
  ASSUME TypeOK, UNCHANGED chanVars
  PROVE  QueuesOK'
BY DEF TypeOK, QueuesOK, chanVars

(* Every handler of spawn_event_loop keeps the types.                      *)
LEMMA LoopType ==
  ASSUME TypeOK, LoopStep, UNCHANGED connVars
  PROVE  TypeOK'
<1> SUFFICES QueuesOK' /\ TablesOK'
  BY TasksKept DEF TypeOK, QueuesOK, TablesOK
<1>1. CASE InitJoin
  <2> DEFINE e == Head(events)
             ch == e.h.channel
             info == IF ch \in DOMAIN msg_db THEN msg_db[ch]
                     ELSE [messages |-> <<>>, last_activity |-> now]
  <2>1. Take("Init")
    BY <1>1 DEF InitJoin
  <2>2. /\ e \in Event /\ MsgOf(e) \in Message /\ e.h \in Header /\ ch \in Channels /\ e.conn \in Conn
        /\ events' \in Seq(Event)
    BY <2>1, TakeType, MsgOfType
  <2>3. info \in [messages: Seq(Message), last_activity: Nat] /\ info.messages \in Seq(Message)
    BY DEF TypeOK, TablesOK, IsMap
  <2>4. IsMap(msg_db', Channels, [messages: Seq(Message), last_activity: Nat])
    BY <1>1, <2>2, <2>3, PutMap DEF InitJoin, TypeOK, QueuesOK, TablesOK
  <2>5. IsMap(Put(UidDb(ch), e.h, e.conn), Header, Conn)
    BY <2>2, UidDbType, PutMap
  <2>6. /\ ch_db' = Put(ch_db, ch, Put(UidDb(ch), e.h, e.conn))
        /\ err' = [err EXCEPT ![e.conn] = "confirmed"]
        /\ phase' = "replay" /\ cur' = e /\ replay' = info.messages
        /\ joined' = [joined EXCEPT ![e.conn] =
                        [h |-> e.h, at |-> Len(log[ch]), from |-> Len(log[ch]) - Len(info.messages)]]
        /\ log' = [log EXCEPT ![ch] = Append(@, MsgOf(e))]
        /\ UNCHANGED <<tx2, rx2, targets, now, active>>
    BY <1>1 DEF InitJoin
  <2>7. IsTable(ch_db')
    BY <2>2, <2>5, <2>6, PutTable DEF TypeOK, QueuesOK, TablesOK
  <2>8. log' \in [Channels -> Seq(Message)]
    BY <2>2, <2>6, LogType
  <2>9. joined' \in [Conn -> [h: Header \cup {NoHash}, from: Int, at: Nat]]
    <3>1. log[ch] \in Seq(Message)
      BY <2>2 DEF TypeOK, QueuesOK, TablesOK
    <3>2. Len(log[ch]) \in Nat /\ Len(info.messages) \in Nat
      BY <3>1, <2>3, LenProperties
    <3>3. [h |-> e.h, at |-> Len(log[ch]), from |-> Len(log[ch]) - Len(info.messages)]
            \in [h: Header \cup {NoHash}, from: Int, at: Nat]
      BY <3>2, <2>2
    <3>4. joined \in [Conn -> [h: Header \cup {NoHash}, from: Int, at: Nat]]
      BY DEF TypeOK, QueuesOK, TablesOK
    <3> QED
      BY <3>3, <3>4, <2>6
  <2> QED
    BY <2>2, <2>3, <2>4, <2>6, <2>7, <2>8, <2>9 DEF TypeOK, QueuesOK, TablesOK
<1>2. CASE ReplaySend
  <2>1. cur \in Event /\ cur.conn \in Conn /\ Head(replay) \in Message /\ Tail(replay) \in Seq(Message)
    BY <1>2, MsgOfType, HeadTailProperties DEF ReplaySend, TypeOK, QueuesOK, TablesOK
  <2>2. tx2' \in [Conn -> Seq(FrameSet)]
    BY <1>2, <2>1, FrameType, SendToType DEF ReplaySend
  <2> QED
    BY <1>2, <2>1, <2>2 DEF ReplaySend, TypeOK, QueuesOK, TablesOK
<1>3. CASE InitDone \/ BroadcastDone
  <2>1. /\ phase # "select" /\ phase' = "select" /\ cur' = NoHash
        /\ active' = [active EXCEPT ![cur.h.channel] = now]
        /\ msg_db' = msg_db \/ msg_db' = Remember(cur.h.channel, MsgOf(cur))
        /\ UNCHANGED <<chanVars, ch_db, replay, targets, now, log, joined>>
    BY <1>3 DEF InitDone, BroadcastDone
  <2>2. cur \in Event /\ cur.h.channel \in Channels /\ MsgOf(cur) \in Message
    BY <2>1, MsgOfType DEF TypeOK, QueuesOK, TablesOK
  <2>3. IsMap(msg_db', Channels, [messages: Seq(Message), last_activity: Nat])
    <3>1. CASE msg_db' = msg_db
      BY <3>1 DEF TypeOK, QueuesOK, TablesOK
    <3>2. CASE msg_db' = Remember(cur.h.channel, MsgOf(cur))
      BY <3>2, <2>2, RememberType
    <3> QED
      BY <2>1, <3>1, <3>2
  <2>4. active' \in [Channels -> Nat]
    BY <2>1, <2>2 DEF TypeOK, QueuesOK, TablesOK
  <2> QED
    BY <2>1, <2>3, <2>4 DEF TypeOK, QueuesOK, TablesOK, chanVars
<1>4. CASE InitDuplicate
  <2>1. Head(events) \in Event /\ Head(events).conn \in Conn /\ events' \in Seq(Event)
    BY <1>4, TakeType, MsgOfType DEF InitDuplicate
  <2> QED
    BY <1>4, <2>1 DEF InitDuplicate, TypeOK, QueuesOK, TablesOK, loopVars
<1>5. CASE MsgTake
  <2> DEFINE e == Head(events)
  <2>1. /\ e \in Event /\ MsgOf(e) \in Message /\ e.h \in Header /\ e.h.channel \in Channels
        /\ events' \in Seq(Event)
    BY <1>5, TakeType, MsgOfType DEF MsgTake
  <2>2. MsgTargets(e) \in SUBSET Conn
    BY UidDbType DEF MsgTargets, IsMap
  <2>3. log' \in [Channels -> Seq(Message)]
    BY <1>5, <2>1, LogType DEF MsgTake
  <2> QED
    BY <1>5, <2>1, <2>2, <2>3 DEF MsgTake, TypeOK, QueuesOK, TablesOK
<1>6. CASE MsgDropped
  <2>1. events' \in Seq(Event)
    BY <1>6, TakeType DEF MsgDropped
  <2> QED
    BY <1>6, <2>1 DEF MsgDropped, TypeOK, QueuesOK, TablesOK, loopVars
<1>7. ASSUME NEW c \in Conn, BroadcastSend(c) PROVE QueuesOK' /\ TablesOK'
  <2>1. cur \in Event /\ MsgOf(cur) \in Message
    BY <1>7, MsgOfType DEF BroadcastSend, TypeOK, QueuesOK, TablesOK
  <2>2. tx2' \in [Conn -> Seq(FrameSet)]
    BY <1>7, <2>1, FrameType, SendToType DEF BroadcastSend
  <2> QED
    BY <1>7, <2>1, <2>2 DEF BroadcastSend, TypeOK, QueuesOK, TablesOK
<1>8. CASE Logoff
  <2>1. Head(events) \in Event /\ Head(events).h \in Header /\ Head(events).h.channel \in Channels
        /\ events' \in Seq(Event)
    BY <1>8, TakeType, MsgOfType DEF Logoff
  <2>2. IsTable(ch_db')
    BY <1>8, <2>1, RemoveTable DEF Logoff, TypeOK, QueuesOK, TablesOK
  <2> QED
    BY <1>8, <2>1, <2>2 DEF Logoff, TypeOK, QueuesOK, TablesOK
<1> QED
  BY <1>1, <1>2, <1>3, <1>4, <1>5, <1>6, <1>7, <1>8 DEF LoopStep

(* The clean-up and the clock keep the types.                              *)
LEMMA TimeType ==
  ASSUME TypeOK, Time
  PROVE  TypeOK'
<1>0. TasksOK'
  BY TasksKept DEF Time
<1>1. CASE Cleanup
  <2>1. IsMap(msg_db', Channels, [messages: Seq(Message), last_activity: Nat])
    BY <1>1 DEF Cleanup, TypeOK, QueuesOK, TablesOK, IsMap
  <2> QED
    BY <1>0, <1>1, <2>1 DEF Cleanup, TypeOK, QueuesOK, TablesOK, chanVars
<1>2. CASE Clock
  BY <1>0, <1>2 DEF Clock, TypeOK, QueuesOK, TablesOK, chanVars, loopVars
<1> QED
  BY <1>1, <1>2 DEF Time

(* A header hash is represented by a header.                               *)
LEMMA HashHeaderType ==
  ASSUME NEW hdr \in Header
  PROVE  HashHeader(hdr) \in Header
BY DEF HashHeader

(* The receiver task and its peer keep the types.                          *)
LEMMA ReceiverType ==
  ASSUME TypeOK, NEW c \in Conn, Peer(c) \/ Receiver(c)
  PROVE  TypeOK'
<1>0. UNCHANGED <<loopVars, now>>
  BY DEF Peer, Receiver, PeerLost, RxFirstInvalid, RxFirstRefused, RxFirstHeader,
     RxFirstEnd, RxConfirmed, RxRejected, RxLeave, RxStreamEnd, RxCloseFrame,
     RxFrameWhenClosed, RxPong, RxData
<1> SUFFICES QueuesOK' /\ TasksOK'
  BY <1>0, TablesKept DEF TypeOK
<1> USE DEF chanVars
<1>1. CASE PeerLost(c)
  BY <1>1 DEF PeerLost, TypeOK, QueuesOK, TasksOK
<1>2. CASE RxFirstInvalid(c)
  BY <1>2 DEF RxFirstInvalid, TypeOK, QueuesOK, TasksOK
<1>3. ASSUME NEW hdr \in Header, RxFirstRefused(c, hdr) PROVE QueuesOK' /\ TasksOK'
  BY <1>3, HashHeaderType DEF RxFirstRefused, TypeOK, QueuesOK, TasksOK
<1>4. ASSUME NEW hdr \in Header, RxFirstHeader(c, hdr) PROVE QueuesOK' /\ TasksOK'
  <2>1. events' \in Seq(Event)
    BY <1>4, HashHeaderType, EnqueueType DEF RxFirstHeader
  <2> QED
    BY <1>4, <2>1, HashHeaderType DEF RxFirstHeader, TypeOK, QueuesOK, TasksOK
<1>5. CASE RxFirstEnd(c)
  BY <1>5 DEF RxFirstEnd, TypeOK, QueuesOK, TasksOK
<1>6. CASE RxConfirmed(c)
  BY <1>6 DEF RxConfirmed, TypeOK, QueuesOK, TasksOK
<1>7. CASE RxRejected(c)
  <2>1. tx2' \in [Conn -> Seq(FrameSet)]
    BY <1>7, FrameType, SendToType DEF RxRejected
  <2> QED
    BY <1>7, <2>1 DEF RxRejected, TypeOK, QueuesOK, TasksOK
<1>8. ASSUME RxLeave(c), UNCHANGED net \/ net' = [net EXCEPT ![c] = FALSE] PROVE QueuesOK' /\ TasksOK'
  <2>1. tx2' \in [Conn -> Seq(FrameSet)]
    BY <1>8, FrameType, SendToType DEF RxLeave
  <2> QED
    BY <1>8, <2>1 DEF RxLeave, TypeOK, QueuesOK, TasksOK
<1>9. CASE RxPong(c)
  BY <1>9 DEF RxPong, TypeOK, QueuesOK, TasksOK
<1>10. CASE RxData(c)
  <2>1. h[c] \in Header /\ sent[c] + 1 \in Nat
    <3>1. h[c] # NoHash
      BY <1>10 DEF RxData
    <3> QED
      BY <3>1 DEF TypeOK, TasksOK
  <2>2. events' \in Seq(Event)
    BY <1>10, <2>1, EnqueueType DEF RxData
  <2> QED
    BY <1>10, <2>1, <2>2 DEF RxData, TypeOK, QueuesOK, TasksOK
<1> QED
  BY <1>1, <1>2, <1>3, <1>4, <1>5, <1>6, <1>7, <1>8, <1>9, <1>10
     DEF Peer, Receiver, RxStreamEnd, RxCloseFrame, RxFrameWhenClosed

(* The ping task keeps the types.                                          *)
LEMMA PingerType ==
  ASSUME TypeOK, NEW c \in Conn, Pinger(c)
  PROVE  TypeOK'
<1>0. UNCHANGED <<loopVars, now>>
  BY DEF Pinger, PingStart, PingTick, PingSent, PingStop
<1> SUFFICES QueuesOK' /\ TasksOK'
  BY <1>0, TablesKept DEF TypeOK
<1> USE DEF chanVars
<1>1. CASE PingStart(c)
  BY <1>1 DEF PingStart, TypeOK, QueuesOK, TasksOK
<1>2. CASE PingTick(c)
  <2>1. tx2' \in [Conn -> Seq(FrameSet)]
    BY <1>2, FrameType, SendToType DEF PingTick
  <2> QED
    BY <1>2, <2>1 DEF PingTick, TypeOK, QueuesOK, TasksOK
<1>3. CASE PingSent(c)
  <2>1. tx2' \in [Conn -> Seq(FrameSet)]
    <3>1. tx2' = tx2 \/ tx2' = SendTo(c, Frame("ping", "none", NoMsg))
      BY <1>3 DEF PingSent
    <3> QED
      BY <3>1, FrameType, SendToType DEF TypeOK, QueuesOK, TasksOK
  <2>2. is_closed' \in [Conn -> BOOLEAN]
    BY <1>3 DEF PingSent, TypeOK, QueuesOK, TasksOK
  <2>3. ppc' \in [Conn -> {"start", "tick", "sending", "done"}] /\ ping_cntr' \in [Conn -> Nat]
    <3>1. \E p \in {"tick", "done"} : ppc' = [ppc EXCEPT ![c] = p]
      BY <1>3 DEF PingSent
    <3>2. ping_cntr' = [ping_cntr EXCEPT ![c] = @ + 1]
      BY <1>3 DEF PingSent
    <3> QED
      BY <3>1, <3>2 DEF TypeOK, QueuesOK, TasksOK
  <2>4. UNCHANGED <<events, rx2, err, rpc, spc, h, net, sent, writing, received, late>>
    BY <1>3 DEF PingSent
  <2> QED
    BY <2>1, <2>2, <2>3, <2>4 DEF TypeOK, QueuesOK, TasksOK
<1>4. CASE PingStop(c)
  BY <1>4 DEF PingStop, TypeOK, QueuesOK, TasksOK
<1> QED
  BY <1>1, <1>2, <1>3, <1>4 DEF Pinger

(* The end of the sender task keeps its variables typed.                   *)
LEMMA TxDropType ==
  ASSUME TypeOK, NEW c \in Conn, TxDrop(c)
  PROVE  /\ spc' \in [Conn -> {"recv", "write", "closing", "logoff", "done"}]
         /\ rx2' \in [Conn -> BOOLEAN]
         /\ tx2' \in [Conn -> Seq(FrameSet)]
<1>1. <<>> \in Seq(FrameSet)
  OBVIOUS
<1> QED
  BY <1>1 DEF TxDrop, TypeOK, QueuesOK, TasksOK

(* The sender task keeps the types.                                        *)
LEMMA SenderType ==
  ASSUME TypeOK, NEW c \in Conn, Sender(c)
  PROVE  TypeOK'
<1>0. UNCHANGED <<loopVars, now>>
  BY DEF Sender, TxNext, TxDrained, TxWritten, TxFailed, TxClosed, TxLoggedOff
<1> SUFFICES QueuesOK' /\ TasksOK'
  BY <1>0, TablesKept DEF TypeOK
<1> USE DEF chanVars
<1>1. CASE TxNext(c)
  <2>1. tx2[c] \in Seq(FrameSet) /\ tx2[c] # <<>>
    BY <1>1 DEF TxNext, TypeOK, QueuesOK, TasksOK
  <2>2. Head(tx2[c]).msg \in Message \cup {NoMsg} /\ Tail(tx2[c]) \in Seq(FrameSet)
    <3>1. Head(tx2[c]) \in FrameSet /\ Tail(tx2[c]) \in Seq(FrameSet)
      BY <2>1, HeadTailProperties
    <3> QED
      BY <3>1 DEF FrameSet
  <2>3. writing' \in [Conn -> Message \cup {NoMsg}] /\ tx2' \in [Conn -> Seq(FrameSet)]
    BY <1>1, <2>2 DEF TxNext, TypeOK, QueuesOK, TasksOK
  <2> QED
    BY <1>1, <2>3 DEF TxNext, TypeOK, QueuesOK, TasksOK
<1>2. CASE TxDrained(c)
  BY <1>2 DEF TxDrained, TypeOK, QueuesOK, TasksOK
<1>3. CASE TxWritten(c)
  <2>1. received' \in [Conn -> Seq(Message)]
    BY <1>3, AppendProperties, SMTT(30) DEF TxWritten, TypeOK, QueuesOK, TasksOK
  <2> QED
    BY <1>3, <2>1 DEF TxWritten, TypeOK, QueuesOK, TasksOK
<1>4. CASE TxFailed(c)
  BY <1>4 DEF TxFailed, TypeOK, QueuesOK, TasksOK
<1>5. CASE TxClosed(c) /\ h[c] # NoHash
  <2>1. h[c] \in Header
    BY <1>5 DEF TypeOK, QueuesOK, TasksOK
  <2>2. events' \in Seq(Event)
    BY <1>5, <2>1, EnqueueType DEF TxClosed
  <2> QED
    BY <1>5, <2>2 DEF TxClosed, TypeOK, QueuesOK, TasksOK
<1>6. CASE TxClosed(c) /\ h[c] = NoHash
  BY <1>6, TxDropType DEF TxClosed, TypeOK, QueuesOK, TasksOK
<1>7. CASE TxLoggedOff(c)
  BY <1>7, TxDropType DEF TxLoggedOff, TypeOK, QueuesOK, TasksOK
<1> QED
  BY <1>1, <1>2, <1>3, <1>4, <1>5, <1>6, <1>7 DEF Sender

(* The initial state is typed.                                             *)
LEMMA InitType == Init => TypeOK
BY SMTT(30) DEF Init, LoopInit, ConnInit, TypeOK, QueuesOK, TablesOK, TasksOK, IsMap, IsTable, NoMsg

(* Every step keeps the types.                                             *)
LEMMA NextType == TypeOK /\ [Next]_vars => TypeOK'
<1> SUFFICES ASSUME TypeOK, [Next]_vars PROVE TypeOK'
  OBVIOUS
<1>1. CASE UNCHANGED vars
  BY <1>1, QueuesKept, TablesKept, TasksKept DEF vars, TypeOK
<1> QED
  BY <1>1, LoopType, TimeType, ReceiverType, PingerType, SenderType DEF Next, Loop

(* Every variable keeps its type for every set of connections, channels,   *)
(* users and keys and every capacity of the queues of websocket.rs.        *)
THEOREM TypesAreKept == Spec => []TypeOK
BY InitType, NextType, PTL DEF Spec
=============================================================================
