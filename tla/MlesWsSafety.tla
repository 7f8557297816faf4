---------------------------- MODULE MlesWsSafety ----------------------------
(***************************************************************************)
(* Proofs, for every value of the constants, that the tasks of a           *)
(* connection shut down in an order the event loop can rely on: is_closed  *)
(* before the Logoff, the events of a connection in the order Init, Msg,   *)
(* Logoff, and no entry of ch_db without a connection to remove it.        *)
(***************************************************************************)
EXTENDS MlesWsProofs

-----------------------------------------------------------------------------
(* The inductive invariant                                                 *)

(* is_closed is set before the sender task leaves its loop, since          *)
(* everything that makes it leave comes with is_closed.                    *)
Closing(c) ==
  /\ spc[c] \in {"closing", "logoff", "done"} => is_closed[c]
  /\ rpc[c] = "done" => is_closed[c]
  /\ \A f \in Range(tx2[c]) : f.kind = "none" => is_closed[c]

(* The stages of a connection: nothing is known of it before its header    *)
(* was read, and its Logoff is the last thing its sender task does.        *)
Stages(c) ==
  /\ rpc[c] = "first" => err[c] = "held" /\ h[c] = NoHash /\ spc[c] # "logoff"
  /\ \A e \in Range(events) : e.conn = c =>
       /\ rpc[c] # "first"
       /\ e.type = "Init" => err[c] = "queued"
       /\ e.type = "Logoff" => spc[c] \in {"logoff", "done"}

Entry(ch, x, c) == ch \in DOMAIN ch_db /\ x \in DOMAIN ch_db[ch] /\ ch_db[ch][x] = c

(* The atomics, the events and the table agree on the hash of a connection.*)
OneHash(c) ==
  /\ \A e \in Range(events) : e.conn = c =>
       /\ h[c] # NoHash => e.h = h[c]
       /\ \A f \in Range(events) : f.conn = c => f.h = e.h
  /\ \A ch \in Channels, x \in Header : Entry(ch, x, c) =>
       /\ err[c] = "confirmed"
       /\ x.channel = ch
       /\ h[c] # NoHash => x = h[c]
       /\ \A e \in Range(events) : e.conn = c => e.h = x

(* c has an entry in ch_db, or an Init under way that will make one.       *)
Present(c) ==
  \/ Registered(c)
  \/ \E e \in Range(events) : e.conn = c /\ e.type = "Init"

(* Whoever is present still has the hash to log off with, or has done so.  *)
Owned(c) ==
  Present(c) =>
    IF spc[c] \in {"logoff", "done"} THEN LeavePending(c) \/ late[c] ELSE h[c] # NoHash
Life(c) == Stages(c) /\ OneHash(c) /\ Owned(c)

IInv == TypeOK /\ EventOrder /\ \A c \in Conn : Closing(c) /\ Life(c)

-----------------------------------------------------------------------------
(* Queues as sets                                                          *)

(* The items of a queue after a send.                                      *)
LEMMA RangeAppend ==
  ASSUME NEW S, NEW s \in Seq(S), NEW e \in S
  PROVE  Range(Append(s, e)) = Range(s) \cup {e}
<1>1. /\ DOMAIN s = 1 .. Len(s) /\ DOMAIN Append(s, e) = 1 .. Len(s) + 1 /\ Len(s) \in Nat
      /\ \A i \in 1 .. Len(s) : Append(s, e)[i] = s[i]
      /\ Append(s, e)[Len(s) + 1] = e
  BY AppendProperties, LenProperties
<1>2. \A i : i \in 1 .. Len(s) + 1 <=> i \in 1 .. Len(s) \/ i = Len(s) + 1
  BY <1>1
<1> QED
  BY <1>1, <1>2 DEF Range

(* The items of a queue after a receive.                                   *)
LEMMA RangeTail ==
  ASSUME NEW S, NEW s \in Seq(S), s # <<>>
  PROVE  /\ Range(s) = Range(Tail(s)) \cup {Head(s)}
         /\ Range(Tail(s)) \subseteq Range(s)
<1>1. /\ DOMAIN s = 1 .. Len(s) /\ DOMAIN Tail(s) = 1 .. Len(s) - 1 /\ Len(s) \in Nat \ {0}
      /\ \A i \in 1 .. Len(s) - 1 : Tail(s)[i] = s[i + 1]
      /\ s[1] = Head(s)
  BY HeadTailProperties, LenProperties, EmptySeq
<1>2. \A i \in 1 .. Len(s) : i = 1 \/ (i - 1 \in 1 .. Len(s) - 1 /\ (i - 1) + 1 = i)
  BY <1>1
<1>3. \A i \in 1 .. Len(s) - 1 : i + 1 \in 1 .. Len(s)
  BY <1>1
<1>4. ASSUME NEW x \in Range(s) PROVE x \in Range(Tail(s)) \cup {Head(s)}
  <2>1. PICK i \in 1 .. Len(s) : x = s[i]
    BY <1>1 DEF Range
  <2>2. CASE i = 1
    BY <1>1, <2>1, <2>2
  <2>3. CASE i - 1 \in 1 .. Len(s) - 1 /\ (i - 1) + 1 = i
    <3>1. x = Tail(s)[i - 1]
      BY <1>1, <2>1, <2>3
    <3> QED
      BY <1>1, <2>3, <3>1 DEF Range
  <2> QED
    BY <1>2, <2>2, <2>3
<1>5. ASSUME NEW x \in Range(Tail(s)) PROVE x \in Range(s)
  BY <1>1, <1>3 DEF Range
<1>6. Head(s) \in Range(s)
  BY <1>1 DEF Range
<1> QED
  BY <1>4, <1>5, <1>6

(* A send adds at most its frame, to the queue it is for.                  *)
LEMMA SendToRange ==
  ASSUME TypeOK, NEW c \in Conn, NEW f \in FrameSet, NEW d \in Conn
  PROVE  \A g \in Range(SendTo(c, f)[d]) : g \in Range(tx2[d]) \/ (d = c /\ g = f)
<1>1. tx2 \in [Conn -> Seq(FrameSet)]
  BY DEF TypeOK, QueuesOK
<1>2. SendTo(c, f)[d] = tx2[d] \/ (d = c /\ SendTo(c, f)[d] = Append(tx2[d], f))
  BY <1>1 DEF SendTo
<1>3. Range(Append(tx2[d], f)) = Range(tx2[d]) \cup {f}
  BY <1>1, RangeAppend
<1> QED
  BY <1>2, <1>3

-----------------------------------------------------------------------------
(* is_closed comes first                                                   *)

(* Frames of the loop are data frames.                                     *)
LEMMA LoopClosing ==
  ASSUME TypeOK, Loop \/ Time, NEW d \in Conn, Closing(d)
  PROVE  Closing(d)'
<1>1. UNCHANGED <<rpc, spc, is_closed>>
  BY DEF Loop, Time, connVars
<1>2. \A g \in Range(tx2'[d]) : g \in Range(tx2[d]) \/ g.kind # "none"
  <2>1. CASE UNCHANGED tx2
    BY <2>1
  <2>2. ASSUME NEW c \in Conn, NEW m \in Message, tx2' = SendTo(c, Frame("loop", "data", m))
        PROVE  \A g \in Range(tx2'[d]) : g \in Range(tx2[d]) \/ g.kind # "none"
    <3>1. Frame("loop", "data", m) \in FrameSet
      BY FrameType
    <3>2. Frame("loop", "data", m).kind # "none"
      BY DEF Frame
    <3> QED
      BY <2>2, <3>1, <3>2, SendToRange
  <2>3. CASE ReplaySend
    <3>1. cur \in Event /\ Head(replay) \in Message
      BY <2>3, HeadTailProperties DEF ReplaySend, TypeOK, TablesOK
    <3> QED
      BY <2>2, <2>3, <3>1, MsgOfType DEF ReplaySend
  <2>4. ASSUME NEW c \in Conn, BroadcastSend(c)
        PROVE  \A g \in Range(tx2'[d]) : g \in Range(tx2[d]) \/ g.kind # "none"
    <3>1. MsgOf(cur) \in Message
      BY <2>4, MsgOfType DEF BroadcastSend, TypeOK, TablesOK
    <3> QED
      BY <2>2, <2>4, <3>1 DEF BroadcastSend
  <2> QED
    BY <2>1, <2>3, <2>4
       DEF Loop, LoopStep, Time, InitJoin, InitDone, InitDuplicate, MsgTake, BroadcastDone,
           MsgDropped, Logoff, Cleanup, Clock, chanVars
<1> QED
  BY <1>1, <1>2 DEF Closing

(* Every task that ends, and every None it sends, sets is_closed.          *)
LEMMA ConnClosing ==
  ASSUME TypeOK, NEW c \in Conn, Peer(c) \/ Receiver(c) \/ Pinger(c) \/ Sender(c),
         NEW d \in Conn, Closing(d)
  PROVE  Closing(d)'
<1> DEFINE Quiet == \A g \in Range(tx2'[d]) : g \in Range(tx2[d]) \/ g.kind # "none"
<1>0. /\ rpc \in [Conn -> {"first", "awaitErr", "loop", "done"}]
      /\ spc \in [Conn -> {"recv", "write", "closing", "logoff", "done"}]
      /\ is_closed \in [Conn -> BOOLEAN]
      /\ tx2 \in [Conn -> Seq(FrameSet)]
  BY DEF TypeOK, QueuesOK, TasksOK
<1>1. ASSUME UNCHANGED <<rpc, spc, is_closed>>, Quiet PROVE Closing(d)'
  BY <1>1 DEF Closing
<1>2. ASSUME is_closed' = [is_closed EXCEPT ![c] = TRUE],
             rpc' = rpc \/ \E p : rpc' = [rpc EXCEPT ![c] = p],
             spc' = spc \/ \E p : spc' = [spc EXCEPT ![c] = p],
             d # c => Quiet
      PROVE  Closing(d)'
  <2>1. CASE d = c
    BY <1>0, <1>2, <2>1 DEF Closing
  <2>2. CASE d # c
    <3>1. rpc'[d] = rpc[d] /\ spc'[d] = spc[d] /\ is_closed'[d] = is_closed[d]
      BY <1>0, <1>2, <2>2
    <3> QED
      BY <1>2, <2>2, <3>1 DEF Closing
  <2> QED
    BY <2>1, <2>2
<1>3. ASSUME NEW f \in FrameSet, tx2' = SendTo(c, f), f.kind # "none" \/ d # c PROVE Quiet
  BY <1>3, SendToRange
<1>4. /\ Frame("rx", "close", NoMsg) \in FrameSet /\ Frame("rx", "close", NoMsg).kind = "close"
      /\ Frame("rx", "none", NoMsg) \in FrameSet
      /\ Frame("ping", "ping", NoMsg) \in FrameSet /\ Frame("ping", "ping", NoMsg).kind = "ping"
      /\ Frame("ping", "none", NoMsg) \in FrameSet
  BY FrameType DEF Frame
<1>5. CASE PeerLost(c) \/ RxPong(c) \/ RxData(c) \/ PingStart(c) \/ PingStop(c)
  BY <1>1, <1>5 DEF PeerLost, RxPong, RxData, PingStart, PingStop, chanVars
<1>6. CASE RxFirstInvalid(c) \/ \E hdr \in Header : RxFirstRefused(c, hdr)
  BY <1>2, <1>6 DEF RxFirstInvalid, RxFirstRefused, chanVars
<1>7. ASSUME UNCHANGED <<tx2, spc, is_closed>>,
             \E p : p # "done" /\ rpc' = [rpc EXCEPT ![c] = p]
      PROVE  Closing(d)'
  BY <1>0, <1>7 DEF Closing
<1>8. CASE RxFirstEnd(c) \/ RxConfirmed(c) \/ \E hdr \in Header : RxFirstHeader(c, hdr)
  BY <1>7, <1>8 DEF RxFirstEnd, RxConfirmed, RxFirstHeader, chanVars
<1>9. CASE RxRejected(c) \/ RxLeave(c)
  <2>1. d # c => Quiet
    BY <1>3, <1>4, <1>9 DEF RxRejected, RxLeave
  <2> QED
    BY <1>2, <1>9, <2>1 DEF RxRejected, RxLeave
<1>10. CASE PingTick(c)
  BY <1>1, <1>3, <1>4, <1>10 DEF PingTick
<1>11. CASE PingSent(c)
  <2>1. CASE ping_cntr[c] > MaxMissed
    <3>1. d # c => Quiet
      BY <1>3, <1>4, <1>11, <2>1 DEF PingSent
    <3> QED
      BY <1>2, <1>11, <2>1, <3>1 DEF PingSent
  <2>2. CASE ~(ping_cntr[c] > MaxMissed)
    BY <1>1, <1>11, <2>2 DEF PingSent
  <2> QED
    BY <2>1, <2>2
<1>12. ASSUME UNCHANGED <<rpc, is_closed>>, Quiet, d = c => is_closed[c],
              \E p : spc' = [spc EXCEPT ![c] = p]
       PROVE  Closing(d)'
  BY <1>0, <1>12 DEF Closing
<1>13. ASSUME UNCHANGED <<rpc, is_closed>>, Quiet,
              \E p \in {"recv", "write"} : spc' = [spc EXCEPT ![c] = p]
       PROVE  Closing(d)'
  BY <1>0, <1>13 DEF Closing
<1>14. CASE TxNext(c)
  <2>1. tx2[c] \in Seq(FrameSet) /\ tx2[c] # <<>> /\ tx2' = [tx2 EXCEPT ![c] = Tail(@)]
    BY <1>0, <1>14 DEF TxNext
  <2>2. Quiet /\ Head(tx2[c]) \in Range(tx2[c])
    BY <1>0, <2>1, RangeTail
  <2>3. CASE Head(tx2[c]).kind = "none" \/ is_closed[c]
    BY <1>12, <1>14, <2>2, <2>3 DEF TxNext, Closing
  <2>4. CASE ~(Head(tx2[c]).kind = "none" \/ is_closed[c])
    BY <1>13, <1>14, <2>2, <2>4 DEF TxNext
  <2> QED
    BY <2>3, <2>4
<1>15. CASE TxDrained(c)
  BY <1>12, <1>15 DEF TxDrained, chanVars, Closing
<1>16. CASE TxWritten(c)
  BY <1>13, <1>16 DEF TxWritten, chanVars
<1>17. CASE TxFailed(c)
  BY <1>2, <1>17 DEF TxFailed, chanVars
<1>18. CASE TxClosed(c) \/ TxLoggedOff(c)
  <2>1. UNCHANGED tx2 \/ tx2' = [tx2 EXCEPT ![c] = <<>>]
    BY <1>18 DEF TxClosed, TxLoggedOff, TxDrop
  <2>2. Quiet
    BY <1>0, <2>1 DEF Range
  <2>3. d = c => is_closed[c]
    BY <1>18 DEF TxClosed, TxLoggedOff, Closing
  <2>4. UNCHANGED <<rpc, is_closed>> /\ \E p : spc' = [spc EXCEPT ![c] = p]
    BY <1>18 DEF TxClosed, TxLoggedOff, TxDrop
  <2> QED
    BY <1>12, <2>2, <2>3, <2>4
<1> QED
  BY <1>5, <1>6, <1>8, <1>9, <1>10, <1>11, <1>14, <1>15, <1>16, <1>17, <1>18
     DEF Peer, Receiver, Pinger, Sender, RxStreamEnd, RxCloseFrame, RxFrameWhenClosed

(* Closing holds when the connections are set up.                          *)
LEMMA InitClosing == Init => \A c \in Conn : Closing(c)
BY DEF Init, LoopInit, ConnInit, Closing, Range

(* Every step keeps Closing.                                               *)
LEMMA NextClosing ==
  ASSUME TypeOK, [Next]_vars, \A c \in Conn : Closing(c)
  PROVE  \A c \in Conn : Closing(c)'
<1>1. CASE UNCHANGED vars
  BY <1>1 DEF vars, chanVars, connVars, Closing
<1>2. CASE Next
  BY <1>2, LoopClosing, ConnClosing DEF Next
<1> QED
  BY <1>1, <1>2

(* The sender task leaves its loop only once is_closed is set, however the *)
(* receiver and ping tasks interleave with it.                             *)
THEOREM ClosedFirst == Spec => []ClosedBeforeCleanup
<1> DEFINE Inv == TypeOK /\ \A c \in Conn : Closing(c)
<1>1. Init => Inv
  BY InitType, InitClosing
<1>2. Inv /\ [Next]_vars => Inv'
  BY NextType, NextClosing
<1>3. Inv => ClosedBeforeCleanup
  BY DEF Closing, ClosedBeforeCleanup
<1> QED
  BY <1>1, <1>2, <1>3, PTL DEF Spec
-----------------------------------------------------------------------------
(* The order of events                                                     *)

(* Sending an event behind its own kind's predecessors keeps the order.    *)
LEMMA AppendOrder ==
  ASSUME EventOrder, events \in Seq(Event), NEW e \in Event, events' = Append(events, e),
         \A f \in Range(events) : f.conn = e.conn => f.type # "Logoff" /\ e.type # "Init"
  PROVE  EventOrder'
<1> DEFINE n == Len(events)
<1>1. /\ DOMAIN events = 1 .. n /\ DOMAIN events' = 1 .. n + 1 /\ n \in Nat
      /\ \A i \in 1 .. n : events'[i] = events[i]
      /\ events'[n + 1] = e
  BY AppendProperties, LenProperties
<1>2. SUFFICES ASSUME NEW i \in 1 .. n + 1, NEW j \in 1 .. n + 1, i < j,
                      events'[i].conn = events'[j].conn
               PROVE  events'[i].type # "Logoff" /\ events'[j].type # "Init"
  BY <1>1 DEF EventOrder
<1>3. i \in 1 .. n /\ events[i] \in Range(events)
  BY <1>1, <1>2 DEF Range
<1>4. CASE j \in 1 .. n
  BY <1>1, <1>2, <1>3, <1>4 DEF EventOrder
<1>5. CASE j = n + 1
  BY <1>1, <1>2, <1>3, <1>5
<1> QED
  BY <1>1, <1>4, <1>5

(* Taking an event keeps the order, and bounds what may still follow it.   *)
LEMMA TailOrder ==
  ASSUME EventOrder, events \in Seq(Event), events # <<>>, events' = Tail(events)
  PROVE  /\ EventOrder'
         /\ \A f \in Range(events') :
              f.conn = Head(events).conn => f.type # "Init" /\ Head(events).type # "Logoff"
<1> DEFINE n == Len(events)
<1>1. /\ DOMAIN events = 1 .. n /\ DOMAIN events' = 1 .. n - 1 /\ n \in Nat \ {0}
      /\ \A i \in 1 .. n - 1 : events'[i] = events[i + 1] /\ i + 1 \in 1 .. n
      /\ events[1] = Head(events) /\ 1 \in 1 .. n
  BY HeadTailProperties, LenProperties, EmptySeq
<1>2. ASSUME NEW i \in 1 .. n - 1, NEW j \in 1 .. n - 1, i < j,
             events'[i].conn = events'[j].conn
      PROVE  events'[i].type # "Logoff" /\ events'[j].type # "Init"
  <2>1. i + 1 < j + 1 /\ i + 1 \in 1 .. n /\ j + 1 \in 1 .. n
    BY <1>1, <1>2
  <2> QED
    BY <1>1, <1>2, <2>1 DEF EventOrder
<1>3. ASSUME NEW i \in 1 .. n - 1, events'[i].conn = Head(events).conn
      PROVE  events'[i].type # "Init" /\ Head(events).type # "Logoff"
  <2>1. 1 < i + 1 /\ i + 1 \in 1 .. n
    BY <1>1, <1>3
  <2> QED
    BY <1>1, <1>3, <2>1 DEF EventOrder
<1>4. EventOrder'
  <2>1. DOMAIN events' = 1 .. n - 1
    BY <1>1
  <2> QED
    BY <1>2, <2>1 DEF EventOrder
<1>5. ASSUME NEW f \in Range(events'), f.conn = Head(events).conn
      PROVE  f.type # "Init" /\ Head(events).type # "Logoff"
  <2>1. PICK i \in 1 .. n - 1 : f = events'[i]
    BY <1>1 DEF Range
  <2> QED
    BY <1>3, <1>5, <2>1
<1> QED
  BY <1>4, <1>5

-----------------------------------------------------------------------------
(* The life of a connection                                                *)

(* What a step leaves alone for connection d; its entries may go.          *)
Alone(d) ==
  /\ rpc'[d] = rpc[d] /\ spc'[d] = spc[d] /\ h'[d] = h[d] /\ late'[d] = late[d]
  /\ err'[d] = err[d]
  /\ \A e : e.conn = d => (e \in Range(events) <=> e \in Range(events'))
  /\ \A ch, x : Entry(ch, x, d)' => Entry(ch, x, d)

(* Being registered is having an entry.                                    *)
LEMMA RegisteredEntry ==
  ASSUME NEW c
  PROVE  Registered(c) <=> \E ch, x : Entry(ch, x, c)
BY DEF Registered, Entry

(* A connection that a step does not touch keeps its life cycle.           *)
LEMMA AloneLife ==
  ASSUME NEW d \in Conn, Life(d), Alone(d)
  PROVE  Life(d)'
<1>1. Stages(d)'
  BY DEF Life, Stages, Alone
<1>2. OneHash(d)'
  BY DEF Life, OneHash, Alone
<1>3. Owned(d)'
  <2>1. Registered(d)' => Registered(d)
    BY RegisteredEntry DEF Alone, Registered, Entry
  <2>2. Present(d)' => Present(d)
    BY <2>1 DEF Present, Alone
  <2>3. LeavePending(d) => LeavePending(d)'
    BY DEF LeavePending, Alone
  <2> QED
    BY <2>2, <2>3 DEF Life, Owned, Alone
<1> QED
  BY <1>1, <1>2, <1>3 DEF Life

(* A step of connection c's tasks leaves the other connections alone.      *)
LEMMA ConnFrame ==
  ASSUME TypeOK, NEW c \in Conn, Peer(c) \/ Receiver(c) \/ Pinger(c) \/ Sender(c)
  PROVE  /\ UNCHANGED ch_db
         /\ \A d \in Conn \ {c} : Alone(d)
<1> DEFINE Own(f, g) == g = f \/ \E v : g = [f EXCEPT ![c] = v]
           Frame5 == Own(rpc, rpc') /\ Own(spc, spc') /\ Own(h, h') /\ Own(late, late') /\ Own(err, err')
           Adds == events' = events \/ \E e \in Event : e.conn = c /\ events' = Append(events, e)
<1>1. UNCHANGED ch_db
  BY DEF Peer, Receiver, PeerLost, RxFirstInvalid, RxFirstRefused, RxFirstHeader,
     RxFirstEnd, RxConfirmed, RxRejected, RxLeave, RxStreamEnd, RxCloseFrame,
     RxFrameWhenClosed, RxPong, RxData, Pinger, PingStart, PingTick, PingSent, PingStop,
     Sender, TxNext, TxDrained, TxWritten, TxFailed, TxClosed, TxLoggedOff, loopVars
<1>2. Frame5
  <2>1. CASE Peer(c) \/ Receiver(c)
    BY <2>1 DEF Peer, Receiver, PeerLost, RxFirstInvalid, RxFirstRefused, RxFirstHeader,
     RxFirstEnd, RxConfirmed, RxRejected, RxLeave, RxStreamEnd, RxCloseFrame,
     RxFrameWhenClosed, RxPong, RxData, chanVars
  <2>2. CASE Pinger(c) \/ Sender(c)
    BY <2>2 DEF Pinger, PingStart, PingTick, PingSent, PingStop,
     Sender, TxNext, TxDrained, TxWritten, TxFailed, TxClosed, TxLoggedOff, TxDrop, chanVars
  <2> QED
    BY <2>1, <2>2
<1>3. Adds
  <2>1. ASSUME NEW hdr \in Header, RxFirstHeader(c, hdr) PROVE Adds
    <3>1. [type |-> "Init", conn |-> c, h |-> HashHeader(hdr), n |-> 0] \in Event
      BY HashHeaderType DEF Event
    <3> QED
      BY <2>1, <3>1 DEF RxFirstHeader, Enqueue
  <2>2. CASE RxData(c)
    <3>1. [type |-> "Msg", conn |-> c, h |-> h[c], n |-> sent[c] + 1] \in Event
      <4>1. h[c] # NoHash
        BY <2>2 DEF RxData
      <4>2. h[c] \in Header /\ sent[c] + 1 \in Nat
        BY <4>1 DEF TypeOK, TasksOK
      <4> QED
        BY <4>2 DEF Event
    <3> QED
      BY <2>2, <3>1 DEF RxData, Enqueue
  <2>3. CASE TxClosed(c) /\ h[c] # NoHash
    <3>1. [type |-> "Logoff", conn |-> c, h |-> h[c], n |-> 0] \in Event
      BY <2>3 DEF Event, TypeOK, TasksOK
    <3> QED
      BY <2>3, <3>1 DEF TxClosed, Enqueue
  <2>4. CASE TxClosed(c) /\ h[c] = NoHash
    BY <2>4 DEF TxClosed
  <2> QED
    BY <2>1, <2>2, <2>3, <2>4 DEF Peer, Receiver, PeerLost, RxFirstInvalid, RxFirstRefused,
     RxFirstEnd, RxConfirmed, RxRejected, RxLeave, RxStreamEnd, RxCloseFrame,
     RxFrameWhenClosed, RxPong, Pinger, PingStart, PingTick, PingSent, PingStop,
     Sender, TxNext, TxDrained, TxWritten, TxFailed, TxLoggedOff, TxDrop, chanVars
<1>4. ASSUME NEW d \in Conn \ {c} PROVE Alone(d)
  <2>1. /\ rpc'[d] = rpc[d] /\ spc'[d] = spc[d] /\ h'[d] = h[d] /\ late'[d] = late[d]
        /\ err'[d] = err[d]
    BY <1>2, <1>4 DEF TypeOK, QueuesOK, TasksOK
  <2>2. \A e : e.conn = d => (e \in Range(events) <=> e \in Range(events'))
    <3>1. CASE events' = events
      BY <3>1
    <3>2. ASSUME NEW f \in Event, f.conn = c, events' = Append(events, f)
          PROVE  \A e : e.conn = d => (e \in Range(events) <=> e \in Range(events'))
      <4>1. Range(events') = Range(events) \cup {f}
        BY <3>2, RangeAppend DEF TypeOK, QueuesOK
      <4> QED
        BY <3>2, <4>1, <1>4
    <3> QED
      BY <1>3, <3>1, <3>2
  <2>3. \A ch, x : Entry(ch, x, d)' => Entry(ch, x, d)
    BY <1>1 DEF Entry
  <2> QED
    BY <2>1, <2>2, <2>3 DEF Alone
<1> QED
  BY <1>1, <1>4

(* The steps that send no event.                                           *)
LEMMA SilentLife ==
  ASSUME TypeOK, NEW c \in Conn, Life(c), UNCHANGED <<events, ch_db, late>>,
         \/ PeerLost(c) \/ RxPong(c) \/ Pinger(c) \/ RxFirstInvalid(c) \/ RxLeave(c)
         \/ \E hdr \in Header : RxFirstRefused(c, hdr)
         \/ Receiver(c) \/ (Sender(c) /\ ~TxClosed(c)) \/ (TxClosed(c) /\ h[c] = NoHash)
  PROVE  Life(c)'
<1>0. /\ rpc \in [Conn -> {"first", "awaitErr", "loop", "done"}]
      /\ spc \in [Conn -> {"recv", "write", "closing", "logoff", "done"}]
      /\ h \in [Conn -> Header \cup {NoHash}]
  BY DEF TypeOK, TasksOK
<1>1. /\ Registered(c)' <=> Registered(c)
      /\ Present(c)' <=> Present(c)
      /\ LeavePending(c)' <=> LeavePending(c)
      /\ \A ch, x : Entry(ch, x, c)' <=> Entry(ch, x, c)
  BY DEF Registered, Present, LeavePending, Entry
<1>a. Stages(c) /\ OneHash(c) /\ Owned(c)
  BY DEF Life
<1>b. ASSUME err'[c] = err[c], h'[c] = h[c] \/ h'[c] = NoHash
      PROVE  OneHash(c)'
  <2>1. \A e \in Range(events') : e.conn = c =>
          /\ h'[c] # NoHash => e.h = h'[c]
          /\ \A f \in Range(events') : f.conn = c => f.h = e.h
    BY <1>a, <1>b DEF OneHash
  <2>2. \A ch \in Channels, x \in Header : Entry(ch, x, c)' =>
          /\ err'[c] = "confirmed"
          /\ x.channel = ch
          /\ h'[c] # NoHash => x = h'[c]
          /\ \A e \in Range(events') : e.conn = c => e.h = x
    BY <1>1, <1>a, <1>b DEF OneHash
  <2> QED
    BY <2>1, <2>2 DEF OneHash
<1>2. ASSUME err'[c] = err[c], h'[c] = h[c], spc'[c] = spc[c], rpc'[c] = rpc[c] \/ rpc'[c] # "first"
      PROVE  Life(c)'
  <2>1. Stages(c)'
    BY <1>a, <1>2 DEF Stages
  <2>2. Owned(c)'
    BY <1>1, <1>a, <1>2 DEF Owned
  <2> QED
    BY <1>b, <1>2, <2>1, <2>2 DEF Life
<1>3. CASE PeerLost(c) \/ RxPong(c) \/ Pinger(c)
  BY <1>2, <1>3 DEF PeerLost, RxPong, Pinger, PingStart, PingTick, PingSent, PingStop, chanVars
<1>4. CASE RxFirstInvalid(c) \/ RxLeave(c) \/ RxFirstEnd(c) \/ RxConfirmed(c)
  BY <1>0, <1>2, <1>4 DEF RxFirstInvalid, RxLeave, RxFirstEnd, RxConfirmed, chanVars
<1>5. ASSUME NEW hdr \in Header, RxFirstRefused(c, hdr) PROVE Life(c)'
  <2>1. err[c] = "held" /\ err' = err /\ rpc'[c] = "done" /\ spc' = spc
    BY <1>0, <1>5 DEF RxFirstRefused, chanVars, Life, Stages
  <2>2. (\A e \in Range(events) : e.conn # c) /\ (\A ch \in Channels, x \in Header : ~Entry(ch, x, c))
    BY <1>5, <2>1 DEF RxFirstRefused, Life, Stages, OneHash
  <2>3. ~Present(c)
    <3>1. ~Registered(c)
      BY <2>2 DEF Registered, Entry, TypeOK, TablesOK, IsTable, IsMap
    <3> QED
      BY <2>2, <3>1 DEF Present
  <2>4. Stages(c)'
    BY <1>a, <2>1, <2>2 DEF Stages
  <2>5. OneHash(c)'
    BY <1>1, <2>2 DEF OneHash
  <2>6. Owned(c)'
    BY <1>1, <2>3 DEF Owned
  <2> QED
    BY <2>4, <2>5, <2>6 DEF Life
<1>6. CASE RxRejected(c)
  <2>1. err[c] = "dropped" /\ err' = err /\ rpc'[c] = "done" /\ spc' = spc /\ h'[c] = NoHash
    BY <1>0, <1>6 DEF RxRejected
  <2>2. /\ \A e \in Range(events) : e.conn = c => e.type # "Init"
        /\ \A ch \in Channels, x \in Header : ~Entry(ch, x, c)
    BY <2>1 DEF Life, Stages, OneHash
  <2>3. ~Present(c)
    <3>1. ~Registered(c)
      BY <2>2 DEF Registered, Entry, TypeOK, TablesOK, IsTable, IsMap
    <3> QED
      BY <2>2, <3>1 DEF Present
  <2>4. Stages(c)'
    BY <1>a, <2>1 DEF Stages
  <2>5. Owned(c)'
    BY <1>1, <2>3 DEF Owned
  <2> QED
    BY <1>b, <2>1, <2>4, <2>5 DEF Life
<1>7. CASE RxStreamEnd(c)
  BY <1>4, <1>7 DEF RxStreamEnd
<1>8. ASSUME spc[c] \notin {"logoff", "done"}, spc'[c] \notin {"logoff", "done"},
             UNCHANGED <<rpc, err, h>>
      PROVE  Life(c)'
  <2>1. Stages(c)'
    BY <1>a, <1>8 DEF Stages
  <2>2. Owned(c)'
    BY <1>1, <1>a, <1>8 DEF Owned
  <2> QED
    BY <1>b, <1>8, <2>1, <2>2 DEF Life
<1>9. CASE TxNext(c) \/ TxDrained(c) \/ TxWritten(c) \/ TxFailed(c)
  <2>1. spc[c] \notin {"logoff", "done"} /\ UNCHANGED <<rpc, err, h>>
    BY <1>9 DEF TxNext, TxDrained, TxWritten, TxFailed, chanVars
  <2>2. spc'[c] \notin {"logoff", "done"}
    BY <1>0, <1>9 DEF TxNext, TxDrained, TxWritten, TxFailed
  <2> QED
    BY <1>8, <2>1, <2>2
<1>10. CASE TxClosed(c) /\ h[c] = NoHash
  <2>1. spc[c] = "closing" /\ spc'[c] = "done" /\ UNCHANGED <<rpc, err, h>>
    BY <1>0, <1>10 DEF TxClosed, TxDrop
  <2>2. ~Present(c)
    BY <1>10, <2>1 DEF Life, Owned
  <2>3. Stages(c)'
    BY <1>a, <2>1 DEF Stages
  <2>4. Owned(c)'
    BY <1>1, <2>2 DEF Owned
  <2> QED
    BY <1>b, <2>1, <2>3, <2>4 DEF Life
<1>11. CASE TxLoggedOff(c)
  <2>1. /\ spc[c] = "logoff" /\ spc'[c] = "done" /\ h'[c] = NoHash /\ UNCHANGED <<rpc, err>>
    BY <1>0, <1>11 DEF TxLoggedOff, TxDrop
  <2>2. Stages(c)'
    BY <1>a, <2>1 DEF Stages
  <2>3. Owned(c)'
    BY <1>1, <1>a, <2>1 DEF Owned
  <2> QED
    BY <1>b, <2>1, <2>2, <2>3 DEF Life
<1> QED
  BY <1>3, <1>4, <1>5, <1>6, <1>7, <1>9, <1>10, <1>11 DEF Receiver, Sender

(* The steps that send one.                                                *)
LEMMA SendingLife ==
  ASSUME IInv, NEW c \in Conn, UNCHANGED ch_db,
         \/ \E hdr \in Header : RxFirstHeader(c, hdr)
         \/ RxData(c)
         \/ TxClosed(c) /\ h[c] # NoHash
  PROVE  EventOrder' /\ Life(c)'
<1>0. /\ rpc \in [Conn -> {"first", "awaitErr", "loop", "done"}]
      /\ spc \in [Conn -> {"recv", "write", "closing", "logoff", "done"}]
      /\ h \in [Conn -> Header \cup {NoHash}]
      /\ err \in [Conn -> {"held", "queued", "confirmed", "dropped"}]
      /\ late \in [Conn -> BOOLEAN]
      /\ events \in Seq(Event)
      /\ EventOrder /\ Closing(c) /\ Stages(c) /\ OneHash(c) /\ Owned(c)
  BY DEF IInv, Life, TypeOK, QueuesOK, TasksOK
<1>1. /\ Registered(c)' <=> Registered(c)
      /\ \A ch, x : Entry(ch, x, c)' <=> Entry(ch, x, c)
  BY DEF Registered, Entry
<1>a. ASSUME NEW e \in Event, events' = Append(events, e)
      PROVE  Range(events') = Range(events) \cup {e}
  <2>1. events \in Seq(Event)
    BY <1>0
  <2> QED
    BY <1>a, <2>1, RangeAppend
<1>b. ASSUME NEW e, e.conn = c, e.h = h[c], Range(events') = Range(events) \cup {e},
             h[c] # NoHash, h'[c] = h[c], err'[c] = err[c]
      PROVE  OneHash(c)'
  <2>1. \A f \in Range(events) : f.conn = c => f.h = h[c]
    BY <1>0, <1>b DEF OneHash
  <2>2. \A f \in Range(events') : f.conn = c => f.h = h[c]
    BY <1>b, <2>1
  <2>3. \A ch \in Channels, x \in Header : Entry(ch, x, c) =>
          err[c] = "confirmed" /\ x.channel = ch /\ x = h[c]
    BY <1>0, <1>b DEF OneHash
  <2>4. \A ch \in Channels, x \in Header : Entry(ch, x, c)' =>
          err'[c] = "confirmed" /\ x.channel = ch /\ x = h[c]
    BY <1>1, <1>b, <2>3
  <2> QED
    BY <1>b, <2>2, <2>4 DEF OneHash
<1>2. ASSUME NEW hdr \in Header, RxFirstHeader(c, hdr) PROVE EventOrder' /\ Life(c)'
  <2> DEFINE e == [type |-> "Init", conn |-> c, h |-> HashHeader(hdr), n |-> 0]
  <2>1. /\ e \in Event /\ events' = Append(events, e) /\ rpc[c] = "first" /\ rpc'[c] = "awaitErr"
        /\ err'[c] = "queued" /\ h'[c] = HashHeader(hdr) /\ spc' = spc
        /\ late'[c] = (spc[c] = "done")
    BY <1>0, <1>2, HashHeaderType DEF RxFirstHeader, Enqueue, Event
  <2>2. /\ e.conn = c /\ e.type = "Init" /\ e.h = HashHeader(hdr)
        /\ Range(events') = Range(events) \cup {e}
    BY <1>a, <2>1
  <2>3. /\ \A f \in Range(events) : f.conn # c
        /\ err[c] = "held" /\ spc[c] # "logoff"
        /\ \A ch \in Channels, x \in Header : ~Entry(ch, x, c)
    BY <1>0, <2>1 DEF Stages, OneHash
  <2> HIDE DEF e
  <2>4. EventOrder'
    BY <1>0, <2>1, <2>2, <2>3, AppendOrder
  <2>5. HashHeader(hdr) # NoHash
    BY HashHeaderType, LoopAssumption
  <2>6. Stages(c)'
    BY <2>1, <2>2, <2>3 DEF Stages
  <2>7. OneHash(c)'
    BY <1>1, <2>1, <2>2, <2>3 DEF OneHash
  <2>8. Owned(c)'
    BY <2>1, <2>3, <2>5 DEF Owned
  <2> QED
    BY <2>4, <2>6, <2>7, <2>8 DEF Life
<1>3. CASE RxData(c)
  <2> DEFINE e == [type |-> "Msg", conn |-> c, h |-> h[c], n |-> sent[c] + 1]
  <2>1. /\ e \in Event /\ events' = Append(events, e) /\ rpc[c] = "loop" /\ ~is_closed[c]
        /\ h[c] # NoHash /\ UNCHANGED <<rpc, spc, h, err, late>>
    <3>1. /\ rpc[c] = "loop" /\ ~is_closed[c] /\ h[c] # NoHash /\ UNCHANGED <<rpc, spc, h, err, late>>
          /\ events' = Append(events, e)
      BY <1>3 DEF RxData, Reading, Enqueue
    <3>2. sent[c] + 1 \in Nat
      BY DEF IInv, TypeOK, TasksOK
    <3>3. h[c] \in Header
      BY <1>0, <3>1
    <3>4. e \in Event
      BY <3>2, <3>3 DEF Event
    <3> QED
      BY <3>1, <3>4
  <2>2. /\ e.conn = c /\ e.type = "Msg" /\ e.h = h[c]
        /\ Range(events') = Range(events) \cup {e}
    BY <1>a, <2>1
  <2> HIDE DEF e
  <2>3. \A f \in Range(events) : f.conn = c => f.type # "Logoff"
    BY <1>0, <2>1 DEF Stages, Closing
  <2>4. EventOrder'
    BY <1>0, <2>1, <2>2, <2>3, AppendOrder
  <2>5. Stages(c)'
    BY <1>0, <2>1, <2>2 DEF Stages
  <2>6. OneHash(c)'
    BY <1>b, <2>1, <2>2
  <2>7. Owned(c)'
    <3>1. Present(c)' => Present(c)
      BY <1>1, <2>2 DEF Present
    <3>2. LeavePending(c) => LeavePending(c)'
      BY <2>2 DEF LeavePending
    <3> QED
      BY <1>0, <2>1, <3>1, <3>2 DEF Owned
  <2> QED
    BY <2>4, <2>5, <2>6, <2>7 DEF Life
<1>4. CASE TxClosed(c) /\ h[c] # NoHash
  <2> DEFINE e == [type |-> "Logoff", conn |-> c, h |-> h[c], n |-> 0]
  <2>1. /\ e \in Event /\ events' = Append(events, e) /\ spc[c] = "closing" /\ spc'[c] = "logoff"
        /\ h[c] # NoHash /\ UNCHANGED <<rpc, h, err, late>>
    BY <1>0, <1>4 DEF TxClosed, Enqueue, Event
  <2>2. /\ e.conn = c /\ e.type = "Logoff" /\ e.h = h[c]
        /\ Range(events') = Range(events) \cup {e}
    BY <1>a, <2>1
  <2> HIDE DEF e
  <2>3. \A f \in Range(events) : f.conn = c => f.type # "Logoff"
    BY <1>0, <2>1 DEF Stages
  <2>4. EventOrder'
    BY <1>0, <2>1, <2>2, <2>3, AppendOrder
  <2>5. Stages(c)'
    BY <1>0, <2>1, <2>2 DEF Stages
  <2>6. OneHash(c)'
    BY <1>b, <2>1, <2>2
  <2>7. Owned(c)'
    BY <2>1, <2>2 DEF Owned, LeavePending
  <2> QED
    BY <2>4, <2>5, <2>6, <2>7 DEF Life
<1> QED
  BY <1>2, <1>3, <1>4

(* A step of a connection keeps every life cycle.                          *)
LEMMA ConnLife ==
  ASSUME IInv, NEW c \in Conn, Peer(c) \/ Receiver(c) \/ Pinger(c) \/ Sender(c)
  PROVE  EventOrder' /\ \A d \in Conn : Life(d)'
<1>1. UNCHANGED ch_db /\ \A d \in Conn \ {c} : Life(d)'
  BY ConnFrame, AloneLife DEF IInv
<1>2. CASE \/ \E hdr \in Header : RxFirstHeader(c, hdr)
           \/ RxData(c)
           \/ TxClosed(c) /\ h[c] # NoHash
  BY <1>1, <1>2, SendingLife
<1>3. CASE \/ PeerLost(c) \/ RxPong(c) \/ Pinger(c) \/ RxFirstInvalid(c) \/ RxLeave(c)
           \/ \E hdr \in Header : RxFirstRefused(c, hdr)
           \/ Receiver(c) \/ (Sender(c) /\ ~TxClosed(c)) \/ (TxClosed(c) /\ h[c] = NoHash)
  <2>1. UNCHANGED <<events, late>>
    BY <1>3 DEF Receiver, PeerLost, RxFirstInvalid, RxFirstRefused,
     RxFirstEnd, RxConfirmed, RxRejected, RxLeave, RxStreamEnd,
     RxPong, Pinger, PingStart, PingTick, PingSent, PingStop,
     Sender, TxNext, TxDrained, TxWritten, TxFailed, TxClosed, TxLoggedOff, chanVars
  <2>2. Life(c)'
    BY <1>1, <1>3, <2>1, SilentLife DEF IInv
  <2> QED
    BY <1>1, <2>1, <2>2 DEF IInv, EventOrder
<1> QED
  BY <1>2, <1>3 DEF Peer, Receiver, Sender, RxCloseFrame, RxFrameWhenClosed

(* What InitJoin and Logoff do to the entries of ch_db.                    *)
LEMMA PutEntry ==
  ASSUME NEW k, NEW y, NEW v, ch_db' = Put(ch_db, k, Put(UidDb(k), y, v)),
         NEW ch, NEW x, NEW d, Entry(ch, x, d)'
  PROVE  Entry(ch, x, d) \/ (ch = k /\ x = y /\ d = v)
<1>1. CASE ch # k
  BY <1>1 DEF Entry, Put
<1>2. CASE ch = k
  <2>1. ch_db'[k] = Put(UidDb(k), y, v)
    BY DEF Put
  <2>2. x \in DOMAIN UidDb(k) \cup {y} /\ d = (IF x = y THEN v ELSE UidDb(k)[x])
    BY <1>2, <2>1 DEF Entry, Put
  <2> QED
    BY <1>2, <2>2 DEF Entry, UidDb
<1> QED
  BY <1>1, <1>2

(* The Logoff handler adds no entry and leaves none under its hash.        *)
LEMMA RemoveEntry ==
  ASSUME NEW k, NEW y, ch_db' = RemoveUid(k, y), NEW ch, NEW x, NEW d, Entry(ch, x, d)'
  PROVE  Entry(ch, x, d) /\ ~(ch = k /\ x = y)
<1>1. CASE k \notin DOMAIN ch_db
  BY <1>1 DEF RemoveUid, Entry
<1>2. CASE k \in DOMAIN ch_db /\ DOMAIN ch_db[k] \ {y} = {}
  BY <1>2 DEF RemoveUid, Entry, Del
<1>3. CASE k \in DOMAIN ch_db /\ DOMAIN ch_db[k] \ {y} # {}
  <2>1. ch_db' = Put(ch_db, k, Del(ch_db[k], y))
    BY <1>3 DEF RemoveUid
  <2>2. CASE ch # k
    BY <2>1, <2>2 DEF Put, Entry
  <2>3. CASE ch = k
    <3>1. ch_db'[k] = Del(ch_db[k], y)
      BY <2>1 DEF Put
    <3> QED
      BY <1>3, <2>3, <3>1 DEF Del, Entry
  <2> QED
    BY <2>2, <2>3
<1> QED
  BY <1>1, <1>2, <1>3

(* An event is taken: the other connections' events stay, and of the       *)
(* sender's own only those that EventOrder allows.                         *)
LEMMA TakeEvents ==
  ASSUME IInv, NEW type, Take(type)
  PROVE  /\ EventOrder'
         /\ Head(events) \in Event /\ Head(events) \in Range(events) /\ Head(events).type = type
         /\ Range(events') \subseteq Range(events)
         /\ \A e \in Range(events) : e # Head(events) => e \in Range(events')
         /\ \A e \in Range(events') :
              e.conn = Head(events).conn => e.type # "Init" /\ type # "Logoff"
<1>1. /\ TypeOK /\ EventOrder /\ events \in Seq(Event) /\ events # <<>>
      /\ Head(events) \in Event /\ Head(events).type = type /\ events' = Tail(events)
  BY TakeType DEF IInv, TypeOK, QueuesOK
<1>2. /\ Range(events) = Range(events') \cup {Head(events)}
      /\ Range(events') \subseteq Range(events)
  BY <1>1, RangeTail
<1>3. /\ EventOrder'
      /\ \A f \in Range(events') :
           f.conn = Head(events).conn => f.type # "Init" /\ Head(events).type # "Logoff"
  BY <1>1, TailOrder
<1> QED
  BY <1>1, <1>2, <1>3

(* A step of the event loop keeps every life cycle.                        *)
LEMMA LoopLife ==
  ASSUME IInv, Loop \/ Time
  PROVE  EventOrder' /\ \A d \in Conn : Life(d)'
<1>0. UNCHANGED <<rpc, spc, h, late>>
  BY DEF Loop, Time, connVars
<1>1. ASSUME UNCHANGED <<events, err, ch_db>>
      PROVE  EventOrder' /\ \A d \in Conn : Life(d)'
  <2>1. EventOrder'
    BY <1>1 DEF IInv, EventOrder
  <2>2. ASSUME NEW d \in Conn PROVE Alone(d)
    BY <1>0, <1>1 DEF Alone, Entry
  <2> QED
    BY <2>1, <2>2, AloneLife DEF IInv
<1> DEFINE Takes == InitJoin \/ InitDuplicate \/ MsgTake \/ MsgDropped \/ Logoff
<1>a. CASE ~Takes
  <2>1. UNCHANGED <<events, err, ch_db>>
    BY <1>a DEF Loop, LoopStep, Time, ReplaySend, InitDone, BroadcastSend, BroadcastDone,
       Cleanup, Clock, chanVars, loopVars
  <2> QED
    BY <1>1, <2>1
<1>b. ASSUME Takes PROVE \E type \in {"Init", "Msg", "Logoff"} : Take(type)
  BY <1>b DEF InitJoin, InitDuplicate, MsgTake, MsgDropped, Logoff
<1>2. SUFFICES ASSUME NEW type \in {"Init", "Msg", "Logoff"}, Take(type), Takes
               PROVE  EventOrder' /\ \A d \in Conn : Life(d)'
  BY <1>a, <1>b
<1>3. PICK e \in Event : e = Head(events)
  BY <1>2, TakeEvents
<1>4. PICK c \in Conn : c = e.conn
  BY <1>3, MsgOfType
<1>5. /\ EventOrder' /\ e \in Range(events) /\ e.type = type /\ e.h \in Header
      /\ Range(events') \subseteq Range(events)
      /\ \A f \in Range(events) : f # e => f \in Range(events')
      /\ \A f \in Range(events') : f.conn = c => f.type # "Init" /\ type # "Logoff"
  BY <1>2, <1>3, <1>4, TakeEvents, MsgOfType
<1>6. Stages(c) /\ OneHash(c) /\ Owned(c)
  BY DEF IInv, Life
<1>c. /\ \A f \in Range(events) : f.conn = c => f.h = e.h
      /\ h[c] # NoHash => e.h = h[c]
  BY <1>4, <1>5, <1>6 DEF OneHash
<1>d. \A ch \in Channels, x \in Header : Entry(ch, x, c) =>
        err[c] = "confirmed" /\ x.channel = ch /\ x = e.h
  BY <1>4, <1>5, <1>6 DEF OneHash
<1>e. ASSUME \A ch \in Channels, x \in Header : Entry(ch, x, c)' =>
               err'[c] = "confirmed" /\ x.channel = ch /\ x = e.h
      PROVE  OneHash(c)'
  <2>1. h'[c] # NoHash => e.h = h'[c]
    BY <1>0, <1>c
  <2>2. \A f \in Range(events') : f.conn = c => f.h = e.h
    BY <1>5, <1>c
  <2> QED
    BY <1>e, <2>1, <2>2 DEF OneHash
<1>7. ASSUME NEW d \in Conn, d # c, err'[d] = err[d],
             \A ch, x : Entry(ch, x, d)' => Entry(ch, x, d)
      PROVE  Life(d)'
  <2>1. \A f : f.conn = d => (f \in Range(events) <=> f \in Range(events'))
    BY <1>4, <1>5, <1>7
  <2>2. Alone(d)
    BY <1>0, <1>7, <2>1 DEF Alone
  <2> QED
    BY <2>2, AloneLife DEF IInv
<1>8. type = "Init" => rpc[c] # "first" /\ err[c] = "queued"
  BY <1>4, <1>5, <1>6 DEF Stages
<1>9. type # "Logoff" => (LeavePending(c) => LeavePending(c)')
  BY <1>4, <1>5 DEF LeavePending
<1>10. CASE InitJoin
  <2>1. /\ type = "Init" /\ ch_db' = Put(ch_db, e.h.channel, Put(UidDb(e.h.channel), e.h, c))
        /\ err' = [err EXCEPT ![c] = "confirmed"]
    BY <1>2, <1>3, <1>4, <1>10 DEF InitJoin, Take
  <2>2. err'[c] = "confirmed" /\ \A d \in Conn : d # c => err'[d] = err[d]
    BY <2>1 DEF IInv, TypeOK, QueuesOK
  <2>3. \A ch, x, d : Entry(ch, x, d)' => Entry(ch, x, d) \/ (ch = e.h.channel /\ x = e.h /\ d = c)
    BY <2>1, PutEntry
  <2>4. \A ch \in Channels, x \in Header : Entry(ch, x, c)' => ch = e.h.channel /\ x = e.h
    BY <1>6, <1>8, <2>1, <2>3 DEF OneHash
  <2>5. Stages(c)'
    BY <1>0, <1>5, <1>6, <1>8, <2>1 DEF Stages
  <2>6. OneHash(c)'
    BY <1>e, <2>2, <2>4
  <2>7. Owned(c)'
    BY <1>0, <1>4, <1>5, <1>6, <1>9, <2>1 DEF Owned, Present
  <2>8. \A d \in Conn : d # c => Life(d)'
    BY <1>7, <2>2, <2>3
  <2> QED
    BY <1>5, <2>5, <2>6, <2>7, <2>8 DEF Life
<1>11. CASE InitDuplicate
  <2>1. type = "Init" /\ UNCHANGED ch_db /\ err' = [err EXCEPT ![c] = "dropped"]
    BY <1>2, <1>3, <1>4, <1>11 DEF InitDuplicate, Take, loopVars
  <2>2. \A d \in Conn : d # c => err'[d] = err[d]
    BY <2>1 DEF IInv, TypeOK, QueuesOK
  <2>3. \A ch, x, d : Entry(ch, x, d)' <=> Entry(ch, x, d)
    BY <2>1 DEF Entry
  <2>4. \A ch \in Channels, x \in Header : ~Entry(ch, x, c)
    BY <1>6, <1>8, <2>1 DEF OneHash
  <2>5. ~Registered(c) /\ ~Registered(c)'
    BY <2>1, <2>4 DEF Registered, Entry, IInv, TypeOK, TablesOK, IsTable, IsMap
  <2>6. Stages(c)'
    BY <1>0, <1>5, <1>6, <1>8, <2>1 DEF Stages
  <2>7. OneHash(c)'
    BY <1>e, <2>3, <2>4
  <2>8. Owned(c)'
    BY <1>5, <2>5 DEF Owned, Present
  <2>9. \A d \in Conn : d # c => Life(d)'
    BY <1>7, <2>2, <2>3
  <2> QED
    BY <1>5, <2>6, <2>7, <2>8, <2>9 DEF Life
<1>12. CASE MsgTake \/ MsgDropped
  <2>1. type = "Msg" /\ UNCHANGED <<ch_db, err>>
    BY <1>2, <1>12 DEF MsgTake, MsgDropped, Take, loopVars
  <2>2. (\A ch, x, d : Entry(ch, x, d)' <=> Entry(ch, x, d)) /\ (Registered(c)' <=> Registered(c))
    BY <2>1 DEF Entry, Registered
  <2>3. Stages(c)'
    BY <1>0, <1>5, <1>6, <2>1 DEF Stages
  <2>4. OneHash(c)'
    BY <1>e, <1>d, <2>1, <2>2
  <2>5. Owned(c)'
    BY <1>0, <1>5, <1>6, <1>9, <2>1, <2>2 DEF Owned, Present
  <2>6. \A d \in Conn : d # c => Life(d)'
    BY <1>7, <2>1, <2>2
  <2> QED
    BY <1>5, <2>3, <2>4, <2>5, <2>6 DEF Life
<1>13. CASE Logoff
  <2>1. type = "Logoff" /\ ch_db' = RemoveUid(e.h.channel, e.h) /\ UNCHANGED err
    BY <1>2, <1>3, <1>13 DEF Logoff, Take
  <2>2. \A ch, x, d : Entry(ch, x, d)' => Entry(ch, x, d) /\ ~(ch = e.h.channel /\ x = e.h)
    BY <2>1, RemoveEntry
  <2>3. \A f \in Range(events') : f.conn # c
    BY <1>5, <2>1
  <2>4. \A ch \in Channels, x \in Header : ~Entry(ch, x, c)'
    BY <1>d, <2>2
  <2>5. ~Registered(c)'
    <3>1. TypeOK'
      BY <1>2, NextType DEF IInv, Next
    <3> QED
      BY <2>4, <3>1 DEF Registered, Entry, TypeOK, TablesOK, IsTable, IsMap
  <2>6. Stages(c)' /\ OneHash(c)' /\ Owned(c)'
    BY <1>0, <1>6, <2>1, <2>3, <2>4, <2>5 DEF Stages, OneHash, Owned, Present
  <2>7. \A d \in Conn : d # c => Life(d)'
    BY <1>7, <2>1, <2>2
  <2> QED
    BY <1>5, <2>6, <2>7 DEF Life
<1> QED
  BY <1>2, <1>10, <1>11, <1>12, <1>13

(* The inductive invariant holds initially.                                *)
LEMMA InitIInv == Init => IInv
<1> SUFFICES ASSUME Init PROVE IInv
  OBVIOUS
<1>1. /\ events = <<>> /\ ch_db = <<>> /\ err = [c \in Conn |-> "held"]
      /\ rpc = [c \in Conn |-> "first"] /\ spc = [c \in Conn |-> "recv"]
      /\ h = [c \in Conn |-> NoHash]
  BY DEF Init, LoopInit, ConnInit
<1>2. Range(events) = {} /\ DOMAIN events = {} /\ DOMAIN ch_db = {}
  BY <1>1 DEF Range
<1>3. EventOrder
  BY <1>2 DEF EventOrder
<1>4. \A c \in Conn : Life(c)
  BY <1>1, <1>2 DEF Life, Stages, OneHash, Owned, Present, Registered, Entry
<1> QED
  BY <1>3, <1>4, InitType, InitClosing DEF IInv

(* Every step keeps the inductive invariant.                               *)
LEMMA NextIInv == IInv /\ [Next]_vars => IInv'
<1> SUFFICES ASSUME IInv, [Next]_vars PROVE IInv'
  OBVIOUS
<1>1. TypeOK' /\ \A c \in Conn : Closing(c)'
  BY NextType, NextClosing DEF IInv
<1>2. EventOrder' /\ \A c \in Conn : Life(c)'
  <2>1. CASE UNCHANGED vars
    <3>1. ASSUME NEW c \in Conn PROVE Alone(c)
      BY <2>1 DEF vars, chanVars, loopVars, connVars, Alone, Entry
    <3> QED
      BY <2>1, <3>1, AloneLife DEF IInv, EventOrder, vars, chanVars
  <2>2. CASE Next
    BY <2>2, LoopLife, ConnLife DEF Next
  <2> QED
    BY <2>1, <2>2
<1> QED
  BY <1>1, <1>2 DEF IInv

(* The event loop sees the events of every connection in the order Init,   *)
(* Msg, Logoff, although two of the connection's tasks send them and each  *)
(* may have to wait for its place in the queue.                            *)
THEOREM EventsInOrder == Spec => []EventOrder
<1>1. IInv => EventOrder
  BY DEF IInv
<1> QED
  BY <1>1, InitIInv, NextIInv, PTL DEF Spec

(* An entry of ch_db whose connection has ended is about to be removed by  *)
(* that connection's own Logoff, unless the header was read only after the *)
(* sender task had ended.                                                  *)
THEOREM NoZombies == Spec => []NoZombie
<1>1. IInv => NoZombie
  <2> SUFFICES ASSUME IInv, NEW c \in Conn, Registered(c), spc[c] = "done"
               PROVE  LeavePending(c) \/ late[c]
    BY DEF NoZombie
  <2>1. Owned(c) /\ Present(c)
    BY DEF IInv, Life, Present
  <2> QED
    BY <2>1 DEF Owned
<1> QED
  BY <1>1, InitIInv, NextIInv, PTL DEF Spec
=============================================================================
