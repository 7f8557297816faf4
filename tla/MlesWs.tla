------------------------------- MODULE MlesWs -------------------------------
(***************************************************************************)
(* The websocket server: the event loop of EventLoop composed with the     *)
(* three tasks of every connection of Connection, and what the whole is    *)
(* meant to guarantee.                                                     *)
(***************************************************************************)
EXTENDS Integers, SequencesExt, Connection

vars == <<chanVars, loopVars, now, connVars>>

Init == LoopInit /\ ConnInit

(* What the client and the network decide.                                 *)
Peer(c) ==
  \/ PeerLost(c)
  \/ RxFirstInvalid(c)
  \/ \E hdr \in Header : RxFirstRefused(c, hdr) \/ RxFirstHeader(c, hdr)
  \/ RxCloseFrame(c) \/ RxPong(c) \/ RxData(c) \/ RxFrameWhenClosed(c)

(* The receiver task's other steps: it only has to be scheduled.           *)
Receiver(c) == RxFirstEnd(c) \/ RxConfirmed(c) \/ RxRejected(c) \/ RxStreamEnd(c)

Pinger(c) == PingStart(c) \/ PingTick(c) \/ PingSent(c) \/ PingStop(c)

Sender(c) ==
  TxNext(c) \/ TxDrained(c) \/ TxWritten(c) \/ TxFailed(c) \/ TxClosed(c) \/ TxLoggedOff(c)

Loop == LoopStep /\ UNCHANGED connVars
Time == (Cleanup \/ Clock) /\ UNCHANGED connVars

Next ==
  \/ Loop
  \/ Time
  \/ \E c \in Conn : Peer(c) \/ Receiver(c) \/ Pinger(c) \/ Sender(c)

Spec == Init /\ [][Next]_vars

(* The executor polls every task that can run.  For a Sender this includes *)
(* that a pending socket write resolves: the peer reads on, or the socket  *)
(* reports an error.                                                       *)
Fairness ==
  /\ WF_vars(Loop)
  /\ \A c \in Conn : WF_vars(Receiver(c)) /\ WF_vars(Pinger(c)) /\ WF_vars(Sender(c))

FairSpec == Spec /\ Fairness

-----------------------------------------------------------------------------
(* f is a partial map from S to T.                                         *)
IsMap(f, S, T) == DOMAIN f \in SUBSET S /\ f \in [DOMAIN f -> T]

(* db is a table of channels, each a map from header hashes to connections.*)
IsTable(db) ==
  /\ DOMAIN db \in SUBSET Channels
  /\ db = [ch \in DOMAIN db |-> db[ch]]
  /\ \A ch \in DOMAIN db : IsMap(db[ch], Header, Conn)

FrameSet == [by: {"loop", "rx", "ping"}, kind: {"data", "ping", "close", "none"},
             msg: Message \cup {NoMsg}]

QueuesOK ==
  /\ events \in Seq(Event)
  /\ tx2 \in [Conn -> Seq(FrameSet)]
  /\ rx2 \in [Conn -> BOOLEAN]
  /\ err \in [Conn -> {"held", "queued", "confirmed", "dropped"}]

TablesOK ==
  /\ IsTable(ch_db)
  /\ IsMap(msg_db, Channels, [messages: Seq(Message), last_activity: Nat])
  /\ phase \in {"select", "replay", "broadcast"}
  /\ cur \in Event \cup {NoHash}
  /\ (phase # "select") => cur \in Event
  /\ replay \in Seq(Message)
  /\ targets \in SUBSET Conn
  /\ now \in Nat
  /\ log \in [Channels -> Seq(Message)]
  /\ joined \in [Conn -> [h: Header \cup {NoHash}, from: Int, at: Nat]]
  /\ active \in [Channels -> Nat]

TasksOK ==
  /\ rpc \in [Conn -> {"first", "awaitErr", "loop", "done"}]
  /\ ppc \in [Conn -> {"start", "tick", "sending", "done"}]
  /\ spc \in [Conn -> {"recv", "write", "closing", "logoff", "done"}]
  /\ h \in [Conn -> Header \cup {NoHash}]
  /\ is_closed \in [Conn -> BOOLEAN]
  /\ ping_cntr \in [Conn -> Nat]
  /\ net \in [Conn -> BOOLEAN]
  /\ sent \in [Conn -> Nat]
  /\ writing \in [Conn -> Message \cup {NoMsg}]
  /\ received \in [Conn -> Seq(Message)]
  /\ late \in [Conn -> BOOLEAN]

(* Every variable of the event loop and of the connections has its type;   *)
(* the tables are partial maps, as the HashMaps of spawn_event_loop are.   *)
TypeOK == QueuesOK /\ TablesOK /\ TasksOK

-----------------------------------------------------------------------------
(* Delivery                                                                *)

(* What connection c is due: the history it found when it joined, then     *)
(* every data frame that others publish on its channel.                    *)
Due(c) ==
  LET j == joined[c]
      all == log[j.h.channel]
  IN  SubSeq(all, j.from + 1, j.at)
      \o SelectSeq(SubSeq(all, j.at + 1, Len(all)), LAMBDA m : m.n # 0 /\ m.h # j.h)

(* What is still under way to c: being written, queued for it, or about to *)
(* be queued by the handler in progress.                                   *)
UnderWay(c) ==
  LET Data(q) == SelectSeq(q, LAMBDA f : f.kind = "data")
      queue == Data(tx2[c])
  IN  (IF writing[c] = NoMsg THEN <<>> ELSE <<writing[c]>>)
      \o [i \in 1 .. Len(queue) |-> queue[i].msg]
      \o (IF phase = "replay" /\ cur.conn = c THEN replay
          ELSE IF phase = "broadcast" /\ c \in targets THEN <<MsgOf(cur)>> ELSE <<>>)

(* A joined client is given every message it is due, once and in the order *)
(* the event loop took them: while its sender task runs and it is          *)
(* registered, received plus under way is exactly what is due; at any      *)
(* other time what it received is a prefix of that.                        *)
ExactDelivery ==
  \A c \in Conn :
    IF joined[c].h = NoHash THEN received[c] = <<>>
    ELSE /\ IsPrefix(received[c], Due(c))
         /\ Registered(c) /\ spc[c] \in {"recv", "write"}
              => received[c] \o UnderWay(c) = Due(c)

(* "After joining, the Mles server distributes the value triplet between   *)
(* all clients on the same channel": once the join of d has been handled,  *)
(* every member that was there before it has d's header frame, or will be  *)
(* written it.                                                             *)
TripletDistributed ==
  \A c, d \in Conn :
    /\ phase = "select" /\ spc[c] \in {"recv", "write"}
    /\ Registered(c) /\ Registered(d)
    /\ joined[c].h # joined[d].h /\ joined[c].h.channel = joined[d].h.channel
    /\ joined[c].at < joined[d].at
    => \E m \in Range(received[c] \o UnderWay(c)) : m.conn = d /\ m.n = 0

(* A channel's history is the end of what the loop published on it, up to  *)
(* the message being handled, never longer than --limit; and until a       *)
(* clean-up can have forgotten anything, as long as --limit allows.        *)
HistoryIsRecent ==
  \A ch \in DOMAIN msg_db :
    LET busy == phase # "select" /\ cur.h.channel = ch
        settled == IF busy THEN Front(log[ch]) ELSE log[ch]
        n == Len(msg_db[ch].messages)
    IN  Limit > 0 =>
          /\ n <= Limit
          /\ IsSuffix(msg_db[ch].messages, settled)
          /\ now <= CLEANUP => n = Min({Limit, Len(settled)})

(* The clean-up only forgets a channel all of whose published messages are *)
(* older than the threshold.                                               *)
CleanupSparesActive ==
  [][\A ch \in DOMAIN msg_db : ch \notin DOMAIN msg_db' => now - active[ch] > CLEANUP]_vars

-----------------------------------------------------------------------------
(* Joining and leaving                                                     *)

(* The Logoff of c waits in the event queue.                               *)
LeavePending(c) == \E e \in Range(events) : e.conn = c /\ e.type = "Logoff"

(* When the sender task of a registered connection has ended, its Logoff   *)
(* is on the way: no entry of ch_db outlives its connection (unless the    *)
(* connection was given up before its header was read).                    *)
NoZombie ==
  \A c \in Conn : Registered(c) /\ spc[c] = "done" => LeavePending(c) \/ late[c]

(* The loop sees the events of one connection in the order Init, Msg,      *)
(* Logoff: nothing precedes an Init and nothing follows a Logoff.          *)
EventOrder ==
  \A i, j \in DOMAIN events :
    i < j /\ events[i].conn = events[j].conn
      => events[i].type # "Logoff" /\ events[j].type # "Init"

(* The sender task only leaves its loop when is_closed is set, so that the *)
(* receiver task publishes nothing behind its Logoff.                      *)
ClosedBeforeCleanup ==
  \A c \in Conn : spc[c] \in {"closing", "logoff", "done"} => is_closed[c]

(* As NoZombie, with no exception: the entry of a connection whose sender  *)
(* task has ended is always about to be removed.                           *)
EntryHasOwner ==
  \A c \in Conn : Registered(c) /\ spc[c] = "done" => LeavePending(c)

(* "If a Mles client wants to depart from a channel, it just closes the    *)
(* WebSocket TLS session": a session that the server confirmed and neither *)
(* side closed stays registered, whatever happens on other connections.    *)
StaysJoined ==
  \A c \in Conn : err[c] = "confirmed" /\ ~is_closed[c] => Registered(c)

(* A ping has been queued for c, or its ping task has ended.               *)
Pinged(c) == ppc[c] \in {"sending", "done"} \/ ping_cntr[c] > 0

(* A confirmed session that neither side closed is only evicted by a       *)
(* second connection of the same header that was pinged while its join was *)
(* undecided: nothing else makes a duplicate's sender task leave its loop  *)
(* before the rejection has reset h and ch.                                *)
OnlyPingedEvict ==
  \A c \in Conn : err[c] = "confirmed" /\ ~is_closed[c] /\ ~Registered(c) =>
    \E d \in Conn \ {c} :
      joined[c].h \in Client[d].headers /\ err[d] # "confirmed" /\ Pinged(d)

(* An entry of ch_db is only removed by a connection whose own header      *)
(* passed verify_auth.                                                     *)
OnlyAuthorisedRemoves ==
  [][\A ch \in Channels : \A x \in DOMAIN UidDb(ch) :
       (ch \in DOMAIN ch_db' => x \notin DOMAIN ch_db'[ch])
         => err[Head(events).conn] # "held"]_vars

(* Every join request is answered.                                         *)
JoinAnswered ==
  \A c \in Conn : err[c] = "queued" ~> err[c] \in {"confirmed", "dropped"}

(* A registered session that is closed is eventually unregistered (unless  *)
(* the connection was given up before its header was read).                *)
ClosedSessionLeaves ==
  \A c \in Conn : is_closed[c] /\ Registered(c) ~> ~Registered(c) \/ late[c]

(* A peer that stops answering is eventually given up by the ping task.    *)
SilentPeerClosed ==
  \A c \in Conn : Client[c].ticks => <>is_closed[c] \/ []<><<RxPong(c) \/ RxData(c)>>_vars

(* When the peer is gone, the receiver task ends and gives up its half of  *)
(* the socket.                                                             *)
GonePeerReleased == \A c \in Conn : ~net[c] ~> rpc[c] = "done"
=============================================================================
