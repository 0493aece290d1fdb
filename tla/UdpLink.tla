-------------------------------- MODULE UdpLink --------------------------------
(***************************************************************************)
(* Two emulators joined by UdpSerial: the handshake of Listen and Connect,  *)
(* transfers with the internal clock (Send, called by the emulation         *)
(* thread), the thread that answers the peer's transfers, and               *)
(* CloseConnection.  Each side has two sockets: "in" carries its own         *)
(* transfers, "ex" the ones of the peer.                                    *)
(*                                                                          *)
(* Network (external): a datagram for a socket that is not open is lost,    *)
(* others arrive once and in the order they were sent to that socket.       *)
(* Poco throws when a datagram is sent to an address that was never set, no *)
(* caller of Send catches that, and the emulator ends ("down").  So it does *)
(* when two of its threads are in the join of CloseConnection at once       *)
(* ("thrown").                                                              *)
(***************************************************************************)
EXTENDS Integers, Sequences

CONSTANTS Connector, Listener,   \* the two emulators
          Closers,               \* those whose user types "disconnect"
          Masters,               \* those whose game uses the internal clock
          MaxTransfers           \* transfers each of them starts

Node == {Connector, Listener}
Peer(n) == IF n = Connector THEN Listener ELSE Connector

ASSUME LinkAssumption ==
  /\ Connector # Listener /\ MaxTransfers \in Nat
  /\ Closers \subseteq Node /\ Masters \subseteq Node

Socket == {"in", "ex"}
Unset == <<"nobody", "in">>

VARIABLES
  connected, stop,      \* m_connected, m_stop
  saIn, saEx,           \* m_sa_in, m_sa_ex
  open,                 \* sockets that can receive
  queue,                \* datagrams waiting at each socket
  cli, emu, ex,         \* what the three threads of a node are doing
  held,                 \* the datagram the ex thread is handling
  started,              \* history: transfers started by Send
  answered,             \* history: the peer's transfers the ex thread has answered
  result,               \* history: what the last Send returned
  told                  \* history: the ex thread passed a wake-up on, or was told

vars == <<connected, stop, saIn, saEx, open, queue, cli, emu, ex, held, started,
          answered, result, told>>

NoData == [kind |-> "none", from |-> Unset, id |-> 0]
Data(k, n, s, i) == [kind |-> k, from |-> <<n, s>>, id |-> i]

Init ==
  /\ connected = [n \in Node |-> FALSE] /\ stop = [n \in Node |-> FALSE]
  /\ saIn = [n \in Node |-> Unset] /\ saEx = [n \in Node |-> Unset]
  /\ open = [n \in Node |-> {}]
  /\ queue = [n \in Node |-> [s \in Socket |-> <<>>]]
  /\ cli = [n \in Node |-> "new"] /\ emu = [n \in Node |-> "run"]
  /\ ex = [n \in Node |-> "none"] /\ held = [n \in Node |-> NoData]
  /\ started = [n \in Node |-> 0] /\ answered = [n \in Node |-> 0]
  /\ result = [n \in Node |-> 0] /\ told = [n \in Node |-> FALSE]

history == <<started, answered, result, told>>

(* datagram d arrives at address a; b is the queue after other changes      *)
Deliver(b, a, d) ==
  IF a[1] \in Node /\ a[2] \in open'[a[1]]
  THEN [b EXCEPT ![a[1]][a[2]] = Append(@, d)] ELSE b

Taken(n, s) == [queue EXCEPT ![n][s] = Tail(@)]
Waiting(n, s) == s \in open[n] /\ queue[n][s] # <<>>

NothingOpen(n) ==
  /\ open' = [open EXCEPT ![n] = {}]
  /\ queue' = [queue EXCEPT ![n] = [s \in Socket |-> <<>>]]

-----------------------------------------------------------------------------
(* The handshake, in the command-line thread.  m_connected is set before it *)
(* begins.                                                                  *)

Listen ==
  /\ cli[Listener] = "new"
  /\ cli' = [cli EXCEPT ![Listener] = "signature"]
  /\ connected' = [connected EXCEPT ![Listener] = TRUE]
  /\ open' = [open EXCEPT ![Listener] = {"in"}]
  /\ UNCHANGED <<stop, saIn, saEx, queue, emu, ex, held, history>>

ListenAnswer ==
  /\ cli[Listener] = "signature" /\ Waiting(Listener, "in")
  /\ LET d == Head(queue[Listener]["in"])
     IN IF d.kind # "sig"
        THEN /\ connected' = [connected EXCEPT ![Listener] = FALSE]
             /\ cli' = [cli EXCEPT ![Listener] = "idle"]
             /\ saIn' = [saIn EXCEPT ![Listener] = d.from]
             /\ queue' = Taken(Listener, "in")
             /\ UNCHANGED open
        ELSE /\ saIn' = [saIn EXCEPT ![Listener] = d.from]
             /\ open' = [open EXCEPT ![Listener] = Socket]
             /\ queue' = Deliver(Taken(Listener, "in"), d.from, Data("sig", Listener, "ex", 0))
             /\ cli' = [cli EXCEPT ![Listener] = "second"]
             /\ UNCHANGED connected
  /\ UNCHANGED <<stop, saEx, emu, ex, held, history>>

StartThread(n) ==
  /\ stop' = [stop EXCEPT ![n] = FALSE]
  /\ ex' = [ex EXCEPT ![n] = "test"]
  /\ cli' = [cli EXCEPT ![n] = "idle"]

ListenEnd ==
  /\ cli[Listener] = "second" /\ Waiting(Listener, "ex")
  /\ saEx' = [saEx EXCEPT ![Listener] = Head(queue[Listener]["ex"]).from]
  /\ queue' = Taken(Listener, "ex")
  /\ StartThread(Listener)
  /\ UNCHANGED <<connected, saIn, open, emu, held, history>>

Connect ==
  /\ cli[Connector] = "new"
  /\ cli' = [cli EXCEPT ![Connector] = "answer"]
  /\ connected' = [connected EXCEPT ![Connector] = TRUE]
  /\ saIn' = [saIn EXCEPT ![Connector] = <<Listener, "in">>]
  /\ open' = [open EXCEPT ![Connector] = {"in"}]
  /\ queue' = Deliver(queue, <<Listener, "in">>, Data("sig", Connector, "in", 0))
  /\ UNCHANGED <<stop, saEx, emu, ex, held, history>>

Mut_ConnectEnd ==                   \* goes on talking to the listening socket
  /\ cli[Connector] = "answer" /\ Waiting(Connector, "in")
  /\ saEx' = [saEx EXCEPT ![Connector] = saIn[Connector]]
  /\ open' = [open EXCEPT ![Connector] = Socket]
  /\ queue' = Deliver(Taken(Connector, "in"), Head(queue[Connector]["in"]).from,
                      Data("sig", Connector, "ex", 0))
  /\ StartThread(Connector)
  /\ UNCHANGED <<connected, saIn, emu, held, history>>

ConnectEnd ==
  /\ cli[Connector] = "answer" /\ Waiting(Connector, "in")
  /\ LET d == Head(queue[Connector]["in"])
     IN /\ saEx' = [saEx EXCEPT ![Connector] = d.from]
        /\ open' = [open EXCEPT ![Connector] = Socket]
        /\ queue' = Deliver(Taken(Connector, "in"), d.from, Data("sig", Connector, "ex", 0))
  /\ StartThread(Connector)
  /\ UNCHANGED <<connected, saIn, emu, held, history>>

-----------------------------------------------------------------------------
(* Send, in the emulation thread                                            *)

(* With m_stop set the connection is dropped first, so that CloseConnection *)
(* only joins the thread and leaves the sockets open.                       *)
SendStopped(n) ==
  /\ emu[n] = "run" /\ started[n] < MaxTransfers
  /\ connected[n] /\ stop[n]
  /\ connected' = [connected EXCEPT ![n] = FALSE]
  /\ emu' = [emu EXCEPT ![n] = "close"]
  /\ result' = [result EXCEPT ![n] = 0]
  /\ UNCHANGED <<stop, saIn, saEx, open, queue, cli, ex, held, started, answered, told>>

SendRequest(n) ==
  /\ emu[n] = "run" /\ started[n] < MaxTransfers
  /\ connected[n] /\ ~stop[n]
  /\ started' = [started EXCEPT ![n] = @ + 1]
  /\ IF saEx[n] = Unset
     THEN emu' = [emu EXCEPT ![n] = "down"] /\ NothingOpen(n)
     ELSE /\ emu' = [emu EXCEPT ![n] = "reply"]
          /\ UNCHANGED open
          /\ queue' = Deliver(queue, saEx[n], Data("byte", n, "in", started[n] + 1))
  /\ UNCHANGED <<connected, stop, saIn, saEx, cli, ex, held, answered, result, told>>

(* CloseConnection up to the join: the own ex socket is sent a wake-up      *)
BeginClose(n, q) ==
  IF connected[n]
  THEN /\ stop' = [stop EXCEPT ![n] = TRUE]
       /\ queue' = Deliver(q, <<n, "ex">>, Data("internal", n, "in", 0))
  ELSE queue' = q /\ UNCHANGED stop

SendReply(n) ==
  /\ emu[n] = "reply" /\ Waiting(n, "in")
  /\ UNCHANGED open
  /\ LET d == Head(queue[n]["in"])
     IN /\ saEx' = [saEx EXCEPT ![n] = d.from]
        /\ IF d.kind = "byte"
           THEN /\ emu' = [emu EXCEPT ![n] = "run"]
                /\ result' = [result EXCEPT ![n] = d.id]
                /\ queue' = Taken(n, "in") /\ UNCHANGED stop
           ELSE /\ emu' = [emu EXCEPT ![n] = "close"]
                /\ result' = [result EXCEPT ![n] = 0]
                /\ BeginClose(n, Taken(n, "in"))
  /\ UNCHANGED <<connected, saIn, cli, ex, held, started, answered, told>>

-----------------------------------------------------------------------------
(* CloseConnection                                                          *)

Mut_Disconnect(n) ==                \* does not wake the ex thread
  /\ n \in Closers /\ cli[n] = "idle"
  /\ stop' = [stop EXCEPT ![n] = TRUE]
  /\ cli' = [cli EXCEPT ![n] = "close"]
  /\ UNCHANGED <<connected, saIn, saEx, open, queue, emu, ex, held, history>>

Disconnect(n) ==
  /\ n \in Closers /\ cli[n] = "idle"
  /\ UNCHANGED open
  /\ BeginClose(n, queue)
  /\ cli' = [cli EXCEPT ![n] = "close"]
  /\ UNCHANGED <<connected, saIn, saEx, emu, ex, held, history>>

(* No lock keeps Send out of a CloseConnection of the command line, nor the *)
(* other way round.  Of two threads in the same join one gets a             *)
(* std::system_error, which nobody catches: all threads end.  (The test of  *)
(* joinable and the call are one step: a join that comes back in between    *)
(* leaves a thread that cannot be joined, with the same end.)               *)
BeginJoin(n, mine, other) ==
  /\ mine[n] = "close" /\ ex[n] # "none"
  /\ IF other[n] = "join"
     THEN mine' = [mine EXCEPT ![n] = "thrown"] /\ NothingOpen(n)
     ELSE mine' = [mine EXCEPT ![n] = "join"] /\ UNCHANGED <<open, queue>>
  /\ UNCHANGED <<connected, stop, saIn, saEx, ex, held, history, other>>

(* The thread has ended, or was joined before: the sockets are closed if    *)
(* still connected.  A Send blocked in its receive is not woken by that.    *)
EndClose(n, mine) ==
  /\ \/ mine[n] = "join" /\ ex[n] = "ended"
     \/ mine[n] = "close" /\ ex[n] = "none"
  /\ ex' = [ex EXCEPT ![n] = "none"]
  /\ connected' = [connected EXCEPT ![n] = FALSE]
  /\ IF connected[n] THEN NothingOpen(n) ELSE UNCHANGED <<open, queue>>
  /\ UNCHANGED <<stop, saIn, saEx, held, history>>

DisconnectEnd(n) == EndClose(n, cli) /\ cli' = [cli EXCEPT ![n] = "closed"] /\ UNCHANGED emu
SendClosed(n) == EndClose(n, emu) /\ emu' = [emu EXCEPT ![n] = "run"] /\ UNCHANGED cli

-----------------------------------------------------------------------------
(* The ex thread                                                            *)

(* m_stop may have been set by another thread since the last wake-up: the   *)
(* loop then ends and nothing is sent to the peer.                          *)
ThreadTest(n) ==
  /\ ex[n] = "test"
  /\ ex' = [ex EXCEPT ![n] = IF stop[n] THEN "ended" ELSE "receive"]
  /\ UNCHANGED <<connected, stop, saIn, saEx, open, queue, cli, emu, held, history>>

ThreadReceive(n) ==
  /\ ex[n] = "receive" /\ Waiting(n, "ex")
  /\ held' = [held EXCEPT ![n] = Head(queue[n]["ex"])]
  /\ saIn' = [saIn EXCEPT ![n] = Head(queue[n]["ex"]).from]
  /\ queue' = Taken(n, "ex")
  /\ ex' = [ex EXCEPT ![n] = "handle"]
  /\ UNCHANGED <<connected, stop, saEx, open, cli, emu, history>>

Mut_ThreadAnswer(n) ==              \* a transfer is answered when its interrupt was served
  /\ ex[n] = "handle" /\ held[n].kind = "byte"
  /\ IF stop[n] THEN UNCHANGED <<queue, answered, open>>
     ELSE /\ answered' = [answered EXCEPT ![n] = @ + 1]
          /\ UNCHANGED open
          /\ queue' = Deliver(queue, saIn[n], Data("byte", n, "ex", answered[n]))
  /\ ex' = [ex EXCEPT ![n] = "test"] /\ held' = [held EXCEPT ![n] = NoData]
  /\ UNCHANGED <<connected, stop, saIn, saEx, cli, emu, started, result, told>>

(* A transfer of the peer is answered and the serial interrupt requested,   *)
(* unless m_stop was set meanwhile.                                         *)
ThreadAnswer(n) ==
  /\ ex[n] = "handle" /\ held[n].kind = "byte"
  /\ IF stop[n] THEN UNCHANGED <<queue, answered, open>>
     ELSE /\ answered' = [answered EXCEPT ![n] = @ + 1]
          /\ UNCHANGED open
          /\ queue' = Deliver(queue, saIn[n], Data("byte", n, "ex", held[n].id))
  /\ ex' = [ex EXCEPT ![n] = "test"] /\ held' = [held EXCEPT ![n] = NoData]
  /\ UNCHANGED <<connected, stop, saIn, saEx, cli, emu, started, result, told>>

(* The own wake-up is passed on to the peer's ex thread.                    *)
ThreadTellPeer(n) ==
  /\ ex[n] = "handle" /\ held[n].kind = "internal"
  /\ UNCHANGED open
  /\ queue' = Deliver(queue, saEx[n], Data("external", n, "ex", 0))
  /\ told' = [told EXCEPT ![n] = TRUE]
  /\ ex' = [ex EXCEPT ![n] = "test"] /\ held' = [held EXCEPT ![n] = NoData]
  /\ UNCHANGED <<connected, stop, saIn, saEx, cli, emu, started, answered, result>>

Mut_ThreadTold(n) ==                \* a blocked Send is not woken
  /\ ex[n] = "handle" /\ held[n].kind \in {"external", "sig"}
  /\ stop' = [stop EXCEPT ![n] = TRUE]
  /\ told' = [told EXCEPT ![n] = TRUE]
  /\ ex' = [ex EXCEPT ![n] = "test"] /\ held' = [held EXCEPT ![n] = NoData]
  /\ UNCHANGED <<connected, saIn, saEx, open, queue, cli, emu, started, answered, result>>

(* The peer has closed: a Send blocked in its receive is woken.             *)
ThreadTold(n) ==
  /\ ex[n] = "handle" /\ held[n].kind \in {"external", "sig"}
  /\ stop' = [stop EXCEPT ![n] = TRUE]
  /\ UNCHANGED open
  /\ queue' = Deliver(queue, <<n, "in">>, Data("internal", n, "ex", 0))
  /\ told' = [told EXCEPT ![n] = TRUE]
  /\ ex' = [ex EXCEPT ![n] = "test"] /\ held' = [held EXCEPT ![n] = NoData]
  /\ UNCHANGED <<connected, saIn, saEx, cli, emu, started, answered, result>>

-----------------------------------------------------------------------------
Thrown(n) == "thrown" \in {cli[n], emu[n]}
Up(n) == emu[n] # "down" /\ ~Thrown(n)

Handshake ==
  \/ Up(Listener) /\ (Listen \/ ListenAnswer \/ ListenEnd)
  \/ Up(Connector) /\ (Connect \/ ConnectEnd)

Transfer(n) == Up(n) /\ n \in Masters /\ (SendStopped(n) \/ SendRequest(n))
Sending(n) == Up(n) /\ (SendReply(n) \/ BeginJoin(n, emu, cli) \/ SendClosed(n))
Closing(n) == Up(n) /\ (BeginJoin(n, cli, emu) \/ DisconnectEnd(n))
User(n) == Up(n) /\ Disconnect(n)
Thread(n) ==
  /\ Up(n)
  /\ \/ ThreadTest(n) \/ ThreadReceive(n) \/ ThreadAnswer(n)
     \/ ThreadTellPeer(n) \/ ThreadTold(n)

Next ==
  \/ Handshake
  \/ \E n \in Node : Transfer(n) \/ Sending(n) \/ Thread(n) \/ User(n) \/ Closing(n)

(* A thread that can go on does; nobody has to start a transfer or close.   *)
Fairness == \A n \in Node : WF_vars(Sending(n)) /\ WF_vars(Closing(n)) /\ WF_vars(Thread(n))

Spec == Init /\ [][Next]_vars /\ Fairness

-----------------------------------------------------------------------------
(* Properties                                                               *)

(* While the ex thread serves, the node's transfers and its notice of       *)
(* closing go to the peer's ex socket (m_sa_ex is overwritten by every      *)
(* answer Send receives).                                                   *)
Paired ==
  \A n \in Node : ex[n] # "none" /\ ~stop[n] => saEx[n] = <<Peer(n), "ex">>

(* A transfer that Send reports as done was answered by the peer, as the    *)
(* same transfer, and the peer's game has one interrupt for each.           *)
ExchangesMatch ==
  \A n \in Node :
    /\ emu[n] # "reply" /\ result[n] # 0 => result[n] = started[n]
    /\ result[n] <= answered[Peer(n)]
    /\ answered[n] <= started[Peer(n)]

(* "disconnect" comes back, although it joins a thread that blocks in its   *)
(* receive, and that thread is then gone, unless Send was in the same join  *)
(* and the emulator has ended.                                              *)
DisconnectReturns ==
  \A n \in Node :
    cli[n] \in {"close", "join"} ~> (cli[n] = "closed" /\ ex[n] = "none") \/ Thrown(n)

(* When one side closes, the other side's Send does not wait for ever,      *)
(* except if the closing side's ex thread was not in its receive and ended  *)
(* without seeing the wake-up (or that emulator has ended).                 *)
PeerReleased ==
  \A n \in Node \ Closers :
    emu[n] = "reply" ~>
      \/ emu[n] # "reply"
      \/ ~Up(Peer(n))
      \/ ex[Peer(n)] \in {"none", "ended"} /\ ~told[Peer(n)]
=============================================================================
