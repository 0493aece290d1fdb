----------------------------- MODULE LinkProofs ------------------------------
(***************************************************************************)
(* Whatever the games send and whoever disconnects, and for any number of   *)
(* transfers: a node's transfers go to the peer's ex socket, and each one   *)
(* that Send reports was answered by the peer as the same transfer.         *)
(***************************************************************************)
EXTENDS UdpLink, SequenceTheorems, TLAPS

Address == (Node \X Socket) \cup {Unset}
Kind == {"none", "sig", "byte", "internal", "external"}
Datagram == [kind : Kind, from : Address, id : Nat]
Datagrams == Seq(Datagram)

-----------------------------------------------------------------------------
(* What a queue may hold                                                    *)

HasByte(q) == \E i \in 1..Len(q) : q[i].kind = "byte"

(* at most one transfer, from f, the k-th                                   *)
Single(q, f, k) ==
  /\ \A i, j \in 1..Len(q) : q[i].kind = "byte" /\ q[j].kind = "byte" => i = j
  /\ \A i \in 1..Len(q) : q[i].kind = "byte" => q[i].from = f /\ q[i].id = k

(* nothing but answers, and the wake-ups of the own ex thread if it may     *)
(* have sent some                                                           *)
Welcome(d, n, woken) ==
  d.kind = "byte" \/ (d.kind = "internal" /\ d.from = <<n, "ex">> /\ woken)

AnswersOnly(q, n, woken) == \A i \in 1..Len(q) : Welcome(q[i], n, woken)

(* the signature of the connecting side comes first                         *)
Lead(q) == q # <<>> /\ Head(q) = Data("sig", Connector, "ex", 0)

-----------------------------------------------------------------------------
(* The invariant                                                            *)

CliState == {"new", "signature", "second", "answer", "idle", "close", "join", "closed", "thrown"}
EmuState == {"run", "reply", "close", "join", "down", "thrown"}
USE DEF CliState, EmuState

TypeInv ==
  /\ connected \in [Node -> BOOLEAN] /\ stop \in [Node -> BOOLEAN]
  /\ saIn \in [Node -> Address] /\ saEx \in [Node -> Address]
  /\ open \in [Node -> SUBSET Socket]
  /\ queue \in [Node -> [Socket -> Datagrams]]
  /\ cli \in [Node -> CliState]
  /\ emu \in [Node -> EmuState]
  /\ ex \in [Node -> {"none", "test", "receive", "handle", "ended"}]
  /\ held \in [Node -> Datagram]
  /\ started \in [Node -> Nat] /\ answered \in [Node -> Nat] /\ result \in [Node -> Nat]
  /\ told \in [Node -> BOOLEAN]

Joined(n) == cli[n] \in {"idle", "close", "join", "closed", "thrown"}

(* Nothing but the signatures passes before both sides know their peer.     *)
HandshakeInv ==
  /\ cli[Connector] \notin {"signature", "second"} /\ cli[Listener] # "answer"
  /\ Joined(Listener) => Joined(Connector)
  /\ \A n \in Node : cli[n] = "new" => open[n] = {}
  /\ cli[Connector] = "new" => cli[Listener] # "second"
  /\ cli[Listener] \in {"new", "signature"} => ~Joined(Connector) /\ queue[Connector]["in"] = <<>>
  /\ cli[Connector] = "new" => queue[Connector]["in"] = <<>> /\ queue[Listener]["in"] = <<>>
  /\ cli[Connector] = "answer" =>
       queue[Connector]["in"] \in {<<>>, <<Data("sig", Listener, "ex", 0)>>}
  /\ cli[Listener] \in {"new", "second"} => queue[Listener]["in"] = <<>>
  /\ cli[Listener] = "signature" =>
       queue[Listener]["in"] \in {<<>>, <<Data("sig", Connector, "in", 0)>>}
  /\ ~Joined(Connector) => queue[Listener]["ex"] = <<>>
  /\ cli[Listener] = "second" /\ Joined(Connector) /\ "ex" \in open[Listener] =>
       Lead(queue[Listener]["ex"])

(* What a node that is not joined yet has not done; a thread that handles a *)
(* datagram answers its sender; and where a joined node sends.              *)
NodeInv(n) ==
  /\ ~Joined(n) =>
       /\ saEx[n] = Unset /\ ex[n] = "none" /\ emu[n] \in {"run", "down"}
       /\ result[n] = 0 /\ ~stop[n]
  /\ Joined(n) =>
       /\ saEx[n] \in Node \X {"ex"}
       /\ ~stop[n] => saEx[n] = <<Peer(n), "ex">>
       /\ AnswersOnly(queue[n]["in"], n, stop[n])
  /\ ex[n] = "handle" => saIn[n] = held[n].from
  /\ ex[n] # "handle" => held[n] = NoData

(* A transfer of n is in one place: in the peer's ex socket, in the hands   *)
(* of its ex thread, or, answered, in the own in socket.                    *)
Asked(n) == HasByte(queue[Peer(n)]["ex"])
Handled(n) == held[Peer(n)].kind = "byte"
Answer(n) == HasByte(queue[n]["in"])

ExchangeInv(n) ==
  /\ Single(queue[Peer(n)]["ex"], <<n, "in">>, started[n])
  /\ Handled(n) => held[Peer(n)].from = <<n, "in">> /\ held[Peer(n)].id = started[n]
  /\ Single(queue[n]["in"], <<Peer(n), "ex">>, started[n])
  /\ ~(Asked(n) /\ Handled(n)) /\ ~(Asked(n) /\ Answer(n)) /\ ~(Handled(n) /\ Answer(n))
  /\ Asked(n) \/ Handled(n) => answered[Peer(n)] + 1 = started[n]
  /\ Answer(n) => answered[Peer(n)] = started[n]
  /\ Asked(n) \/ Handled(n) \/ Answer(n) => Joined(n) /\ (emu[n] = "reply" \/ stop[n])

CountInv(n) ==
  /\ emu[n] \in {"run", "close", "join"} /\ ~stop[n] => answered[Peer(n)] = started[n]
  /\ answered[Peer(n)] <= started[n] /\ result[n] <= answered[Peer(n)]
  /\ emu[n] # "reply" /\ result[n] # 0 => result[n] = started[n]

LinkInv ==
  /\ TypeInv /\ HandshakeInv
  /\ \A n \in Node : NodeInv(n) /\ ExchangeInv(n) /\ CountInv(n)

-----------------------------------------------------------------------------
(* Nodes, queues and deliveries                                             *)

LEMMA Peers ==
  /\ \A n \in Node : Peer(n) \in Node /\ Peer(n) # n /\ Peer(Peer(n)) = n
  /\ \A n, m \in Node : m = n \/ m = Peer(n)
  /\ Connector \in Node /\ Listener \in Node /\ Connector # Listener
  /\ Peer(Connector) = Listener /\ Peer(Listener) = Connector
BY LinkAssumption DEF Node, Peer

LEMMA Pushed ==
  ASSUME NEW q \in Datagrams, NEW d \in Datagram
  PROVE  /\ Append(q, d) \in Datagrams
         /\ HasByte(Append(q, d)) <=> HasByte(q) \/ d.kind = "byte"
         /\ \A f, k : Single(q, f, k) /\ d.kind # "byte" => Single(Append(q, d), f, k)
         /\ ~HasByte(q) => Single(Append(q, d), d.from, d.id)
         /\ \A n, w : (AnswersOnly(q, n, w) /\ Welcome(d, n, w)) => AnswersOnly(Append(q, d), n, w)
         /\ Lead(q) => Lead(Append(q, d))
<1> DEFINE r == Append(q, d)
<1>1. r \in Datagrams /\ Len(r) = Len(q) + 1 /\ r[Len(q) + 1] = d /\ Len(q) \in Nat
      /\ \A i \in 1..Len(q) : r[i] = q[i]
  BY DEF Datagrams
<1>2. \A i \in 1..Len(r) : i \in 1..Len(q) \/ i = Len(q) + 1
  BY <1>1
<1>3. 1..Len(q) \subseteq 1..Len(r) /\ Len(q) + 1 \in 1..Len(r)
  BY <1>1
<1>4. q # <<>> => r # <<>> /\ Head(r) = Head(q)
  BY <1>1 DEF Datagrams
<1> HIDE DEF r
<1>5. HasByte(r) <=> HasByte(q) \/ d.kind = "byte"
  BY <1>1, <1>2, <1>3 DEF HasByte
<1>6. \A f, k : Single(q, f, k) /\ d.kind # "byte" => Single(r, f, k)
  BY <1>1, <1>2 DEF Single
<1>7. ~HasByte(q) => Single(r, d.from, d.id)
  BY <1>1, <1>2 DEF Single, HasByte
<1>8. \A n, w : (AnswersOnly(q, n, w) /\ Welcome(d, n, w)) => AnswersOnly(r, n, w)
  BY <1>1, <1>2 DEF AnswersOnly
<1>9. Lead(q) => Lead(r)
  BY <1>4 DEF Lead
<1> QED BY <1>1, <1>5, <1>6, <1>7, <1>8, <1>9 DEF r

LEMMA Popped ==
  ASSUME NEW q \in Datagrams, q # <<>>
  PROVE  /\ Head(q) \in Datagram /\ Tail(q) \in Datagrams
         /\ HasByte(Tail(q)) => HasByte(q)
         /\ Head(q).kind = "byte" => HasByte(q)
         /\ \A f, k : Single(q, f, k) =>
              /\ Single(Tail(q), f, k)
              /\ Head(q).kind = "byte" =>
                   Head(q).from = f /\ Head(q).id = k /\ ~HasByte(Tail(q))
         /\ \A n, w : AnswersOnly(q, n, w) =>
              /\ AnswersOnly(Tail(q), n, w)
              /\ Welcome(Head(q), n, w)
<1> DEFINE r == Tail(q)
           d == Head(q)
<1>1. /\ d \in Datagram /\ r \in Datagrams /\ Len(q) \in Nat \ {0} /\ Len(r) = Len(q) - 1
      /\ d = q[1] /\ \A i \in 1..Len(r) : r[i] = q[i + 1]
  BY DEF Datagrams
<1>2. 1 \in 1..Len(q) /\ \A i \in 1..Len(r) : i + 1 \in 1..Len(q) /\ i + 1 # 1 /\ i \in Nat
  BY <1>1
<1> HIDE DEF r, d
<1>3. HasByte(r) => HasByte(q)
  BY <1>1, <1>2 DEF HasByte
<1>4. d.kind = "byte" => HasByte(q)
  BY <1>1, <1>2 DEF HasByte
<1>5. ASSUME NEW f, NEW k, Single(q, f, k)
      PROVE  /\ Single(r, f, k)
             /\ d.kind = "byte" => d.from = f /\ d.id = k /\ ~HasByte(r)
  <2>1. ASSUME NEW i \in 1..Len(r), NEW j \in 1..Len(r), r[i].kind = "byte", r[j].kind = "byte"
        PROVE  i = j
    <3>1. i + 1 = j + 1
      BY <1>1, <1>2, <1>5, <2>1 DEF Single
    <3> QED BY <1>2, <3>1
  <2>2. \A i \in 1..Len(r) : r[i].kind = "byte" => r[i].from = f /\ r[i].id = k
    BY <1>1, <1>2, <1>5 DEF Single
  <2>3. d.kind = "byte" => d.from = f /\ d.id = k /\ ~HasByte(r)
    BY <1>1, <1>2, <1>5 DEF Single, HasByte
  <2> QED BY <2>1, <2>2, <2>3 DEF Single
<1>6. \A n, w : AnswersOnly(q, n, w) =>
        /\ AnswersOnly(r, n, w)
        /\ Welcome(d, n, w)
  BY <1>1, <1>2 DEF AnswersOnly
<1> QED BY <1>1, <1>3, <1>4, <1>5, <1>6 DEF r, d

LEMMA Emptied ==
  /\ <<>> \in Datagrams /\ ~HasByte(<<>>)
  /\ \A f, k : Single(<<>>, f, k) /\ \A n, w : AnswersOnly(<<>>, n, w)
BY DEF Datagrams, HasByte, Single, AnswersOnly

LEMMA NoneOf ==
  ASSUME NEW q, ~HasByte(q)
  PROVE  \A f, k : Single(q, f, k)
BY DEF HasByte, Single

LEMMA WokenLater ==
  ASSUME NEW q, NEW n, NEW w \in BOOLEAN, AnswersOnly(q, n, w)
  PROVE  AnswersOnly(q, n, TRUE)
BY DEF AnswersOnly, Welcome

LEMMA Delivered ==
  ASSUME NEW b \in [Node -> [Socket -> Datagrams]], NEW k \in Node, NEW t \in Socket,
         NEW d \in Datagram, NEW q,
         q = b \/ q = [b EXCEPT ![k][t] = Append(@, d)]
  PROVE  /\ q \in [Node -> [Socket -> Datagrams]]
         /\ q[k][t] = b[k][t] \/ q[k][t] = Append(b[k][t], d)
         /\ q = [b EXCEPT ![k][t] = Append(@, d)] => q[k][t] = Append(b[k][t], d)
         /\ \A m \in Node, s \in Socket : m # k \/ s # t => q[m][s] = b[m][s]
<1>1. Append(b[k][t], d) \in Datagrams
  BY DEF Datagrams
<1> DEFINE e == [b EXCEPT ![k][t] = Append(@, d)]
<1>3. /\ e \in [Node -> [Socket -> Datagrams]] /\ e[k][t] = Append(b[k][t], d)
      /\ \A m \in Node, s \in Socket : m # k \/ s # t => e[m][s] = b[m][s]
  BY <1>1
<1>4. q = b \/ q = e
  OBVIOUS
<1> HIDE DEF e
<1>5. /\ q \in [Node -> [Socket -> Datagrams]]
      /\ q[k][t] = b[k][t] \/ q[k][t] = Append(b[k][t], d)
      /\ q = e => q[k][t] = Append(b[k][t], d)
      /\ \A m \in Node, s \in Socket : m # k \/ s # t => q[m][s] = b[m][s]
  BY <1>3, <1>4
<1> QED BY <1>5 DEF e

-----------------------------------------------------------------------------
(* The steps                                                                *)

LEMMA InitLink == Init => LinkInv
<1> SUFFICES ASSUME Init PROVE LinkInv
  OBVIOUS
<1>1. TypeInv
  BY Emptied DEF Init, TypeInv, Address, Datagram, Kind, NoData, Socket, Unset
<1>2. HandshakeInv
  BY Peers DEF Init, HandshakeInv, Joined, Socket
<1>3. ASSUME NEW n \in Node PROVE NodeInv(n) /\ ExchangeInv(n) /\ CountInv(n)
  <2>1. /\ queue[n]["in"] = <<>> /\ queue[Peer(n)]["ex"] = <<>> /\ held[Peer(n)] = NoData
        /\ Peer(n) \in Node
    BY Peers DEF Init, Socket
  <2> QED BY <2>1, Emptied
          DEF Init, NodeInv, ExchangeInv, CountInv, Joined, Asked, Handled, Answer, NoData
<1> QED BY <1>1, <1>2, <1>3 DEF LinkInv

(* The handshake is not disturbed by the steps of joined nodes.             *)
LEMMA HandshakeKept ==
  ASSUME HandshakeInv,
         \A m \in Node : cli'[m] = cli[m] \/ (Joined(m) /\ Joined(m)'),
         \A m \in Node : open'[m] \subseteq open[m],
         \A m \in Node : ~Joined(m) => queue'[m]["in"] \in {queue[m]["in"], <<>>},
         ~Joined(Connector) => queue'[Listener]["ex"] \in {queue[Listener]["ex"], <<>>},
         "ex" \in open'[Listener] /\ Lead(queue[Listener]["ex"]) /\ ~Joined(Listener)
           => Lead(queue'[Listener]["ex"])
  PROVE  HandshakeInv'
BY Peers DEF HandshakeInv, Joined

LEMMA SendRequestKeeps ==
  ASSUME LinkInv, NEW n \in Node, SendRequest(n)
  PROVE  LinkInv'
<1> DEFINE p == Peer(n)
           d == Data("byte", n, "in", started[n] + 1)
<1>1. p \in Node /\ p # n /\ Peer(p) = n /\ \A m \in Node : m = n \/ m = p
  BY Peers
<1>2. /\ TypeInv /\ HandshakeInv /\ NodeInv(n) /\ ExchangeInv(n) /\ CountInv(n)
      /\ NodeInv(p) /\ ExchangeInv(p) /\ CountInv(p)
  BY <1>1 DEF LinkInv
<1>3. /\ emu[n] = "run" /\ connected[n] /\ ~stop[n] /\ started' = [started EXCEPT ![n] = @ + 1]
      /\ UNCHANGED <<connected, stop, saIn, saEx, cli, ex, held, answered, result, told>>
  BY DEF SendRequest
<1>4. started'[n] = started[n] + 1 /\ started'[p] = started[p] /\ started' \in [Node -> Nat]
  BY <1>1, <1>2, <1>3 DEF TypeInv
<1>5. CASE saEx[n] = Unset
  <2>1. /\ emu' = [emu EXCEPT ![n] = "down"] /\ open' = [open EXCEPT ![n] = {}]
        /\ queue' = [queue EXCEPT ![n] = [s \in Socket |-> <<>>]]
    BY <1>5 DEF SendRequest, NothingOpen
  <2>2. /\ emu' \in [Node -> EmuState] /\ open' \in [Node -> SUBSET Socket]
        /\ queue' \in [Node -> [Socket -> Datagrams]]
        /\ emu'[n] = "down" /\ emu'[p] = emu[p] /\ open'[n] = {} /\ open'[p] = open[p]
        /\ queue'[n]["in"] = <<>> /\ queue'[n]["ex"] = <<>> /\ queue'[p] = queue[p]
    BY <1>1, <1>2, <2>1, Emptied DEF TypeInv, Socket
  <2>3. ~Joined(n)
    BY <1>2, <1>5 DEF NodeInv, Unset
  <2>4. TypeInv'
    BY <1>2, <1>3, <1>4, <2>2 DEF TypeInv
  <2>5. HandshakeInv'
    BY <1>1, <1>2, <1>3, <2>2, Peers, HandshakeKept DEF Joined
  <2>6. NodeInv(n)' /\ NodeInv(p)'
    BY <1>1, <1>2, <1>3, <2>2, <2>3, Emptied DEF NodeInv, Joined
  <2>7. ExchangeInv(n)' /\ ExchangeInv(p)'
    BY <1>1, <1>2, <1>3, <1>4, <2>2, <2>3, Emptied, NoneOf
       DEF ExchangeInv, Joined, Asked, Handled, Answer
  <2>8. CountInv(n)' /\ CountInv(p)'
    BY <1>1, <1>2, <1>3, <1>4, <2>2, <2>3 DEF CountInv, NodeInv, TypeInv
  <2> QED BY <1>1, <2>4, <2>5, <2>6, <2>7, <2>8 DEF LinkInv
<1>6. CASE saEx[n] # Unset
  <2>1. emu' = [emu EXCEPT ![n] = "reply"] /\ open' = open /\ queue' = Deliver(queue, saEx[n], d)
    BY <1>6 DEF SendRequest
  <2>2. Joined(n) /\ saEx[n] = <<p, "ex">>
    BY <1>2, <1>3, <1>6 DEF NodeInv
  <2>3. ~Asked(n) /\ ~Handled(n) /\ ~Answer(n) /\ answered[p] = started[n]
    BY <1>2, <1>3 DEF ExchangeInv, CountInv
  <2>4. d \in Datagram /\ d.kind = "byte" /\ d.from = <<n, "in">> /\ d.id = started[n] + 1
    BY <1>2 DEF TypeInv, Data, Datagram, Kind, Address, Socket
  <2> HIDE DEF d
  <2>5. /\ queue' \in [Node -> [Socket -> Datagrams]]
        /\ queue'[p]["in"] = queue[p]["in"] /\ queue'[n]["in"] = queue[n]["in"]
        /\ queue'[n]["ex"] = queue[n]["ex"]
        /\ queue'[p]["ex"] = queue[p]["ex"] \/ queue'[p]["ex"] = Append(queue[p]["ex"], d)
    <3>1. queue' = IF "ex" \in open[p] THEN [queue EXCEPT ![p]["ex"] = Append(@, d)] ELSE queue
      BY <1>1, <2>1, <2>2 DEF Deliver
    <3>2. queue \in [Node -> [Socket -> Datagrams]] /\ "ex" \in Socket /\ "in" \in Socket
      BY <1>2 DEF TypeInv, Socket
    <3>3. /\ queue' \in [Node -> [Socket -> Datagrams]]
          /\ queue'[p]["ex"] = queue[p]["ex"] \/ queue'[p]["ex"] = Append(queue[p]["ex"], d)
          /\ \A m \in Node, s \in Socket : m # p \/ s # "ex" => queue'[m][s] = queue[m][s]
      BY <1>1, <2>4, <3>1, <3>2, Delivered
    <3> QED BY <1>1, <3>2, <3>3
  <2>6. emu' \in [Node -> EmuState] /\ emu'[n] = "reply" /\ emu'[p] = emu[p]
    BY <1>1, <1>2, <2>1 DEF TypeInv
  <2>7. queue[p]["ex"] \in Datagrams
    BY <1>1, <1>2 DEF TypeInv, Socket
  <2>8. TypeInv'
    BY <1>2, <1>3, <1>4, <2>1, <2>5, <2>6 DEF TypeInv
  <2>9. HandshakeInv'
    <3>1. Joined(Connector)
      BY <1>2, <2>2, Peers DEF HandshakeInv
    <3>2. \A m \in Node : ~Joined(m) => queue'[m]["in"] = queue[m]["in"]
      BY <1>1, <2>5
    <3>3. Lead(queue[Listener]["ex"]) => Lead(queue'[Listener]["ex"])
      BY <1>1, <2>4, <2>5, <2>7, Pushed, Peers
    <3> QED BY <1>2, <1>3, <2>1, <3>1, <3>2, <3>3, HandshakeKept
  <2>10. NodeInv(n)' /\ NodeInv(p)'
    BY <1>1, <1>2, <1>3, <2>2, <2>5, <2>6 DEF NodeInv, Joined
  <2>11. ExchangeInv(n)'
    <3>1. /\ ~HasByte(queue[p]["ex"]) /\ ~HasByte(queue[n]["in"]) /\ ~HasByte(queue'[n]["in"])
          /\ held'[p].kind # "byte"
      BY <1>3, <2>3, <2>5 DEF Asked, Answer, Handled
    <3>2. Single(queue'[p]["ex"], <<n, "in">>, started[n] + 1)
      <4>1. CASE queue'[p]["ex"] = queue[p]["ex"]
        BY <3>1, <4>1, NoneOf
      <4>2. CASE queue'[p]["ex"] = Append(queue[p]["ex"], d)
        <5>1. Single(Append(queue[p]["ex"], d), d.from, d.id)
          BY <2>4, <2>7, <3>1, Pushed
        <5> QED BY <2>4, <4>2, <5>1, Zenon
      <4> QED BY <2>5, <4>1, <4>2
    <3>3. Single(queue'[n]["in"], <<p, "ex">>, started[n] + 1)
      BY <3>1, NoneOf
    <3>4. Joined(n)' /\ answered'[p] + 1 = started'[n]
      BY <1>3, <1>4, <2>2, <2>3 DEF Joined
    <3> QED BY <1>4, <2>6, <3>1, <3>2, <3>3, <3>4 DEF ExchangeInv, Asked, Handled, Answer
  <2>12. ExchangeInv(p)'
    BY <1>1, <1>2, <1>3, <1>4, <2>2, <2>5, <2>6
       DEF ExchangeInv, Joined, Asked, Handled, Answer
  <2>13. CountInv(n)' /\ CountInv(p)'
    BY <1>1, <1>2, <1>3, <1>4, <2>3, <2>6 DEF CountInv, TypeInv
  <2> QED BY <1>1, <2>8, <2>9, <2>10, <2>11, <2>12, <2>13 DEF LinkInv
<1> QED BY <1>5, <1>6

LEMMA SendStoppedKeeps ==
  ASSUME LinkInv, NEW n \in Node, SendStopped(n)
  PROVE  LinkInv'
<1> DEFINE p == Peer(n)
<1>1. p \in Node /\ p # n /\ Peer(p) = n /\ \A m \in Node : m = n \/ m = p
  BY Peers
<1>2. /\ TypeInv /\ HandshakeInv /\ NodeInv(n) /\ ExchangeInv(n) /\ CountInv(n)
      /\ NodeInv(p) /\ ExchangeInv(p) /\ CountInv(p)
  BY <1>1 DEF LinkInv
<1>3. /\ stop[n] /\ connected' = [connected EXCEPT ![n] = FALSE]
      /\ emu' = [emu EXCEPT ![n] = "close"] /\ result' = [result EXCEPT ![n] = 0]
      /\ UNCHANGED <<stop, saIn, saEx, open, queue, cli, ex, held, started, answered, told>>
  BY DEF SendStopped
<1>4. /\ emu' \in [Node -> EmuState] /\ emu'[n] = "close" /\ emu'[p] = emu[p]
      /\ result' \in [Node -> Nat] /\ result'[n] = 0 /\ result'[p] = result[p]
      /\ connected' \in [Node -> BOOLEAN]
  BY <1>1, <1>2, <1>3 DEF TypeInv
<1>5. TypeInv'
  BY <1>2, <1>3, <1>4 DEF TypeInv
<1>6. HandshakeInv'
  BY <1>2, <1>3 DEF HandshakeInv, Joined
<1>7. NodeInv(n)' /\ NodeInv(p)'
  BY <1>1, <1>2, <1>3, <1>4 DEF NodeInv, Joined
<1>8. ExchangeInv(n)' /\ ExchangeInv(p)'
  BY <1>1, <1>2, <1>3, <1>4 DEF ExchangeInv, Joined, Asked, Handled, Answer
<1>9. CountInv(n)' /\ CountInv(p)'
  BY <1>1, <1>2, <1>3, <1>4 DEF CountInv, TypeInv
<1> QED BY <1>1, <1>5, <1>6, <1>7, <1>8, <1>9 DEF LinkInv

LEMMA ThreadTestKeeps ==
  ASSUME LinkInv, NEW n \in Node, ThreadTest(n)
  PROVE  LinkInv'
<1>1. /\ ex[n] = "test" /\ \E x \in {"ended", "receive"} : ex' = [ex EXCEPT ![n] = x]
      /\ UNCHANGED <<connected, stop, saIn, saEx, open, queue, cli, emu, held, started, answered,
                     result, told>>
  BY DEF ThreadTest, history
<1>2. TypeInv /\ HandshakeInv /\ \A m \in Node : NodeInv(m) /\ ExchangeInv(m) /\ CountInv(m)
  BY DEF LinkInv
<1>3. TypeInv'
  BY <1>1, <1>2 DEF TypeInv
<1>4. HandshakeInv'
  BY <1>1, <1>2 DEF HandshakeInv, Joined
<1>5. ASSUME NEW m \in Node PROVE (NodeInv(m) /\ ExchangeInv(m) /\ CountInv(m))'
  <2>1. ex'[m] = ex[m] \/ (m = n /\ ex'[m] \in {"ended", "receive"})
    BY <1>1, <1>2 DEF TypeInv
  <2>2. NodeInv(m)'
    BY <1>1, <1>2, <2>1 DEF NodeInv, Joined
  <2>3. ExchangeInv(m)' /\ CountInv(m)'
    BY <1>1, <1>2 DEF ExchangeInv, CountInv, Joined, Asked, Handled, Answer
  <2> QED BY <2>2, <2>3
<1> QED BY <1>3, <1>4, <1>5 DEF LinkInv

LEMMA ThreadReceiveKeeps ==
  ASSUME LinkInv, NEW n \in Node, ThreadReceive(n)
  PROVE  LinkInv'
<1> DEFINE p == Peer(n)
           q == queue[n]["ex"]
           d == Head(q)
<1>1. p \in Node /\ p # n /\ Peer(p) = n /\ \A m \in Node : m = n \/ m = p
  BY Peers
<1>2. /\ TypeInv /\ HandshakeInv /\ NodeInv(n) /\ ExchangeInv(n) /\ CountInv(n)
      /\ NodeInv(p) /\ ExchangeInv(p) /\ CountInv(p)
  BY <1>1 DEF LinkInv
<1>3. /\ ex[n] = "receive" /\ q # <<>> /\ held' = [held EXCEPT ![n] = d]
      /\ saIn' = [saIn EXCEPT ![n] = d.from] /\ queue' = [queue EXCEPT ![n]["ex"] = Tail(@)]
      /\ ex' = [ex EXCEPT ![n] = "handle"]
      /\ UNCHANGED <<connected, stop, saEx, open, cli, emu, started, answered, result, told>>
  BY DEF ThreadReceive, Waiting, Taken, history
<1>4. q \in Datagrams /\ queue \in [Node -> [Socket -> Datagrams]] /\ "ex" \in Socket /\ "in" \in Socket
  BY <1>2 DEF TypeInv, Socket
<1>5. d \in Datagram /\ Tail(q) \in Datagrams
  BY <1>3, <1>4, Popped
<1>6. /\ queue' \in [Node -> [Socket -> Datagrams]] /\ queue'[n]["ex"] = Tail(q)
      /\ queue'[n]["in"] = queue[n]["in"] /\ queue'[p] = queue[p]
  BY <1>1, <1>3, <1>4, <1>5
<1> HIDE DEF d
<1>7. /\ held' \in [Node -> Datagram] /\ held'[n] = d /\ held'[p] = held[p]
      /\ ex' \in [Node -> {"none", "test", "receive", "handle", "ended"}]
      /\ ex'[n] = "handle" /\ ex'[p] = ex[p]
      /\ saIn' \in [Node -> Address] /\ saIn'[n] = d.from /\ saIn'[p] = saIn[p]
  BY <1>1, <1>2, <1>3, <1>5 DEF TypeInv, Datagram
<1>8. TypeInv'
  BY <1>2, <1>3, <1>6, <1>7 DEF TypeInv
<1>9. Joined(n) /\ held[n] = NoData
  BY <1>2, <1>3 DEF NodeInv
<1>10. HandshakeInv'
  <2>1. Joined(Connector) /\ (n = Listener => Joined(Listener)) /\ (n # Listener => n = Connector)
    BY <1>1, <1>2, <1>9, Peers DEF HandshakeInv
  <2>2. \A m \in Node : queue'[m]["in"] = queue[m]["in"]
    BY <1>1, <1>6
  <2>3. ~Joined(Listener) => queue'[Listener] = queue[Listener]
    BY <1>1, <1>6, <2>1, Peers
  <2> QED BY <1>2, <1>3, <2>1, <2>2, <2>3, HandshakeKept
<1>11. NodeInv(n)' /\ NodeInv(p)'
  BY <1>1, <1>2, <1>3, <1>6, <1>7, <1>9 DEF NodeInv, Joined
<1>12. ExchangeInv(n)'
  BY <1>1, <1>2, <1>3, <1>6, <1>7 DEF ExchangeInv, Joined, Asked, Handled, Answer
<1>13. ExchangeInv(p)'
  <2>1. held[n].kind # "byte"
    BY <1>9 DEF NoData
  <2>2. Single(q, <<p, "in">>, started[p])
    BY <1>1, <1>2 DEF ExchangeInv
  <2>3. /\ HasByte(Tail(q)) => HasByte(q)
        /\ d.kind = "byte" => HasByte(q) /\ d.from = <<p, "in">> /\ d.id = started[p]
                              /\ ~HasByte(Tail(q))
        /\ Single(Tail(q), <<p, "in">>, started[p])
    BY <1>3, <1>4, <2>2, Popped DEF d
  <2> QED BY <1>1, <1>2, <1>3, <1>6, <1>7, <2>1, <2>3 DEF ExchangeInv, Joined, Asked, Handled, Answer
<1>14. CountInv(n)' /\ CountInv(p)'
  BY <1>1, <1>2, <1>3 DEF CountInv
<1> QED BY <1>1, <1>8, <1>10, <1>11, <1>12, <1>13, <1>14 DEF LinkInv

LEMMA ThreadAnswerKeeps ==
  ASSUME LinkInv, NEW n \in Node, ThreadAnswer(n)
  PROVE  LinkInv'
<1> DEFINE p == Peer(n)
           d == Data("byte", n, "ex", held[n].id)
<1>1. p \in Node /\ p # n /\ Peer(p) = n /\ \A m \in Node : m = n \/ m = p
  BY Peers
<1>2. /\ TypeInv /\ HandshakeInv /\ NodeInv(n) /\ ExchangeInv(n) /\ CountInv(n)
      /\ NodeInv(p) /\ ExchangeInv(p) /\ CountInv(p)
  BY <1>1 DEF LinkInv
<1>3. /\ ex[n] = "handle" /\ held[n].kind = "byte" /\ UNCHANGED open
      /\ ex' = [ex EXCEPT ![n] = "test"] /\ held' = [held EXCEPT ![n] = NoData]
      /\ UNCHANGED <<connected, stop, saIn, saEx, cli, emu, started, result, told>>
  BY DEF ThreadAnswer
<1>4. queue \in [Node -> [Socket -> Datagrams]] /\ "ex" \in Socket /\ "in" \in Socket
  BY <1>2 DEF TypeInv, Socket
<1>5. /\ held' \in [Node -> Datagram] /\ held'[n] = NoData /\ held'[p] = held[p]
      /\ ex' \in [Node -> {"none", "test", "receive", "handle", "ended"}]
      /\ ex'[n] = "test" /\ ex'[p] = ex[p] /\ NoData.kind # "byte"
  BY <1>1, <1>2, <1>3 DEF TypeInv, NoData, Datagram, Kind, Address
<1>6. /\ Joined(n) /\ saIn[n] = held[n].from /\ held[n].from = <<p, "in">> /\ held[n].id = started[p]
      /\ Joined(p) /\ answered[n] + 1 = started[p] /\ ~Asked(p) /\ ~Answer(p)
      /\ (emu[p] = "reply" \/ stop[p]) /\ Handled(p)
  BY <1>1, <1>2, <1>3 DEF NodeInv, ExchangeInv, Handled
<1>7. CASE stop[n]
  <2>1. UNCHANGED <<queue, answered>>
    BY <1>7 DEF ThreadAnswer
  <2>2. TypeInv'
    BY <1>2, <1>3, <1>5, <2>1 DEF TypeInv
  <2>3. HandshakeInv'
    BY <1>2, <1>3, <2>1 DEF HandshakeInv, Joined
  <2>4. NodeInv(n)' /\ NodeInv(p)'
    BY <1>1, <1>2, <1>3, <1>5, <2>1 DEF NodeInv, Joined
  <2>5. ExchangeInv(n)' /\ ExchangeInv(p)'
    BY <1>1, <1>2, <1>3, <1>5, <2>1 DEF ExchangeInv, Joined, Asked, Handled, Answer
  <2>6. CountInv(n)' /\ CountInv(p)'
    BY <1>1, <1>2, <1>3, <2>1 DEF CountInv
  <2> QED BY <1>1, <2>2, <2>3, <2>4, <2>5, <2>6 DEF LinkInv
<1>8. CASE ~stop[n]
  <2>1. answered' = [answered EXCEPT ![n] = @ + 1] /\ queue' = Deliver(queue, saIn[n], d)
    BY <1>8 DEF ThreadAnswer
  <2>2. /\ answered' \in [Node -> Nat] /\ answered'[n] = started[p] /\ answered'[p] = answered[p]
    BY <1>1, <1>2, <1>6, <2>1 DEF TypeInv
  <2>3. d \in Datagram /\ d.kind = "byte" /\ d.from = <<n, "ex">> /\ d.id = started[p]
    BY <1>2, <1>6 DEF TypeInv, Data, Datagram, Kind, Address, Socket
  <2>4. queue' = IF "in" \in open[p] THEN [queue EXCEPT ![p]["in"] = Append(@, d)] ELSE queue
    <3>1. saIn[n] = <<p, "in">> /\ saIn[n][1] = p /\ saIn[n][2] = "in" /\ open' = open
      BY <1>3, <1>6
    <3> HIDE DEF d
    <3> QED BY <1>1, <2>1, <3>1 DEF Deliver
  <2> HIDE DEF d
  <2>5. /\ queue' \in [Node -> [Socket -> Datagrams]]
        /\ queue'[p]["in"] = queue[p]["in"] \/ queue'[p]["in"] = Append(queue[p]["in"], d)
        /\ \A m \in Node, s \in Socket : m # p \/ s # "in" => queue'[m][s] = queue[m][s]
    BY <1>1, <1>4, <2>3, <2>4, Delivered
  <2>6. queue[p]["in"] \in Datagrams /\ ~HasByte(queue[p]["in"])
    BY <1>1, <1>4, <1>6 DEF Answer
  <2>7. TypeInv'
    BY <1>2, <1>3, <1>5, <2>2, <2>5 DEF TypeInv
  <2>8. HandshakeInv'
    <3>1. Joined(Connector) /\ Joined(Listener)
      BY <1>1, <1>6, Peers
    <3>2. \A m \in Node : Joined(m)
      BY <1>1, <1>6
    <3> QED BY <1>2, <1>3, <3>1, <3>2, HandshakeKept
  <2>9. NodeInv(n)'
    BY <1>1, <1>2, <1>3, <1>4, <1>5, <2>5 DEF NodeInv, Joined
  <2>10. NodeInv(p)'
    <3>1. AnswersOnly(queue[p]["in"], p, stop[p])
      BY <1>2, <1>6 DEF NodeInv
    <3>2. AnswersOnly(queue'[p]["in"], p, stop[p])
      BY <2>3, <2>5, <2>6, <3>1, Pushed DEF Welcome
    <3> QED BY <1>1, <1>2, <1>3, <1>5, <1>6, <3>2 DEF NodeInv, Joined
  <2>11. ExchangeInv(n)'
    <3>1. queue'[p]["ex"] = queue[p]["ex"] /\ queue'[n]["in"] = queue[n]["in"]
      BY <1>1, <1>4, <2>5
    <3> QED BY <1>1, <1>2, <1>3, <1>5, <2>2, <3>1 DEF ExchangeInv, Joined, Asked, Handled, Answer
  <2>12. ExchangeInv(p)'
    <3>1. Single(queue'[p]["in"], <<n, "ex">>, started[p])
      <4>1. CASE queue'[p]["in"] = queue[p]["in"]
        BY <2>6, <4>1, NoneOf
      <4>2. CASE queue'[p]["in"] = Append(queue[p]["in"], d)
        <5>1. Single(Append(queue[p]["in"], d), d.from, d.id)
          BY <2>3, <2>6, Pushed
        <5> QED BY <2>3, <4>2, <5>1, Zenon
      <4> QED BY <2>5, <4>1, <4>2
    <3>2. queue'[n]["ex"] = queue[n]["ex"] /\ ~HasByte(queue[n]["ex"])
      BY <1>1, <1>4, <1>6, <2>5 DEF Asked
    <3>3. Single(queue'[n]["ex"], <<p, "in">>, started[p])
      BY <3>2, NoneOf
    <3>4. Joined(p)'
      BY <1>3, <1>6 DEF Joined
    <3> QED
      BY <1>1, <1>3, <1>5, <1>6, <2>2, <3>1, <3>2, <3>3, <3>4 DEF ExchangeInv, Asked, Handled, Answer
  <2>13. CountInv(n)' /\ CountInv(p)'
    BY <1>1, <1>2, <1>3, <1>6, <2>2 DEF CountInv, TypeInv
  <2> QED BY <1>1, <2>7, <2>8, <2>9, <2>10, <2>11, <2>12, <2>13 DEF LinkInv
<1> QED BY <1>7, <1>8

LEMMA ThreadTellPeerKeeps ==
  ASSUME LinkInv, NEW n \in Node, ThreadTellPeer(n)
  PROVE  LinkInv'
<1> DEFINE p == Peer(n)
           d == Data("external", n, "ex", 0)
<1>1. p \in Node /\ p # n /\ Peer(p) = n /\ \A m \in Node : m = n \/ m = p
  BY Peers
<1>2. /\ TypeInv /\ HandshakeInv /\ NodeInv(n) /\ ExchangeInv(n) /\ CountInv(n)
      /\ NodeInv(p) /\ ExchangeInv(p) /\ CountInv(p)
  BY <1>1 DEF LinkInv
<1>3. /\ ex[n] = "handle" /\ held[n].kind = "internal" /\ UNCHANGED open
      /\ queue' = Deliver(queue, saEx[n], d) /\ told' = [told EXCEPT ![n] = TRUE]
      /\ ex' = [ex EXCEPT ![n] = "test"] /\ held' = [held EXCEPT ![n] = NoData]
      /\ UNCHANGED <<connected, stop, saIn, saEx, cli, emu, started, answered, result>>
  BY DEF ThreadTellPeer
<1>4. queue \in [Node -> [Socket -> Datagrams]] /\ "ex" \in Socket /\ "in" \in Socket
  BY <1>2 DEF TypeInv, Socket
<1>5. /\ held' \in [Node -> Datagram] /\ held'[n] = NoData /\ held'[p] = held[p]
      /\ ex' \in [Node -> {"none", "test", "receive", "handle", "ended"}]
      /\ ex'[n] = "test" /\ ex'[p] = ex[p] /\ NoData.kind # "byte"
      /\ told' \in [Node -> BOOLEAN]
  BY <1>1, <1>2, <1>3 DEF TypeInv, NoData, Datagram, Kind, Address
<1>6. Joined(n) /\ saEx[n] \in Node \X {"ex"}
  BY <1>2, <1>3 DEF NodeInv
<1>7. PICK k \in Node : saEx[n] = <<k, "ex">>
  BY <1>6
<1>8. d \in Datagram /\ d.kind = "external"
  BY DEF Data, Datagram, Kind, Address, Socket
<1>9. queue' = IF "ex" \in open[k] THEN [queue EXCEPT ![k]["ex"] = Append(@, d)] ELSE queue
  BY <1>3, <1>7 DEF Deliver
<1> HIDE DEF d
<1>10. /\ queue' \in [Node -> [Socket -> Datagrams]]
       /\ queue'[k]["ex"] = queue[k]["ex"] \/ queue'[k]["ex"] = Append(queue[k]["ex"], d)
       /\ \A m \in Node, s \in Socket : m # k \/ s # "ex" => queue'[m][s] = queue[m][s]
  BY <1>4, <1>8, <1>9, Delivered
<1>11. \A m \in Node : queue'[m]["in"] = queue[m]["in"]
  BY <1>4, <1>10
<1>12. \A m \in Node : /\ HasByte(queue'[m]["ex"]) <=> HasByte(queue[m]["ex"])
                       /\ \A f, i : Single(queue[m]["ex"], f, i) => Single(queue'[m]["ex"], f, i)
                       /\ Lead(queue[m]["ex"]) => Lead(queue'[m]["ex"])
  <2>1. queue[k]["ex"] \in Datagrams
    BY <1>4
  <2>2. /\ HasByte(queue'[k]["ex"]) <=> HasByte(queue[k]["ex"])
        /\ \A f, i : Single(queue[k]["ex"], f, i) => Single(queue'[k]["ex"], f, i)
        /\ Lead(queue[k]["ex"]) => Lead(queue'[k]["ex"])
    BY <1>8, <1>10, <2>1, Pushed
  <2>3. \A m \in Node : m # k => queue'[m]["ex"] = queue[m]["ex"]
    BY <1>4, <1>10
  <2> QED BY <2>2, <2>3
<1>13. TypeInv'
  BY <1>2, <1>3, <1>5, <1>10 DEF TypeInv
<1>14. HandshakeInv'
  <2>1. Joined(Connector)
    BY <1>2, <1>6, Peers DEF HandshakeInv
  <2> QED BY <1>2, <1>3, <1>11, <1>12, <2>1, Peers, HandshakeKept
<1>15. NodeInv(n)' /\ NodeInv(p)'
  BY <1>1, <1>2, <1>3, <1>5, <1>11 DEF NodeInv, Joined
<1>16. ASSUME NEW m \in Node, ExchangeInv(m) PROVE ExchangeInv(m)'
  <2>1. Peer(m) \in Node
    BY Peers
  <2>2. /\ Joined(m)' <=> Joined(m)
        /\ emu'[m] = emu[m] /\ stop'[m] = stop[m] /\ started'[m] = started[m]
        /\ answered'[Peer(m)] = answered[Peer(m)]
    BY <1>3 DEF Joined
  <2>3. (Asked(m)' <=> Asked(m)) /\ (Answer(m)' <=> Answer(m))
    BY <1>11, <1>12, <2>1 DEF Asked, Answer
  <2>4. /\ Single(queue'[Peer(m)]["ex"], <<m, "in">>, started[m])
        /\ Single(queue'[m]["in"], <<Peer(m), "ex">>, started[m])
    BY <1>11, <1>12, <2>1, <1>16 DEF ExchangeInv
  <2>5. CASE m = n
    <3>1. held'[Peer(m)] = held[Peer(m)] /\ (Handled(m)' <=> Handled(m))
      BY <1>1, <1>5, <2>5 DEF Handled
    <3> QED BY <1>16, <2>2, <2>3, <2>4, <3>1 DEF ExchangeInv
  <2>6. CASE m = p
    <3>1. ~Handled(m)' /\ ~Handled(m)
      BY <1>1, <1>3, <1>5, <2>6 DEF Handled
    <3> QED BY <1>16, <2>2, <2>3, <2>4, <3>1 DEF ExchangeInv
  <2> QED BY <1>1, <2>5, <2>6
<1>17. CountInv(n)' /\ CountInv(p)'
  BY <1>1, <1>2, <1>3 DEF CountInv
<1> QED BY <1>1, <1>2, <1>13, <1>14, <1>15, <1>16, <1>17 DEF LinkInv

LEMMA ThreadToldKeeps ==
  ASSUME LinkInv, NEW n \in Node, ThreadTold(n)
  PROVE  LinkInv'
<1> DEFINE p == Peer(n)
           d == Data("internal", n, "ex", 0)
<1>1. p \in Node /\ p # n /\ Peer(p) = n /\ \A m \in Node : m = n \/ m = p
  BY Peers
<1>2. /\ TypeInv /\ HandshakeInv /\ NodeInv(n) /\ ExchangeInv(n) /\ CountInv(n)
      /\ NodeInv(p) /\ ExchangeInv(p) /\ CountInv(p)
  BY <1>1 DEF LinkInv
<1>3. /\ ex[n] = "handle" /\ held[n].kind \in {"external", "sig"} /\ UNCHANGED open
      /\ queue' = Deliver(queue, <<n, "in">>, d) /\ told' = [told EXCEPT ![n] = TRUE]
      /\ stop' = [stop EXCEPT ![n] = TRUE]
      /\ ex' = [ex EXCEPT ![n] = "test"] /\ held' = [held EXCEPT ![n] = NoData]
      /\ UNCHANGED <<connected, saIn, saEx, cli, emu, started, answered, result>>
  BY DEF ThreadTold
<1>4. queue \in [Node -> [Socket -> Datagrams]] /\ "ex" \in Socket /\ "in" \in Socket
  BY <1>2 DEF TypeInv, Socket
<1>5. /\ held' \in [Node -> Datagram] /\ held'[n] = NoData /\ held'[p] = held[p]
      /\ ex' \in [Node -> {"none", "test", "receive", "handle", "ended"}]
      /\ ex'[n] = "test" /\ ex'[p] = ex[p] /\ NoData.kind # "byte"
      /\ told' \in [Node -> BOOLEAN] /\ stop' \in [Node -> BOOLEAN]
      /\ stop'[n] /\ stop'[p] = stop[p]
  BY <1>1, <1>2, <1>3 DEF TypeInv, NoData, Datagram, Kind, Address
<1>6. Joined(n)
  BY <1>2, <1>3 DEF NodeInv
<1>7. d \in Datagram /\ d.kind = "internal" /\ d.from = <<n, "ex">>
  BY DEF Data, Datagram, Kind, Address, Socket
<1>8. queue' = IF "in" \in open[n] THEN [queue EXCEPT ![n]["in"] = Append(@, d)] ELSE queue
  BY <1>3 DEF Deliver
<1> HIDE DEF d
<1>9. /\ queue' \in [Node -> [Socket -> Datagrams]]
      /\ queue'[n]["in"] = queue[n]["in"] \/ queue'[n]["in"] = Append(queue[n]["in"], d)
      /\ \A m \in Node, s \in Socket : m # n \/ s # "in" => queue'[m][s] = queue[m][s]
  BY <1>4, <1>7, <1>8, Delivered
<1>10. \A m \in Node : queue'[m]["ex"] = queue[m]["ex"] /\ (m # n => queue'[m]["in"] = queue[m]["in"])
  BY <1>4, <1>9
<1>11. /\ HasByte(queue'[n]["in"]) <=> HasByte(queue[n]["in"])
       /\ \A f, i : Single(queue[n]["in"], f, i) => Single(queue'[n]["in"], f, i)
       /\ AnswersOnly(queue'[n]["in"], n, TRUE)
  <2>1. queue[n]["in"] \in Datagrams /\ stop[n] \in BOOLEAN /\ AnswersOnly(queue[n]["in"], n, stop[n])
    BY <1>2, <1>4, <1>6 DEF NodeInv, TypeInv
  <2>2. AnswersOnly(queue[n]["in"], n, TRUE)
    BY <2>1, WokenLater
  <2>3. AnswersOnly(Append(queue[n]["in"], d), n, TRUE)
    <3>1. Welcome(d, n, TRUE)
      BY <1>7 DEF Welcome
    <3> QED BY <1>7, <2>1, <2>2, <3>1, Pushed, Zenon
  <2>4. AnswersOnly(queue'[n]["in"], n, TRUE)
    BY <1>9, <2>2, <2>3, Zenon
  <2>5. /\ HasByte(queue'[n]["in"]) <=> HasByte(queue[n]["in"])
        /\ \A f, i : Single(queue[n]["in"], f, i) => Single(queue'[n]["in"], f, i)
    <3> DEFINE q == queue[n]["in"]
    <3>1. /\ HasByte(Append(q, d)) <=> HasByte(q)
          /\ \A f, i : Single(q, f, i) => Single(Append(q, d), f, i)
      <4>1. d.kind # "byte" /\ q \in Datagrams
        BY <1>7, <2>1
      <4> HIDE DEF q
      <4> QED BY <1>7, <4>1, Pushed
    <3>2. CASE queue'[n]["in"] = q
      BY <3>2
    <3>3. CASE queue'[n]["in"] = Append(q, d)
      BY <3>1, <3>3
    <3> QED BY <1>9, <3>2, <3>3
  <2> QED BY <2>4, <2>5
<1>12. TypeInv'
  BY <1>2, <1>3, <1>5, <1>9 DEF TypeInv
<1>13. HandshakeInv'
  <2>1. \A m \in Node : ~Joined(m) => queue'[m]["in"] = queue[m]["in"]
    BY <1>6, <1>10
  <2> QED BY <1>2, <1>3, <1>10, <2>1, Peers, HandshakeKept
<1>14. NodeInv(n)'
  <2>1. stop'[n] = TRUE
    BY <1>2, <1>3 DEF TypeInv
  <2>2. AnswersOnly(queue'[n]["in"], n, stop'[n])
    BY <1>11, <2>1, Zenon
  <2> QED BY <1>1, <1>2, <1>3, <1>5, <1>6, <2>2 DEF NodeInv, Joined
<1>15. NodeInv(p)'
  BY <1>1, <1>2, <1>3, <1>5, <1>10 DEF NodeInv, Joined
<1>16. ExchangeInv(n)' /\ ExchangeInv(p)'
  BY <1>1, <1>2, <1>3, <1>5, <1>10, <1>11 DEF ExchangeInv, Joined, Asked, Handled, Answer
<1>17. CountInv(n)' /\ CountInv(p)'
  BY <1>1, <1>2, <1>3, <1>5 DEF CountInv
<1> QED BY <1>1, <1>12, <1>13, <1>14, <1>15, <1>16, <1>17 DEF LinkInv

(* The wake-up for the own ex thread, sent with other changes to the queues *)
(* (b) or none                                                              *)
LEMMA WakeUp ==
  ASSUME NEW b \in [Node -> [Socket -> Datagrams]], NEW n \in Node, NEW q,
         q = b \/ q = [b EXCEPT ![n]["ex"] = Append(@, Data("internal", n, "in", 0))]
  PROVE  /\ q \in [Node -> [Socket -> Datagrams]]
         /\ \A m \in Node : q[m]["in"] = b[m]["in"] /\ (m # n => q[m]["ex"] = b[m]["ex"])
         /\ HasByte(q[n]["ex"]) <=> HasByte(b[n]["ex"])
         /\ \A f, i : Single(b[n]["ex"], f, i) => Single(q[n]["ex"], f, i)
<1> DEFINE d == Data("internal", n, "in", 0)
           e == [b EXCEPT ![n]["ex"] = Append(@, d)]
<1>1. d \in Datagram /\ d.kind = "internal"
  BY DEF Data, Datagram, Kind, Address, Socket
<1>2. "ex" \in Socket /\ "in" \in Socket /\ b[n]["ex"] \in Datagrams
  BY DEF Socket
<1> HIDE DEF d
<1>3. /\ q \in [Node -> [Socket -> Datagrams]]
      /\ q[n]["ex"] = b[n]["ex"] \/ q[n]["ex"] = Append(b[n]["ex"], d)
      /\ \A m \in Node, s \in Socket : m # n \/ s # "ex" => q[m][s] = b[m][s]
  <2>1. /\ e \in [Node -> [Socket -> Datagrams]]
        /\ e[n]["ex"] = Append(b[n]["ex"], d)
        /\ \A m \in Node, s \in Socket : m # n \/ s # "ex" => e[m][s] = b[m][s]
    BY <1>1, <1>2, Delivered
  <2>2. q = b \/ q = e
    BY DEF d
  <2> HIDE DEF e
  <2> QED BY <2>1, <2>2
<1>4. /\ HasByte(Append(b[n]["ex"], d)) <=> HasByte(b[n]["ex"])
      /\ \A f, i : Single(b[n]["ex"], f, i) => Single(Append(b[n]["ex"], d), f, i)
  BY <1>1, <1>2, Pushed
<1>5. /\ HasByte(q[n]["ex"]) <=> HasByte(b[n]["ex"])
      /\ \A f, i : Single(b[n]["ex"], f, i) => Single(q[n]["ex"], f, i)
  <2>1. CASE q[n]["ex"] = b[n]["ex"]
    BY <2>1
  <2>2. CASE q[n]["ex"] = Append(b[n]["ex"], d)
    BY <1>4, <2>2
  <2> QED BY <1>3, <2>1, <2>2
<1> QED BY <1>2, <1>3, <1>5

LEMMA SendReplyKeeps ==
  ASSUME LinkInv, NEW n \in Node, SendReply(n)
  PROVE  LinkInv'
<1> DEFINE p == Peer(n)
           q == queue[n]["in"]
           d == Head(q)
           b == [queue EXCEPT ![n]["in"] = Tail(@)]
<1>1. p \in Node /\ p # n /\ Peer(p) = n /\ \A m \in Node : m = n \/ m = p
  BY Peers
<1>2. /\ TypeInv /\ HandshakeInv /\ NodeInv(n) /\ ExchangeInv(n) /\ CountInv(n)
      /\ NodeInv(p) /\ ExchangeInv(p) /\ CountInv(p)
  BY <1>1 DEF LinkInv
<1>3. /\ emu[n] = "reply" /\ q # <<>> /\ UNCHANGED open /\ saEx' = [saEx EXCEPT ![n] = d.from]
      /\ UNCHANGED <<connected, saIn, cli, ex, held, started, answered, told>>
  BY DEF SendReply, Waiting
<1>4. /\ queue \in [Node -> [Socket -> Datagrams]] /\ "ex" \in Socket /\ "in" \in Socket
      /\ q \in Datagrams
  BY <1>2 DEF TypeInv, Socket
<1>5. Joined(n)
  BY <1>2, <1>3 DEF NodeInv
<1>6. d \in Datagram /\ Tail(q) \in Datagrams /\ Welcome(d, n, stop[n])
      /\ AnswersOnly(Tail(q), n, stop[n]) /\ Single(Tail(q), <<p, "ex">>, started[n])
      /\ (HasByte(Tail(q)) => HasByte(q))
  BY <1>2, <1>3, <1>4, <1>5, Popped DEF NodeInv, ExchangeInv
<1>7. d.kind = "byte" =>
        d.from = <<p, "ex">> /\ d.id = started[n] /\ ~HasByte(Tail(q)) /\ Answer(n)
  BY <1>2, <1>3, <1>4, Popped DEF ExchangeInv, Answer
<1>8. /\ b \in [Node -> [Socket -> Datagrams]] /\ b[n]["in"] = Tail(q)
      /\ b[n]["ex"] = queue[n]["ex"] /\ b[p] = queue[p]
  BY <1>1, <1>4, <1>6
<1>9. b = Taken(n, "in")
  BY DEF Taken
<1> HIDE DEF d, b
<1>10. saEx' \in [Node -> Address] /\ saEx'[n] = d.from /\ saEx'[p] = saEx[p]
  BY <1>1, <1>2, <1>3, <1>6 DEF TypeInv, Datagram
<1>11. CASE d.kind = "byte"
  <2>1. emu' = [emu EXCEPT ![n] = "run"] /\ result' = [result EXCEPT ![n] = d.id]
        /\ queue' = b /\ UNCHANGED stop
    BY <1>9, <1>11 DEF SendReply, d
  <2>2. /\ emu' \in [Node -> EmuState] /\ emu'[n] = "run" /\ emu'[p] = emu[p]
        /\ result' \in [Node -> Nat] /\ result'[n] = started[n] /\ result'[p] = result[p]
    BY <1>1, <1>2, <1>6, <1>7, <1>11, <2>1 DEF TypeInv, Datagram
  <2>3. TypeInv'
    BY <1>2, <1>3, <1>8, <1>10, <2>1, <2>2 DEF TypeInv
  <2>4. HandshakeInv'
    <3>1. \A m \in Node : ~Joined(m) => queue'[m] = queue[m]
      BY <1>1, <1>5, <1>8, <2>1
    <3>2. queue'[Listener]["ex"] = queue[Listener]["ex"]
      BY <1>1, <1>8, <2>1, Peers
    <3> QED BY <1>2, <1>3, <3>1, <3>2, HandshakeKept
  <2>5. NodeInv(n)'
    <3>1. saEx'[n] = <<p, "ex">> /\ saEx'[n] \in Node \X {"ex"} /\ stop'[n] = stop[n]
      BY <1>1, <1>7, <1>10, <1>11, <2>1
    <3>2. AnswersOnly(queue'[n]["in"], n, stop'[n])
      BY <1>6, <1>8, <2>1, Zenon
    <3> QED BY <1>2, <1>3, <1>5, <2>2, <3>1, <3>2 DEF NodeInv, Joined
  <2>6. NodeInv(p)'
    BY <1>1, <1>2, <1>3, <1>8, <1>10, <2>1, <2>2 DEF NodeInv, Joined
  <2>7. ExchangeInv(n)'
    BY <1>1, <1>2, <1>3, <1>6, <1>7, <1>8, <1>11, <2>1, <2>2
       DEF ExchangeInv, Joined, Asked, Handled, Answer
  <2>8. ExchangeInv(p)'
    BY <1>1, <1>2, <1>3, <1>8, <2>1, <2>2 DEF ExchangeInv, Joined, Asked, Handled, Answer
  <2>9. answered[p] = started[n]
    BY <1>2, <1>7, <1>11 DEF ExchangeInv
  <2>10. CountInv(n)' /\ CountInv(p)'
    BY <1>1, <1>2, <1>3, <2>1, <2>2, <2>9 DEF CountInv, TypeInv
  <2> QED BY <1>1, <2>3, <2>4, <2>5, <2>6, <2>7, <2>8, <2>10 DEF LinkInv
<1>12. CASE d.kind # "byte"
  <2>1. emu' = [emu EXCEPT ![n] = "close"] /\ result' = [result EXCEPT ![n] = 0] /\ BeginClose(n, b)
    BY <1>9, <1>12 DEF SendReply, d
  <2>2. d.from = <<n, "ex">> /\ stop[n]
    BY <1>6, <1>12 DEF Welcome
  <2>3. stop' = stop
    BY <1>2, <2>1, <2>2 DEF BeginClose, TypeInv
  <2>4. queue' = b \/ queue' = [b EXCEPT ![n]["ex"] = Append(@, Data("internal", n, "in", 0))]
    BY <1>3, <2>1 DEF BeginClose, Deliver
  <2>5. /\ queue' \in [Node -> [Socket -> Datagrams]]
        /\ queue'[n]["in"] = Tail(q) /\ queue'[p]["in"] = queue[p]["in"]
        /\ queue'[p]["ex"] = queue[p]["ex"]
        /\ HasByte(queue'[n]["ex"]) <=> HasByte(queue[n]["ex"])
        /\ \A f, i : Single(queue[n]["ex"], f, i) => Single(queue'[n]["ex"], f, i)
    <3>1. /\ queue' \in [Node -> [Socket -> Datagrams]]
          /\ \A m \in Node : queue'[m]["in"] = b[m]["in"] /\ (m # n => queue'[m]["ex"] = b[m]["ex"])
          /\ HasByte(queue'[n]["ex"]) <=> HasByte(b[n]["ex"])
          /\ \A f, i : Single(b[n]["ex"], f, i) => Single(queue'[n]["ex"], f, i)
      BY <1>8, <2>4, WakeUp
    <3> QED BY <1>1, <1>8, <3>1
  <2>6. /\ emu' \in [Node -> EmuState] /\ emu'[n] = "close" /\ emu'[p] = emu[p]
        /\ result' \in [Node -> Nat] /\ result'[n] = 0 /\ result'[p] = result[p]
    BY <1>1, <1>2, <2>1 DEF TypeInv
  <2>7. TypeInv'
    BY <1>2, <1>3, <1>10, <2>3, <2>5, <2>6 DEF TypeInv
  <2>8. HandshakeInv'
    <3>1. \A m \in Node : ~Joined(m) => queue'[m]["in"] = queue[m]["in"] /\ queue'[m]["ex"] = queue[m]["ex"]
      BY <1>1, <1>5, <2>5
    <3>2. Joined(Connector)
      BY <1>1, <1>2, <1>5, Peers DEF HandshakeInv
    <3> QED BY <1>2, <1>3, <3>1, <3>2, Peers, HandshakeKept
  <2>9. NodeInv(n)'
    <3>1. saEx'[n] \in Node \X {"ex"} /\ stop'[n]
      BY <1>10, <2>2, <2>3
    <3>2. AnswersOnly(queue'[n]["in"], n, stop'[n])
      BY <1>6, <2>3, <2>5, Zenon
    <3> QED BY <1>2, <1>3, <1>5, <2>6, <3>1, <3>2 DEF NodeInv, Joined
  <2>10. NodeInv(p)'
    BY <1>1, <1>2, <1>3, <1>10, <2>3, <2>5, <2>6 DEF NodeInv, Joined
  <2>11. ExchangeInv(n)'
    BY <1>1, <1>2, <1>3, <1>6, <2>2, <2>3, <2>5, <2>6
       DEF ExchangeInv, Joined, Asked, Handled, Answer
  <2>12. ExchangeInv(p)'
    BY <1>1, <1>2, <1>3, <2>3, <2>5, <2>6 DEF ExchangeInv, Joined, Asked, Handled, Answer
  <2>13. CountInv(n)' /\ CountInv(p)'
    BY <1>1, <1>2, <1>3, <2>2, <2>3, <2>6 DEF CountInv, TypeInv
  <2> QED BY <1>1, <2>7, <2>8, <2>9, <2>10, <2>11, <2>12, <2>13 DEF LinkInv
<1> QED BY <1>11, <1>12

LEMMA DisconnectKeeps ==
  ASSUME LinkInv, NEW n \in Node, Disconnect(n)
  PROVE  LinkInv'
<1> DEFINE p == Peer(n)
<1>1. p \in Node /\ p # n /\ Peer(p) = n /\ \A m \in Node : m = n \/ m = p
  BY Peers
<1>2. /\ TypeInv /\ HandshakeInv /\ NodeInv(n) /\ ExchangeInv(n) /\ CountInv(n)
      /\ NodeInv(p) /\ ExchangeInv(p) /\ CountInv(p)
  BY <1>1 DEF LinkInv
<1>3. /\ cli[n] = "idle" /\ UNCHANGED open /\ BeginClose(n, queue) /\ cli' = [cli EXCEPT ![n] = "close"]
      /\ UNCHANGED <<connected, saIn, saEx, emu, ex, held, started, answered, result, told>>
  BY DEF Disconnect, history
<1>4. queue \in [Node -> [Socket -> Datagrams]] /\ "ex" \in Socket /\ "in" \in Socket
  BY <1>2 DEF TypeInv, Socket
<1>5. /\ cli' \in [Node -> CliState]
      /\ cli'[p] = cli[p] /\ cli'[n] = "close" /\ Joined(n) /\ Joined(n)' /\ (Joined(p)' <=> Joined(p))
  BY <1>1, <1>2, <1>3 DEF TypeInv, Joined
<1>6. stop' \in [Node -> BOOLEAN] /\ stop'[p] = stop[p] /\ (stop'[n] = stop[n] \/ stop'[n] = TRUE)
  BY <1>1, <1>2, <1>3 DEF BeginClose, TypeInv
<1>7. queue' = queue \/ queue' = [queue EXCEPT ![n]["ex"] = Append(@, Data("internal", n, "in", 0))]
  BY <1>3 DEF BeginClose, Deliver
<1>8. /\ queue' \in [Node -> [Socket -> Datagrams]]
      /\ queue'[n]["in"] = queue[n]["in"] /\ queue'[p]["in"] = queue[p]["in"]
      /\ queue'[p]["ex"] = queue[p]["ex"]
      /\ HasByte(queue'[n]["ex"]) <=> HasByte(queue[n]["ex"])
      /\ \A f, i : Single(queue[n]["ex"], f, i) => Single(queue'[n]["ex"], f, i)
  <2>1. /\ queue' \in [Node -> [Socket -> Datagrams]]
        /\ \A m \in Node : queue'[m]["in"] = queue[m]["in"] /\ (m # n => queue'[m]["ex"] = queue[m]["ex"])
        /\ HasByte(queue'[n]["ex"]) <=> HasByte(queue[n]["ex"])
        /\ \A f, i : Single(queue[n]["ex"], f, i) => Single(queue'[n]["ex"], f, i)
    BY <1>4, <1>7, WakeUp
  <2> QED BY <1>1, <2>1
<1>9. TypeInv'
  BY <1>2, <1>3, <1>5, <1>6, <1>8 DEF TypeInv
<1>10. HandshakeInv'
  <2>1. \A m \in Node : ~Joined(m) => queue'[m]["in"] = queue[m]["in"] /\ queue'[m]["ex"] = queue[m]["ex"]
    BY <1>1, <1>5, <1>8
  <2>2. Joined(Connector)
    BY <1>1, <1>2, <1>5, Peers DEF HandshakeInv
  <2>3. \A m \in Node : cli'[m] = cli[m] \/ (Joined(m) /\ Joined(m)')
    BY <1>1, <1>5
  <2> QED BY <1>2, <1>3, <2>1, <2>2, <2>3, Peers, HandshakeKept
<1>11. NodeInv(n)'
  <2>1. AnswersOnly(queue[n]["in"], n, stop[n]) /\ stop[n] \in BOOLEAN
    BY <1>2, <1>5 DEF NodeInv, TypeInv
  <2>2. AnswersOnly(queue[n]["in"], n, TRUE)
    BY <2>1, WokenLater
  <2>3. AnswersOnly(queue[n]["in"], n, stop'[n])
    BY <1>6, <2>1, <2>2, Zenon
  <2>4. stop[n] => stop'[n]
    BY <1>6
  <2> QED BY <1>1, <1>2, <1>3, <1>5, <1>8, <2>3, <2>4 DEF NodeInv
<1>12. NodeInv(p)'
  BY <1>1, <1>2, <1>3, <1>5, <1>6, <1>8 DEF NodeInv
<1>13. ExchangeInv(n)' /\ ExchangeInv(p)'
  BY <1>1, <1>2, <1>3, <1>5, <1>6, <1>8 DEF ExchangeInv, Asked, Handled, Answer
<1>14. CountInv(n)' /\ CountInv(p)'
  BY <1>1, <1>2, <1>3, <1>6 DEF CountInv
<1> QED BY <1>1, <1>9, <1>10, <1>11, <1>12, <1>13, <1>14 DEF LinkInv

(* The joins of either thread, and what comes after them                    *)
LEMMA CloseKeeps ==
  ASSUME LinkInv, NEW n \in Node,
         \/ BeginJoin(n, cli, emu) \/ BeginJoin(n, emu, cli)
         \/ DisconnectEnd(n) \/ SendClosed(n)
  PROVE  LinkInv'
<1> DEFINE p == Peer(n)
<1>1. p \in Node /\ p # n /\ Peer(p) = n /\ \A m \in Node : m = n \/ m = p
  BY Peers
<1>2. /\ TypeInv /\ HandshakeInv /\ NodeInv(n) /\ ExchangeInv(n) /\ CountInv(n)
      /\ NodeInv(p) /\ ExchangeInv(p) /\ CountInv(p)
  BY <1>1 DEF LinkInv
<1>3. \/ /\ cli[n] \in {"close", "join"} /\ UNCHANGED emu
         /\ \E v \in {"join", "closed", "thrown"} : cli' = [cli EXCEPT ![n] = v]
      \/ /\ emu[n] \in {"close", "join"} /\ UNCHANGED cli
         /\ \E v \in {"join", "run", "thrown"} : emu' = [emu EXCEPT ![n] = v]
  BY DEF BeginJoin, DisconnectEnd, SendClosed, EndClose
<1>4. queue \in [Node -> [Socket -> Datagrams]] /\ "ex" \in Socket /\ "in" \in Socket
  BY <1>2 DEF TypeInv, Socket
<1>5. /\ ex' = ex \/ (ex[n] \in {"none", "ended"} /\ ex' = [ex EXCEPT ![n] = "none"])
      /\ connected' = connected \/ connected' = [connected EXCEPT ![n] = FALSE]
      /\ \/ UNCHANGED <<open, queue>>
         \/ /\ open' = [open EXCEPT ![n] = {}]
            /\ queue' = [queue EXCEPT ![n] = [s \in Socket |-> <<>>]]
      /\ UNCHANGED <<stop, saIn, saEx, held, started, answered, result, told>>
  BY DEF BeginJoin, DisconnectEnd, SendClosed, EndClose, NothingOpen, history
<1>6. /\ ex' \in [Node -> {"none", "test", "receive", "handle", "ended"}]
      /\ ex'[n] = ex[n] \/ (ex[n] \in {"none", "ended"} /\ ex'[n] = "none")
      /\ ex'[p] = ex[p] /\ connected' \in [Node -> BOOLEAN]
      /\ open' \in [Node -> SUBSET Socket] /\ \A m \in Node : open'[m] \subseteq open[m]
  BY <1>1, <1>2, <1>5 DEF TypeInv
<1>7. /\ cli' \in [Node -> CliState] /\ emu' \in [Node -> EmuState]
      /\ cli'[p] = cli[p] /\ emu'[p] = emu[p]
      /\ \/ emu'[n] = emu[n]
         \/ emu[n] \in {"close", "join"} /\ emu'[n] \in {"join", "run", "thrown"}
      /\ \/ cli'[n] = cli[n]
         \/ cli[n] \in {"close", "join"} /\ cli'[n] \in {"join", "closed", "thrown"}
  <2>1. cli \in [Node -> CliState] /\ emu \in [Node -> EmuState]
    BY <1>2 DEF TypeInv
  <2>2. ASSUME NEW v \in {"join", "closed", "thrown"}, cli' = [cli EXCEPT ![n] = v]
        PROVE  cli' \in [Node -> CliState] /\ cli'[p] = cli[p] /\ cli'[n] = v
    BY <1>1, <2>1, <2>2
  <2>3. ASSUME NEW v \in {"join", "run", "thrown"}, emu' = [emu EXCEPT ![n] = v]
        PROVE  emu' \in [Node -> EmuState] /\ emu'[p] = emu[p] /\ emu'[n] = v
    BY <1>1, <2>1, <2>3
  <2> HIDE DEF CliState, EmuState
  <2> QED BY <1>3, <2>1, <2>2, <2>3
<1>8. Joined(n) /\ Joined(n)' /\ (Joined(p)' <=> Joined(p))
  BY <1>2, <1>3, <1>7 DEF NodeInv, Joined
<1>9. /\ queue' \in [Node -> [Socket -> Datagrams]] /\ queue'[p] = queue[p]
      /\ queue'[n] = queue[n] \/ (queue'[n]["in"] = <<>> /\ queue'[n]["ex"] = <<>>)
  BY <1>1, <1>4, <1>5, Emptied
<1>10. TypeInv'
  BY <1>2, <1>5, <1>6, <1>7, <1>9 DEF TypeInv
<1>11. HandshakeInv'
  <2>1. \A m \in Node : ~Joined(m) => queue'[m] = queue[m]
    BY <1>1, <1>8, <1>9
  <2>2. Joined(Connector)
    BY <1>1, <1>2, <1>8, Peers DEF HandshakeInv
  <2>3. \A m \in Node : cli'[m] = cli[m] \/ (Joined(m) /\ Joined(m)')
    BY <1>1, <1>7, <1>8
  <2> QED BY <1>2, <1>6, <2>1, <2>2, <2>3, Peers, HandshakeKept
<1>12. NodeInv(n)'
  <2>1. AnswersOnly(queue'[n]["in"], n, stop'[n])
    <3>1. AnswersOnly(queue[n]["in"], n, stop[n]) /\ stop' = stop
      BY <1>2, <1>5, <1>8 DEF NodeInv
    <3> QED BY <1>9, <3>1, Emptied, Zenon
  <2> QED BY <1>1, <1>2, <1>5, <1>6, <1>7, <1>8, <2>1 DEF NodeInv
<1>13. NodeInv(p)'
  BY <1>1, <1>2, <1>5, <1>6, <1>7, <1>8, <1>9 DEF NodeInv
<1>14. ExchangeInv(n)'
  BY <1>1, <1>2, <1>5, <1>7, <1>8, <1>9, Emptied DEF ExchangeInv, Asked, Handled, Answer
<1>15. ExchangeInv(p)'
  BY <1>1, <1>2, <1>5, <1>7, <1>8, <1>9, Emptied DEF ExchangeInv, Asked, Handled, Answer
<1>16. CountInv(n)' /\ CountInv(p)'
  BY <1>1, <1>2, <1>5, <1>7 DEF CountInv
<1> QED BY <1>1, <1>10, <1>11, <1>12, <1>13, <1>14, <1>15, <1>16 DEF LinkInv

-----------------------------------------------------------------------------
(* The steps of the handshake                                               *)

LEMMA ListenKeeps ==
  ASSUME LinkInv, Listen
  PROVE  LinkInv'
<1> DEFINE L == Listener
           C == Connector
<1>1. /\ TypeInv /\ HandshakeInv /\ NodeInv(L) /\ ExchangeInv(L) /\ CountInv(L)
      /\ NodeInv(C) /\ ExchangeInv(C) /\ CountInv(C)
      /\ L \in Node /\ C \in Node /\ L # C /\ Peer(L) = C /\ Peer(C) = L
      /\ \A m \in Node : m = L \/ m = C
  BY Peers DEF LinkInv
<1>2. queue \in [Node -> [Socket -> Datagrams]] /\ "ex" \in Socket /\ "in" \in Socket
  BY <1>1 DEF TypeInv, Socket
<1>3. /\ cli[L] = "new" /\ cli' = [cli EXCEPT ![L] = "signature"]
      /\ connected' = [connected EXCEPT ![L] = TRUE] /\ open' = [open EXCEPT ![L] = {"in"}]
      /\ UNCHANGED <<stop, saIn, saEx, queue, emu, ex, held, started, answered, result, told>>
  BY DEF Listen, history
<1>4. /\ cli' \in [Node -> CliState]
      /\ cli'[L] = "signature" /\ cli'[C] = cli[C] /\ ~Joined(L) /\ ~Joined(L)'
      /\ (Joined(C)' <=> Joined(C))
      /\ open' \in [Node -> SUBSET Socket] /\ open'[C] = open[C] /\ connected' \in [Node -> BOOLEAN]
  BY <1>1, <1>3 DEF TypeInv, Joined, Socket
<1>5. TypeInv'
  BY <1>1, <1>3, <1>4 DEF TypeInv
<1>6. HandshakeInv'
  BY <1>1, <1>3, <1>4 DEF HandshakeInv, Joined
<1>7. NodeInv(L)' /\ NodeInv(C)'
  BY <1>1, <1>3, <1>4 DEF NodeInv
<1>8. ExchangeInv(L)' /\ ExchangeInv(C)'
  BY <1>1, <1>3, <1>4 DEF ExchangeInv, Asked, Handled, Answer
<1>9. CountInv(L)' /\ CountInv(C)'
  BY <1>1, <1>3 DEF CountInv
<1> QED BY <1>1, <1>5, <1>6, <1>7, <1>8, <1>9 DEF LinkInv

LEMMA ConnectKeeps ==
  ASSUME LinkInv, Connect
  PROVE  LinkInv'
<1> DEFINE L == Listener
           C == Connector
           d == Data("sig", Connector, "in", 0)
<1>1. /\ TypeInv /\ HandshakeInv /\ NodeInv(L) /\ ExchangeInv(L) /\ CountInv(L)
      /\ NodeInv(C) /\ ExchangeInv(C) /\ CountInv(C)
      /\ L \in Node /\ C \in Node /\ L # C /\ Peer(L) = C /\ Peer(C) = L
      /\ \A m \in Node : m = L \/ m = C
  BY Peers DEF LinkInv
<1>2. queue \in [Node -> [Socket -> Datagrams]] /\ "ex" \in Socket /\ "in" \in Socket
  BY <1>1 DEF TypeInv, Socket
<1>3. /\ cli[C] = "new" /\ cli' = [cli EXCEPT ![C] = "answer"]
      /\ connected' = [connected EXCEPT ![C] = TRUE] /\ open' = [open EXCEPT ![C] = {"in"}]
      /\ saIn' = [saIn EXCEPT ![C] = <<L, "in">>] /\ queue' = Deliver(queue, <<L, "in">>, d)
      /\ UNCHANGED <<stop, saEx, emu, ex, held, started, answered, result, told>>
  BY DEF Connect, history
<1>4. /\ cli' \in [Node -> CliState]
      /\ cli'[C] = "answer" /\ cli'[L] = cli[L] /\ ~Joined(C) /\ ~Joined(C)' /\ ~Joined(L) /\ ~Joined(L)'
      /\ open' \in [Node -> SUBSET Socket] /\ open'[L] = open[L] /\ connected' \in [Node -> BOOLEAN]
      /\ saIn' \in [Node -> Address]
  BY <1>1, <1>2, <1>3 DEF TypeInv, Joined, Socket, HandshakeInv, Address
<1>5. /\ d \in Datagram /\ d.kind = "sig" /\ cli[L] \in {"new", "signature"}
      /\ queue[L]["in"] = <<>> /\ queue[C]["in"] = <<>> /\ queue[L]["ex"] = <<>>
      /\ (cli[L] = "new" => open[L] = {}) /\ ex[C] = "none" /\ ex[L] = "none"
  BY <1>1, <1>3, <1>4 DEF HandshakeInv, TypeInv, Joined, NodeInv, Data, Datagram, Kind, Address, Socket
<1>6. queue' = IF "in" \in open[L] THEN [queue EXCEPT ![L]["in"] = Append(@, d)] ELSE queue
  BY <1>1, <1>3, <1>4 DEF Deliver
<1>7. d = Data("sig", C, "in", 0)
  OBVIOUS
<1> HIDE DEF d
<1>8. /\ queue' \in [Node -> [Socket -> Datagrams]]
      /\ queue'[L]["in"] = queue[L]["in"] \/ (queue'[L]["in"] = Append(queue[L]["in"], d) /\ "in" \in open[L])
      /\ \A m \in Node, s \in Socket : m # L \/ s # "in" => queue'[m][s] = queue[m][s]
  BY <1>1, <1>2, <1>5, <1>6, Delivered
<1>9. /\ queue'[L]["in"] = <<>> \/ (queue'[L]["in"] = <<d>> /\ cli[L] = "signature")
      /\ queue'[C]["in"] = <<>> /\ queue'[L]["ex"] = <<>> /\ queue'[C]["ex"] = queue[C]["ex"]
  BY <1>1, <1>2, <1>5, <1>8
<1>10. ~HasByte(queue'[L]["in"]) /\ \A f, k : Single(queue'[L]["in"], f, k)
  <2>1. ~HasByte(<<d>>)
    BY <1>5 DEF HasByte
  <2> QED BY <1>9, <2>1, Emptied, NoneOf
<1>11. TypeInv'
  BY <1>1, <1>3, <1>4, <1>8 DEF TypeInv
<1>12. HandshakeInv'
  BY <1>1, <1>3, <1>4, <1>7, <1>9 DEF HandshakeInv, Joined
<1>13. NodeInv(L)' /\ NodeInv(C)'
  BY <1>1, <1>3, <1>4, <1>5 DEF NodeInv
<1>14. ExchangeInv(L)' /\ ExchangeInv(C)'
  BY <1>1, <1>3, <1>4, <1>5, <1>9, <1>10 DEF ExchangeInv, Asked, Handled, Answer
<1>15. CountInv(L)' /\ CountInv(C)'
  BY <1>1, <1>3 DEF CountInv
<1> QED BY <1>1, <1>11, <1>12, <1>13, <1>14, <1>15 DEF LinkInv

LEMMA ListenAnswerKeeps ==
  ASSUME LinkInv, ListenAnswer
  PROVE  LinkInv'
<1> DEFINE L == Listener
           C == Connector
           d == Data("sig", Listener, "ex", 0)
           b == [queue EXCEPT ![L]["in"] = Tail(@)]
<1>1. /\ TypeInv /\ HandshakeInv /\ NodeInv(L) /\ ExchangeInv(L) /\ CountInv(L)
      /\ NodeInv(C) /\ ExchangeInv(C) /\ CountInv(C)
      /\ L \in Node /\ C \in Node /\ L # C /\ Peer(L) = C /\ Peer(C) = L
      /\ \A m \in Node : m = L \/ m = C
  BY Peers DEF LinkInv
<1>2. queue \in [Node -> [Socket -> Datagrams]] /\ "ex" \in Socket /\ "in" \in Socket
  BY <1>1 DEF TypeInv, Socket
<1>3. /\ cli[L] = "signature" /\ queue[L]["in"] # <<>>
      /\ UNCHANGED <<stop, saEx, emu, ex, held, started, answered, result, told>>
  BY DEF ListenAnswer, Waiting, history
<1>4. /\ queue[L]["in"] = <<Data("sig", C, "in", 0)>> /\ ~Joined(C) /\ ~Joined(L)
      /\ queue[C]["in"] = <<>> /\ queue[L]["ex"] = <<>> /\ cli[C] = "answer"
      /\ ex[C] = "none" /\ ex[L] = "none"
  BY <1>1, <1>3 DEF HandshakeInv, Joined, NodeInv, TypeInv
<1>5. /\ Head(queue[L]["in"]).kind = "sig" /\ Head(queue[L]["in"]).from = <<C, "in">>
      /\ Tail(queue[L]["in"]) = <<>>
  BY <1>4 DEF Data
<1>6. /\ saIn' = [saIn EXCEPT ![L] = <<C, "in">>] /\ open' = [open EXCEPT ![L] = Socket]
      /\ queue' = Deliver(b, <<C, "in">>, d) /\ cli' = [cli EXCEPT ![L] = "second"]
      /\ UNCHANGED connected
  BY <1>5 DEF ListenAnswer, Taken
<1>7. /\ b \in [Node -> [Socket -> Datagrams]] /\ b[L]["in"] = <<>> /\ b[L]["ex"] = <<>>
      /\ b[C] = queue[C]
  BY <1>1, <1>2, <1>4, <1>5, Emptied
<1>8. /\ cli' \in [Node -> CliState]
      /\ cli'[L] = "second" /\ cli'[C] = "answer" /\ ~Joined(C)' /\ ~Joined(L)'
      /\ open' \in [Node -> SUBSET Socket] /\ open'[C] = open[C]
      /\ saIn' \in [Node -> Address]
  BY <1>1, <1>2, <1>4, <1>6 DEF TypeInv, Joined, Socket, Address
<1>9. d \in Datagram /\ d.kind = "sig"
  BY <1>1 DEF Data, Datagram, Kind, Address, Socket
<1> HIDE DEF b
<1>10. queue' = IF "in" \in open[C] THEN [b EXCEPT ![C]["in"] = Append(@, d)] ELSE b
  BY <1>1, <1>6, <1>8 DEF Deliver
<1>20. d = Data("sig", L, "ex", 0)
  OBVIOUS
<1> HIDE DEF d
<1>11. /\ queue' \in [Node -> [Socket -> Datagrams]]
       /\ queue'[C]["in"] = (IF "in" \in open[C] THEN Append(b[C]["in"], d) ELSE b[C]["in"])
       /\ \A m \in Node, s \in Socket : m # C \/ s # "in" => queue'[m][s] = b[m][s]
  <2> DEFINE e == [b EXCEPT ![C]["in"] = Append(@, d)]
  <2>1. /\ e \in [Node -> [Socket -> Datagrams]] /\ e[C]["in"] = Append(b[C]["in"], d)
        /\ \A m \in Node, s \in Socket : m # C \/ s # "in" => e[m][s] = b[m][s]
    <3>1. C \in Node /\ "in" \in Socket /\ b \in [Node -> [Socket -> Datagrams]] /\ d \in Datagram
      BY <1>1, <1>2, <1>7, <1>9
    <3> HIDE DEF C
    <3> QED BY <3>1, Delivered
  <2>2. queue' = IF "in" \in open[C] THEN e ELSE b
    BY <1>10
  <2> HIDE DEF e
  <2> QED BY <1>7, <2>1, <2>2
<1>12. /\ queue'[C]["in"] \in {<<>>, <<d>>} /\ queue'[L]["in"] = <<>> /\ queue'[L]["ex"] = <<>>
       /\ queue'[C]["ex"] = queue[C]["ex"]
  BY <1>1, <1>2, <1>4, <1>7, <1>9, <1>11
<1>13. ~HasByte(queue'[C]["in"]) /\ \A f, k : Single(queue'[C]["in"], f, k)
  <2>1. ~HasByte(<<d>>)
    BY <1>9 DEF HasByte
  <2> QED BY <1>12, <2>1, Emptied, NoneOf
<1>14. TypeInv'
  BY <1>1, <1>3, <1>6, <1>8, <1>11 DEF TypeInv
<1>15. HandshakeInv'
  BY <1>1, <1>3, <1>4, <1>8, <1>12, <1>20 DEF HandshakeInv, Joined
<1>16. NodeInv(L)' /\ NodeInv(C)'
  BY <1>1, <1>3, <1>4, <1>8 DEF NodeInv
<1>17. ExchangeInv(L)' /\ ExchangeInv(C)'
  BY <1>1, <1>3, <1>4, <1>8, <1>12, <1>13, Emptied DEF ExchangeInv, Asked, Handled, Answer
<1>18. CountInv(L)' /\ CountInv(C)'
  BY <1>1, <1>3 DEF CountInv
<1> QED BY <1>1, <1>14, <1>15, <1>16, <1>17, <1>18 DEF LinkInv

LEMMA ConnectEndKeeps ==
  ASSUME LinkInv, ConnectEnd
  PROVE  LinkInv'
<1> DEFINE L == Listener
           C == Connector
           d == Data("sig", Connector, "ex", 0)
           b == [queue EXCEPT ![C]["in"] = Tail(@)]
<1>1. /\ TypeInv /\ HandshakeInv /\ NodeInv(L) /\ ExchangeInv(L) /\ CountInv(L)
      /\ NodeInv(C) /\ ExchangeInv(C) /\ CountInv(C)
      /\ L \in Node /\ C \in Node /\ L # C /\ Peer(L) = C /\ Peer(C) = L
      /\ \A m \in Node : m = L \/ m = C
  BY Peers DEF LinkInv
<1>2. queue \in [Node -> [Socket -> Datagrams]] /\ "ex" \in Socket /\ "in" \in Socket
  BY <1>1 DEF TypeInv, Socket
<1>3. /\ cli[C] = "answer" /\ queue[C]["in"] # <<>>
      /\ stop' = [stop EXCEPT ![C] = FALSE] /\ ex' = [ex EXCEPT ![C] = "test"]
      /\ cli' = [cli EXCEPT ![C] = "idle"] /\ open' = [open EXCEPT ![C] = Socket]
      /\ UNCHANGED <<connected, saIn, emu, held, started, answered, result, told>>
  BY DEF ConnectEnd, StartThread, Waiting, history
<1>4. /\ queue[C]["in"] = <<Data("sig", L, "ex", 0)>> /\ ~Joined(C) /\ ~Joined(L)
      /\ queue[L]["ex"] = <<>> /\ cli[L] = "second" /\ queue[L]["in"] = <<>>
      /\ ex[C] = "none" /\ ex[L] = "none" /\ held[C] = NoData /\ ~stop[C]
  BY <1>1, <1>3 DEF HandshakeInv, Joined, NodeInv, TypeInv
<1>5. Head(queue[C]["in"]).from = <<L, "ex">> /\ Tail(queue[C]["in"]) = <<>>
  BY <1>4 DEF Data
<1>6. saEx' = [saEx EXCEPT ![C] = <<L, "ex">>] /\ queue' = Deliver(b, <<L, "ex">>, d)
  BY <1>5 DEF ConnectEnd, Taken
<1>7. /\ b \in [Node -> [Socket -> Datagrams]] /\ b[C]["in"] = <<>> /\ b[C]["ex"] = queue[C]["ex"]
      /\ b[L] = queue[L]
  BY <1>1, <1>2, <1>5, Emptied
<1>8. /\ cli' \in [Node -> CliState]
      /\ cli'[C] = "idle" /\ cli'[L] = "second" /\ Joined(C)' /\ ~Joined(L)'
      /\ open' \in [Node -> SUBSET Socket] /\ open'[L] = open[L]
      /\ saEx' \in [Node -> Address] /\ saEx'[C] = <<L, "ex">> /\ saEx'[L] = saEx[L]
      /\ ex' \in [Node -> {"none", "test", "receive", "handle", "ended"}]
      /\ ex'[C] = "test" /\ ex'[L] = "none"
      /\ stop' \in [Node -> BOOLEAN] /\ ~stop'[C] /\ stop'[L] = stop[L]
  BY <1>1, <1>2, <1>3, <1>4, <1>6 DEF TypeInv, Joined, Socket, Address
<1>9. d \in Datagram /\ d.kind = "sig"
  BY <1>1 DEF Data, Datagram, Kind, Address, Socket
<1> HIDE DEF b
<1>10. queue' = IF "ex" \in open[L] THEN [b EXCEPT ![L]["ex"] = Append(@, d)] ELSE b
  BY <1>1, <1>6, <1>8 DEF Deliver
<1>11. Lead(<<d>>)
  BY DEF Lead
<1> HIDE DEF d
<1>12. /\ queue' \in [Node -> [Socket -> Datagrams]]
       /\ queue'[L]["ex"] = (IF "ex" \in open[L] THEN Append(b[L]["ex"], d) ELSE b[L]["ex"])
       /\ \A m \in Node, s \in Socket : m # L \/ s # "ex" => queue'[m][s] = b[m][s]
  BY <1>1, <1>2, <1>7, <1>9, <1>10, Delivered
<1>13. /\ queue'[L]["ex"] = (IF "ex" \in open[L] THEN <<d>> ELSE <<>>) /\ queue'[C]["in"] = <<>>
       /\ queue'[L]["in"] = <<>> /\ queue'[C]["ex"] = queue[C]["ex"]
  BY <1>1, <1>2, <1>4, <1>7, <1>12
<1>14. ~HasByte(queue'[L]["ex"]) /\ \A f, k : Single(queue'[L]["ex"], f, k)
  <2>1. ~HasByte(<<d>>)
    BY <1>9 DEF HasByte
  <2> QED BY <1>13, <2>1, Emptied, NoneOf
<1>15. TypeInv'
  BY <1>1, <1>3, <1>8, <1>12 DEF TypeInv
<1>16. HandshakeInv'
  BY <1>1, <1>3, <1>8, <1>11, <1>13 DEF HandshakeInv, Joined
<1>17. NodeInv(C)'
  <2>1. AnswersOnly(queue'[C]["in"], C, stop'[C])
    BY <1>13, Emptied, Zenon
  <2>2. saEx'[C] \in Node \X {"ex"} /\ held'[C] = NoData
    BY <1>1, <1>3, <1>4, <1>8
  <2> QED BY <1>1, <1>8, <2>1, <2>2 DEF NodeInv
<1>18. NodeInv(L)'
  BY <1>1, <1>3, <1>4, <1>8, <1>13 DEF NodeInv
<1>19. ExchangeInv(L)' /\ ExchangeInv(C)'
  BY <1>1, <1>3, <1>4, <1>8, <1>13, <1>14, Emptied DEF ExchangeInv, Asked, Handled, Answer
<1>20. CountInv(L)' /\ CountInv(C)'
  BY <1>1, <1>3, <1>4, <1>8 DEF CountInv
<1> QED BY <1>1, <1>15, <1>16, <1>17, <1>18, <1>19, <1>20 DEF LinkInv

LEMMA ListenEndKeeps ==
  ASSUME LinkInv, ListenEnd
  PROVE  LinkInv'
<1> DEFINE L == Listener
           C == Connector
           q == queue[L]["ex"]
<1>1. /\ TypeInv /\ HandshakeInv /\ NodeInv(L) /\ ExchangeInv(L) /\ CountInv(L)
      /\ NodeInv(C) /\ ExchangeInv(C) /\ CountInv(C)
      /\ L \in Node /\ C \in Node /\ L # C /\ Peer(L) = C /\ Peer(C) = L
      /\ \A m \in Node : m = L \/ m = C
  BY Peers DEF LinkInv
<1>2. queue \in [Node -> [Socket -> Datagrams]] /\ "ex" \in Socket /\ "in" \in Socket
  BY <1>1 DEF TypeInv, Socket
<1>3. /\ cli[L] = "second" /\ q # <<>> /\ "ex" \in open[L]
      /\ saEx' = [saEx EXCEPT ![L] = Head(q).from] /\ queue' = [queue EXCEPT ![L]["ex"] = Tail(@)]
      /\ stop' = [stop EXCEPT ![L] = FALSE] /\ ex' = [ex EXCEPT ![L] = "test"]
      /\ cli' = [cli EXCEPT ![L] = "idle"]
      /\ UNCHANGED <<connected, saIn, open, emu, held, started, answered, result, told>>
  BY DEF ListenEnd, StartThread, Taken, Waiting, history
<1>4. /\ Joined(C) /\ ~Joined(L) /\ Lead(q) /\ queue[L]["in"] = <<>> /\ ex[L] = "none"
      /\ held[L] = NoData /\ ~stop[L]
  BY <1>1, <1>3 DEF HandshakeInv, Joined, NodeInv
<1>5. Head(q).from = <<C, "ex">>
  BY <1>4 DEF Lead, Data
<1>6. /\ q \in Datagrams /\ Tail(q) \in Datagrams /\ (HasByte(Tail(q)) => HasByte(q))
      /\ \A f, k : Single(q, f, k) => Single(Tail(q), f, k)
  BY <1>1, <1>2, <1>3, Popped
<1>7. /\ queue' \in [Node -> [Socket -> Datagrams]] /\ queue'[L]["ex"] = Tail(q)
      /\ queue'[L]["in"] = <<>> /\ queue'[C] = queue[C]
  BY <1>1, <1>2, <1>3, <1>4, <1>6
<1>8. /\ cli' \in [Node -> CliState]
      /\ cli'[L] = "idle" /\ cli'[C] = cli[C] /\ Joined(C)' /\ Joined(L)'
      /\ saEx' \in [Node -> Address] /\ saEx'[L] = <<C, "ex">> /\ saEx'[C] = saEx[C]
      /\ ex' \in [Node -> {"none", "test", "receive", "handle", "ended"}]
      /\ ex'[L] = "test" /\ ex'[C] = ex[C]
      /\ stop' \in [Node -> BOOLEAN] /\ ~stop'[L] /\ stop'[C] = stop[C]
  <2>1. <<C, "ex">> \in Address
    BY <1>1 DEF Address, Socket
  <2>2. /\ saEx' = [saEx EXCEPT ![L] = <<C, "ex">>] /\ saEx \in [Node -> Address]
    BY <1>1, <1>3, <1>5 DEF TypeInv
  <2>3. saEx' \in [Node -> Address] /\ saEx'[L] = <<C, "ex">> /\ saEx'[C] = saEx[C]
    BY <1>1, <2>1, <2>2
  <2> QED BY <1>1, <1>3, <1>4, <2>3 DEF TypeInv, Joined
<1>9. TypeInv'
  BY <1>1, <1>3, <1>7, <1>8 DEF TypeInv
<1>10. HandshakeInv'
  BY <1>1, <1>3, <1>7, <1>8 DEF HandshakeInv, Joined
<1>11. NodeInv(L)'
  <2>1. AnswersOnly(queue'[L]["in"], L, stop'[L])
    BY <1>7, Emptied, Zenon
  <2>2. saEx'[L] \in Node \X {"ex"}
    BY <1>1, <1>8
  <2>3. held'[L] = NoData
    BY <1>3, <1>4
  <2> QED BY <1>1, <1>8, <2>1, <2>2, <2>3 DEF NodeInv
<1>12. NodeInv(C)'
  BY <1>1, <1>3, <1>4, <1>7, <1>8 DEF NodeInv
<1>13. ExchangeInv(L)' /\ ExchangeInv(C)'
  BY <1>1, <1>3, <1>4, <1>6, <1>7, <1>8, Emptied DEF ExchangeInv, Asked, Handled, Answer
<1>14. CountInv(L)' /\ CountInv(C)'
  BY <1>1, <1>3, <1>4, <1>8 DEF CountInv
<1> QED BY <1>1, <1>9, <1>10, <1>11, <1>12, <1>13, <1>14 DEF LinkInv

-----------------------------------------------------------------------------
LEMMA NextLink == LinkInv /\ [Next]_vars => LinkInv'
<1> SUFFICES ASSUME LinkInv, [Next]_vars PROVE LinkInv'
  OBVIOUS
<1>1. CASE UNCHANGED vars
  <2>1. TypeInv' /\ HandshakeInv'
    BY <1>1 DEF vars, history, LinkInv, TypeInv, HandshakeInv, Joined
  <2>2. ASSUME NEW n \in Node PROVE NodeInv(n)'
    BY <1>1 DEF vars, history, LinkInv, NodeInv, Joined
  <2>3. ASSUME NEW n \in Node PROVE ExchangeInv(n)'
    BY <1>1 DEF vars, history, LinkInv, ExchangeInv, Joined, Asked, Handled, Answer
  <2>4. ASSUME NEW n \in Node PROVE CountInv(n)'
    BY <1>1 DEF vars, history, LinkInv, CountInv
  <2> QED BY <2>1, <2>2, <2>3, <2>4 DEF LinkInv
<1>2. CASE Handshake
  BY <1>2, ListenKeeps, ListenAnswerKeeps, ListenEndKeeps, ConnectKeeps, ConnectEndKeeps DEF Handshake
<1>3. CASE \E n \in Node : Transfer(n) \/ Sending(n)
  BY <1>3, SendStoppedKeeps, SendRequestKeeps, SendReplyKeeps, CloseKeeps DEF Transfer, Sending
<1>4. CASE \E n \in Node : User(n) \/ Closing(n)
  BY <1>4, DisconnectKeeps, CloseKeeps DEF User, Closing
<1>5. CASE \E n \in Node : Thread(n)
  BY <1>5, ThreadTestKeeps, ThreadReceiveKeeps, ThreadAnswerKeeps, ThreadTellPeerKeeps, ThreadToldKeeps
     DEF Thread
<1> QED BY <1>1, <1>2, <1>3, <1>4, <1>5 DEF Next

(* Whatever is sent and whoever disconnects when: while the ex thread       *)
(* serves, m_sa_ex is the peer's ex socket, although every answer Send      *)
(* receives writes it.                                                      *)
THEOREM LinkIsPaired == Spec => []Paired
<1>1. LinkInv => Paired
  BY DEF LinkInv, NodeInv, Paired
<1> QED BY InitLink, NextLink, <1>1, PTL DEF Spec

(* Whatever is sent and whoever disconnects when: a transfer that Send      *)
(* reports was answered by the peer as that transfer, and the peer's game   *)
(* gets at most one interrupt for each.                                     *)
THEOREM TransfersMatch == Spec => []ExchangesMatch
<1>1. LinkInv => ExchangesMatch
  <2> SUFFICES ASSUME LinkInv, NEW n \in Node
               PROVE  /\ emu[n] # "reply" /\ result[n] # 0 => result[n] = started[n]
                      /\ result[n] <= answered[Peer(n)]
                      /\ answered[n] <= started[Peer(n)]
    BY DEF ExchangesMatch
  <2>1. Peer(n) \in Node /\ Peer(Peer(n)) = n
    BY Peers
  <2> QED BY <2>1 DEF LinkInv, CountInv
<1> QED BY InitLink, NextLink, <1>1, PTL DEF Spec
=============================================================================
