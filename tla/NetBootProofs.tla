---------------------------- MODULE NetBootProofs ----------------------------
(***************************************************************************)
(* Theorems about NetBoot, for any files, stations, sessions, retries and  *)
(* number of transfers.                                                    *)
(*                                                                         *)
(* A handler of the boot loader is a chain of calls.  The lemmas follow    *)
(* that chain: first what each function of net.c leaves alone (...Facts),  *)
(* then that it keeps what holds of the board inside a call (...Ok).       *)
(***************************************************************************)
EXTENDS NetBoot, TLAPS

-----------------------------------------------------------------------------
(***************************************************************************)
(* The machinery of net.c.                                                 *)
(***************************************************************************)
\* The fields of the board the functions work on.

IsBoard(b) ==
  /\ {"proto", "state", "handler", "timer", "up", "ether", "sip", "arp", "out", "queue", "file", "host",
      "ret", "loaded", "filesize", "xfer", "mem", "kernel", "t", "d"} \subseteq DOMAIN b
  /\ {"ip", "owner", "try", "pkt"} \subseteq DOMAIN b.arp
  /\ {"started", "state", "block", "last", "wrap", "sport", "oport", "tries"} \subseteq DOMAIN b.t

\* What the functions that only send, count or store leave alone.
SameCall(b, c) == c.proto = b.proto /\ c.host = b.host /\ c.ret = b.ret
SameLoop(b, c) ==
  /\ SameCall(b, c)
  /\ c.up = b.up /\ c.state = b.state /\ c.handler = b.handler

\* The acknowledgements of the TFTP client b has sent, in the ring or waiting for ARP.
Acks(b) == {m \in b.out \cup b.queue : m.kind = "ack"}
             \cup {m \in {b.arp.pkt} : b.arp.ip # Nobody /\ m.kind = "ack"}

LEMMA SetFacts ==
  ASSUME NEW b, IsBoard(b), NEW h
  PROVE  /\ IsBoard(NetSetTimeout(b, h)) /\ SameLoop(b, NetSetTimeout(b, h))
         /\ NetSetTimeout(b, h).timer = h /\ NetSetTimeout(b, h).t = b.t
         /\ Acks(NetSetTimeout(b, h)) = Acks(b)
  BY DEF IsBoard, NetSetTimeout, SameLoop, SameCall, Acks

\* What is kept of a frame given to the device.
Frames(pkt) == {m \in {pkt} : m.kind \notin Unanswered}

LEMMA EthSendFacts ==
  ASSUME NEW b, IsBoard(b), NEW pkt
  PROVE  LET c == eth_send(b, pkt)
         IN  /\ IsBoard(c) /\ SameLoop(b, c) /\ c.timer = b.timer /\ c.t = b.t /\ c.arp = b.arp
             /\ c.out \cup c.queue = b.out \cup b.queue \cup Frames(pkt)
<1>1. CASE b.up
  <2> DEFINE c == [b EXCEPT !.out = @ \cup Frames(pkt)]
  <2>1. eth_send(b, pkt) = c
    BY <1>1 DEF eth_send, Frames
  <2>2. /\ IsBoard(c) /\ SameLoop(b, c) /\ c.timer = b.timer /\ c.t = b.t /\ c.arp = b.arp
        /\ c.out = b.out \cup Frames(pkt) /\ c.queue = b.queue
    BY DEF IsBoard, SameLoop, SameCall
  <2> HIDE DEF c
  <2> QED BY <2>1, <2>2
<1>2. CASE ~b.up
  <2> DEFINE c == [b EXCEPT !.queue = @ \cup Frames(pkt)]
  <2>1. eth_send(b, pkt) = c
    BY <1>2 DEF eth_send, Frames
  <2>2. /\ IsBoard(c) /\ SameLoop(b, c) /\ c.timer = b.timer /\ c.t = b.t /\ c.arp = b.arp
        /\ c.out = b.out /\ c.queue = b.queue \cup Frames(pkt)
    BY DEF IsBoard, SameLoop, SameCall
  <2> HIDE DEF c
  <2> QED BY <2>1, <2>2
<1> QED
  BY <1>1, <1>2

LEMMA WaitFacts ==
  ASSUME NEW b, IsBoard(b), NEW ip, NEW owner, NEW pkt
  PROVE  LET c == WaitForArp(b, ip, owner, pkt)
         IN  /\ IsBoard(c) /\ SameLoop(b, c) /\ c.timer = b.timer /\ c.t = b.t
             /\ Acks(c) \subseteq Acks(b) \cup {m \in {pkt} : m.kind = "ack"}
<1> DEFINE c1 == [b EXCEPT !.arp = [ip |-> ip, owner |-> owner, try |-> 1, pkt |-> pkt]]
           c == eth_send(c1, [kind |-> "arpreq", ip |-> ip])
<1>1. WaitForArp(b, ip, owner, pkt) = c
  BY DEF WaitForArp, ArpRequest, IsBoard
<1>2. IsBoard(c1) /\ SameLoop(b, c1) /\ c1.timer = b.timer /\ c1.t = b.t
      /\ c1.out = b.out /\ c1.queue = b.queue /\ c1.arp.pkt = pkt /\ c1.arp.ip = ip
  BY DEF IsBoard, SameLoop, SameCall
<1> HIDE DEF c1
<1>3. IsBoard(c) /\ SameLoop(b, c) /\ c.timer = b.timer /\ c.t = b.t
      /\ c.out \cup c.queue = b.out \cup b.queue \cup Frames([kind |-> "arpreq", ip |-> ip])
      /\ c.arp.pkt = pkt /\ c.arp.ip = ip
  BY <1>2, EthSendFacts DEF SameLoop, SameCall
<1>4. [kind |-> "arpreq", ip |-> ip].kind # "ack"
  OBVIOUS
<1> HIDE DEF c
<1> QED
  BY <1>1, <1>3, <1>4 DEF Acks, Frames

LEMMA SendFacts ==
  ASSUME NEW b, IsBoard(b), NEW dest, NEW pkt
  PROVE  LET c == NetSendUDPPacket(b, dest, pkt)
         IN  /\ IsBoard(c) /\ SameLoop(b, c) /\ c.timer = b.timer /\ c.t = b.t
             /\ Acks(c) \subseteq Acks(b) \cup {m \in {pkt} : m.kind = "ack"}
<1>1. CASE dest = Nobody \/ b.ether
  <2> DEFINE c == eth_send(b, pkt)
  <2>1. NetSendUDPPacket(b, dest, pkt) = c
    BY <1>1 DEF NetSendUDPPacket
  <2>2. IsBoard(c) /\ SameLoop(b, c) /\ c.timer = b.timer /\ c.t = b.t
        /\ c.out \cup c.queue = b.out \cup b.queue \cup Frames(pkt) /\ c.arp = b.arp
    BY EthSendFacts
  <2> HIDE DEF c
  <2> QED
    BY <2>1, <2>2 DEF Acks, Frames
<1>2. CASE ~(dest = Nobody \/ b.ether)
  <2>1. NetSendUDPPacket(b, dest, pkt) = WaitForArp(b, dest, "server", pkt)
    BY <1>2 DEF NetSendUDPPacket
  <2> QED
    BY <2>1, WaitFacts
<1> QED
  BY <1>1, <1>2

AckOf(t) == [kind |-> "ack", oport |-> t.oport, sport |-> t.sport, n |-> t.block]

LEMMA TftpSendFacts ==
  ASSUME NEW b, IsBoard(b)
  PROVE  LET c == TftpSend(b)
         IN  /\ IsBoard(c) /\ SameLoop(b, c) /\ c.timer = b.timer /\ c.t = b.t
             /\ Acks(c) \subseteq Acks(b) \cup {AckOf(b.t)}
             /\ b.t.state = "rrq" => Acks(c) \subseteq Acks(b)
<1> DEFINE rrq == [kind |-> "rrq", oport |-> b.t.oport, file |-> b.file]
<1>1. CASE b.t.state = "rrq"
  <2>1. TftpSend(b) = NetSendUDPPacket(b, b.sip, rrq)
    BY <1>1 DEF TftpSend
  <2>2. rrq.kind # "ack"
    OBVIOUS
  <2> HIDE DEF rrq
  <2> QED
    BY <2>1, <2>2, SendFacts
<1>2. CASE b.t.state # "rrq"
  <2>1. TftpSend(b) = NetSendUDPPacket(b, b.sip, AckOf(b.t))
    BY <1>2 DEF TftpSend, AckOf
  <2> QED
    BY <1>2, <2>1, SendFacts
<1> QED
  BY <1>1, <1>2

LEMMA TftpdSendFacts ==
  ASSUME NEW b, IsBoard(b)
  PROVE  LET c == TftpdSend(b)
         IN  /\ IsBoard(c) /\ SameLoop(b, c) /\ c.timer = b.timer /\ c.t = b.t
             /\ Acks(c) \subseteq Acks(b)
<1> DEFINE pkt ==
      CASE b.d.state = "rrq" -> [kind |-> "vacant", oport |-> b.d.sport]
        [] b.d.state = "finishack" -> [kind |-> "finish", oport |-> b.d.sport, ok |-> b.d.ok]
        [] OTHER -> [kind |-> "dack", oport |-> b.d.sport, n |-> b.d.block]
<1>1. TftpdSend(b) = NetSendUDPPacket(b, b.sip, pkt)
  BY DEF TftpdSend
<1>2. pkt.kind # "ack"
  <2>1. CASE b.d.state = "rrq"
    BY <2>1
  <2>2. CASE b.d.state = "finishack"
    BY <2>2
  <2>3. CASE b.d.state # "rrq" /\ b.d.state # "finishack"
    BY <2>3
  <2> QED BY <2>1, <2>2, <2>3
<1> HIDE DEF pkt
<1> QED
  BY <1>1, <1>2, SendFacts

LEMMA HaltFacts ==
  ASSUME NEW b, IsBoard(b)
  PROVE  LET c == eth_halt(b)
         IN  /\ IsBoard(c) /\ SameCall(b, c) /\ c.state = b.state /\ c.handler = b.handler
             /\ c.timer = b.timer /\ c.t = b.t /\ Acks(c) = Acks(b) /\ ~c.up
  BY DEF eth_halt, IsBoard, SameCall, Acks

LEMMA InitFacts ==
  ASSUME NEW b, IsBoard(b)
  PROVE  LET c == eth_init(b)
         IN  /\ IsBoard(c) /\ SameCall(b, c) /\ c.state = b.state /\ c.handler = b.handler
             /\ c.timer = b.timer /\ c.t = b.t /\ Acks(c) = Acks(b)
  BY DEF eth_init, IsBoard, SameCall, Acks

LEMMA AgainFacts ==
  ASSUME NEW b, IsBoard(b), NEW nr
  PROVE  LET c == NetStartAgain(b, nr)
         IN  /\ IsBoard(c) /\ SameCall(b, c) /\ c.t = b.t /\ Acks(c) = Acks(b)
             /\ c.timer \in {b.timer, "again"} /\ c.handler \in {b.handler, "ignore"}
             /\ nr \in {"no", "once"} => c.state = "fail"
             /\ nr = "no" => ~c.up
             /\ nr \notin {"no", "once"} => c.state = b.state
<1> DEFINE h == eth_halt(b)
           i == eth_init(h)
<1>1. /\ IsBoard(h) /\ SameCall(b, h) /\ h.state = b.state /\ h.handler = b.handler
      /\ h.timer = b.timer /\ h.t = b.t /\ Acks(h) = Acks(b) /\ ~h.up
  BY HaltFacts
<1> HIDE DEF h
<1>2. /\ IsBoard(i) /\ SameCall(h, i) /\ i.state = h.state /\ i.handler = h.handler
      /\ i.timer = h.timer /\ i.t = h.t /\ Acks(i) = Acks(h)
  BY <1>1, InitFacts
<1> HIDE DEF i
<1>3. CASE nr = "no"
  <2>1. NetStartAgain(b, nr) = [h EXCEPT !.state = "fail"]
    BY <1>3 DEF NetStartAgain, h
  <2> QED BY <1>1, <1>3, <2>1 DEF IsBoard, SameCall, Acks
<1>4. CASE nr = "once"
  <2>1. NetStartAgain(b, nr) = [i EXCEPT !.state = "fail"]
    BY <1>4 DEF NetStartAgain, h, i
  <2> QED BY <1>1, <1>2, <1>4, <2>1 DEF IsBoard, SameCall, Acks
<1>5. CASE nr # "no" /\ nr # "once"
  <2>1. NetStartAgain(b, nr) = [[i EXCEPT !.timer = "again"] EXCEPT !.handler = "ignore"]
    BY <1>5 DEF NetStartAgain, h, i, NetSetHandler, NetSetTimeout
  <2> QED BY <1>1, <1>2, <1>5, <2>1 DEF IsBoard, SameCall, Acks
<1> QED
  BY <1>3, <1>4, <1>5

LEMMA ArpTimeoutFacts ==
  ASSUME NEW b, IsBoard(b), NEW nr
  PROVE  LET c == ArpTimeout(b, nr)
         IN  /\ IsBoard(c) /\ SameCall(b, c) /\ c.t = b.t /\ Acks(c) = Acks(b)
             /\ c.timer \in {b.timer, "again"} /\ c.handler \in {b.handler, "ignore"}
             /\ \/ c.state = b.state /\ c.up = b.up
                \/ /\ nr \in {"no", "once"} => c.state = "fail"
                   /\ nr = "no" => ~c.up
                   /\ nr \notin {"no", "once"} => c.state = b.state
<1> DEFINE again == [b EXCEPT !.arp.try = 0]
           more == [b EXCEPT !.arp.try = @ + 1]
<1>1. IsBoard(again) /\ SameLoop(b, again) /\ again.timer = b.timer /\ again.t = b.t /\ Acks(again) = Acks(b)
  BY DEF IsBoard, SameLoop, SameCall, Acks
<1>2. IsBoard(more) /\ SameLoop(b, more) /\ more.timer = b.timer /\ more.t = b.t /\ Acks(more) = Acks(b)
  BY DEF IsBoard, SameLoop, SameCall, Acks
<1> HIDE DEF again, more
<1>3. CASE b.arp.try + 1 >= ArpTries
  <2>1. ArpTimeout(b, nr) = NetStartAgain(again, nr)
    BY <1>3 DEF ArpTimeout, again
  <2> QED
    BY <1>1, <2>1, AgainFacts DEF SameLoop, SameCall
<1>4. CASE ~(b.arp.try + 1 >= ArpTries)
  <2> DEFINE pkt == [kind |-> "arpreq", ip |-> more.arp.ip]
             c == eth_send(more, pkt)
  <2>1. ArpTimeout(b, nr) = c
    BY <1>4 DEF ArpTimeout, ArpRequest, more
  <2>2. pkt.kind # "ack"
    OBVIOUS
  <2> HIDE DEF pkt
  <2>3. IsBoard(c) /\ SameLoop(more, c) /\ c.timer = more.timer /\ c.t = more.t
        /\ c.arp = more.arp /\ c.out \cup c.queue = more.out \cup more.queue \cup Frames(pkt)
    BY <1>2, EthSendFacts
  <2> HIDE DEF c
  <2>4. Acks(c) = Acks(more)
    BY <2>2, <2>3 DEF Acks, Frames
  <2> QED
    BY <1>2, <2>1, <2>3, <2>4 DEF SameLoop, SameCall
<1> QED
  BY <1>3, <1>4

-----------------------------------------------------------------------------
(***************************************************************************)
(* What holds of the board at every point inside a call, where n is the    *)
(* number of transfers started.                                            *)
(***************************************************************************)
Asked(h) == WasAsked(h) \/ \E m \in Sent("rrq") : Spells(m.file, h)

LoopOk(b) ==
  /\ b.state = "fail" => ~b.up \/ netretry = "once"
  /\ b.proto = "PING" => b.handler \in {"ping", "ignore"}
  /\ b.proto = "PING" /\ b.state = "success" => Asked(b.host)
  /\ b.proto = "PING" => mode = "cli"

\* NetStartAgain only fails where netretry says so.
MayGoOn(b) == netretry \notin {"no", "once"} => b.state # "fail"

AllAcks(b) == Acks(b) \cup Sent("ack")

SessionOk(b, n) ==
  /\ b.handler = "tftp" \/ b.timer = "tftp" => b.t.started
  /\ b.t.started => b.t.oport \in 1..n
  /\ \A m \in AllAcks(b) :
       /\ m.oport \in 1..n
       /\ b.t.started /\ m.oport = b.t.oport => b.t.state # "rrq" /\ m.sport = b.t.sport
  /\ \A m1, m2 \in AllAcks(b) : m1.oport = m2.oport => m1.sport = m2.sport

BoardOk(b, n) == IsBoard(b) /\ LoopOk(b) /\ MayGoOn(b) /\ SessionOk(b, n)

\* A board whose loop is the same and which acknowledges nothing new is as good.
LEMMA SameOk ==
  ASSUME NEW b, NEW c, NEW n, BoardOk(b, n), IsBoard(c), SameLoop(b, c), c.t = b.t,
         Acks(c) \subseteq Acks(b), c.timer = "tftp" => b.t.started
  PROVE  BoardOk(c, n)
<1>1. AllAcks(c) \subseteq AllAcks(b)
  BY DEF AllAcks
<1>2. LoopOk(c) /\ MayGoOn(c)
  BY DEF BoardOk, LoopOk, MayGoOn, SameLoop, SameCall
<1>3. SessionOk(c, n)
  BY <1>1 DEF BoardOk, SessionOk, SameLoop
<1> QED
  BY <1>2, <1>3 DEF BoardOk

LEMMA AgainOk ==
  ASSUME NEW b, NEW n, BoardOk(b, n)
  PROVE  LET c == NetStartAgain(b, netretry)
         IN  BoardOk(c, n) /\ SameCall(b, c)
<1> DEFINE c == NetStartAgain(b, netretry)
<1>1. /\ IsBoard(c) /\ SameCall(b, c) /\ c.t = b.t /\ Acks(c) = Acks(b)
      /\ c.timer \in {b.timer, "again"} /\ c.handler \in {b.handler, "ignore"}
      /\ netretry \in {"no", "once"} => c.state = "fail"
      /\ netretry = "no" => ~c.up
      /\ netretry \notin {"no", "once"} => c.state = b.state
  BY AgainFacts DEF BoardOk
<1> HIDE DEF c
<1>2. LoopOk(c) /\ MayGoOn(c)
  BY <1>1 DEF BoardOk, LoopOk, MayGoOn, SameCall
<1>3. SessionOk(c, n)
  BY <1>1 DEF BoardOk, SessionOk, AllAcks
<1> QED
  BY <1>1, <1>2, <1>3 DEF BoardOk, c

LEMMA ArpTimeoutOk ==
  ASSUME NEW b, NEW n, BoardOk(b, n)
  PROVE  LET c == ArpTimeout(b, netretry)
         IN  BoardOk(c, n) /\ SameCall(b, c)
<1> DEFINE c == ArpTimeout(b, netretry)
<1>1. /\ IsBoard(c) /\ SameCall(b, c) /\ c.t = b.t /\ Acks(c) = Acks(b)
      /\ c.timer \in {b.timer, "again"} /\ c.handler \in {b.handler, "ignore"}
      /\ \/ c.state = b.state /\ c.up = b.up
         \/ /\ netretry \in {"no", "once"} => c.state = "fail"
            /\ netretry = "no" => ~c.up
            /\ netretry \notin {"no", "once"} => c.state = b.state
  BY ArpTimeoutFacts DEF BoardOk
<1> HIDE DEF c
<1>2. LoopOk(c) /\ MayGoOn(c)
  BY <1>1 DEF BoardOk, LoopOk, MayGoOn, SameCall
<1>3. SessionOk(c, n)
  BY <1>1 DEF BoardOk, SessionOk, AllAcks
<1> QED
  BY <1>1, <1>2, <1>3 DEF BoardOk, c

\* TftpSend acknowledges the session of the transfer, or none.
LEMMA TftpSendOk ==
  ASSUME NEW b, NEW n, BoardOk(b, n), b.t.started
  PROVE  LET c == TftpSend(b)
         IN  BoardOk(c, n) /\ SameLoop(b, c) /\ c.t = b.t /\ c.timer = b.timer
<1> DEFINE c == TftpSend(b)
<1>1. /\ IsBoard(c) /\ SameLoop(b, c) /\ c.timer = b.timer /\ c.t = b.t
      /\ Acks(c) \subseteq Acks(b) \cup {AckOf(b.t)}
      /\ b.t.state = "rrq" => Acks(c) \subseteq Acks(b)
  BY TftpSendFacts DEF BoardOk
<1> HIDE DEF c
<1>2. LoopOk(c) /\ MayGoOn(c)
  BY <1>1 DEF BoardOk, LoopOk, MayGoOn, SameLoop, SameCall
<1>3. AckOf(b.t).oport = b.t.oport /\ AckOf(b.t).sport = b.t.sport
  BY DEF AckOf
<1>4. AllAcks(c) \subseteq AllAcks(b) \cup {AckOf(b.t)}
  BY <1>1 DEF AllAcks
<1>5. b.t.state = "rrq" => AllAcks(c) \subseteq AllAcks(b)
  BY <1>1 DEF AllAcks
<1>6. ASSUME NEW m \in AllAcks(c)
      PROVE  m.oport \in 1..n /\ (m.oport = b.t.oport => b.t.state # "rrq" /\ m.sport = b.t.sport)
  BY <1>3, <1>4, <1>5, <1>6 DEF BoardOk, SessionOk
<1>7. ASSUME NEW m1 \in AllAcks(c), NEW m2 \in AllAcks(c), m1.oport = m2.oport
      PROVE  m1.sport = m2.sport
  <2>1. CASE m1.oport = b.t.oport
    BY <1>6, <1>7, <2>1
  <2>2. CASE m1.oport # b.t.oport
    <3>1. m1 \in AllAcks(b) /\ m2 \in AllAcks(b)
      BY <1>3, <1>4, <1>7, <2>2
    <3> QED BY <1>7, <3>1 DEF BoardOk, SessionOk
  <2> QED BY <2>1, <2>2
<1>8. SessionOk(c, n)
  BY <1>1, <1>6, <1>7 DEF BoardOk, SessionOk, SameLoop
<1> QED
  BY <1>1, <1>2, <1>8 DEF BoardOk, c

\* A transfer takes the port of its server with the first answer, and no other.
LEMMA AnsweredOk ==
  ASSUME NEW b, NEW c, NEW n, BoardOk(b, n), b.t.started, IsBoard(c), SameLoop(b, c),
         Acks(c) = Acks(b), c.t.started, c.t.oport = b.t.oport,
         b.t.state = "rrq" \/ (c.t.sport = b.t.sport /\ c.t.state # "rrq")
  PROVE  BoardOk(c, n)
<1>1. LoopOk(c) /\ MayGoOn(c)
  BY DEF BoardOk, LoopOk, MayGoOn, SameLoop, SameCall
<1>2. SessionOk(c, n)
  BY DEF BoardOk, SessionOk, AllAcks, SameLoop
<1> QED
  BY <1>1, <1>2 DEF BoardOk

\* So is one that ends with success, unless it is a ping.
LEMMA SuccessOk ==
  ASSUME NEW b, NEW n, BoardOk(b, n), b.proto # "PING"
  PROVE  LET c == [b EXCEPT !.state = "success"]
         IN  BoardOk(c, n) /\ SameCall(b, c)
<1> DEFINE c == [b EXCEPT !.state = "success"]
<1>1. /\ IsBoard(c) /\ SameCall(b, c) /\ c.t = b.t /\ Acks(c) = Acks(b)
      /\ c.timer = b.timer /\ c.handler = b.handler /\ c.state = "success"
  BY DEF BoardOk, IsBoard, SameCall, Acks
<1> HIDE DEF c
<1>2. LoopOk(c) /\ MayGoOn(c)
  BY <1>1 DEF BoardOk, LoopOk, MayGoOn, SameCall
<1>3. SessionOk(c, n)
  BY <1>1 DEF BoardOk, SessionOk, AllAcks
<1> QED
  BY <1>1, <1>2, <1>3 DEF BoardOk, c

-----------------------------------------------------------------------------
(***************************************************************************)
(* The packet handlers and the timers keep it.                             *)
(***************************************************************************)
LEMMA TftpDataOk ==
  ASSUME NEW b, NEW n, NEW p, BoardOk(b, n), b.t.started, b.proto # "PING", ForUs(b, p)
  PROVE  LET c == TftpData(b, p, netretry)
         IN  BoardOk(c, n) /\ SameCall(b, c)
<1> DEFINE first == b.t.state \in {"rrq", "oack"}
           num == Numbered(b, p)
           b1 == IF first THEN FirstBlock(num, p) ELSE num
<1>0. IsBoard(b)
  BY DEF BoardOk
<1>1. /\ IsBoard(num) /\ SameLoop(b, num) /\ num.timer = b.timer /\ Acks(num) = Acks(b)
      /\ num.t.started = b.t.started /\ num.t.oport = b.t.oport
      /\ num.t.sport = b.t.sport /\ num.t.state = b.t.state
  BY <1>0 DEF Numbered, IsBoard, SameLoop, SameCall, Acks
<1> HIDE DEF num
<1>2. /\ IsBoard(b1) /\ SameLoop(b, b1) /\ b1.timer = b.timer /\ Acks(b1) = Acks(b)
      /\ b1.t.started = b.t.started /\ b1.t.oport = b.t.oport
      /\ b.t.state = "rrq" \/ (b1.t.sport = b.t.sport /\ b1.t.state # "rrq")
  <2>1. CASE first
    <3>1. b1 = FirstBlock(num, p)
      BY <2>1
    <3>2. b.t.state = "rrq" \/ p.sport = b.t.sport
      BY DEF ForUs
    <3> HIDE DEF b1
    <3>3. /\ IsBoard(b1) /\ SameLoop(num, b1) /\ b1.timer = num.timer /\ Acks(b1) = Acks(num)
          /\ b1.t.started = num.t.started /\ b1.t.oport = num.t.oport
          /\ b1.t.sport = p.sport /\ b1.t.state = "data"
      BY <1>1, <3>1 DEF FirstBlock, IsBoard, SameLoop, SameCall, Acks
    <3> QED
      BY <1>1, <3>2, <3>3 DEF SameLoop, SameCall
  <2>2. CASE ~first
    BY <1>1, <2>2
  <2> QED BY <2>1, <2>2
<1> HIDE DEF b1
<1>3. BoardOk(b1, n)
  BY <1>2, AnsweredOk
<1>4. CASE first /\ p.n # 1
  <2>1. TftpData(b, p, netretry) = NetStartAgain(b1, netretry)
    BY <1>4 DEF TftpData, b1, num
  <2> QED
    BY <1>2, <1>3, <2>1, AgainOk DEF SameCall, SameLoop
<1>5. CASE ~(first /\ p.n # 1) /\ p.n = b1.t.last
  <2>1. TftpData(b, p, netretry) = b1
    BY <1>5 DEF TftpData, b1, num
  <2> QED
    BY <1>2, <1>3, <2>1 DEF SameLoop
<1>6. CASE ~(first /\ p.n # 1) /\ p.n # b1.t.last
  <2> DEFINE s0 == [b1 EXCEPT !.t.last = p.n]
             s1 == store_block(NetSetTimeout(s0, "tftp"), p)
             s2 == TftpSend(s1)
             s3 == [s2 EXCEPT !.state = "success"]
  <2>1. TftpData(b, p, netretry) = IF p.len < Full THEN s3 ELSE s2
    <3>1. TftpData(b, p, netretry) = TakeBlock(b1, p)
      BY <1>6 DEF TftpData, b1, num
    <3> QED
      BY <3>1 DEF TakeBlock
  <2>2. /\ IsBoard(s0) /\ SameLoop(b1, s0) /\ s0.timer = b1.timer /\ Acks(s0) = Acks(b1)
        /\ s0.t.started = b1.t.started /\ s0.t.oport = b1.t.oport
        /\ s0.t.sport = b1.t.sport /\ s0.t.state = b1.t.state
    BY <1>2 DEF IsBoard, SameLoop, SameCall, Acks
  <2> HIDE DEF s0
  <2>3. /\ IsBoard(s1) /\ SameLoop(s0, s1) /\ s1.timer = "tftp" /\ Acks(s1) = Acks(s0) /\ s1.t = s0.t
    BY <2>2 DEF store_block, NetSetTimeout, IsBoard, SameLoop, SameCall, Acks
  <2> HIDE DEF s1
  <2>4. BoardOk(s1, n)
    <3>1. b1.t.state # "rrq" \/ b.t.state = "rrq"
      BY <1>2
    <3>2. BoardOk(s0, n)
      BY <1>2, <1>3, <2>2, AnsweredOk
    <3> QED
      BY <1>2, <2>2, <2>3, <3>2, SameOk
  <2>5. BoardOk(s2, n) /\ SameLoop(s1, s2)
    BY <1>2, <2>2, <2>3, <2>4, TftpSendOk
  <2> HIDE DEF s2
  <2>6. s2.proto = b.proto /\ SameCall(b, s2)
    BY <1>2, <2>2, <2>3, <2>5 DEF SameLoop, SameCall
  <2>7. BoardOk(s3, n) /\ SameCall(s2, s3)
    BY <2>5, <2>6, SuccessOk
  <2> HIDE DEF s3
  <2> QED
    BY <2>1, <2>5, <2>6, <2>7 DEF SameCall
<1> QED
  BY <1>4, <1>5, <1>6

LEMMA TftpHandlerOk ==
  ASSUME NEW b, NEW n, NEW p, BoardOk(b, n), b.handler = "tftp"
  PROVE  LET c == TftpHandler(b, p, netretry)
         IN  BoardOk(c, n) /\ SameCall(b, c)
<1>0. IsBoard(b) /\ b.t.started /\ b.proto # "PING"
  BY DEF BoardOk, SessionOk, LoopOk
<1>1. CASE ~ForUs(b, p)
  BY <1>1 DEF TftpHandler, SameCall
<1>2. CASE ForUs(b, p) /\ p.kind = "oack"
  <2> DEFINE c == [b EXCEPT !.t.state = "oack", !.t.sport = p.sport]
  <2>1. TftpHandler(b, p, netretry) = TftpSend(c)
    BY <1>2 DEF TftpHandler
  <2>2. /\ IsBoard(c) /\ SameLoop(b, c) /\ c.timer = b.timer /\ Acks(c) = Acks(b)
        /\ c.t.started = b.t.started /\ c.t.oport = b.t.oport
        /\ c.t.sport = p.sport /\ c.t.state = "oack"
    BY <1>0 DEF IsBoard, SameLoop, SameCall, Acks
  <2> HIDE DEF c
  <2>3. BoardOk(c, n)
    BY <1>0, <1>2, <2>2, AnsweredOk DEF ForUs
  <2>4. c.t.started
    BY <1>0, <2>2
  <2>5. BoardOk(TftpSend(c), n) /\ SameLoop(c, TftpSend(c))
    BY <2>3, <2>4, TftpSendOk
  <2> QED
    BY <2>1, <2>2, <2>5 DEF SameLoop, SameCall
<1>3. CASE ForUs(b, p) /\ p.kind = "data"
  <2>1. TftpHandler(b, p, netretry) = TftpData(b, p, netretry)
    BY <1>3 DEF TftpHandler
  <2> QED
    BY <1>0, <1>3, <2>1, TftpDataOk
<1>4. CASE ForUs(b, p) /\ p.kind = "error"
  <2>1. TftpHandler(b, p, netretry) = NetStartAgain(b, netretry)
    BY <1>4 DEF TftpHandler
  <2> QED
    BY <2>1, AgainOk
<1>5. CASE ForUs(b, p) /\ p.kind \notin {"oack", "data", "error"}
  <2>1. TftpHandler(b, p, netretry) = b
    BY <1>5 DEF TftpHandler
  <2> QED
    BY <2>1 DEF SameCall
<1> QED
  BY <1>1, <1>2, <1>3, <1>4, <1>5

\* What the TFTP server keeps for itself is nobody else's.
LEMMA OwnOk ==
  ASSUME NEW b, NEW c, NEW n, BoardOk(b, n), IsBoard(c), SameLoop(b, c), c.t = b.t,
         c.arp = b.arp, c.out = b.out, c.queue = b.queue, c.timer = b.timer \/ c.timer = "tftpd"
  PROVE  BoardOk(c, n)
<1>1. Acks(c) = Acks(b)
  BY DEF Acks
<1>2. c.timer = "tftp" => b.t.started
  BY DEF BoardOk, SessionOk
<1> QED
  BY <1>1, <1>2, SameOk

LEMMA TftpdSendOk ==
  ASSUME NEW b, NEW n, BoardOk(b, n)
  PROVE  LET c == TftpdSend(b)
         IN  BoardOk(c, n) /\ SameLoop(b, c)
<1> DEFINE c == TftpdSend(b)
<1>1. /\ IsBoard(c) /\ SameLoop(b, c) /\ c.timer = b.timer /\ c.t = b.t
      /\ Acks(c) \subseteq Acks(b)
  BY TftpdSendFacts DEF BoardOk
<1> HIDE DEF c
<1>2. c.timer = "tftp" => b.t.started
  BY <1>1 DEF BoardOk, SessionOk
<1>3. BoardOk(c, n)
  BY <1>1, <1>2, SameOk
<1> QED
  BY <1>1, <1>3 DEF c

LEMMA FlashFacts ==
  ASSUME NEW b, NEW works, NEW len, IsBoard(b)
  PROVE  LET c == flash_kernel_image(b, len, works)
         IN  /\ IsBoard(c) /\ SameLoop(b, c) /\ c.t = b.t /\ c.arp = b.arp /\ c.out = b.out
             /\ c.queue = b.queue /\ c.timer = b.timer
<1>1. CASE len < MinLength
  <2>1. flash_kernel_image(b, len, works) = [b EXCEPT !.d.ok = FALSE]
    BY <1>1 DEF flash_kernel_image, Flashed
  <2> QED
    BY <2>1 DEF IsBoard, SameLoop, SameCall
<1>2. CASE ~(len < MinLength)
  <2> DEFINE good == verify_kernel_image(b)
             kernel == IF ~good THEN b.kernel ELSE IF works THEN Copied(b, len) ELSE Nobody
             d == [b.d EXCEPT !.ok = good /\ works, !.header = IF good THEN b.mem[0] ELSE Empty]
  <2>1. flash_kernel_image(b, len, works) = [b EXCEPT !.d = d, !.kernel = kernel]
    BY <1>2 DEF flash_kernel_image, Flashed, IsBoard
  <2> HIDE DEF kernel, d
  <2> QED
    BY <2>1 DEF IsBoard, SameLoop, SameCall
<1> QED
  BY <1>1, <1>2

LEMMA TftpdFinishOk ==
  ASSUME NEW b, NEW works, NEW n, BoardOk(b, n), b.proto # "PING"
  PROVE  LET c == TftpdFinish(b, works)
         IN  BoardOk(c, n) /\ SameCall(b, c)
<1> DEFINE f0 == flash_kernel_image(b, b.d.len, works)
           f1 == [f0 EXCEPT !.d.state = "finishack"]
           f2 == TftpdSend(f1)
           f3 == [f2 EXCEPT !.state = "success"]
<1>1. /\ IsBoard(f0) /\ SameLoop(b, f0) /\ f0.t = b.t /\ f0.arp = b.arp /\ f0.out = b.out
      /\ f0.queue = b.queue /\ f0.timer = b.timer
  BY FlashFacts DEF BoardOk
<1>2. TftpdFinish(b, works) = f3
  BY DEF TftpdFinish
<1> HIDE DEF f0
<1>3. /\ IsBoard(f1) /\ SameLoop(f0, f1) /\ f1.t = f0.t /\ f1.arp = f0.arp /\ f1.out = f0.out
      /\ f1.queue = f0.queue /\ f1.timer = f0.timer
  BY <1>1 DEF IsBoard, SameLoop, SameCall
<1> HIDE DEF f1
<1>4. BoardOk(f1, n) /\ SameCall(b, f1)
  <2>1. SameLoop(b, f1)
    BY <1>1, <1>3 DEF SameLoop, SameCall
  <2> QED
    BY <1>1, <1>3, <2>1, OwnOk DEF SameLoop
<1>5. BoardOk(f2, n) /\ SameLoop(f1, f2)
  BY <1>4, TftpdSendOk
<1> HIDE DEF f2
<1>6. f2.proto # "PING"
  BY <1>4, <1>5 DEF SameLoop, SameCall
<1>7. BoardOk(f3, n) /\ SameCall(f2, f3)
  BY <1>5, <1>6, SuccessOk
<1> HIDE DEF f3
<1> QED
  BY <1>2, <1>4, <1>5, <1>7 DEF SameLoop, SameCall

LEMMA TftpdStoreOk ==
  ASSUME NEW b, NEW works, NEW n, NEW p, BoardOk(b, n), b.proto # "PING"
  PROVE  LET c == TftpdStore(b, p, works)
         IN  BoardOk(c, n) /\ SameCall(b, c)
<1> DEFINE s0 == [b EXCEPT !.d.last = p.n, !.d.len = Full * (p.n - 1) + p.len, !.mem[p.n - 1] = IF p.len = 0 THEN @ ELSE p.load]
           s1 == NetSetTimeout(s0, "tftpd")
           s2 == TftpdSend(s1)
<1>1. TftpdStore(b, p, works) = IF p.len < Full THEN TftpdFinish(s2, works) ELSE s2
  BY DEF TftpdStore
<1>2. /\ IsBoard(s0) /\ SameLoop(b, s0) /\ s0.t = b.t /\ s0.arp = b.arp /\ s0.out = b.out
      /\ s0.queue = b.queue /\ s0.timer = b.timer
  BY DEF BoardOk, IsBoard, SameLoop, SameCall
<1> HIDE DEF s0
<1>3. /\ IsBoard(s1) /\ SameLoop(s0, s1) /\ s1.t = s0.t /\ s1.arp = s0.arp /\ s1.out = s0.out
      /\ s1.queue = s0.queue /\ s1.timer = "tftpd"
  BY <1>2 DEF NetSetTimeout, IsBoard, SameLoop, SameCall
<1> HIDE DEF s1
<1>4. BoardOk(s1, n) /\ SameLoop(b, s1)
  <2>1. SameLoop(b, s1)
    BY <1>2, <1>3 DEF SameLoop, SameCall
  <2> QED
    BY <1>2, <1>3, <2>1, OwnOk
<1>5. BoardOk(s2, n) /\ SameLoop(s1, s2)
  BY <1>4, TftpdSendOk
<1> HIDE DEF s2
<1>6. s2.proto # "PING" /\ SameCall(b, s2)
  BY <1>4, <1>5 DEF SameLoop, SameCall
<1>7. BoardOk(TftpdFinish(s2, works), n) /\ SameCall(s2, TftpdFinish(s2, works))
  BY <1>5, <1>6, TftpdFinishOk
<1> QED
  BY <1>1, <1>5, <1>6, <1>7 DEF SameCall

LEMMA TftpdDataOk ==
  ASSUME NEW b, NEW works, NEW n, NEW p, BoardOk(b, n), b.proto # "PING"
  PROVE  LET c == TftpdData(b, p, netretry, works)
         IN  BoardOk(c, n) /\ SameCall(b, c)
<1> DEFINE first == b.d.state = "wrq"
           b1 == IF first
                 THEN [b EXCEPT !.d.block = p.n, !.d.state = "data", !.d.sport = p.sport, !.d.last = 0]
                 ELSE [b EXCEPT !.d.block = p.n]
<1>1. TftpdData(b, p, netretry, works) =
        IF first /\ p.n # 1 THEN NetStartAgain(b1, netretry)
        ELSE IF p.n = b1.d.last THEN b1
        ELSE TftpdStore(b1, p, works)
  BY DEF TftpdData
<1>2. /\ IsBoard(b1) /\ SameLoop(b, b1) /\ b1.t = b.t /\ b1.arp = b.arp /\ b1.out = b.out
      /\ b1.queue = b.queue /\ b1.timer = b.timer
  BY DEF BoardOk, IsBoard, SameLoop, SameCall
<1> HIDE DEF b1
<1>3. BoardOk(b1, n) /\ SameCall(b, b1) /\ b1.proto # "PING"
  BY <1>2, OwnOk DEF SameLoop, SameCall
<1>4. BoardOk(NetStartAgain(b1, netretry), n) /\ SameCall(b1, NetStartAgain(b1, netretry))
  BY <1>3, AgainOk
<1>5. BoardOk(TftpdStore(b1, p, works), n) /\ SameCall(b1, TftpdStore(b1, p, works))
  BY <1>3, TftpdStoreOk
<1> QED
  BY <1>1, <1>3, <1>4, <1>5 DEF SameCall

LEMMA TftpdHandlerOk ==
  ASSUME NEW b, NEW works, NEW n, NEW p, BoardOk(b, n), b.handler = "tftpd"
  PROVE  LET c == TftpdHandler(b, p, netretry, works)
         IN  BoardOk(c, n) /\ SameCall(b, c)
<1> DEFINE stranger == p.dport # PortTftp \/ (b.d.state # "rrq" /\ p.sport # b.d.sport)
<1>0. b.proto # "PING"
  BY DEF BoardOk, LoopOk
<1>1. CASE stranger \/ p.kind \notin {"ask", "wrq", "data", "error"}
  <2>1. TftpdHandler(b, p, netretry, works) = b
    BY <1>1 DEF TftpdHandler
  <2> QED
    BY <2>1 DEF SameCall
<1>2. CASE ~stranger /\ p.kind = "ask"
  <2> DEFINE c == [b EXCEPT !.sip = Nobody, !.d.sport = p.sport, !.d.block = 1, !.d.state = "rrq"]
  <2>1. TftpdHandler(b, p, netretry, works) = TftpdSend(c)
    BY <1>2 DEF TftpdHandler
  <2>2. /\ IsBoard(c) /\ SameLoop(b, c) /\ c.t = b.t /\ c.arp = b.arp /\ c.out = b.out
        /\ c.queue = b.queue /\ c.timer = b.timer
    BY DEF BoardOk, IsBoard, SameLoop, SameCall
  <2> HIDE DEF c
  <2>3. BoardOk(c, n)
    BY <2>2, OwnOk
  <2>4. BoardOk(TftpdSend(c), n) /\ SameLoop(c, TftpdSend(c))
    BY <2>3, TftpdSendOk
  <2> QED
    BY <2>1, <2>2, <2>4 DEF SameLoop, SameCall
<1>3. CASE ~stranger /\ p.kind = "wrq"
  <2> DEFINE c == [b EXCEPT !.d.sport = p.sport, !.d.block = 0, !.d.state = "wrq"]
  <2>1. TftpdHandler(b, p, netretry, works) = TftpdSend(c)
    BY <1>3 DEF TftpdHandler
  <2>2. /\ IsBoard(c) /\ SameLoop(b, c) /\ c.t = b.t /\ c.arp = b.arp /\ c.out = b.out
        /\ c.queue = b.queue /\ c.timer = b.timer
    BY DEF BoardOk, IsBoard, SameLoop, SameCall
  <2> HIDE DEF c
  <2>3. BoardOk(c, n)
    BY <2>2, OwnOk
  <2>4. BoardOk(TftpdSend(c), n) /\ SameLoop(c, TftpdSend(c))
    BY <2>3, TftpdSendOk
  <2> QED
    BY <2>1, <2>2, <2>4 DEF SameLoop, SameCall
<1>4. CASE ~stranger /\ p.kind = "data"
  <2>1. TftpdHandler(b, p, netretry, works) = TftpdData(b, p, netretry, works)
    BY <1>4 DEF TftpdHandler
  <2> QED
    BY <1>0, <2>1, TftpdDataOk
<1>5. CASE ~stranger /\ p.kind = "error"
  <2>1. TftpdHandler(b, p, netretry, works) = NetStartAgain(b, netretry)
    BY <1>5 DEF TftpdHandler
  <2> QED
    BY <2>1, AgainOk
<1> QED
  BY <1>1, <1>2, <1>3, <1>4, <1>5

LEMMA ArpReplyOk ==
  ASSUME NEW b, NEW n, NEW p, BoardOk(b, n)
  PROVE  LET c == ArpReply(b, p)
         IN  BoardOk(c, n) /\ SameCall(b, c)
<1> DEFINE b1 == IF b.arp.owner = "server" THEN [b EXCEPT !.ether = TRUE] ELSE b
           b0 == eth_send(b1, b.arp.pkt)
           b2 == [b0 EXCEPT !.arp = NoArpWait]
<1>1. /\ IsBoard(b1) /\ SameLoop(b, b1) /\ b1.t = b.t /\ b1.arp = b.arp /\ b1.out = b.out
      /\ b1.queue = b.queue /\ b1.timer = b.timer
  BY DEF BoardOk, IsBoard, SameLoop, SameCall
<1>2. CASE b.arp.ip = Nobody \/ p.ip # b.arp.ip
  <2>1. ArpReply(b, p) = b
    BY <1>2 DEF ArpReply
  <2> QED
    BY <2>1 DEF SameCall
<1>3. CASE ~(b.arp.ip = Nobody \/ p.ip # b.arp.ip)
  <2>1. ArpReply(b, p) = IF b.t.started THEN TftpSend(b2) ELSE b2
    BY <1>3 DEF ArpReply
  <2> HIDE DEF b1
  <2>2. /\ IsBoard(b2) /\ SameLoop(b, b2) /\ b2.t = b.t /\ b2.arp.ip = Nobody /\ b2.timer = b.timer
        /\ b2.out \cup b2.queue = b.out \cup b.queue \cup Frames(b.arp.pkt)
    <3>1. /\ IsBoard(b0) /\ SameLoop(b1, b0) /\ b0.timer = b1.timer /\ b0.t = b1.t
          /\ b0.out \cup b0.queue = b1.out \cup b1.queue \cup Frames(b.arp.pkt)
      BY <1>1, EthSendFacts
    <3> HIDE DEF b0
    <3> QED
      BY <1>1, <3>1 DEF NoArpWait, IsBoard, SameLoop, SameCall
  <2> HIDE DEF b2
  <2>3. Acks(b2) \subseteq Acks(b)
    BY <1>3, <2>2 DEF Acks, Frames
  <2>4. BoardOk(b2, n)
    <3>1. b2.timer = "tftp" => b.t.started
      BY <2>2 DEF BoardOk, SessionOk
    <3> QED
      BY <2>2, <2>3, <3>1, SameOk
  <2>5. CASE b.t.started
    <3>1. BoardOk(TftpSend(b2), n) /\ SameLoop(b2, TftpSend(b2))
      BY <2>2, <2>4, <2>5, TftpSendOk
    <3> QED
      BY <2>1, <2>2, <2>5, <3>1 DEF SameLoop, SameCall
  <2>6. CASE ~b.t.started
    BY <2>1, <2>2, <2>4, <2>6 DEF SameLoop
  <2> QED BY <2>5, <2>6
<1> QED
  BY <1>2, <1>3

\* A packet the handler takes for an answer is the answer to an echo request, or one of a
\* transfer that spells the address.
LEMMA RepliesAnswer ==
  ASSUME NEW p \in OnTheWire, p.kind # "arprep", mode = "cli", NEW b, IpSrc(b, p)
  PROVE  Asked(b.host)
<1>1. CASE p \in StationAnswers
  BY <1>1 DEF StationAnswers, Asked, WasAsked, IpSrc
<1>2. CASE p \in ServerAnswers
  <2>1. PICK m \in Sent("rrq"), x \in Sessions : p \in SessionAnswers(m.oport, x, m.file)
    BY <1>2 DEF ServerAnswers
  <2>2. CASE p.kind = "data"
    <3>1. PICK k \in 1 .. Size[m.file] : p = Data(m.oport, x, m.file, k)
      BY <2>1, <2>2 DEF SessionAnswers
    <3>2. Contents(p) = <<m.file, k>>
      BY <3>1 DEF Data, Contents
    <3>3. <<Contents(p), b.host>> \in Spelled
      BY <2>2 DEF IpSrc
    <3>4. Spells(m.file, b.host)
      BY <3>2, <3>3 DEF Spells
    <3> QED BY <3>4 DEF Asked
  <2>3. CASE p.kind # "data"
    <3>1. p.kind \in {"oack", "error"}
      BY <2>1, <2>3 DEF SessionAnswers, Data
    <3>2. Contents(p) \in {<<"oack", 0>>, <<"error", 0>>} /\ <<Contents(p), b.host>> \in Spelled
      BY <3>1 DEF Contents, IpSrc
    <3>3. Spells(m.file, b.host)
      BY <3>2 DEF Spells
    <3> QED BY <3>3 DEF Asked
  <2> QED BY <2>2, <2>3
<1> QED
  BY <1>1, <1>2 DEF OnTheWire

LEMMA PingHandlerOk ==
  ASSUME NEW b, NEW n, NEW p \in OnTheWire, BoardOk(b, n), b.handler = "ping", p.kind # "arprep"
  PROVE  LET c == PingHandler(b, p)
         IN  BoardOk(c, n) /\ SameCall(b, c)
<1>1. CASE ~IpSrc(b, p)
  BY <1>1 DEF PingHandler, SameCall
<1>2. CASE IpSrc(b, p)
  <2> DEFINE c == [b EXCEPT !.state = "success"]
  <2>1. PingHandler(b, p) = c
    BY <1>2 DEF PingHandler
  <2>2. /\ IsBoard(c) /\ SameCall(b, c) /\ c.t = b.t /\ Acks(c) = Acks(b)
        /\ c.timer = b.timer /\ c.handler = b.handler /\ c.state = "success"
    BY DEF BoardOk, IsBoard, SameCall, Acks
  <2> HIDE DEF c
  <2>3. b.proto = "PING" => mode = "cli" /\ Asked(b.host)
    BY <1>2, RepliesAnswer DEF BoardOk, LoopOk
  <2>4. LoopOk(c) /\ MayGoOn(c)
    BY <2>2, <2>3 DEF BoardOk, LoopOk, MayGoOn, SameCall
  <2>5. SessionOk(c, n)
    BY <2>2 DEF BoardOk, SessionOk, AllAcks
  <2> QED
    BY <2>1, <2>2, <2>4, <2>5 DEF BoardOk
<1> QED
  BY <1>1, <1>2

LEMMA NetReceiveOk ==
  ASSUME NEW b, NEW works, NEW n, NEW p \in OnTheWire, BoardOk(b, n)
  PROVE  LET c == NetReceive(b, p, works)
         IN  BoardOk(c, n) /\ SameCall(b, c)
<1>1. CASE p.kind = "arprep"
  BY <1>1, ArpReplyOk DEF NetReceive
<1>2. CASE p.kind # "arprep" /\ b.handler = "ping"
  <2>1. NetReceive(b, p, works) = PingHandler(b, p)
    BY <1>2 DEF NetReceive
  <2> QED
    BY <1>2, <2>1, PingHandlerOk
<1>3. CASE p.kind \notin {"arprep", "reply"} /\ b.handler = "tftp"
  <2>1. NetReceive(b, p, works) = TftpHandler(b, p, netretry)
    BY <1>3 DEF NetReceive
  <2> QED
    BY <1>3, <2>1, TftpHandlerOk
<1>4. CASE p.kind \notin {"arprep", "reply"} /\ b.handler = "tftpd"
  <2>1. NetReceive(b, p, works) = TftpdHandler(b, p, netretry, works)
    BY <1>4 DEF NetReceive
  <2> QED
    BY <1>4, <2>1, TftpdHandlerOk
<1>5. CASE /\ p.kind # "arprep" /\ b.handler # "ping"
           /\ p.kind = "reply" \/ b.handler \notin {"tftp", "tftpd"}
  <2>1. NetReceive(b, p, works) = b
    BY <1>5 DEF NetReceive
  <2> QED
    BY <2>1 DEF SameCall
<1> QED
  BY <1>1, <1>2, <1>3, <1>4, <1>5

LEMMA TftpTimeoutOk ==
  ASSUME NEW b, NEW n, BoardOk(b, n), b.t.started
  PROVE  LET c == TftpTimeout(b, netretry)
         IN  BoardOk(c, n) /\ SameCall(b, c)
<1> DEFINE b1 == [b EXCEPT !.t.tries = @ + 1]
           b2 == NetSetTimeout(b1, "tftp")
<1>0. IsBoard(b)
  BY DEF BoardOk
<1>1. TftpTimeout(b, netretry) = IF b1.t.tries > MaxTries THEN NetStartAgain(b1, netretry) ELSE TftpSend(b2)
  BY DEF TftpTimeout
<1>2. /\ IsBoard(b1) /\ SameLoop(b, b1) /\ b1.timer = b.timer /\ Acks(b1) = Acks(b)
      /\ b1.t.started = b.t.started /\ b1.t.oport = b.t.oport
      /\ b1.t.sport = b.t.sport /\ b1.t.state = b.t.state
  BY <1>0 DEF IsBoard, SameLoop, SameCall, Acks
<1> HIDE DEF b1
<1>3. BoardOk(b1, n)
  BY <1>2, AnsweredOk
<1>4. BoardOk(NetStartAgain(b1, netretry), n) /\ SameCall(b1, NetStartAgain(b1, netretry))
  BY <1>3, AgainOk
<1>5. IsBoard(b2) /\ SameLoop(b1, b2) /\ b2.timer = "tftp" /\ b2.t = b1.t /\ Acks(b2) = Acks(b1)
  BY <1>2, SetFacts
<1> HIDE DEF b2
<1>6. BoardOk(b2, n)
  BY <1>2, <1>3, <1>5, SameOk
<1>7. BoardOk(TftpSend(b2), n) /\ SameLoop(b2, TftpSend(b2))
  BY <1>2, <1>5, <1>6, TftpSendOk
<1> QED
  BY <1>1, <1>2, <1>4, <1>5, <1>7 DEF SameLoop, SameCall

\* After a timer that has run out only ping may have given up.
Ended(b, n) == IsBoard(b) /\ LoopOk(b) /\ SessionOk(b, n)

LEMMA ExpiredOk ==
  ASSUME NEW b, NEW n, BoardOk(b, n)
  PROVE  LET c == Expired(b)
         IN  Ended(c, n) /\ SameCall(b, c)
<1> DEFINE b1 == [b EXCEPT !.timer = "none"]
<1>0. IsBoard(b)
  BY DEF BoardOk
<1>1. IsBoard(b1) /\ SameLoop(b, b1) /\ b1.timer = "none" /\ b1.t = b.t /\ Acks(b1) = Acks(b)
  BY <1>0 DEF IsBoard, SameLoop, SameCall, Acks
<1>2. BoardOk(b1, n) /\ SameCall(b, b1)
  <2> HIDE DEF b1
  <2> QED
    BY <1>1, SameOk DEF SameLoop
<1>3. CASE b.timer = "tftp"
  <2>1. Expired(b) = TftpTimeout(b1, netretry)
    BY <1>3 DEF Expired
  <2> HIDE DEF b1
  <2>2. b1.t.started
    BY <1>1, <1>3 DEF BoardOk, SessionOk
  <2>3. BoardOk(TftpTimeout(b1, netretry), n) /\ SameCall(b1, TftpTimeout(b1, netretry))
    BY <1>2, <2>2, TftpTimeoutOk
  <2> QED
    BY <1>2, <2>1, <2>3 DEF BoardOk, Ended, SameCall
<1>4. CASE b.timer \in {"wait", "tftpd"}
  <2> DEFINE w == NetSetTimeout(b1, "wait")
             r == NetSetTimeout(b1, "tftpd")
  <2>1. Expired(b) = w \/ Expired(b) = TftpdSend(r)
    BY <1>4 DEF Expired, TftpdTimeout, TftpdResend
  <2> HIDE DEF b1
  <2>2. IsBoard(w) /\ SameLoop(b1, w) /\ w.timer = "wait" /\ w.t = b1.t /\ Acks(w) = Acks(b1)
    BY <1>1, SetFacts
  <2>3. IsBoard(r) /\ SameLoop(b1, r) /\ r.timer = "tftpd" /\ r.t = b1.t /\ Acks(r) = Acks(b1)
    BY <1>1, SetFacts
  <2> HIDE DEF w, r
  <2>4. BoardOk(w, n) /\ BoardOk(r, n)
    BY <1>2, <2>2, <2>3, SameOk
  <2>5. BoardOk(TftpdSend(r), n) /\ SameLoop(r, TftpdSend(r))
    BY <2>4, TftpdSendOk
  <2> QED
    BY <1>2, <2>1, <2>2, <2>3, <2>4, <2>5 DEF BoardOk, Ended, SameLoop, SameCall
<1>5. CASE b.timer = "ping"
  <2> DEFINE c == [eth_halt(b1) EXCEPT !.state = "fail"]
  <2>1. Expired(b) = c
    BY <1>5 DEF Expired, PingTimeout
  <2> HIDE DEF b1
  <2>2. /\ IsBoard(c) /\ SameCall(b1, c) /\ c.t = b1.t /\ Acks(c) = Acks(b1) /\ ~c.up
        /\ c.timer = b1.timer /\ c.handler = b1.handler /\ c.state = "fail"
    BY <1>1 DEF eth_halt, IsBoard, SameCall, Acks
  <2> HIDE DEF c
  <2>3. LoopOk(c) /\ SessionOk(c, n)
    BY <1>2, <2>2 DEF BoardOk, LoopOk, SessionOk, AllAcks, SameCall
  <2> QED
    BY <1>2, <2>1, <2>2, <2>3 DEF Ended, SameCall
<1>6. CASE b.timer = "again"
  <2> DEFINE c == [b1 EXCEPT !.state = "restart"]
  <2>1. Expired(b) = c
    BY <1>6 DEF Expired
  <2> HIDE DEF b1
  <2>2. /\ IsBoard(c) /\ SameCall(b1, c) /\ c.t = b1.t /\ Acks(c) = Acks(b1)
        /\ c.timer = b1.timer /\ c.handler = b1.handler /\ c.state = "restart"
    BY <1>1 DEF IsBoard, SameCall, Acks
  <2> HIDE DEF c
  <2>3. LoopOk(c) /\ SessionOk(c, n)
    BY <1>2, <2>2 DEF BoardOk, LoopOk, SessionOk, AllAcks, SameCall
  <2> QED
    BY <1>2, <2>1, <2>2, <2>3 DEF Ended, SameCall
<1>7. CASE b.timer \notin {"tftp", "wait", "tftpd", "ping", "again"}
  <2>1. Expired(b) = b1
    BY <1>7 DEF Expired
  <2> HIDE DEF b1
  <2> QED
    BY <1>2, <2>1 DEF BoardOk, Ended
<1> QED
  BY <1>3, <1>4, <1>5, <1>6, <1>7

-----------------------------------------------------------------------------
(***************************************************************************)
(* A NetLoop that starts, and one that ends.                               *)
(***************************************************************************)
Ports(b, n) == IF b.proto = "TFTP" THEN n + 1 ELSE n

LEMMA StartingOk ==
  ASSUME NEW b, NEW n \in Nat, IsBoard(b), SessionOk(b, n), b.proto \in {"TFTP", "TFTPD", "PING"},
         b.proto = "PING" => mode = "cli"
  PROVE  LET c == Starting(b, n + 1)
         IN  BoardOk(c, Ports(b, n)) /\ SameCall(b, c)
<1> DEFINE b1 == [b EXCEPT !.state = "continue", !.sip = Server]
           b2 == CASE b1.proto = "TFTP"  -> TftpStart(b1, n + 1)
                   [] b1.proto = "TFTPD" -> TftpdStart(b1)
                   [] b1.proto = "PING"  -> PingStart(b1)
           b3 == [b2 EXCEPT !.xfer = 0]
<1>1. /\ IsBoard(b1) /\ SameCall(b, b1) /\ b1.state = "continue" /\ b1.handler = b.handler
      /\ b1.timer = b.timer /\ b1.t = b.t /\ b1.arp = b.arp /\ b1.out = b.out
      /\ b1.queue = b.queue /\ Acks(b1) = Acks(b)
  BY DEF IsBoard, SameCall, Acks
<1>2. Starting(b, n + 1) = b3
  <2>1. b1.proto = b.proto
    BY <1>1 DEF SameCall
  <2> HIDE DEF b1
  <2>2. Starting(b, n + 1) =
          [(CASE b.proto = "TFTP"  -> TftpStart(b1, n + 1)
              [] b.proto = "TFTPD" -> TftpdStart(b1)
              [] b.proto = "PING"  -> PingStart(b1)) EXCEPT !.xfer = 0]
    BY DEF Starting, b1
  <2> QED
    BY <2>1, <2>2
<1> HIDE DEF b1
<1>3. CASE b.proto = "TFTP"
  <2> DEFINE s == [NetSetHandler(NetSetTimeout(b1, "tftp"), "tftp") EXCEPT
                     !.ether = FALSE,
                     !.t = [@ EXCEPT !.started = TRUE, !.state = "rrq", !.block = 0,
                                     !.sport = WellKnown, !.oport = n + 1, !.tries = 0]]
  <2>1. b2 = TftpSend(s)
    BY <1>1, <1>3 DEF TftpStart, SameCall
  <2>2. /\ IsBoard(s) /\ SameCall(b1, s) /\ s.state = "continue" /\ s.handler = "tftp"
        /\ s.timer = "tftp" /\ Acks(s) = Acks(b1)
        /\ s.t.started = TRUE /\ s.t.state = "rrq" /\ s.t.oport = n + 1
    BY <1>1 DEF NetSetHandler, NetSetTimeout, IsBoard, SameCall, Acks
  <2> HIDE DEF s
  <2>3. SessionOk(s, n + 1)
    <3>1. AllAcks(s) = AllAcks(b)
      BY <1>1, <2>2 DEF AllAcks
    <3>2. \A m \in AllAcks(s) : m.oport \in 1..(n + 1) /\ m.oport # n + 1
      BY <3>1 DEF SessionOk
    <3>3. \A m1, m2 \in AllAcks(s) : m1.oport = m2.oport => m1.sport = m2.sport
      BY <3>1 DEF SessionOk
    <3> QED
      BY <2>2, <3>2, <3>3 DEF SessionOk
  <2>4. LoopOk(s) /\ MayGoOn(s)
    BY <1>1, <1>3, <2>2 DEF LoopOk, MayGoOn, SameCall
  <2>5. BoardOk(s, n + 1)
    BY <2>2, <2>3, <2>4 DEF BoardOk
  <2>6. BoardOk(b2, n + 1) /\ SameLoop(s, b2)
    BY <2>1, <2>2, <2>5, TftpSendOk
  <2> HIDE DEF b2
  <2>7. /\ IsBoard(b3) /\ SameLoop(b2, b3) /\ b3.t = b2.t /\ b3.timer = b2.timer
        /\ b3.arp = b2.arp /\ b3.out = b2.out /\ b3.queue = b2.queue
    BY <2>6 DEF BoardOk, IsBoard, SameLoop, SameCall
  <2> HIDE DEF b3
  <2>8. BoardOk(b3, n + 1)
    BY <2>6, <2>7, OwnOk
  <2> QED
    BY <1>1, <1>2, <1>3, <2>2, <2>6, <2>7, <2>8 DEF SameLoop, SameCall, Ports
<1>4. ASSUME NEW s, IsBoard(s), SameCall(b1, s), s.state = "continue",
             s.handler = "tftpd" \/ (s.handler = "ping" /\ b.proto = "PING"), b.proto # "TFTP",
             s.handler = "tftpd" => b.proto = "TFTPD",
             s.timer # "tftp", s.t = b.t, Acks(s) \subseteq Acks(b), b2 = s
      PROVE  BoardOk(b3, n) /\ SameCall(b, b3)
  <2> HIDE DEF b2
  <2>1. AllAcks(s) \subseteq AllAcks(b)
    BY <1>4 DEF AllAcks
  <2>2. SessionOk(s, n)
    BY <1>4, <2>1 DEF SessionOk
  <2>3. LoopOk(s) /\ MayGoOn(s)
    BY <1>1, <1>4 DEF LoopOk, MayGoOn, SameCall
  <2>4. BoardOk(s, n)
    BY <1>4, <2>2, <2>3 DEF BoardOk
  <2>5. /\ IsBoard(b3) /\ SameLoop(s, b3) /\ b3.t = s.t /\ b3.timer = s.timer /\ b3.arp = s.arp
        /\ b3.out = s.out /\ b3.queue = s.queue
    BY <1>4 DEF IsBoard, SameLoop, SameCall
  <2> HIDE DEF b3
  <2>6. BoardOk(b3, n)
    BY <2>4, <2>5, OwnOk
  <2> QED
    BY <1>1, <1>4, <2>5, <2>6 DEF SameLoop, SameCall
<1>5. CASE b.proto = "TFTPD"
  <2> DEFINE s == TftpdStart(b1)
  <2>1. b2 = s
    BY <1>1, <1>5 DEF SameCall
  <2>2. /\ IsBoard(s) /\ SameCall(b1, s) /\ s.state = "continue" /\ s.handler = "tftpd"
        /\ s.timer = "wait" /\ Acks(s) = Acks(b1) /\ s.t = b1.t
    BY <1>1 DEF TftpdStart, NetSetHandler, NetSetTimeout, IsBoard, SameCall, Acks
  <2> HIDE DEF s, b2, b3
  <2>3. BoardOk(b3, n) /\ SameCall(b, b3)
    BY <1>1, <1>4, <1>5, <2>1, <2>2
  <2> QED
    BY <1>2, <1>5, <2>3 DEF Ports
<1>6. CASE b.proto = "PING"
  <2> DEFINE w == NetSetHandler(NetSetTimeout(b1, "ping"), "ping")
             s == PingSend(w)
             pkt == [kind |-> "echo", ip |-> w.host]
  <2>1. b2 = s
    BY <1>1, <1>6 DEF SameCall, PingStart
  <2>2. /\ IsBoard(w) /\ SameCall(b1, w) /\ w.state = "continue" /\ w.handler = "ping"
        /\ w.timer = "ping" /\ Acks(w) = Acks(b1) /\ w.t = b1.t
    BY <1>1 DEF NetSetHandler, NetSetTimeout, IsBoard, SameCall, Acks
  <2>3. s = WaitForArp(w, w.host, "ping", pkt)
    BY DEF PingSend
  <2>4. pkt.kind # "ack"
    OBVIOUS
  <2> HIDE DEF w, s, pkt, b2, b3
  <2>5. /\ IsBoard(s) /\ SameLoop(w, s) /\ s.timer = w.timer /\ s.t = w.t
        /\ Acks(s) \subseteq Acks(w) \cup {m \in {pkt} : m.kind = "ack"}
    BY <2>2, <2>3, WaitFacts
  <2>6. /\ SameCall(b1, s) /\ s.state = "continue" /\ s.handler = "ping"
        /\ s.timer # "tftp" /\ s.t = b.t /\ Acks(s) \subseteq Acks(b)
    BY <1>1, <2>2, <2>4, <2>5 DEF SameLoop, SameCall
  <2>7. BoardOk(b3, n) /\ SameCall(b, b3)
    BY <1>4, <1>6, <2>1, <2>5, <2>6
  <2> QED
    BY <1>2, <1>6, <2>7 DEF Ports
<1> QED
  BY <1>3, <1>5, <1>6

\* At the prompt the device is halted, and what a ping said is true.
AtPrompt(c, n) ==
  /\ IsBoard(c) /\ SessionOk(c, n) /\ c.proto = "none"
  /\ netretry # "once" => ~c.up
  /\ c.ret = "alive" => Asked(c.host)

LEMMA FreshOk ==
  ASSUME NEW b, NEW n, SessionOk(b, n), NEW mem, NEW kernel
  PROVE  AtPrompt([Fresh(mem, kernel) EXCEPT !.out = b.out], n)
<1> DEFINE c == [Fresh(mem, kernel) EXCEPT !.out = b.out]
<1>1. /\ IsBoard(c) /\ c.proto = "none" /\ c.ret = "none" /\ ~c.up
      /\ c.handler = "null" /\ c.timer = "none" /\ c.t.started = FALSE
      /\ Acks(c) = {m \in b.out : m.kind = "ack"}
  BY DEF Fresh, NoArpWait, IsBoard, Acks
<1> HIDE DEF c
<1>2. AllAcks(c) \subseteq AllAcks(b)
  BY <1>1 DEF AllAcks, Acks
<1>3. SessionOk(c, n)
  BY <1>1, <1>2 DEF SessionOk
<1> QED
  BY <1>1, <1>3 DEF AtPrompt, c

LEMMA FailedOk ==
  ASSUME NEW b, NEW n, IsBoard(b), SessionOk(b, n), netretry # "once" => ~b.up
  PROVE  AtPrompt(Failed(b), n)
<1>1. CASE b.proto = "TFTPD"
  BY <1>1, FreshOk DEF Failed
<1>2. CASE b.proto # "TFTPD"
  <2> DEFINE c == [b EXCEPT !.proto = "none", !.ret = "failed"]
  <2>1. Failed(b) = c
    BY <1>2 DEF Failed
  <2>2. /\ IsBoard(c) /\ c.proto = "none" /\ c.ret = "failed" /\ c.up = b.up
        /\ c.handler = b.handler /\ c.timer = b.timer /\ c.t = b.t /\ Acks(c) = Acks(b)
    BY DEF IsBoard, Acks
  <2> HIDE DEF c
  <2>3. SessionOk(c, n)
    BY <2>2 DEF SessionOk, AllAcks
  <2> QED
    BY <2>1, <2>2, <2>3 DEF AtPrompt
<1> QED
  BY <1>1, <1>2

LEMMA SucceededOk ==
  ASSUME NEW b, NEW n, Ended(b, n), b.state = "success", b.proto \in {"TFTP", "TFTPD", "PING"}
  PROVE  AtPrompt(Succeeded(b), n)
<1> DEFINE h == eth_halt(b)
           b1 == [h EXCEPT !.proto = "none", !.filesize = IF b.xfer > 0 THEN b.xfer ELSE @]
<1>1. /\ IsBoard(h) /\ SameCall(b, h) /\ h.handler = b.handler
      /\ h.timer = b.timer /\ h.t = b.t /\ Acks(h) = Acks(b) /\ ~h.up
  BY HaltFacts DEF Ended
<1>2. Succeeded(b) = CASE b.proto = "TFTP"  -> [b1 EXCEPT !.ret = "loaded", !.loaded = b.file]
                       [] b.proto = "PING"  -> [b1 EXCEPT !.ret = "alive"]
                       [] OTHER -> [Fresh(b.mem, b.kernel) EXCEPT !.out = b.out]
  BY DEF Succeeded
<1> HIDE DEF h
<1>3. /\ IsBoard(b1) /\ b1.proto = "none" /\ b1.host = h.host /\ b1.handler = h.handler
      /\ b1.timer = h.timer /\ b1.t = h.t /\ Acks(b1) = Acks(h) /\ b1.up = h.up
  BY <1>1 DEF IsBoard, Acks
<1> HIDE DEF b1
<1>4. ASSUME NEW c, IsBoard(c), c.proto = "none", c.host = b1.host, c.handler = b1.handler, c.timer = b1.timer,
             c.t = b1.t, Acks(c) = Acks(b1), c.up = b1.up, c.ret = "alive" => b.proto = "PING"
      PROVE  AtPrompt(c, n)
  <2>1. SessionOk(c, n)
    BY <1>1, <1>3, <1>4 DEF Ended, SessionOk, AllAcks
  <2> QED
    BY <1>1, <1>3, <1>4, <2>1 DEF Ended, LoopOk, AtPrompt, SameCall
<1>5. CASE b.proto = "TFTP"
  <2> DEFINE c == [b1 EXCEPT !.ret = "loaded", !.loaded = b.file]
  <2>1. /\ IsBoard(c) /\ c.proto = b1.proto /\ c.host = b1.host /\ c.handler = b1.handler /\ c.timer = b1.timer
        /\ c.t = b1.t /\ Acks(c) = Acks(b1) /\ c.up = b1.up /\ c.ret = "loaded"
    BY <1>3 DEF IsBoard, Acks
  <2>2. Succeeded(b) = c
    BY <1>2, <1>5
  <2> HIDE DEF c
  <2> QED
    BY <1>3, <1>4, <2>1, <2>2
<1>6. CASE b.proto = "PING"
  <2> DEFINE c == [b1 EXCEPT !.ret = "alive"]
  <2>1. /\ IsBoard(c) /\ c.proto = b1.proto /\ c.host = b1.host /\ c.handler = b1.handler /\ c.timer = b1.timer
        /\ c.t = b1.t /\ Acks(c) = Acks(b1) /\ c.up = b1.up
    BY <1>3 DEF IsBoard, Acks
  <2>2. Succeeded(b) = c
    BY <1>2, <1>6
  <2> HIDE DEF c
  <2> QED
    BY <1>3, <1>4, <1>6, <2>1, <2>2
<1>7. CASE b.proto = "TFTPD"
  <2>1. Succeeded(b) = [Fresh(b.mem, b.kernel) EXCEPT !.out = b.out]
    BY <1>2, <1>7
  <2> QED
    BY <2>1, FreshOk DEF Ended
<1> QED
  BY <1>5, <1>6, <1>7

-----------------------------------------------------------------------------
(***************************************************************************)
(* The inductive invariant, and that every action keeps it.                *)
(***************************************************************************)
IInv ==
  /\ starts \in Nat /\ board.proto \in {"none", "TFTP", "TFTPD", "PING"}
  /\ IsBoard(board) /\ SessionOk(board, starts)
  /\ board.proto # "none" => LoopOk(board) /\ MayGoOn(board)
  /\ QuietAtPrompt /\ PingIsTrue

\* What has been asked stays asked, what has been acknowledged stays so.
LEMMA StepFacts ==
  ASSUME NEW c, NEW n, Step(c), IsBoard(c), SessionOk(c, n)
  PROVE  /\ IsBoard(board') /\ SameLoop(c, board')
         /\ SessionOk(board, n)'
         /\ \A h : Asked(h) => Asked(h)'
<1>1. board' = [c EXCEPT !.out = {}] /\ sent' = sent \cup c.out
  BY DEF Step
<1>2. /\ IsBoard(board') /\ SameLoop(c, board') /\ board'.t = c.t /\ board'.timer = c.timer
      /\ board'.out = {} /\ board'.queue = c.queue /\ board'.arp = c.arp
  BY <1>1 DEF IsBoard, SameLoop, SameCall
<1>3. AllAcks(board)' \subseteq AllAcks(c)
  BY <1>1, <1>2 DEF AllAcks, Acks, Sent
<1>4. SessionOk(board, n)'
  BY <1>2, <1>3 DEF SessionOk, SameLoop
<1>5. \A h : Asked(h) => Asked(h)'
  BY <1>1 DEF WasAsked, Asked, Sent
<1> QED
  BY <1>2, <1>4, <1>5

LEMMA GoesOn ==
  ASSUME NEW c, Step(c), starts' \in Nat, BoardOk(c, starts'), netretry' = netretry, mode' = mode,
         c.proto \in {"TFTP", "TFTPD", "PING"}, c.ret = "alive" => Asked(c.host)
  PROVE  IInv'
<1>1. /\ IsBoard(board') /\ SameLoop(c, board')
      /\ SessionOk(board, starts)'
      /\ \A h : Asked(h) => Asked(h)'
  BY StepFacts DEF BoardOk
<1>2. LoopOk(board)' /\ MayGoOn(board)'
  BY <1>1 DEF BoardOk, LoopOk, MayGoOn, SameLoop, SameCall
<1>3. QuietAtPrompt'
  BY <1>1 DEF QuietAtPrompt, SameLoop, SameCall
<1>4. PingIsTrue'
  BY <1>1 DEF PingIsTrue, WasAsked, Asked, SameLoop, SameCall
<1> QED
  BY <1>1, <1>2, <1>3, <1>4 DEF IInv, SameLoop, SameCall

LEMMA Returns ==
  ASSUME NEW c, Step(c), starts' \in Nat, AtPrompt(c, starts'), netretry' = netretry
  PROVE  IInv'
<1>1. /\ IsBoard(board') /\ SameLoop(c, board')
      /\ SessionOk(board, starts)'
      /\ \A h : Asked(h) => Asked(h)'
  BY StepFacts DEF AtPrompt
<1>2. QuietAtPrompt'
  BY <1>1 DEF AtPrompt, QuietAtPrompt, SameLoop
<1>3. PingIsTrue'
  BY <1>1 DEF AtPrompt, PingIsTrue, WasAsked, Asked, SameLoop, SameCall
<1> QED
  BY <1>1, <1>2, <1>3 DEF AtPrompt, IInv, SameLoop, SameCall

\* NetLoop begins with the device as it is and no packet waiting.
LEMMA NetLoopStep ==
  ASSUME IInv, NEW b, NetLoop(b), IsBoard(b), b.proto = "PING" => mode = "cli", b.t = board.t, b.out = board.out, b.queue = board.queue,
         b.handler = board.handler, b.timer = board.timer, b.proto \in {"TFTP", "TFTPD", "PING"}
  PROVE  IInv'
<1> DEFINE b0 == [b EXCEPT !.arp = NoArpWait, !.ret = "none"]
           h == eth_halt(b0)
           i == eth_init(h)
           c == Starting(i, starts + 1)
<1>0. starts \in Nat /\ IsBoard(board) /\ SessionOk(board, starts)
  BY DEF IInv
<1>1. /\ IsBoard(b0) /\ b0.proto = b.proto /\ b0.ret = "none" /\ b0.handler = b.handler
      /\ b0.timer = b.timer /\ b0.t = b.t /\ b0.out = b.out /\ b0.queue = b.queue
      /\ b0.arp.ip = Nobody
  BY DEF NoArpWait, IsBoard
<1>2. Step(c) /\ netretry' = netretry /\ mode' = mode
      /\ starts' = IF b0.proto = "TFTP" THEN starts + 1 ELSE starts
  BY <1>1 DEF NetLoop, NewPort, StartsTransfer
<1> HIDE DEF b0
<1>3. Acks(b0) \subseteq Acks(board)
  BY <1>1 DEF Acks
<1>4. /\ IsBoard(h) /\ SameCall(b0, h) /\ h.state = b0.state /\ h.handler = b0.handler
      /\ h.timer = b0.timer /\ h.t = b0.t /\ Acks(h) = Acks(b0) /\ ~h.up
  BY <1>1, HaltFacts
<1> HIDE DEF h
<1>5. /\ IsBoard(i) /\ SameCall(h, i) /\ i.state = h.state /\ i.handler = h.handler
      /\ i.timer = h.timer /\ i.t = h.t /\ Acks(i) = Acks(h)
  BY <1>4, InitFacts
<1> HIDE DEF i
<1>6. SessionOk(i, starts)
  <2>1. AllAcks(i) \subseteq AllAcks(board)
    BY <1>3, <1>4, <1>5 DEF AllAcks
  <2> QED
    BY <1>0, <1>1, <1>4, <1>5, <2>1 DEF SessionOk
<1>7. i.proto \in {"TFTP", "TFTPD", "PING"} /\ i.proto = b0.proto /\ i.ret = "none"
  BY <1>1, <1>4, <1>5 DEF SameCall
<1>8. BoardOk(c, Ports(i, starts)) /\ SameCall(i, c)
  <2>1. i.proto = "PING" => mode = "cli"
    BY <1>1, <1>7
  <2> QED BY <1>0, <1>5, <1>6, <1>7, <2>1, StartingOk
<1> HIDE DEF c
<1>9. starts' = Ports(i, starts) /\ starts' \in Nat
  BY <1>0, <1>2, <1>7 DEF Ports
<1> QED
  BY <1>2, <1>7, <1>8, <1>9, GoesOn DEF SameCall

LEMMA PassStep ==
  ASSUME IInv, NEW arpdue \in BOOLEAN, NEW due \in BOOLEAN, Pass(arpdue, due)
  PROVE  IInv'
<1> DEFINE b1 == IF arpdue THEN ArpTimeout(board, netretry) ELSE board
           b2 == IF due THEN Expired(b1) ELSE b1
           c == Starting(b2, starts + 1)
<1>0. /\ board.proto \in {"TFTP", "TFTPD", "PING"} /\ netretry' = netretry /\ mode' = mode
      /\ \/ b2.state = "continue" /\ Step(b2) /\ starts' = starts
         \/ b2.state = "restart" /\ Step(c) /\ starts' = IF b2.proto = "TFTP" THEN starts + 1 ELSE starts
         \/ b2.state = "success" /\ Step(Succeeded(b2)) /\ starts' = starts
         \/ b2.state = "fail" /\ Step(Failed(b2)) /\ starts' = starts
  BY DEF Pass, IInv, NewPort, StartsTransfer
<1>1. starts \in Nat /\ BoardOk(board, starts) /\ (board.ret = "alive" => Asked(board.host))
  BY <1>0 DEF IInv, BoardOk, PingIsTrue, WasAsked, Asked
<1>2. BoardOk(b1, starts) /\ SameCall(board, b1)
  BY <1>1, ArpTimeoutOk DEF SameCall
<1> HIDE DEF b1
<1>3. Ended(b2, starts) /\ SameCall(board, b2) /\ (b2.state = "continue" => BoardOk(b2, starts))
  <2>1. Ended(Expired(b1), starts) /\ SameCall(b1, Expired(b1))
    BY <1>2, ExpiredOk
  <2>2. Ended(b2, starts) /\ SameCall(board, b2)
    BY <1>2, <2>1 DEF BoardOk, Ended, SameCall
  <2> HIDE DEF b2
  <2> QED
    BY <2>2 DEF BoardOk, Ended, MayGoOn
<1> HIDE DEF b2
<1>4. b2.proto \in {"TFTP", "TFTPD", "PING"} /\ (b2.ret = "alive" => Asked(b2.host))
  BY <1>0, <1>1, <1>3 DEF SameCall
<1>5. CASE b2.state = "continue" /\ Step(b2) /\ starts' = starts
  BY <1>0, <1>1, <1>3, <1>4, <1>5, GoesOn
<1>6. CASE b2.state = "restart" /\ Step(c) /\ starts' = IF b2.proto = "TFTP" THEN starts + 1 ELSE starts
  <2>1. BoardOk(c, Ports(b2, starts)) /\ SameCall(b2, c)
    <3>1. b2.proto = "PING" => mode = "cli"
      BY <1>1, <1>3 DEF BoardOk, LoopOk, SameCall
    <3> QED BY <1>1, <1>3, <1>4, <3>1, StartingOk DEF Ended
  <2> HIDE DEF c
  <2>2. starts' = Ports(b2, starts) /\ starts' \in Nat
    BY <1>1, <1>6 DEF Ports
  <2> QED
    BY <1>0, <1>4, <1>6, <2>1, <2>2, GoesOn DEF SameCall
<1>7. CASE b2.state = "success" /\ Step(Succeeded(b2)) /\ starts' = starts
  BY <1>0, <1>1, <1>3, <1>4, <1>7, SucceededOk, Returns
<1>8. CASE b2.state = "fail" /\ Step(Failed(b2)) /\ starts' = starts
  <2>1. AtPrompt(Failed(b2), starts)
    BY <1>3, <1>8, FailedOk DEF Ended, LoopOk
  <2> QED
    BY <1>0, <1>1, <1>8, <2>1, Returns
<1> QED
  BY <1>0, <1>5, <1>6, <1>7, <1>8

LEMMA InvStep ==
  ASSUME IInv, [Next]_vars
  PROVE  IInv'
<1>0. IsBoard(board)
  BY DEF IInv
<1>1. ASSUME NEW f, do_tftpb(f) PROVE IInv'
  <2> DEFINE b == [board EXCEPT !.proto = "TFTP", !.file = f, !.loaded = Nobody]
  <2>1. NetLoop(b)
    BY <1>1 DEF do_tftpb
  <2>2. /\ IsBoard(b) /\ b.t = board.t /\ b.out = board.out /\ b.queue = board.queue
        /\ b.handler = board.handler /\ b.timer = board.timer /\ b.proto = "TFTP"
    BY <1>0 DEF IsBoard
  <2> HIDE DEF b
  <2> QED BY <2>1, <2>2, NetLoopStep
<1>2. ASSUME NEW a, do_ping(a) PROVE IInv'
  <2> DEFINE b == [board EXCEPT !.proto = "PING", !.host = a]
  <2>1. NetLoop(b) /\ mode = "cli"
    BY <1>2 DEF do_ping
  <2>2. /\ IsBoard(b) /\ b.t = board.t /\ b.out = board.out /\ b.queue = board.queue
        /\ b.handler = board.handler /\ b.timer = board.timer /\ b.proto = "PING"
    BY <1>0 DEF IsBoard
  <2> HIDE DEF b
  <2> QED BY <2>1, <2>2, NetLoopStep
<1>3. CASE launch_recovery
  <2> DEFINE b == [board EXCEPT !.proto = "TFTPD"]
  <2>1. NetLoop(b)
    BY <1>3 DEF launch_recovery
  <2>2. /\ IsBoard(b) /\ b.t = board.t /\ b.out = board.out /\ b.queue = board.queue
        /\ b.handler = board.handler /\ b.timer = board.timer /\ b.proto = "TFTPD"
    BY <1>0 DEF IsBoard
  <2> HIDE DEF b
  <2> QED BY <2>1, <2>2, NetLoopStep
<1>4. ASSUME NEW p \in OnTheWire, NEW works \in BOOLEAN, eth_rx(p, works) PROVE IInv'
  <2> DEFINE c == NetReceive(board, p, works)
  <2>1. /\ board.proto \in {"TFTP", "TFTPD", "PING"} /\ netretry' = netretry /\ mode' = mode
        /\ Step(c) /\ starts' = starts
    BY <1>4 DEF eth_rx, IInv
  <2>2. starts \in Nat /\ BoardOk(board, starts) /\ (board.ret = "alive" => Asked(board.host))
    BY <2>1 DEF IInv, BoardOk, PingIsTrue, WasAsked, Asked
  <2>3. BoardOk(c, starts) /\ SameCall(board, c)
    BY <2>2, NetReceiveOk
  <2> HIDE DEF c
  <2> QED
    BY <2>1, <2>2, <2>3, GoesOn DEF SameCall
<1>5. CASE LoopPasses
  BY <1>5, PassStep DEF LoopPasses
<1>6. CASE CtrlC
  <2> DEFINE h == eth_halt(board)
  <2>1. Step(Failed(h)) /\ starts' = starts /\ netretry' = netretry
    BY <1>6 DEF CtrlC
  <2>2. /\ IsBoard(h) /\ SameCall(board, h) /\ h.handler = board.handler
        /\ h.timer = board.timer /\ h.t = board.t /\ Acks(h) = Acks(board) /\ ~h.up
    BY <1>0, HaltFacts
  <2> HIDE DEF h
  <2>3. SessionOk(h, starts)
    BY <2>2 DEF IInv, SessionOk, AllAcks
  <2>4. AtPrompt(Failed(h), starts)
    BY <2>2, <2>3, FailedOk
  <2> QED
    BY <2>1, <2>4, Returns DEF IInv
<1>7. CASE UNCHANGED vars
  BY <1>7 DEF vars, IInv, SessionOk, AllAcks, Acks, Sent, LoopOk, MayGoOn, WasAsked, Asked, QuietAtPrompt, PingIsTrue
<1> QED
  BY <1>1, <1>2, <1>3, <1>4, <1>5, <1>6, <1>7 DEF Next, Receives

LEMMA InvInit == Init => IInv
<1> SUFFICES ASSUME Init PROVE IInv
  OBVIOUS
<1> DEFINE mem == [i \in Slots |-> Empty]
<1>1. board = Fresh(mem, Nobody) /\ sent = {} /\ starts = 0
  BY DEF Init
<1> HIDE DEF mem
<1>2. /\ IsBoard(board) /\ board.proto = "none" /\ board.ret = "none" /\ ~board.up
      /\ board.handler = "null" /\ board.timer = "none" /\ board.t.started = FALSE
      /\ board.out = {} /\ board.queue = {} /\ board.arp.ip = Nobody
  BY <1>1 DEF Fresh, NoArpWait, IsBoard
<1>3. AllAcks(board) = {}
  BY <1>1, <1>2 DEF AllAcks, Acks, Sent
<1> QED
  BY <1>1, <1>2, <1>3 DEF IInv, SessionOk, QuietAtPrompt, PingIsTrue

LEMMA InvIsInvariant == Spec => []IInv
  BY InvInit, InvStep, PTL DEF Spec

-----------------------------------------------------------------------------
(***************************************************************************)
(* Whatever the commands, the frames and the timers: at the prompt the     *)
(* device is halted (eth_halt in NetLoop, NetStartAgain and PingTimeout),  *)
(* unless netretry is "once".                                              *)
(***************************************************************************)
THEOREM DeviceIsQuiet == Spec => []QuietAtPrompt
<1>1. IInv => QuietAtPrompt
  BY DEF IInv
<1> QED
  BY InvIsInvariant, <1>1, PTL

(***************************************************************************)
(* A host ping calls alive was asked (PingStart and PingHandler), unless a *)
(* packet of a transfer before spells its address where PingHandler looks: *)
(* whatever else is on its way from transfers and pings before.            *)
(***************************************************************************)
THEOREM AliveWasAsked == Spec => []PingIsTrue
<1>1. IInv => PingIsTrue
  BY DEF IInv
<1> QED
  BY InvIsInvariant, <1>1, PTL

(***************************************************************************)
(* A transfer acknowledges the blocks of one session only (the checks of   *)
(* the two ports in TftpHandler), through restarts, ARP waits and any      *)
(* number of sessions and transfers.                                       *)
(***************************************************************************)
THEOREM SessionIsOne == Spec => []OneSession
<1>1. IInv => OneSession
  BY DEF IInv, OneSession, SessionOk, AllAcks
<1> QED
  BY InvIsInvariant, <1>1, PTL
==============================================================================
