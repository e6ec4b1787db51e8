-------------------------- MODULE NetBootLoadProofs --------------------------
(***************************************************************************)
(* What a transfer leaves in memory, what the rescue mode leaves in flash, *)
(* and the types: theorems about NetBoot for any files, stations, sessions *)
(* and number of transfers.                                                *)
(*                                                                         *)
(* The lemmas follow the calls of a handler, as in NetBootProofs.  CallOk  *)
(* holds at every point inside a call; ContentOk, which speaks of memory,  *)
(* not between the number of a block and its store.                        *)
(***************************************************************************)
EXTENDS NetBootProofs

-----------------------------------------------------------------------------
(***************************************************************************)
(* What holds of the board.                                                *)
(***************************************************************************)
\* What has been sent, and what waits in the ring or for ARP.
Wire(b) == b.out \cup sent
Held(b) == b.queue \cup {m \in {b.arp.pkt} : b.arp.ip # Nobody}

Requests(b) == {m \in Wire(b) \cup Held(b) : m.kind = "rrq"}
IsRequest(b, m) == m.kind = "rrq" /\ m.oport = b.t.oport

KernelChecked(b) ==
  b.kernel # Nobody /\ ~b.kernel.known =>
    \E f \in Kernels :
      \A i \in DOMAIN b.kernel.data : i < Size[f] => b.kernel.data[i] = <<f, i + 1>>

ModeOk(b) ==
  /\ b.proto = "TFTP" => mode = "cli" /\ b.file \in Files /\ b.t.started
  /\ b.proto = "TFTPD" => mode # "cli"
  /\ b.t.started => mode = "cli"
  /\ b.proto = "PING" => b.xfer = 0

LoadedOk(b) ==
  b.loaded # Nobody =>
    /\ mode = "cli" /\ b.proto # "TFTP"
    /\ netretry # "once" /\ ~Wraps(b.loaded) =>
         InMemory(b.mem, b.loaded) /\ b.filesize = Length(b.loaded)

\* The requests of a port are for the file of its transfer.
RequestsOk(b, n) ==
  \A m \in Wire(b) \cup Held(b) : m.kind = "rrq" =>
    m.oport \in 1..n /\ (m.oport = b.t.oport => m.file = b.file)

\* Nothing of a transfer is sent before its server's address is known, nor waits after.
ArpOk(b) ==
  b.proto = "TFTP" =>
    /\ b.sip = Server
    /\ b.arp.ip # Nobody => ~b.ether /\ b.arp.owner = "server"
    /\ b.t.state # "rrq" \/ (\E m \in Wire(b) : IsRequest(b, m)) => b.ether

\* A transfer runs, on a device that is started, or pauses after NetStartAgain.
RunOk(b) ==
  b.proto = "TFTP" =>
    /\ netretry # "no" => b.up /\ b.queue = {}
    /\ \/ b.handler = "tftp" /\ b.timer \in {"tftp", "again", "none"}
       \/ b.handler = "ignore" /\ b.timer \in {"again", "none"}

CallOk(b, n) ==
  /\ IsBoard(b) /\ "len" \in DOMAIN b.d /\ DOMAIN b.mem = Slots /\ KernelChecked(b)
  /\ ModeOk(b) /\ LoadedOk(b) /\ RequestsOk(b, n) /\ ArpOk(b) /\ RunOk(b)

\* The transfers LoadIsExact and AckedIsStored speak of.
Watched(b) == b.proto = "TFTP" /\ netretry # "once" /\ ~Wraps(b.file)

Stored(b, k) == b.mem[k - 1] = <<b.file, k>>

\* NetStartAgain was called: nothing more of this transfer will be sent.
Stuck(b) == (netretry = "no" /\ ~b.up) \/ b.handler = "ignore"

AckedOk(b) ==
  \A m \in Wire(b) :
    m.kind = "ack" /\ m.oport = b.t.oport /\ m.n \in 1 .. Size[b.file] => Stored(b, m.n)

LastOk(b) ==
  /\ b.t.state \notin {"rrq", "oack"} => b.t.wrap = 0 /\ (b.t.last = 0 \/ Stored(b, b.t.last))
  /\ b.xfer \in 0 .. Length(b.file)
  /\ b.state = "success" => b.xfer = Length(b.file) /\ \A k \in 1 .. Size[b.file] : Stored(b, k)

BlockOk(b) == b.t.block = 0 \/ Stored(b, b.t.block) \/ Stuck(b)

ContentOk(b) == Watched(b) => AckedOk(b) /\ LastOk(b) /\ BlockOk(b)

LoadOk(b, n) == CallOk(b, n) /\ ContentOk(b)

-----------------------------------------------------------------------------
(***************************************************************************)
(* What the functions of net.c leave alone.                                *)
(***************************************************************************)
SameStore(b, c) ==
  /\ c.file = b.file /\ c.loaded = b.loaded /\ c.filesize = b.filesize
  /\ c.xfer = b.xfer /\ c.mem = b.mem /\ c.kernel = b.kernel /\ c.d = b.d

SameAddress(b, c) == c.sip = b.sip /\ c.ether = b.ether

\* c is b after it was given frames of the set ms to send.
Sends(b, c, ms) ==
  /\ IsBoard(c) /\ SameLoop(b, c) /\ SameStore(b, c) /\ SameAddress(b, c)
  /\ c.timer = b.timer /\ c.t = b.t
  /\ c.out \subseteq b.out \cup ms /\ c.queue \subseteq b.queue \cup ms
  /\ b.up => c.queue = b.queue
  /\ ~b.up => c.out = b.out

LEMMA EthSends ==
  ASSUME NEW b, IsBoard(b), NEW pkt
  PROVE  Sends(b, eth_send(b, pkt), {pkt}) /\ eth_send(b, pkt).arp = b.arp
<1>1. CASE b.up
  <2> DEFINE c == [b EXCEPT !.out = @ \cup Frames(pkt)]
  <2>1. eth_send(b, pkt) = c
    BY <1>1 DEF eth_send, Frames
  <2>2. /\ IsBoard(c) /\ SameLoop(b, c) /\ SameStore(b, c) /\ SameAddress(b, c)
        /\ c.timer = b.timer /\ c.t = b.t /\ c.arp = b.arp
        /\ c.out = b.out \cup Frames(pkt) /\ c.queue = b.queue
    BY DEF IsBoard, SameLoop, SameCall, SameStore, SameAddress
  <2> HIDE DEF c
  <2> QED BY <1>1, <2>1, <2>2 DEF Sends, Frames
<1>2. CASE ~b.up
  <2> DEFINE c == [b EXCEPT !.queue = @ \cup Frames(pkt)]
  <2>1. eth_send(b, pkt) = c
    BY <1>2 DEF eth_send, Frames
  <2>2. /\ IsBoard(c) /\ SameLoop(b, c) /\ SameStore(b, c) /\ SameAddress(b, c)
        /\ c.timer = b.timer /\ c.t = b.t /\ c.arp = b.arp
        /\ c.out = b.out /\ c.queue = b.queue \cup Frames(pkt)
    BY DEF IsBoard, SameLoop, SameCall, SameStore, SameAddress
  <2> HIDE DEF c
  <2> QED BY <1>2, <2>1, <2>2 DEF Sends, Frames
<1> QED
  BY <1>1, <1>2

ArpReq(ip) == [kind |-> "arpreq", ip |-> ip]

LEMMA WaitSends ==
  ASSUME NEW b, IsBoard(b), NEW ip, NEW owner, NEW pkt
  PROVE  LET c == WaitForArp(b, ip, owner, pkt)
         IN  Sends(b, c, {ArpReq(ip)}) /\ c.arp.ip = ip /\ c.arp.owner = owner /\ c.arp.pkt = pkt
<1> DEFINE c1 == [b EXCEPT !.arp = [ip |-> ip, owner |-> owner, try |-> 1, pkt |-> pkt]]
           c == eth_send(c1, ArpReq(ip))
<1>1. WaitForArp(b, ip, owner, pkt) = c
  BY DEF WaitForArp, ArpRequest, IsBoard, ArpReq
<1>2. /\ IsBoard(c1) /\ SameLoop(b, c1) /\ SameStore(b, c1) /\ SameAddress(b, c1)
      /\ c1.timer = b.timer /\ c1.t = b.t /\ c1.out = b.out /\ c1.queue = b.queue
      /\ c1.arp.pkt = pkt /\ c1.arp.ip = ip /\ c1.arp.owner = owner
  BY DEF IsBoard, SameLoop, SameCall, SameStore, SameAddress
<1> HIDE DEF c1
<1>3. Sends(c1, c, {ArpReq(ip)}) /\ c.arp = c1.arp
  BY <1>2, EthSends
<1> HIDE DEF c
<1> QED
  BY <1>1, <1>2, <1>3 DEF Sends, SameLoop, SameCall, SameStore, SameAddress

\* The packet goes out, or the ARP request while it waits.
SendsTo(b, c, dest, pkt) ==
  \/ (dest = Nobody \/ b.ether) /\ Sends(b, c, {pkt}) /\ c.arp = b.arp
  \/ /\ dest # Nobody /\ ~b.ether /\ Sends(b, c, {ArpReq(dest)})
     /\ c.arp.ip = dest /\ c.arp.owner = "server" /\ c.arp.pkt = pkt

LEMMA UdpSends ==
  ASSUME NEW b, IsBoard(b), NEW dest, NEW pkt
  PROVE  SendsTo(b, NetSendUDPPacket(b, dest, pkt), dest, pkt)
<1>1. CASE dest = Nobody \/ b.ether
  BY <1>1, EthSends DEF NetSendUDPPacket, SendsTo
<1>2. CASE ~(dest = Nobody \/ b.ether)
  BY <1>2, WaitSends DEF NetSendUDPPacket, SendsTo
<1> QED
  BY <1>1, <1>2

\* A board that asks for nothing more is as good.
LEMMA StillCall ==
  ASSUME NEW b, NEW c, NEW n, CallOk(b, n), IsBoard(c), SameStore(b, c), c.proto = b.proto,
         c.t.started = b.t.started, c.t.oport = b.t.oport, ArpOk(c), RunOk(c),
         Requests(c) \subseteq Requests(b)
  PROVE  CallOk(c, n)
<1>1. KernelChecked(c) /\ ModeOk(c) /\ LoadedOk(c)
  BY DEF CallOk, KernelChecked, ModeOk, LoadedOk, SameStore
<1>2. RequestsOk(c, n)
  BY DEF CallOk, RequestsOk, Requests, SameStore
<1> QED
  BY <1>1, <1>2 DEF CallOk, SameStore

\* So is one that has only sent frames that are no requests.
LEMMA KeepsCall ==
  ASSUME NEW b, NEW c, NEW n, CallOk(b, n), IsBoard(c), SameLoop(b, c), SameStore(b, c), c.t = b.t,
         Requests(c) \subseteq Requests(b),
         b.proto = "TFTP" => /\ SameAddress(b, c) /\ c.arp.ip = b.arp.ip /\ c.arp.owner = b.arp.owner
                             /\ b.up /\ b.queue = {} => c.queue = {}
                             /\ c.timer \in {b.timer, "none"},
         \A m \in Wire(c) : m.kind = "rrq" => m \in Wire(b)
  PROVE  CallOk(c, n)
<1>1. ArpOk(c)
  BY DEF CallOk, ArpOk, IsRequest, SameLoop, SameCall, SameAddress
<1>2. RunOk(c)
  BY DEF CallOk, RunOk, SameLoop, SameCall
<1> QED
  BY <1>1, <1>2, StillCall DEF SameLoop, SameCall

LEMMA KeepsContent ==
  ASSUME NEW b, NEW c, ContentOk(b), SameLoop(b, c), SameStore(b, c), c.t = b.t,
         \A m \in Wire(c) : m.kind = "ack" => m \in Wire(b)
  PROVE  ContentOk(c)
<1> SUFFICES ASSUME Watched(c) PROVE AckedOk(c) /\ LastOk(c) /\ BlockOk(c)
  BY DEF ContentOk
<1>1. AckedOk(b) /\ LastOk(b) /\ BlockOk(b)
  BY DEF ContentOk, Watched, SameLoop, SameCall, SameStore
<1>2. AckedOk(c)
  BY <1>1 DEF AckedOk, Stored, SameStore
<1>3. LastOk(c) /\ BlockOk(c)
  BY <1>1 DEF LastOk, BlockOk, Stuck, Stored, SameStore, SameLoop
<1> QED BY <1>2, <1>3

\* The frames are neither a request nor an acknowledgement of the client.
LEMMA OtherSends ==
  ASSUME NEW b, NEW c, NEW n, NEW ms, CallOk(b, n), ContentOk(b), Sends(b, c, ms), c.arp = b.arp,
         \A m \in ms : m.kind \notin {"rrq", "ack"}
  PROVE  CallOk(c, n) /\ ContentOk(c)
<1>1. /\ IsBoard(c) /\ SameLoop(b, c) /\ SameStore(b, c) /\ SameAddress(b, c)
      /\ c.timer = b.timer /\ c.t = b.t
      /\ c.out \subseteq b.out \cup ms /\ c.queue \subseteq b.queue \cup ms
      /\ b.up => c.queue = b.queue
  BY DEF Sends
<1>2. \A m \in Wire(c) : m.kind \in {"rrq", "ack"} => m \in Wire(b)
  BY <1>1 DEF Wire
<1>3. Requests(c) \subseteq Requests(b)
  BY <1>1, <1>2 DEF Requests, Held
<1> QED
  BY <1>1, <1>2, <1>3, KeepsCall, KeepsContent

-----------------------------------------------------------------------------
(***************************************************************************)
(* NetStartAgain and the ARP timer.                                        *)
(***************************************************************************)
LEMMA AgainSends ==
  ASSUME NEW b, IsBoard(b), NEW nr
  PROVE  LET c == NetStartAgain(b, nr)
         IN  /\ IsBoard(c) /\ SameCall(b, c) /\ SameStore(b, c) /\ SameAddress(b, c)
             /\ c.t = b.t /\ c.arp = b.arp
             /\ c.out \cup c.queue = b.out \cup b.queue
             /\ nr = "no" => /\ ~c.up /\ c.state = "fail" /\ c.out = b.out
                             /\ c.handler = b.handler /\ c.timer = b.timer
             /\ nr # "no" => c.up /\ c.queue = {}
             /\ nr = "once" => c.state = "fail" /\ c.handler = b.handler /\ c.timer = b.timer
             /\ nr \notin {"no", "once"} =>
                  c.state = b.state /\ c.handler = "ignore" /\ c.timer = "again"
<1> DEFINE h == [b EXCEPT !.up = FALSE]
           i == [h EXCEPT !.up = TRUE, !.out = @ \cup h.queue, !.queue = {}]
<1>1. /\ IsBoard(h) /\ SameCall(b, h) /\ SameStore(b, h) /\ SameAddress(b, h)
      /\ h.t = b.t /\ h.arp = b.arp /\ h.out = b.out /\ h.queue = b.queue
      /\ h.state = b.state /\ h.handler = b.handler /\ h.timer = b.timer /\ h.up = FALSE
  BY DEF IsBoard, SameCall, SameStore, SameAddress
<1>2. eth_halt(b) = h /\ eth_init(h) = i
  BY DEF eth_halt, eth_init
<1> HIDE DEF h
<1>3. /\ IsBoard(i) /\ SameCall(h, i) /\ SameStore(h, i) /\ SameAddress(h, i)
      /\ i.t = h.t /\ i.arp = h.arp /\ i.out = h.out \cup h.queue /\ i.queue = {}
      /\ i.state = h.state /\ i.handler = h.handler /\ i.timer = h.timer /\ i.up = TRUE
  BY <1>1 DEF IsBoard, SameCall, SameStore, SameAddress
<1> HIDE DEF i
<1>4. CASE nr = "no"
  <2>1. NetStartAgain(b, nr) = [h EXCEPT !.state = "fail"]
    BY <1>2, <1>4 DEF NetStartAgain
  <2> QED BY <1>1, <1>4, <2>1 DEF IsBoard, SameCall, SameStore, SameAddress
<1>5. CASE nr = "once"
  <2>1. NetStartAgain(b, nr) = [i EXCEPT !.state = "fail"]
    BY <1>2, <1>5 DEF NetStartAgain
  <2> QED BY <1>1, <1>3, <1>5, <2>1 DEF IsBoard, SameCall, SameStore, SameAddress
<1>6. CASE nr # "no" /\ nr # "once"
  <2> DEFINE c1 == [i EXCEPT !.timer = "again"]
             c == [c1 EXCEPT !.handler = "ignore"]
  <2>1. NetStartAgain(b, nr) = c
    BY <1>2, <1>6 DEF NetStartAgain, NetSetHandler, NetSetTimeout
  <2>2. /\ IsBoard(c) /\ SameCall(i, c) /\ SameStore(i, c) /\ SameAddress(i, c)
        /\ c.t = i.t /\ c.arp = i.arp /\ c.out = i.out /\ c.queue = i.queue /\ c.up = i.up
        /\ c.state = i.state /\ c.handler = "ignore" /\ c.timer = "again"
    BY <1>3 DEF IsBoard, SameCall, SameStore, SameAddress
  <2> HIDE DEF c
  <2> QED BY <1>1, <1>3, <1>6, <2>1, <2>2 DEF SameCall, SameStore, SameAddress
<1> QED
  BY <1>4, <1>5, <1>6

\* The block need not be stored: nothing of this transfer goes out any more.
LEMMA AgainLoad ==
  ASSUME NEW b, NEW n, CallOk(b, n), Watched(b) => AckedOk(b) /\ LastOk(b)
  PROVE  LoadOk(NetStartAgain(b, netretry), n)
<1> DEFINE c == NetStartAgain(b, netretry)
<1>1. /\ IsBoard(c) /\ SameCall(b, c) /\ SameStore(b, c) /\ SameAddress(b, c)
      /\ c.t = b.t /\ c.arp = b.arp
      /\ c.out \cup c.queue = b.out \cup b.queue
      /\ netretry = "no" => /\ ~c.up /\ c.state = "fail" /\ c.out = b.out
                            /\ c.handler = b.handler /\ c.timer = b.timer
      /\ netretry # "no" => c.up /\ c.queue = {}
      /\ netretry = "once" => c.state = "fail" /\ c.handler = b.handler /\ c.timer = b.timer
      /\ netretry \notin {"no", "once"} => c.state = b.state /\ c.handler = "ignore" /\ c.timer = "again"
  BY AgainSends DEF CallOk
<1> HIDE DEF c
<1>2. b.proto = "TFTP" => Wire(c) = Wire(b)
  BY <1>1 DEF CallOk, RunOk, Wire
<1>3. Requests(c) \subseteq Requests(b)
  BY <1>1 DEF Requests, Wire, Held
<1>4. ArpOk(c)
  BY <1>1, <1>2 DEF CallOk, ArpOk, IsRequest, SameCall, SameAddress, SameStore
<1>5. RunOk(c)
  BY <1>1 DEF CallOk, RunOk, SameCall
<1>6. CallOk(c, n)
  BY <1>1, <1>3, <1>4, <1>5, StillCall DEF SameCall
<1>7. ASSUME Watched(c) PROVE AckedOk(c) /\ LastOk(c) /\ BlockOk(c)
  <2>1. Watched(b) /\ AckedOk(b) /\ LastOk(b) /\ Wire(c) = Wire(b)
    BY <1>1, <1>2, <1>7 DEF Watched, SameCall, SameStore
  <2>2. AckedOk(c)
    BY <1>1, <2>1 DEF AckedOk, Stored, SameStore
  <2>3. LastOk(c)
    BY <1>1, <2>1 DEF LastOk, Stored, SameStore
  <2>4. BlockOk(c)
    BY <1>1, <1>7 DEF BlockOk, Stuck, Watched
  <2> QED BY <2>2, <2>3, <2>4
<1> QED
  BY <1>6, <1>7 DEF LoadOk, ContentOk, c

LEMMA ArpTimeoutLoad ==
  ASSUME NEW b, NEW n, LoadOk(b, n)
  PROVE  LoadOk(ArpTimeout(b, netretry), n)
<1>0. IsBoard(b) /\ CallOk(b, n) /\ ContentOk(b)
  BY DEF LoadOk, CallOk
<1>1. ASSUME NEW try
      PROVE  LET c == [b EXCEPT !.arp.try = try]
             IN  IsBoard(c) /\ LoadOk(c, n)
  <2> DEFINE c == [b EXCEPT !.arp.try = try]
  <2>1. /\ IsBoard(c) /\ SameLoop(b, c) /\ SameStore(b, c) /\ SameAddress(b, c) /\ c.t = b.t
        /\ c.timer = b.timer /\ c.out = b.out /\ c.queue = b.queue
        /\ c.arp.ip = b.arp.ip /\ c.arp.owner = b.arp.owner /\ c.arp.pkt = b.arp.pkt
    BY <1>0 DEF IsBoard, SameLoop, SameCall, SameStore, SameAddress
  <2> HIDE DEF c
  <2>2. Wire(c) = Wire(b) /\ Requests(c) \subseteq Requests(b)
    BY <2>1 DEF Requests, Wire, Held
  <2>3. CallOk(c, n)
    BY <1>0, <2>1, <2>2, KeepsCall
  <2>4. ContentOk(c)
    BY <1>0, <2>1, <2>2, KeepsContent
  <2> QED BY <2>1, <2>3, <2>4 DEF LoadOk, c
<1>2. CASE b.arp.try + 1 >= ArpTries
  <2> DEFINE c == [b EXCEPT !.arp.try = 0]
  <2>1. ArpTimeout(b, netretry) = NetStartAgain(c, netretry)
    BY <1>2 DEF ArpTimeout
  <2>2. LoadOk(c, n)
    BY <1>1
  <2> HIDE DEF c
  <2> QED
    BY <2>1, <2>2, AgainLoad DEF LoadOk, ContentOk
<1>3. CASE ~(b.arp.try + 1 >= ArpTries)
  <2> DEFINE c1 == [b EXCEPT !.arp.try = b.arp.try + 1]
             pkt == ArpReq(c1.arp.ip)
             c == eth_send(c1, pkt)
  <2>1. ArpTimeout(b, netretry) = c
    BY <1>3 DEF ArpTimeout, ArpRequest, ArpReq
  <2>2. IsBoard(c1) /\ LoadOk(c1, n)
    BY <1>1
  <2>3. pkt.kind \notin {"rrq", "ack"}
    BY DEF ArpReq
  <2> HIDE DEF c1, pkt
  <2>4. Sends(c1, c, {pkt}) /\ c.arp = c1.arp
    BY <2>2, EthSends
  <2> HIDE DEF c
  <2>5. CallOk(c, n) /\ ContentOk(c)
    BY <2>2, <2>3, <2>4, OtherSends DEF LoadOk
  <2> QED
    BY <2>1, <2>5 DEF LoadOk
<1> QED
  BY <1>2, <1>3

-----------------------------------------------------------------------------
(***************************************************************************)
(* TftpSend and the answer to an ARP request.                              *)
(***************************************************************************)
\* Only what the client acknowledges or asks for itself is added.
LEMMA TftpSendCall ==
  ASSUME NEW b, NEW n, CallOk(b, n), b.t.oport \in 1..n
  PROVE  LET c == TftpSend(b)
         IN  /\ CallOk(c, n) /\ SameLoop(b, c) /\ SameStore(b, c) /\ c.t = b.t /\ c.timer = b.timer
             /\ \A m \in Wire(c) : m.kind = "ack" =>
                  m \in Wire(b) \/ (m = AckOf(b.t) /\ b.t.state # "rrq" /\ b.up)
<1> DEFINE pkt == IF b.t.state = "rrq" THEN [kind |-> "rrq", oport |-> b.t.oport, file |-> b.file]
                  ELSE AckOf(b.t)
           c == TftpSend(b)
<1>0. IsBoard(b)
  BY DEF CallOk
<1>1. c = NetSendUDPPacket(b, b.sip, pkt)
  BY DEF TftpSend, AckOf
<1>2. /\ pkt.kind = "ack" => pkt = AckOf(b.t) /\ b.t.state # "rrq"
      /\ pkt.kind = "rrq" => pkt.oport = b.t.oport /\ pkt.file = b.file
      /\ b.t.state = "rrq" => pkt.kind = "rrq"
  BY DEF AckOf
<1> HIDE DEF pkt
<1>3. \/ (b.sip = Nobody \/ b.ether) /\ Sends(b, c, {pkt}) /\ c.arp = b.arp
      \/ /\ b.sip # Nobody /\ ~b.ether /\ Sends(b, c, {ArpReq(b.sip)})
         /\ c.arp.ip = b.sip /\ c.arp.owner = "server" /\ c.arp.pkt = pkt
  <2>1. SendsTo(b, c, b.sip, pkt)
    BY <1>0, <1>1, UdpSends
  <2> QED BY <2>1 DEF SendsTo
<1> HIDE DEF c
<1>4. /\ IsBoard(c) /\ SameLoop(b, c) /\ SameStore(b, c) /\ SameAddress(b, c)
      /\ c.timer = b.timer /\ c.t = b.t /\ (b.up => c.queue = b.queue)
  BY <1>3 DEF Sends
<1>5. ArpReq(b.sip).kind = "arpreq"
  BY DEF ArpReq
<1>6. \A m \in Wire(c) : m.kind \in {"rrq", "ack"} => m \in Wire(b) \/ (m = pkt /\ b.up)
  BY <1>3, <1>5 DEF Sends, Wire
<1>7. Requests(c) \subseteq Requests(b) \cup {m \in {pkt} : m.kind = "rrq"}
  BY <1>3, <1>5 DEF Sends, Wire, Held, Requests
<1>8. RequestsOk(c, n)
  BY <1>2, <1>4, <1>7 DEF CallOk, RequestsOk, Requests, SameStore
<1>9. ArpOk(c)
  <2> SUFFICES ASSUME b.proto = "TFTP" PROVE ArpOk(c)
    BY <1>4 DEF ArpOk, SameLoop, SameCall
  <2>1. b.sip = Server /\ b.sip # Nobody
    BY ServerAssumption DEF CallOk, ArpOk
  <2>2. CASE b.ether
    BY <1>3, <1>4, <2>1, <2>2 DEF CallOk, ArpOk, SameAddress
  <2>3. CASE ~b.ether
    <3>1. \A m \in Wire(c) : m.kind = "rrq" => m \in Wire(b)
      BY <1>3, <1>5, <2>1, <2>3 DEF Sends, Wire
    <3>2. b.t.state = "rrq" /\ ~\E m \in Wire(b) : IsRequest(b, m)
      BY <2>3 DEF CallOk, ArpOk
    <3> QED
      BY <1>3, <1>4, <2>1, <2>3, <3>1, <3>2 DEF ArpOk, IsRequest, SameAddress
  <2> QED BY <2>2, <2>3
<1>10. RunOk(c)
  BY <1>4 DEF CallOk, RunOk, SameLoop, SameCall
<1>11. KernelChecked(c) /\ ModeOk(c) /\ LoadedOk(c) /\ DOMAIN c.mem = Slots /\ "len" \in DOMAIN c.d
  BY <1>4 DEF CallOk, KernelChecked, ModeOk, LoadedOk, SameStore, SameLoop, SameCall
<1>12. CallOk(c, n)
  BY <1>4, <1>8, <1>9, <1>10, <1>11 DEF CallOk
<1> QED
  BY <1>2, <1>4, <1>6, <1>12 DEF c

\* The acknowledgement it sends is for block 0 or for one that is stored.
LEMMA TftpSendLoad ==
  ASSUME NEW b, NEW n, LoadOk(b, n), b.t.oport \in 1..n,
         Watched(b) => b.t.state = "rrq" \/ b.t.block = 0 \/ Stored(b, b.t.block) \/ ~b.up
  PROVE  LET c == TftpSend(b)
         IN  LoadOk(c, n) /\ SameLoop(b, c) /\ SameStore(b, c) /\ c.t = b.t /\ c.timer = b.timer
<1> DEFINE c == TftpSend(b)
<1>1. /\ CallOk(c, n) /\ SameLoop(b, c) /\ SameStore(b, c) /\ c.t = b.t /\ c.timer = b.timer
      /\ \A m \in Wire(c) : m.kind = "ack" =>
           m \in Wire(b) \/ (m = AckOf(b.t) /\ b.t.state # "rrq" /\ b.up)
  BY TftpSendCall DEF LoadOk
<1> HIDE DEF c
<1>2. ASSUME Watched(c) PROVE AckedOk(c) /\ LastOk(c) /\ BlockOk(c)
  <2>1. Watched(b) /\ AckedOk(b) /\ LastOk(b) /\ BlockOk(b)
    BY <1>1, <1>2 DEF LoadOk, ContentOk, Watched, SameLoop, SameCall, SameStore
  <2>2. ASSUME NEW m \in Wire(c), m.kind = "ack", m.oport = c.t.oport, m.n \in 1 .. Size[c.file]
        PROVE  Stored(c, m.n)
    <3>1. CASE m \in Wire(b)
      BY <1>1, <2>1, <2>2, <3>1 DEF AckedOk, Stored, SameStore
    <3>2. CASE m = AckOf(b.t) /\ b.t.state # "rrq" /\ b.up
      <4>1. m.n = b.t.block
        BY <3>2 DEF AckOf
      <4>2. m.n # 0
        BY <2>2
      <4> QED
        BY <1>1, <2>1, <3>2, <4>1, <4>2 DEF Stored, SameStore
    <3> QED BY <1>1, <2>2, <3>1, <3>2
  <2>3. AckedOk(c)
    BY <2>2 DEF AckedOk
  <2>4. LastOk(c) /\ BlockOk(c)
    BY <1>1, <2>1 DEF LastOk, BlockOk, Stuck, Stored, SameStore, SameLoop
  <2> QED BY <2>3, <2>4
<1> QED
  BY <1>1, <1>2 DEF LoadOk, ContentOk, c

LEMMA ArpReplyLoad ==
  ASSUME NEW b, NEW n, NEW p, BoardOk(b, n), LoadOk(b, n)
  PROVE  LoadOk(ArpReply(b, p), n)
<1> DEFINE b1 == IF b.arp.owner = "server" THEN [b EXCEPT !.ether = TRUE] ELSE b
           b0 == eth_send(b1, b.arp.pkt)
           b2 == [b0 EXCEPT !.arp = NoArpWait]
<1>0. IsBoard(b) /\ CallOk(b, n) /\ ContentOk(b)
  BY DEF LoadOk, CallOk
<1>1. CASE b.arp.ip = Nobody \/ p.ip # b.arp.ip
  BY <1>1 DEF ArpReply
<1>2. CASE ~(b.arp.ip = Nobody \/ p.ip # b.arp.ip)
  <2>1. ArpReply(b, p) = IF b.t.started THEN TftpSend(b2) ELSE b2
    BY <1>2 DEF ArpReply
  <2>2. /\ IsBoard(b1) /\ SameLoop(b, b1) /\ SameStore(b, b1) /\ b1.timer = b.timer /\ b1.t = b.t
        /\ b1.out = b.out /\ b1.queue = b.queue /\ b1.sip = b.sip
        /\ b.arp.owner = "server" => b1.ether = TRUE
    BY <1>0 DEF IsBoard, SameLoop, SameCall, SameStore
  <2> HIDE DEF b1
  <2>3. Sends(b1, b0, {b.arp.pkt})
    BY <2>2, EthSends
  <2> HIDE DEF b0
  <2>4. /\ IsBoard(b2) /\ SameLoop(b0, b2) /\ SameStore(b0, b2) /\ SameAddress(b0, b2)
        /\ b2.timer = b0.timer /\ b2.t = b0.t /\ b2.out = b0.out /\ b2.queue = b0.queue
        /\ b2.arp.ip = Nobody
    BY <2>3 DEF Sends, NoArpWait, IsBoard, SameLoop, SameCall, SameStore, SameAddress
  <2> HIDE DEF b2
  <2>5. /\ SameLoop(b, b2) /\ SameStore(b, b2) /\ b2.timer = b.timer /\ b2.t = b.t /\ b2.sip = b.sip
        /\ b2.out \subseteq b.out \cup {b.arp.pkt} /\ b2.queue \subseteq b.queue \cup {b.arp.pkt}
        /\ b.up => b2.queue = b.queue
        /\ b.arp.owner = "server" => b2.ether = TRUE
    BY <2>2, <2>3, <2>4 DEF Sends, SameLoop, SameCall, SameStore, SameAddress
  <2>6. Requests(b2) \subseteq Requests(b)
    BY <1>2, <2>4, <2>5 DEF Requests, Wire, Held
  <2>7. b.proto = "TFTP" => b.t.started /\ b.arp.owner = "server" /\ ~b.ether /\ b.t.state = "rrq"
    BY <1>0, <1>2 DEF CallOk, ModeOk, ArpOk
  <2>8. ArpOk(b2) /\ RunOk(b2)
    BY <1>0, <2>4, <2>5, <2>7 DEF CallOk, ArpOk, RunOk, SameLoop, SameCall
  <2>9. CallOk(b2, n)
    BY <1>0, <2>4, <2>5, <2>6, <2>8, StillCall DEF SameLoop, SameCall
  <2>10. ContentOk(b2)
    <3> SUFFICES ASSUME b.proto = "TFTP" PROVE ContentOk(b2)
      BY <2>5 DEF ContentOk, Watched, SameLoop, SameCall
    <3>1. b.arp.pkt.kind = "ack" => b.arp.pkt.oport # b.t.oport
      BY <1>2, <2>7 DEF BoardOk, SessionOk, AllAcks, Acks
    <3>2. \A m \in Wire(b2) : m \in Wire(b) \/ m = b.arp.pkt
      BY <2>5 DEF Wire
    <3> SUFFICES ASSUME Watched(b2) PROVE AckedOk(b2) /\ LastOk(b2) /\ BlockOk(b2)
      BY DEF ContentOk
    <3>3. AckedOk(b) /\ LastOk(b) /\ BlockOk(b)
      BY <1>0, <2>5 DEF ContentOk, Watched, SameLoop, SameCall, SameStore
    <3>4. AckedOk(b2)
      BY <2>5, <3>1, <3>2, <3>3 DEF AckedOk, Stored, SameStore
    <3> QED
      BY <2>5, <3>3, <3>4 DEF LastOk, BlockOk, Stuck, Stored, SameStore, SameLoop
  <2>11. LoadOk(b2, n)
    BY <2>9, <2>10 DEF LoadOk
  <2>12. CASE b.t.started
    <3>1. b2.t.oport \in 1..n /\ (Watched(b2) => b2.t.state = "rrq")
      BY <2>5, <2>7, <2>12 DEF BoardOk, SessionOk, Watched, SameLoop, SameCall
    <3>2. LoadOk(TftpSend(b2), n)
      BY <2>11, <3>1, TftpSendLoad
    <3> QED
      BY <2>1, <2>12, <3>2
  <2> QED
    BY <2>1, <2>11, <2>12
<1> QED
  BY <1>1, <1>2

-----------------------------------------------------------------------------
(***************************************************************************)
(* The answers of the TFTP server.                                         *)
(***************************************************************************)
\* A datagram of the server answers a request for the port it goes to.
LEMMA Served ==
  ASSUME NEW p \in OnTheWire, mode = "cli", p.kind \in {"data", "oack", "error"}
  PROVE  \E m \in sent : \E s \in Sessions :
           m.kind = "rrq" /\ m.oport = p.dport /\ p \in SessionAnswers(m.oport, s, m.file)
<1>1. p \notin StationAnswers
  BY DEF StationAnswers
<1>2. p \in ServerAnswers
  BY <1>1 DEF OnTheWire
<1>3. PICK m \in Sent("rrq"), s \in Sessions : p \in SessionAnswers(m.oport, s, m.file)
  BY <1>2 DEF ServerAnswers
<1>4. p.dport = m.oport
  BY <1>3 DEF SessionAnswers, Data
<1> QED
  BY <1>3, <1>4 DEF Sent

\* So the address of the server is known by then.
LEMMA AnsweredFromServer ==
  ASSUME NEW b, NEW n, CallOk(b, n), b.proto = "TFTP", NEW p \in OnTheWire,
         p.kind \in {"data", "oack", "error"}, p.dport = b.t.oport
  PROVE  b.ether
<1>1. mode = "cli"
  BY DEF CallOk, ModeOk
<1>2. PICK m \in sent : m.kind = "rrq" /\ m.oport = p.dport
  BY <1>1, Served
<1>3. m \in Wire(b) /\ IsRequest(b, m)
  BY <1>2 DEF Wire, IsRequest
<1> QED
  BY <1>3 DEF CallOk, ArpOk

LEMMA SmallNumber ==
  ASSUME NEW k \in Nat, k < Seq
  PROVE  k % Seq = k
<1>1. Seq \in Nat /\ Seq > 0
  BY SeqAssumption
<1> QED
  BY <1>1

\* Block k of a session says what the blocks before it were acknowledged for.
AckSeen(oport, j) == \E m \in sent : m.kind = "ack" /\ m.oport = oport /\ m.n = j

IsBlock(p, oport, f, k) ==
  /\ k \in 1 .. Size[f]
  /\ p.n = k /\ p.load = <<f, k>> /\ p.len = BlockLength(f, k)
  /\ \A j \in 1 .. k - 1 : AckSeen(oport, j)

LEMMA BlockOfSession ==
  ASSUME NEW oport, NEW s, NEW f, NEW p, p \in SessionAnswers(oport, s, f), p.kind = "data",
         Size[f] \in Nat, Size[f] < Seq
  PROVE  \E k : IsBlock(p, oport, f, k)
<1>1. PICK k \in 1 .. Size[f] : MaySend(oport, s, k) /\ p = Data(oport, s, f, k)
  BY DEF SessionAnswers
<1>2. p.n = k % Seq /\ p.load = <<f, k>> /\ p.len = BlockLength(f, k)
  BY <1>1 DEF Data
<1>3. k \in Nat /\ k < Seq
  BY SeqAssumption
<1>4. p.n = k
  BY <1>2, <1>3, SmallNumber
<1>5. ASSUME NEW j \in 1 .. k - 1
      PROVE  AckSeen(oport, j)
  <2>1. Acked(oport, s, j)
    BY <1>1 DEF MaySend
  <2>2. j \in Nat /\ j < Seq
    BY <1>3, SeqAssumption
  <2>3. j % Seq = j
    BY <2>2, SmallNumber
  <2>4. [kind |-> "ack", oport |-> oport, sport |-> s, n |-> j] \in sent
    BY <2>1, <2>3 DEF Acked
  <2> QED
    BY <2>4 DEF AckSeen
<1> QED
  BY <1>2, <1>4, <1>5 DEF IsBlock

\* Block k of the file, with every block before it stored.
IsNext(b, p, k) ==
  /\ k \in 1 .. Size[b.file]
  /\ p.n = k /\ p.load = <<b.file, k>> /\ p.len = BlockLength(b.file, k)
  /\ \A j \in 1 .. k - 1 : Stored(b, j)

LEMMA FileSize ==
  ASSUME NEW b, NEW n, CallOk(b, n), Watched(b)
  PROVE  Size[b.file] \in Nat /\ Size[b.file] > 0 /\ Size[b.file] < Seq
<1>1. Size[b.file] \in Nat \ {0}
  BY FilesAssumption DEF CallOk, ModeOk, Watched
<1> QED
  BY <1>1, SeqAssumption DEF Watched, Wraps

LEMMA BlockServed ==
  ASSUME NEW b, NEW n, CallOk(b, n), ContentOk(b), Watched(b),
         NEW p \in OnTheWire, p.kind = "data", p.dport = b.t.oport
  PROVE  \E k : IsNext(b, p, k)
<1>1. mode = "cli" /\ b.file \in Files
  BY DEF CallOk, ModeOk, Watched
<1>2. PICK m \in sent, s \in Sessions :
        m.kind = "rrq" /\ m.oport = p.dport /\ p \in SessionAnswers(m.oport, s, m.file)
  BY <1>1, Served
<1>3. m.file = b.file
  BY <1>2 DEF CallOk, RequestsOk, Wire
<1>4. Size[b.file] \in Nat /\ Size[b.file] < Seq
  BY FileSize
<1>5. p \in SessionAnswers(b.t.oport, s, b.file)
  BY <1>2, <1>3
<1>6. PICK k : IsBlock(p, b.t.oport, b.file, k)
  BY <1>4, <1>5, BlockOfSession
<1>7. ASSUME NEW j \in 1 .. k - 1 PROVE Stored(b, j)
  <2>1. PICK a \in sent : a.kind = "ack" /\ a.oport = b.t.oport /\ a.n = j
    BY <1>6 DEF IsBlock, AckSeen
  <2>2. a \in Wire(b) /\ j \in 1 .. Size[b.file]
    BY <1>4, <1>6, <2>1 DEF Wire, IsBlock
  <2> QED
    BY <2>1, <2>2 DEF ContentOk, AckedOk
<1> QED
  BY <1>6, <1>7 DEF IsNext, IsBlock

-----------------------------------------------------------------------------
(***************************************************************************)
(* The packet handler and the timer of the TFTP client.                    *)
(***************************************************************************)
\* A block that is stored at its slot ends with everything before it stored.
LEMMA StoreLoad ==
  ASSUME NEW b, NEW c, NEW n, NEW p, CallOk(b, n), Watched(b), AckedOk(b), LastOk(b),
         NEW k, IsNext(b, p, k), b.t.state \notin {"rrq", "oack"},
         c.proto = b.proto, c.file = b.file, c.state = b.state, c.mem = [b.mem EXCEPT ![k - 1] = p.load],
         c.xfer = larger(b.xfer, Full * (k - 1) + p.len), Wire(c) = Wire(b),
         c.t.last = k, c.t.block = k, c.t.wrap = b.t.wrap, c.t.oport = b.t.oport, c.t.state = b.t.state
  PROVE  /\ AckedOk(c) /\ LastOk(c) /\ Stored(c, k)
         /\ p.len < Full => c.xfer = Length(c.file) /\ \A j \in 1 .. Size[c.file] : Stored(c, j)
<1>1. Size[b.file] \in Nat /\ Size[b.file] < Seq /\ k \in 1 .. Size[b.file]
  BY FileSize DEF IsNext
<1>2. k - 1 \in Slots
  BY <1>1, SeqAssumption, FilesAssumption DEF Slots
<1>3. Stored(c, k)
  BY <1>2 DEF CallOk, Stored, IsNext
<1>4. ASSUME NEW j \in 1 .. Size[b.file], Stored(b, j) PROVE Stored(c, j)
  <2>1. j - 1 \in Slots
    BY <1>1, SeqAssumption, FilesAssumption DEF Slots
  <2>2. CASE j = k
    BY <1>3, <2>2
  <2>3. CASE j # k
    <3>1. j - 1 # k - 1
      BY <1>1, <2>3
    <3> QED
      BY <1>4, <2>1, <3>1 DEF CallOk, Stored
  <2> QED BY <2>2, <2>3
<1>5. AckedOk(c)
  BY <1>4 DEF AckedOk
<1>6. /\ Full * (k - 1) + p.len \in 0 .. Length(b.file)
      /\ p.len < Full => k = Size[b.file] /\ Full * (k - 1) + p.len = Length(b.file)
  BY <1>1 DEF IsNext, BlockLength, Full, Short, Length
<1>7. Length(b.file) \in Nat /\ b.xfer \in 0 .. Length(b.file)
  BY <1>1 DEF LastOk, Length, Full, Short
<1>8. /\ c.xfer \in 0 .. Length(b.file)
      /\ b.xfer = Length(b.file) => c.xfer = Length(b.file)
      /\ p.len < Full => c.xfer = Length(b.file)
  <2> DEFINE x == Full * (k - 1) + p.len
             y == b.xfer
             z == Length(b.file)
  <2>1. x \in 0 .. z /\ y \in 0 .. z /\ z \in Nat /\ c.xfer = larger(y, x) /\ (p.len < Full => x = z)
    BY <1>6, <1>7
  <2> HIDE DEF x, y, z
  <2>2. /\ c.xfer \in 0 .. z /\ (y = z => c.xfer = z) /\ (p.len < Full => c.xfer = z)
    BY <2>1 DEF larger
  <2> QED BY <2>2 DEF y, z
<1>9. LastOk(c)
  <2>1. c.t.wrap = 0 /\ Stored(c, c.t.last)
    BY <1>3 DEF LastOk
  <2>2. c.state = "success" => c.xfer = Length(c.file) /\ \A j \in 1 .. Size[c.file] : Stored(c, j)
    BY <1>4, <1>8 DEF LastOk
  <2> QED
    BY <1>8, <2>1, <2>2 DEF LastOk
<1>10. ASSUME p.len < Full, NEW j \in 1 .. Size[c.file] PROVE Stored(c, j)
  <2>1. j = k \/ j \in 1 .. k - 1
    BY <1>1, <1>6, <1>10
  <2> QED
    BY <1>3, <1>4, <2>1 DEF IsNext
<1> QED
  BY <1>3, <1>5, <1>8, <1>9, <1>10

LEMMA TakeBlockLoad ==
  ASSUME NEW b, NEW n, NEW p, CallOk(b, n), b.proto = "TFTP", b.handler = "tftp", b.t.oport \in 1..n,
         Watched(b) => /\ AckedOk(b) /\ LastOk(b) /\ b.t.state \notin {"rrq", "oack"}
                       /\ \E k : IsNext(b, p, k) /\ b.t.block = k
  PROVE  LoadOk(TakeBlock(b, p), n)
<1> DEFINE s0 == [b EXCEPT !.t.last = p.n]
           s1 == NetSetTimeout(s0, "tftp")
           s2 == store_block(s1, p)
           s3 == TftpSend(s2)
           s4 == [s3 EXCEPT !.state = "success"]
<1>0. IsBoard(b)
  BY DEF CallOk
<1>1. TakeBlock(b, p) = IF p.len < Full THEN s4 ELSE s3
  BY DEF TakeBlock
<1>2. /\ IsBoard(s0) /\ SameLoop(b, s0) /\ SameStore(b, s0) /\ SameAddress(b, s0)
      /\ s0.arp = b.arp /\ s0.out = b.out /\ s0.queue = b.queue /\ s0.timer = b.timer
      /\ s0.t.started = b.t.started /\ s0.t.oport = b.t.oport /\ s0.t.state = b.t.state
      /\ s0.t.block = b.t.block /\ s0.t.wrap = b.t.wrap /\ s0.t.last = p.n
  BY <1>0 DEF IsBoard, SameLoop, SameCall, SameStore, SameAddress
<1> HIDE DEF s0
<1>3. /\ IsBoard(s1) /\ SameLoop(s0, s1) /\ SameStore(s0, s1) /\ SameAddress(s0, s1)
      /\ s1.arp = s0.arp /\ s1.out = s0.out /\ s1.queue = s0.queue /\ s1.timer = "tftp" /\ s1.t = s0.t
  BY <1>2 DEF NetSetTimeout, IsBoard, SameLoop, SameCall, SameStore, SameAddress
<1> HIDE DEF s1
<1>4. /\ SameLoop(b, s1) /\ SameStore(b, s1) /\ SameAddress(b, s1)
      /\ s1.arp = b.arp /\ s1.out = b.out /\ s1.queue = b.queue
      /\ Wire(s1) = Wire(b) /\ Requests(s1) = Requests(b)
  BY <1>2, <1>3 DEF SameLoop, SameCall, SameStore, SameAddress, Wire, Held, Requests
<1>5. /\ IsBoard(s2) /\ SameLoop(s1, s2) /\ SameAddress(s1, s2) /\ s2.t = s1.t /\ s2.timer = s1.timer
      /\ s2.arp = s1.arp /\ s2.out = s1.out /\ s2.queue = s1.queue
      /\ s2.file = s1.file /\ s2.loaded = s1.loaded /\ s2.filesize = s1.filesize
      /\ s2.kernel = s1.kernel /\ s2.d = s1.d
      /\ s2.mem = [s1.mem EXCEPT ![Slot(s1.t)] = p.load]
      /\ s2.xfer = larger(s1.xfer, Full * Slot(s1.t) + p.len)
  <2>1. s2 = [s1 EXCEPT !.mem = [s1.mem EXCEPT ![Slot(s1.t)] = p.load],
                        !.xfer = larger(s1.xfer, Full * Slot(s1.t) + p.len)]
    BY DEF store_block
  <2> HIDE DEF s2
  <2> QED
    BY <1>3, <2>1 DEF IsBoard, SameLoop, SameCall, SameAddress
<1> HIDE DEF s2
<1>6. /\ s2.proto = "TFTP" /\ s2.handler = "tftp" /\ s2.timer = "tftp" /\ s2.up = b.up
      /\ s2.queue = b.queue /\ s2.out = b.out /\ s2.arp = b.arp /\ s2.ether = b.ether /\ s2.sip = b.sip
      /\ s2.t.started = b.t.started /\ s2.t.oport = b.t.oport /\ s2.t.state = b.t.state
      /\ s2.t.block = b.t.block /\ s2.t.wrap = b.t.wrap /\ s2.t.last = p.n
      /\ s2.file = b.file /\ s2.loaded = b.loaded /\ s2.kernel = b.kernel /\ s2.d = b.d
      /\ s2.state = b.state /\ DOMAIN s2.mem = Slots /\ Wire(s2) = Wire(b) /\ Requests(s2) = Requests(b)
  BY <1>2, <1>3, <1>4, <1>5
     DEF CallOk, SameLoop, SameCall, SameStore, SameAddress, Wire, Held, Requests
<1>7. CallOk(s2, n)
  <2>1. KernelChecked(s2)
    BY <1>6 DEF CallOk, KernelChecked
  <2>2. ModeOk(s2) /\ LoadedOk(s2)
    BY <1>6 DEF CallOk, ModeOk, LoadedOk
  <2>3. RequestsOk(s2, n)
    BY <1>6 DEF CallOk, RequestsOk, Requests
  <2>4. ArpOk(s2)
    BY <1>6 DEF CallOk, ArpOk, IsRequest
  <2>5. RunOk(s2)
    BY <1>6 DEF CallOk, RunOk
  <2> QED
    BY <1>5, <1>6, <2>1, <2>2, <2>3, <2>4, <2>5 DEF CallOk
<1>8. ASSUME Watched(s2)
      PROVE  /\ AckedOk(s2) /\ LastOk(s2) /\ Stored(s2, s2.t.block)
             /\ p.len < Full => s2.xfer = Length(s2.file) /\ \A j \in 1 .. Size[s2.file] : Stored(s2, j)
  <2>1. Watched(b)
    BY <1>6, <1>8 DEF Watched
  <2>2. PICK k : IsNext(b, p, k) /\ b.t.block = k
    BY <2>1
  <2>3. b.t.wrap = 0 /\ AckedOk(b) /\ LastOk(b) /\ b.t.state \notin {"rrq", "oack"}
    BY <2>1 DEF LastOk
  <2>4. k \in 1 .. Size[b.file] /\ Size[b.file] \in Nat
    BY <2>1, <2>2, FileSize DEF IsNext
  <2>5. Slot(s1.t) = k - 1 /\ p.n = k
    BY <1>2, <1>3, <2>2, <2>3, <2>4 DEF Slot, IsNext
  <2>6. s2.mem = [b.mem EXCEPT ![k - 1] = p.load] /\ s2.xfer = larger(b.xfer, Full * (k - 1) + p.len)
    BY <1>4, <1>5, <2>5 DEF SameStore
  <2> QED
    BY <1>6, <2>1, <2>2, <2>3, <2>5, <2>6, StoreLoad
<1>9. LoadOk(s2, n)
  BY <1>7, <1>8 DEF LoadOk, ContentOk, BlockOk
<1>10. LoadOk(s3, n) /\ SameLoop(s2, s3) /\ SameStore(s2, s3) /\ s3.t = s2.t /\ s3.timer = s2.timer
  BY <1>6, <1>8, <1>9, TftpSendLoad
<1> HIDE DEF s3
<1>11. CASE p.len < Full
  <2>1. /\ IsBoard(s4) /\ SameStore(s3, s4) /\ SameAddress(s3, s4) /\ s4.t = s3.t /\ s4.timer = s3.timer
        /\ s4.arp = s3.arp /\ s4.out = s3.out /\ s4.queue = s3.queue /\ s4.proto = s3.proto
        /\ s4.handler = s3.handler /\ s4.up = s3.up
    BY <1>10 DEF LoadOk, CallOk, IsBoard, SameStore, SameAddress
  <2> HIDE DEF s4
  <2>2. Wire(s4) = Wire(s3) /\ Requests(s4) \subseteq Requests(s3)
    BY <2>1 DEF Wire, Held, Requests
  <2>3. ArpOk(s4) /\ RunOk(s4)
    BY <1>10, <2>1, <2>2 DEF LoadOk, CallOk, ArpOk, RunOk, IsRequest, SameAddress
  <2>4. CallOk(s4, n)
    BY <1>10, <2>1, <2>2, <2>3, StillCall DEF LoadOk
  <2>5. ASSUME Watched(s4) PROVE AckedOk(s4) /\ LastOk(s4) /\ BlockOk(s4)
    <3>1. Watched(s3) /\ Watched(s2)
      BY <1>10, <2>1, <2>5 DEF Watched, SameStore, SameLoop, SameCall
    <3>2. AckedOk(s3) /\ LastOk(s3) /\ BlockOk(s3)
      BY <1>10, <3>1 DEF LoadOk, ContentOk
    <3>3. s4.xfer = Length(s4.file) /\ \A j \in 1 .. Size[s4.file] : Stored(s4, j)
      BY <1>8, <1>10, <1>11, <2>1, <3>1 DEF Stored, SameStore
    <3>4. AckedOk(s4)
      BY <2>1, <2>2, <3>2 DEF AckedOk, Stored, SameStore
    <3>5. LastOk(s4)
      BY <2>1, <3>2, <3>3 DEF LastOk, Stored, SameStore
    <3>6. BlockOk(s4)
      BY <2>1, <3>2 DEF BlockOk, Stuck, Stored, SameStore
    <3> QED BY <3>4, <3>5, <3>6
  <2>6. LoadOk(s4, n)
    BY <2>4, <2>5 DEF LoadOk, ContentOk
  <2> QED BY <1>1, <1>11, <2>6
<1>12. CASE ~(p.len < Full)
  BY <1>1, <1>10, <1>12
<1> QED
  BY <1>11, <1>12

LEMMA TftpDataLoad ==
  ASSUME NEW b, NEW n, NEW p \in OnTheWire, CallOk(b, n), ContentOk(b), b.proto = "TFTP",
         b.handler = "tftp", b.t.oport \in 1..n, ForUs(b, p), p.kind = "data"
  PROVE  LoadOk(TftpData(b, p, netretry), n)
<1> DEFINE first == b.t.state \in {"rrq", "oack"}
           num == Numbered(b, p)
           b1 == IF first THEN FirstBlock(num, p) ELSE num
<1>0. IsBoard(b) /\ p.dport = b.t.oport /\ b.ether
  BY AnsweredFromServer DEF CallOk, ForUs
<1>1. /\ IsBoard(num) /\ SameLoop(b, num) /\ SameStore(b, num) /\ SameAddress(b, num)
      /\ num.timer = b.timer /\ num.arp = b.arp /\ num.out = b.out /\ num.queue = b.queue
      /\ num.t.started = b.t.started /\ num.t.oport = b.t.oport /\ num.t.state = b.t.state
      /\ num.t.last = b.t.last /\ num.t.block = p.n /\ (p.n # 0 => num.t.wrap = b.t.wrap)
  <2> DEFINE c1 == [b EXCEPT !.t.block = p.n]
  <2>1. num = [c1 EXCEPT !.t.wrap = IF p.n = 0 THEN @ + Seq ELSE @]
    BY <1>0 DEF Numbered, IsBoard
  <2>2. /\ IsBoard(c1) /\ SameLoop(b, c1) /\ SameStore(b, c1) /\ SameAddress(b, c1)
        /\ c1.timer = b.timer /\ c1.arp = b.arp /\ c1.out = b.out /\ c1.queue = b.queue
        /\ c1.t.started = b.t.started /\ c1.t.oport = b.t.oport /\ c1.t.state = b.t.state
        /\ c1.t.last = b.t.last /\ c1.t.block = p.n /\ c1.t.wrap = b.t.wrap
    BY <1>0 DEF IsBoard, SameLoop, SameCall, SameStore, SameAddress
  <2> HIDE DEF c1, num
  <2> QED
    BY <2>1, <2>2 DEF IsBoard, SameLoop, SameCall, SameStore, SameAddress
<1> HIDE DEF num
<1>2. /\ IsBoard(b1) /\ SameLoop(b, b1) /\ SameStore(b, b1) /\ SameAddress(b, b1)
      /\ b1.timer = b.timer /\ b1.arp = b.arp /\ b1.out = b.out /\ b1.queue = b.queue
      /\ b1.t.started = b.t.started /\ b1.t.oport = b.t.oport /\ b1.t.block = p.n
      /\ b1.t.state \notin {"rrq", "oack"}
      /\ first => b1.t.last = 0 /\ b1.t.wrap = 0
      /\ ~first => b1.t.last = b.t.last /\ (p.n # 0 => b1.t.wrap = b.t.wrap)
  <2>1. CASE first
    <3>1. b1 = FirstBlock(num, p)
      BY <2>1
    <3> DEFINE c1 == [num EXCEPT !.t.state = "data", !.t.sport = p.sport]
               c2 == [c1 EXCEPT !.t.last = 0, !.t.wrap = 0]
    <3>2. FirstBlock(num, p) = c2
      BY <1>1 DEF FirstBlock, IsBoard
    <3>3. /\ IsBoard(c1) /\ SameLoop(num, c1) /\ SameStore(num, c1) /\ SameAddress(num, c1)
          /\ c1.timer = num.timer /\ c1.arp = num.arp /\ c1.out = num.out /\ c1.queue = num.queue
          /\ c1.t.started = num.t.started /\ c1.t.oport = num.t.oport
          /\ c1.t.block = num.t.block /\ c1.t.state = "data"
      BY <1>1 DEF IsBoard, SameLoop, SameCall, SameStore, SameAddress
    <3> HIDE DEF c1, b1
    <3>4. /\ IsBoard(c2) /\ SameLoop(c1, c2) /\ SameStore(c1, c2) /\ SameAddress(c1, c2)
          /\ c2.timer = c1.timer /\ c2.arp = c1.arp /\ c2.out = c1.out /\ c2.queue = c1.queue
          /\ c2.t.started = c1.t.started /\ c2.t.oport = c1.t.oport
          /\ c2.t.block = c1.t.block /\ c2.t.state = c1.t.state /\ c2.t.last = 0 /\ c2.t.wrap = 0
      BY <3>3 DEF IsBoard, SameLoop, SameCall, SameStore, SameAddress
    <3> HIDE DEF c2
    <3> QED
      BY <1>1, <2>1, <3>1, <3>2, <3>3, <3>4 DEF SameLoop, SameCall, SameStore, SameAddress
  <2>2. CASE ~first
    BY <1>1, <2>2
  <2> QED BY <2>1, <2>2
<1>3. TftpData(b, p, netretry) =
        IF first /\ p.n # 1 THEN NetStartAgain(b1, netretry)
        ELSE IF p.n = b1.t.last THEN b1
        ELSE TakeBlock(b1, p)
  BY DEF TftpData, b1, num
<1> HIDE DEF b1
<1>4. CallOk(b1, n)
  <2>1. Wire(b1) = Wire(b) /\ Requests(b1) \subseteq Requests(b)
    BY <1>2 DEF Wire, Held, Requests
  <2>2. ArpOk(b1) /\ RunOk(b1)
    BY <1>0, <1>2, <2>1 DEF CallOk, ArpOk, RunOk, SameLoop, SameCall, SameAddress
  <2> QED
    BY <1>2, <2>1, <2>2, StillCall DEF SameLoop, SameCall
<1>5. ASSUME Watched(b1)
      PROVE  AckedOk(b1) /\ LastOk(b1) /\ \E k : IsNext(b1, p, k) /\ b1.t.block = k /\ k # 0
  <2>1. Watched(b) /\ Wire(b1) = Wire(b)
    BY <1>2, <1>5 DEF Watched, SameLoop, SameCall, SameStore, Wire
  <2>2. PICK k : IsNext(b, p, k)
    BY <1>0, <2>1, BlockServed
  <2>3. p.n = k /\ k # 0
    <3>1. Size[b.file] \in Nat
      BY <2>1, FileSize
    <3> QED BY <2>2, <3>1 DEF IsNext
  <2>4. AckedOk(b) /\ LastOk(b)
    BY <2>1 DEF ContentOk
  <2>5. AckedOk(b1)
    BY <1>2, <2>1, <2>4 DEF AckedOk, Stored, SameStore
  <2>6. LastOk(b1)
    BY <1>2, <2>3, <2>4 DEF LastOk, Stored, SameStore, SameLoop
  <2>7. IsNext(b1, p, k)
    BY <1>2, <2>2 DEF IsNext, Stored, SameStore
  <2> QED
    BY <1>2, <2>3, <2>5, <2>6, <2>7
<1>6. CASE first /\ p.n # 1
  BY <1>3, <1>4, <1>5, <1>6, AgainLoad
<1>7. CASE ~(first /\ p.n # 1) /\ p.n = b1.t.last
  <2>1. ASSUME Watched(b1) PROVE BlockOk(b1)
    <3>1. p.n # 0
      BY <1>5, <2>1 DEF IsNext
    <3> QED
      BY <1>2, <1>5, <1>7, <2>1, <3>1 DEF BlockOk, LastOk
  <2> QED
    BY <1>3, <1>4, <1>5, <1>7, <2>1 DEF LoadOk, ContentOk
<1>8. CASE ~(first /\ p.n # 1) /\ p.n # b1.t.last
  <2>1. LoadOk(TakeBlock(b1, p), n)
    BY <1>2, <1>4, <1>5, TakeBlockLoad DEF SameLoop, SameCall
  <2> QED BY <1>3, <1>8, <2>1
<1> QED
  BY <1>6, <1>7, <1>8

LEMMA TftpHandlerLoad ==
  ASSUME NEW b, NEW n, NEW p \in OnTheWire, BoardOk(b, n), LoadOk(b, n), b.handler = "tftp",
         b.proto \in {"TFTP", "TFTPD", "PING"}
  PROVE  LoadOk(TftpHandler(b, p, netretry), n)
<1>0. /\ IsBoard(b) /\ CallOk(b, n) /\ ContentOk(b)
      /\ b.t.started /\ b.t.oport \in 1..n /\ b.proto = "TFTP"
  BY DEF BoardOk, SessionOk, LoopOk, LoadOk, CallOk, ModeOk
<1>1. CASE ~ForUs(b, p)
  BY <1>1 DEF TftpHandler
<1>2. CASE ForUs(b, p) /\ p.kind = "oack"
  <2> DEFINE c == [b EXCEPT !.t.state = "oack", !.t.sport = p.sport]
  <2>1. TftpHandler(b, p, netretry) = TftpSend(c)
    BY <1>2 DEF TftpHandler
  <2>2. /\ IsBoard(c) /\ SameLoop(b, c) /\ SameStore(b, c) /\ SameAddress(b, c)
        /\ c.timer = b.timer /\ c.arp = b.arp /\ c.out = b.out /\ c.queue = b.queue
        /\ c.t.started = b.t.started /\ c.t.oport = b.t.oport /\ c.t.block = b.t.block
        /\ c.t.state = "oack"
    BY <1>0 DEF IsBoard, SameLoop, SameCall, SameStore, SameAddress
  <2> HIDE DEF c
  <2>3. b.ether
    BY <1>0, <1>2, AnsweredFromServer DEF ForUs
  <2>4. Wire(c) = Wire(b) /\ Requests(c) \subseteq Requests(b)
    BY <2>2 DEF Wire, Held, Requests
  <2>5. ArpOk(c) /\ RunOk(c)
    BY <1>0, <2>2, <2>3 DEF CallOk, ArpOk, RunOk, SameLoop, SameCall, SameAddress
  <2>6. CallOk(c, n)
    BY <1>0, <2>2, <2>4, <2>5, StillCall DEF SameLoop, SameCall
  <2>7. ASSUME Watched(c) PROVE AckedOk(c) /\ LastOk(c) /\ BlockOk(c)
    <3>1. AckedOk(b) /\ LastOk(b) /\ BlockOk(b)
      BY <1>0, <2>2, <2>7 DEF ContentOk, Watched, SameLoop, SameCall, SameStore
    <3>2. AckedOk(c)
      BY <2>2, <2>4, <3>1 DEF AckedOk, Stored, SameStore
    <3>3. LastOk(c) /\ BlockOk(c)
      BY <2>2, <3>1 DEF LastOk, BlockOk, Stuck, Stored, SameStore, SameLoop
    <3> QED BY <3>2, <3>3
  <2>8. LoadOk(c, n)
    BY <2>6, <2>7 DEF LoadOk, ContentOk
  <2>9. Watched(c) => c.t.block = 0 \/ Stored(c, c.t.block) \/ ~c.up
    BY <2>2, <2>7 DEF BlockOk, Stuck, SameLoop
  <2>10. LoadOk(TftpSend(c), n)
    BY <1>0, <2>2, <2>8, <2>9, TftpSendLoad
  <2> QED
    BY <2>1, <2>10
<1>3. CASE ForUs(b, p) /\ p.kind = "data"
  <2>1. TftpHandler(b, p, netretry) = TftpData(b, p, netretry)
    BY <1>3 DEF TftpHandler
  <2> QED
    BY <1>0, <1>3, <2>1, TftpDataLoad
<1>4. CASE ForUs(b, p) /\ p.kind = "error"
  <2>1. TftpHandler(b, p, netretry) = NetStartAgain(b, netretry)
    BY <1>4 DEF TftpHandler
  <2> QED
    BY <1>0, <2>1, AgainLoad DEF ContentOk
<1>5. CASE ForUs(b, p) /\ p.kind \notin {"oack", "data", "error"}
  <2>1. TftpHandler(b, p, netretry) = b
    BY <1>5 DEF TftpHandler
  <2> QED
    BY <2>1
<1> QED
  BY <1>1, <1>2, <1>3, <1>4, <1>5

LEMMA TftpTimeoutLoad ==
  ASSUME NEW b, NEW n, BoardOk(b, n), LoadOk(b, n), b.t.started, b.handler # "ignore" \/ b.proto # "TFTP"
  PROVE  LoadOk(TftpTimeout(b, netretry), n)
<1> DEFINE b1 == [b EXCEPT !.t.tries = @ + 1]
           b2 == NetSetTimeout(b1, "tftp")
<1>0. /\ IsBoard(b) /\ CallOk(b, n) /\ ContentOk(b) /\ b.t.oport \in 1..n
  BY DEF BoardOk, SessionOk, LoadOk, CallOk
<1>1. TftpTimeout(b, netretry) = IF b1.t.tries > MaxTries THEN NetStartAgain(b1, netretry) ELSE TftpSend(b2)
  BY DEF TftpTimeout
<1>2. /\ IsBoard(b1) /\ SameLoop(b, b1) /\ SameStore(b, b1) /\ SameAddress(b, b1)
      /\ b1.timer = b.timer /\ b1.arp = b.arp /\ b1.out = b.out /\ b1.queue = b.queue
      /\ b1.t.started = b.t.started /\ b1.t.oport = b.t.oport /\ b1.t.state = b.t.state
      /\ b1.t.block = b.t.block /\ b1.t.last = b.t.last /\ b1.t.wrap = b.t.wrap
  BY <1>0 DEF IsBoard, SameLoop, SameCall, SameStore, SameAddress
<1> HIDE DEF b1
<1>3. /\ IsBoard(b2) /\ SameLoop(b1, b2) /\ SameStore(b1, b2) /\ SameAddress(b1, b2)
      /\ b2.timer = "tftp" /\ b2.arp = b1.arp /\ b2.out = b1.out /\ b2.queue = b1.queue /\ b2.t = b1.t
  BY <1>2 DEF NetSetTimeout, IsBoard, SameLoop, SameCall, SameStore, SameAddress
<1> HIDE DEF b2
<1>4. ASSUME NEW c, IsBoard(c), SameLoop(b, c), SameStore(b, c), SameAddress(b, c),
             c.timer \in {b.timer, "tftp"}, c.arp = b.arp, c.out = b.out, c.queue = b.queue,
             c.t.started = b.t.started, c.t.oport = b.t.oport, c.t.state = b.t.state,
             c.t.block = b.t.block, c.t.last = b.t.last, c.t.wrap = b.t.wrap
      PROVE  LoadOk(c, n) /\ (Watched(c) => BlockOk(c))
  <2>1. Wire(c) = Wire(b) /\ Requests(c) \subseteq Requests(b)
    BY <1>4 DEF Wire, Held, Requests
  <2>2. ArpOk(c)
    BY <1>0, <1>4, <2>1 DEF CallOk, ArpOk, IsRequest, SameLoop, SameCall, SameAddress
  <2>3. RunOk(c)
    BY <1>0, <1>4 DEF CallOk, RunOk, SameLoop, SameCall
  <2>4. CallOk(c, n)
    BY <1>0, <1>4, <2>1, <2>2, <2>3, StillCall DEF SameLoop, SameCall
  <2>5. ASSUME Watched(c) PROVE AckedOk(c) /\ LastOk(c) /\ BlockOk(c)
    <3>1. AckedOk(b) /\ LastOk(b) /\ BlockOk(b)
      BY <1>0, <1>4, <2>5 DEF ContentOk, Watched, SameLoop, SameCall, SameStore
    <3>2. AckedOk(c)
      BY <1>4, <2>1, <3>1 DEF AckedOk, Stored, SameStore
    <3>3. LastOk(c) /\ BlockOk(c)
      BY <1>4, <3>1 DEF LastOk, BlockOk, Stuck, Stored, SameStore, SameLoop
    <3> QED BY <3>2, <3>3
  <2> QED
    BY <2>4, <2>5 DEF LoadOk, ContentOk
<1>5. LoadOk(b1, n)
  BY <1>2, <1>4
<1>6. LoadOk(b2, n) /\ (Watched(b2) => BlockOk(b2))
  BY <1>2, <1>3, <1>4, ZenonT(30) DEF SameLoop, SameCall, SameStore, SameAddress
<1>7. LoadOk(NetStartAgain(b1, netretry), n)
  BY <1>5, AgainLoad DEF LoadOk, ContentOk
<1>8. Watched(b2) => b2.t.block = 0 \/ Stored(b2, b2.t.block) \/ ~b2.up
  BY <1>2, <1>3, <1>6 DEF BlockOk, Stuck, Watched, SameLoop, SameCall
<1>9. LoadOk(TftpSend(b2), n)
  BY <1>0, <1>2, <1>3, <1>6, <1>8, TftpSendLoad
<1> QED
  BY <1>1, <1>7, <1>9

-----------------------------------------------------------------------------
(***************************************************************************)
(* The TFTP server of the rescue mode.                                     *)
(***************************************************************************)
\* In the rescue mode only the partition and the requests count.
LEMMA StillRescue ==
  ASSUME NEW b, NEW c, NEW n, CallOk(b, n), mode # "cli", IsBoard(c), c.proto = b.proto, c.t = b.t,
         c.file = b.file, c.loaded = b.loaded, c.xfer = b.xfer, "len" \in DOMAIN c.d,
         DOMAIN c.mem = Slots, KernelChecked(c), Requests(c) \subseteq Requests(b)
  PROVE  LoadOk(c, n)
<1>1. b.proto # "TFTP" /\ b.loaded = Nobody
  BY DEF CallOk, ModeOk, LoadedOk
<1>2. ModeOk(c) /\ LoadedOk(c) /\ ArpOk(c) /\ RunOk(c) /\ ContentOk(c)
  BY <1>1 DEF CallOk, ModeOk, LoadedOk, ArpOk, RunOk, ContentOk, Watched
<1>3. RequestsOk(c, n)
  BY DEF CallOk, RequestsOk, Requests
<1> QED
  BY <1>2, <1>3 DEF LoadOk, CallOk

LEMMA TftpdSends ==
  ASSUME NEW b, IsBoard(b)
  PROVE  LET c == TftpdSend(b)
         IN  /\ IsBoard(c) /\ SameLoop(b, c) /\ SameStore(b, c) /\ c.t = b.t /\ c.timer = b.timer
             /\ Requests(c) \subseteq Requests(b)
<1> DEFINE pkt ==
      CASE b.d.state = "rrq" -> [kind |-> "vacant", oport |-> b.d.sport]
        [] b.d.state = "finishack" -> [kind |-> "finish", oport |-> b.d.sport, ok |-> b.d.ok]
        [] OTHER -> [kind |-> "dack", oport |-> b.d.sport, n |-> b.d.block]
           ip == b.sip
           c == TftpdSend(b)
<1>1. c = NetSendUDPPacket(b, ip, pkt)
  BY DEF TftpdSend
<1>2. pkt.kind # "rrq"
  <2>1. CASE b.d.state = "rrq"
    BY <2>1
  <2>2. CASE b.d.state = "finishack"
    BY <2>2
  <2>3. CASE b.d.state # "rrq" /\ b.d.state # "finishack"
    BY <2>3
  <2> QED BY <2>1, <2>2, <2>3
<1> HIDE DEF pkt, ip, c
<1>3. SendsTo(b, c, ip, pkt)
  BY <1>1, UdpSends
<1>4. ArpReq(ip).kind = "arpreq"
  BY DEF ArpReq
<1>5. Requests(c) \subseteq Requests(b)
  BY <1>2, <1>3, <1>4 DEF SendsTo, Sends, Wire, Held, Requests
<1> QED
  BY <1>3, <1>5 DEF SendsTo, Sends, c

\* What was checked is what is written, as far as it goes.
LEMMA FlashChecked ==
  ASSUME NEW b, NEW works, IsBoard(b), "len" \in DOMAIN b.d, KernelChecked(b), NEW len
  PROVE  LET c == flash_kernel_image(b, len, works)
         IN  /\ KernelChecked(c) /\ IsBoard(c) /\ SameLoop(b, c) /\ c.t = b.t /\ c.arp = b.arp
             /\ c.out = b.out /\ c.queue = b.queue /\ c.timer = b.timer
             /\ c.file = b.file /\ c.loaded = b.loaded /\ c.xfer = b.xfer /\ c.mem = b.mem
             /\ "len" \in DOMAIN c.d
<1> DEFINE good == verify_kernel_image(b)
           d == IF len < MinLength THEN [b.d EXCEPT !.ok = FALSE]
                ELSE [b.d EXCEPT !.ok = good /\ works, !.header = IF good THEN b.mem[0] ELSE Empty]
           kernel == IF len < MinLength \/ ~good THEN b.kernel
                     ELSE IF works THEN Copied(b, len) ELSE Nobody
           c == [b EXCEPT !.d = d, !.kernel = kernel]
<1>1. flash_kernel_image(b, len, works) = c
  BY DEF flash_kernel_image, Flashed, IsBoard
<1>2. "len" \in DOMAIN d
  OBVIOUS
<1>3. ASSUME kernel # b.kernel, kernel # Nobody, ~kernel.known
      PROVE  \E f \in Kernels :
               \A i \in DOMAIN kernel.data : i < Size[f] => kernel.data[i] = <<f, i + 1>>
  <2>1. kernel = Copied(b, len) /\ good
    BY <1>3
  <2> HIDE DEF kernel
  <2>2. ~Known(b)
    BY <1>3, <2>1 DEF Copied
  <2>3. kernel.data = [i \in 0 .. (len - 1) \div Full |-> b.mem[i]]
    BY <2>1 DEF Copied
  <2>4. PICK f \in Kernels : InMemory(b.mem, f)
    BY <2>1, <2>2 DEF verify_kernel_image
  <2> HIDE DEF good
  <2>5. ASSUME NEW i \in DOMAIN kernel.data, i < Size[f] PROVE kernel.data[i] = <<f, i + 1>>
    <3>1. i \in 0 .. (len - 1) \div Full /\ kernel.data[i] = b.mem[i]
      BY <2>3
    <3>2. i + 1 \in 1 .. Size[f] /\ (i + 1) - 1 = i
      BY <2>5, <3>1, SizeAssumption
    <3> QED
      BY <2>4, <3>1, <3>2 DEF InMemory
  <2> QED
    BY <2>5
<1> HIDE DEF kernel, d
<1>4. /\ IsBoard(c) /\ SameLoop(b, c) /\ c.t = b.t /\ c.arp = b.arp
      /\ c.out = b.out /\ c.queue = b.queue /\ c.timer = b.timer /\ c.kernel = kernel
      /\ c.file = b.file /\ c.loaded = b.loaded /\ c.xfer = b.xfer /\ c.mem = b.mem
      /\ c.d = d
  BY DEF IsBoard, SameLoop, SameCall
<1> HIDE DEF c
<1> QED
  BY <1>1, <1>2, <1>3, <1>4 DEF KernelChecked

LEMMA TftpdStoreLoad ==
  ASSUME NEW b, NEW works, NEW n, NEW p, CallOk(b, n), mode # "cli"
  PROVE  LoadOk(TftpdStore(b, p, works), n)
<1> DEFINE m1 == [b.mem EXCEPT ![p.n - 1] = IF p.len = 0 THEN @ ELSE p.load]
           d1 == [b.d EXCEPT !.last = p.n, !.len = Full * (p.n - 1) + p.len]
           s0 == [b EXCEPT !.d = d1, !.mem = m1]
           s1 == NetSetTimeout(s0, "tftpd")
           s2 == TftpdSend(s1)
           f0 == flash_kernel_image(s2, s2.d.len, works)
           f1 == [f0 EXCEPT !.d.state = "finishack"]
           f2 == TftpdSend(f1)
           f3 == [f2 EXCEPT !.state = "success"]
<1>0. IsBoard(b) /\ "len" \in DOMAIN b.d /\ DOMAIN b.mem = Slots /\ KernelChecked(b)
  BY DEF CallOk
<1>1. TftpdStore(b, p, works) = IF p.len < Full THEN f3 ELSE s2
  BY <1>0 DEF TftpdStore, TftpdFinish, IsBoard
<1>3. DOMAIN m1 = Slots
  BY <1>0
<1>4. "len" \in DOMAIN d1
  BY <1>0
<1> HIDE DEF m1, d1
<1>5. /\ IsBoard(s0) /\ SameCall(b, s0) /\ s0.t = b.t /\ s0.arp = b.arp /\ s0.out = b.out
      /\ s0.queue = b.queue /\ s0.file = b.file /\ s0.loaded = b.loaded /\ s0.xfer = b.xfer
      /\ s0.kernel = b.kernel /\ s0.mem = m1 /\ s0.d = d1
  BY <1>0 DEF IsBoard, SameCall
<1> HIDE DEF s0
<1>6. /\ IsBoard(s1) /\ SameCall(s0, s1) /\ SameStore(s0, s1) /\ s1.t = s0.t /\ s1.arp = s0.arp
      /\ s1.out = s0.out /\ s1.queue = s0.queue
  BY <1>5 DEF NetSetTimeout, IsBoard, SameCall, SameStore
<1> HIDE DEF s1
<1>7. /\ IsBoard(s2) /\ SameLoop(s1, s2) /\ SameStore(s1, s2) /\ s2.t = s1.t
      /\ Requests(s2) \subseteq Requests(s1)
  BY <1>6, TftpdSends
<1> HIDE DEF s2
<1>8. /\ SameCall(b, s2) /\ s2.t = b.t /\ s2.file = b.file /\ s2.loaded = b.loaded /\ s2.xfer = b.xfer
      /\ s2.kernel = b.kernel /\ s2.mem = m1 /\ s2.d = d1 /\ Requests(s2) \subseteq Requests(b)
  BY <1>5, <1>6, <1>7 DEF SameLoop, SameCall, SameStore, Wire, Held, Requests
<1>9. KernelChecked(s2)
  BY <1>0, <1>8 DEF KernelChecked
<1>10. CASE ~(p.len < Full)
  <2>1. LoadOk(s2, n)
    BY <1>3, <1>4, <1>7, <1>8, <1>9, StillRescue DEF SameCall
  <2> QED BY <1>1, <1>10, <2>1
<1>11. CASE p.len < Full
  <2>2. /\ KernelChecked(f0) /\ IsBoard(f0) /\ SameLoop(s2, f0) /\ f0.t = s2.t /\ f0.arp = s2.arp
        /\ f0.out = s2.out /\ f0.queue = s2.queue
        /\ f0.file = s2.file /\ f0.loaded = s2.loaded /\ f0.xfer = s2.xfer /\ f0.mem = s2.mem
        /\ "len" \in DOMAIN f0.d
    BY <1>4, <1>7, <1>8, <1>9, FlashChecked
  <2> HIDE DEF f0
  <2>3. /\ IsBoard(f1) /\ SameLoop(f0, f1) /\ f1.t = f0.t /\ f1.arp = f0.arp
        /\ f1.out = f0.out /\ f1.queue = f0.queue /\ f1.kernel = f0.kernel
        /\ f1.file = f0.file /\ f1.loaded = f0.loaded /\ f1.xfer = f0.xfer /\ f1.mem = f0.mem
        /\ "len" \in DOMAIN f1.d
    BY <2>2 DEF IsBoard, SameLoop, SameCall
  <2> HIDE DEF f1
  <2>4. /\ IsBoard(f2) /\ SameLoop(f1, f2) /\ SameStore(f1, f2) /\ f2.t = f1.t
        /\ Requests(f2) \subseteq Requests(f1)
    BY <2>3, TftpdSends
  <2> HIDE DEF f2
  <2>5. /\ IsBoard(f3) /\ SameCall(f2, f3) /\ SameStore(f2, f3) /\ f3.t = f2.t
        /\ f3.arp = f2.arp /\ f3.out = f2.out /\ f3.queue = f2.queue
    BY <2>4 DEF IsBoard, SameCall, SameStore
  <2> HIDE DEF f3
  <2>6. Requests(f3) \subseteq Requests(b)
    BY <1>8, <2>2, <2>3, <2>4, <2>5 DEF Wire, Held, Requests
  <2>7. KernelChecked(f3)
    BY <2>2, <2>3, <2>4, <2>5 DEF KernelChecked, SameStore
  <2>8. /\ f3.proto = b.proto /\ f3.t = b.t /\ f3.file = b.file /\ f3.loaded = b.loaded
        /\ f3.xfer = b.xfer /\ f3.mem = m1 /\ "len" \in DOMAIN f3.d
    BY <1>8, <2>2, <2>3, <2>4, <2>5 DEF SameLoop, SameCall, SameStore
  <2>9. LoadOk(f3, n)
    BY <1>3, <2>5, <2>6, <2>7, <2>8, StillRescue
  <2> QED BY <1>1, <1>11, <2>9
<1> QED
  BY <1>10, <1>11

LEMMA TftpdDataLoad ==
  ASSUME NEW b, NEW works, NEW n, NEW p \in OnTheWire, CallOk(b, n), mode # "cli", p.kind = "data"
  PROVE  LoadOk(TftpdData(b, p, netretry, works), n)
<1> DEFINE first == b.d.state = "wrq"
           b1 == IF first
                 THEN [b EXCEPT !.d.block = p.n, !.d.state = "data", !.d.sport = p.sport, !.d.last = 0]
                 ELSE [b EXCEPT !.d.block = p.n]
<1>0. IsBoard(b) /\ "len" \in DOMAIN b.d /\ DOMAIN b.mem = Slots /\ KernelChecked(b)
  BY DEF CallOk
<1>1. TftpdData(b, p, netretry, works) =
        IF first /\ p.n # 1 THEN NetStartAgain(b1, netretry)
        ELSE IF p.n = b1.d.last THEN b1
        ELSE TftpdStore(b1, p, works)
  BY DEF TftpdData
<1>2. /\ IsBoard(b1) /\ b1.proto = b.proto /\ b1.t = b.t /\ b1.arp = b.arp /\ b1.out = b.out
      /\ b1.queue = b.queue /\ b1.file = b.file /\ b1.loaded = b.loaded /\ b1.xfer = b.xfer
      /\ b1.mem = b.mem /\ b1.kernel = b.kernel /\ "len" \in DOMAIN b1.d
  BY <1>0 DEF IsBoard
<1> HIDE DEF b1
<1>3. LoadOk(b1, n)
  <2>1. Requests(b1) \subseteq Requests(b) /\ KernelChecked(b1)
    BY <1>0, <1>2 DEF Wire, Held, Requests, KernelChecked
  <2> QED
    BY <1>0, <1>2, <2>1, StillRescue
<1>4. LoadOk(NetStartAgain(b1, netretry), n)
  BY <1>3, AgainLoad DEF LoadOk, ContentOk
<1>5. LoadOk(TftpdStore(b1, p, works), n)
  BY <1>3, TftpdStoreLoad DEF LoadOk
<1> QED
  BY <1>1, <1>3, <1>4, <1>5

LEMMA TftpdHandlerLoad ==
  ASSUME NEW b, NEW works, NEW n, NEW p \in OnTheWire, LoadOk(b, n), mode # "cli"
  PROVE  LoadOk(TftpdHandler(b, p, netretry, works), n)
<1> DEFINE stranger == p.dport # PortTftp \/ (b.d.state # "rrq" /\ p.sport # b.d.sport)
<1>0. /\ CallOk(b, n) /\ IsBoard(b) /\ "len" \in DOMAIN b.d /\ DOMAIN b.mem = Slots /\ KernelChecked(b)
  BY DEF LoadOk, CallOk
<1>1. CASE stranger \/ p.kind \notin {"ask", "wrq", "data", "error"}
  <2>1. TftpdHandler(b, p, netretry, works) = b
    BY <1>1 DEF TftpdHandler
  <2> QED
    BY <2>1
<1>2. ASSUME NEW c, IsBoard(c), c.proto = b.proto, c.t = b.t, c.arp = b.arp, c.out = b.out,
             c.queue = b.queue, c.file = b.file, c.loaded = b.loaded, c.xfer = b.xfer,
             c.mem = b.mem, c.kernel = b.kernel, "len" \in DOMAIN c.d
      PROVE  LoadOk(TftpdSend(c), n)
  <2> DEFINE s == TftpdSend(c)
  <2>1. /\ IsBoard(s) /\ SameLoop(c, s) /\ SameStore(c, s) /\ s.t = c.t
        /\ Requests(s) \subseteq Requests(c)
    BY <1>2, TftpdSends
  <2> HIDE DEF s
  <2>2. Requests(s) \subseteq Requests(b)
    BY <1>2, <2>1 DEF Wire, Held, Requests
  <2>3. KernelChecked(s)
    BY <1>0, <1>2, <2>1 DEF KernelChecked, SameStore
  <2>4. LoadOk(s, n)
    BY <1>0, <1>2, <2>1, <2>2, <2>3, StillRescue DEF SameLoop, SameCall, SameStore
  <2> QED BY <2>4 DEF s
<1>3. CASE ~stranger /\ p.kind = "ask"
  <2> DEFINE c == [b EXCEPT !.sip = Nobody, !.d.sport = p.sport, !.d.block = 1, !.d.state = "rrq"]
  <2>1. TftpdHandler(b, p, netretry, works) = TftpdSend(c)
    BY <1>3 DEF TftpdHandler
  <2>2. /\ IsBoard(c) /\ c.proto = b.proto /\ c.t = b.t /\ c.arp = b.arp /\ c.out = b.out
        /\ c.queue = b.queue /\ c.file = b.file /\ c.loaded = b.loaded /\ c.xfer = b.xfer
        /\ c.mem = b.mem /\ c.kernel = b.kernel /\ "len" \in DOMAIN c.d
    BY <1>0 DEF IsBoard
  <2> HIDE DEF c
  <2> QED
    BY <1>2, <2>1, <2>2
<1>4. CASE ~stranger /\ p.kind = "wrq"
  <2> DEFINE c == [b EXCEPT !.d.sport = p.sport, !.d.block = 0, !.d.state = "wrq"]
  <2>1. TftpdHandler(b, p, netretry, works) = TftpdSend(c)
    BY <1>4 DEF TftpdHandler
  <2>2. /\ IsBoard(c) /\ c.proto = b.proto /\ c.t = b.t /\ c.arp = b.arp /\ c.out = b.out
        /\ c.queue = b.queue /\ c.file = b.file /\ c.loaded = b.loaded /\ c.xfer = b.xfer
        /\ c.mem = b.mem /\ c.kernel = b.kernel /\ "len" \in DOMAIN c.d
    BY <1>0 DEF IsBoard
  <2> HIDE DEF c
  <2> QED
    BY <1>2, <2>1, <2>2
<1>5. CASE ~stranger /\ p.kind = "data"
  <2>1. TftpdHandler(b, p, netretry, works) = TftpdData(b, p, netretry, works)
    BY <1>5 DEF TftpdHandler
  <2> QED
    BY <1>0, <1>5, <2>1, TftpdDataLoad
<1>6. CASE ~stranger /\ p.kind = "error"
  <2>1. TftpdHandler(b, p, netretry, works) = NetStartAgain(b, netretry)
    BY <1>6 DEF TftpdHandler
  <2> QED
    BY <2>1, AgainLoad DEF LoadOk, ContentOk
<1> QED
  BY <1>1, <1>3, <1>4, <1>5, <1>6

-----------------------------------------------------------------------------
(***************************************************************************)
(* A frame that arrives, and a timer that has run out.                     *)
(***************************************************************************)
\* Where no transfer runs, memory and requests are all that counts.
LEMMA StillOther ==
  ASSUME NEW b, NEW c, NEW n, CallOk(b, n), b.proto # "TFTP", IsBoard(c), SameStore(b, c),
         c.proto = b.proto, c.t = b.t, Requests(c) \subseteq Requests(b)
  PROVE  LoadOk(c, n)
<1>1. ArpOk(c) /\ RunOk(c) /\ ContentOk(c)
  BY DEF ArpOk, RunOk, ContentOk, Watched
<1>2. CallOk(c, n)
  BY <1>1, StillCall
<1> QED
  BY <1>1, <1>2 DEF LoadOk

LEMMA NetReceiveLoad ==
  ASSUME NEW b, NEW works, NEW n, NEW p \in OnTheWire, BoardOk(b, n), LoadOk(b, n),
         b.proto \in {"TFTP", "TFTPD", "PING"}
  PROVE  LoadOk(NetReceive(b, p, works), n)
<1>0. IsBoard(b) /\ CallOk(b, n)
  BY DEF LoadOk, CallOk
<1>1. CASE p.kind = "arprep"
  BY <1>1, ArpReplyLoad DEF NetReceive
<1>2. CASE p.kind # "arprep" /\ b.handler = "ping"
  <2> DEFINE c == [b EXCEPT !.state = "success"]
  <2>1. NetReceive(b, p, works) = b \/ NetReceive(b, p, works) = c
    BY <1>2 DEF NetReceive, PingHandler
  <2>2. /\ IsBoard(c) /\ SameStore(b, c) /\ c.proto = b.proto /\ c.t = b.t
        /\ c.out = b.out /\ c.queue = b.queue /\ c.arp = b.arp
    BY <1>0 DEF IsBoard, SameStore
  <2> HIDE DEF c
  <2>3. b.proto # "TFTP"
    BY <1>0, <1>2 DEF CallOk, RunOk
  <2>4. Requests(c) \subseteq Requests(b)
    BY <2>2 DEF Wire, Held, Requests
  <2>5. LoadOk(c, n)
    BY <1>0, <2>2, <2>3, <2>4, StillOther
  <2> QED
    BY <2>1, <2>5
<1>3. CASE p.kind \notin {"arprep", "reply"} /\ b.handler = "tftp"
  <2>1. NetReceive(b, p, works) = TftpHandler(b, p, netretry)
    BY <1>3 DEF NetReceive
  <2> QED
    BY <1>3, <2>1, TftpHandlerLoad
<1>4. CASE p.kind \notin {"arprep", "reply"} /\ b.handler = "tftpd"
  <2>1. NetReceive(b, p, works) = TftpdHandler(b, p, netretry, works)
    BY <1>4 DEF NetReceive
  <2>2. b.proto = "TFTPD"
    BY <1>0, <1>4 DEF CallOk, RunOk, BoardOk, LoopOk
  <2>3. mode # "cli"
    BY <1>0, <2>2 DEF CallOk, ModeOk
  <2> QED
    BY <2>1, <2>3, TftpdHandlerLoad
<1>5. CASE /\ p.kind # "arprep" /\ b.handler # "ping"
           /\ p.kind = "reply" \/ b.handler \notin {"tftp", "tftpd"}
  <2>1. NetReceive(b, p, works) = b
    BY <1>5 DEF NetReceive
  <2> QED
    BY <2>1
<1> QED
  BY <1>1, <1>2, <1>3, <1>4, <1>5

LEMMA ExpiredLoad ==
  ASSUME NEW b, NEW n, BoardOk(b, n), LoadOk(b, n)
  PROVE  LoadOk(Expired(b), n)
<1> DEFINE b1 == [b EXCEPT !.timer = "none"]
<1>0. IsBoard(b) /\ CallOk(b, n) /\ ContentOk(b)
  BY DEF LoadOk, CallOk
<1>1. /\ IsBoard(b1) /\ SameLoop(b, b1) /\ SameStore(b, b1) /\ SameAddress(b, b1) /\ b1.timer = "none"
      /\ b1.t = b.t /\ b1.arp = b.arp /\ b1.out = b.out /\ b1.queue = b.queue
  BY <1>0 DEF IsBoard, SameLoop, SameCall, SameStore, SameAddress
<1>2. Expired(b) = CASE b.timer = "tftp"  -> TftpTimeout(b1, netretry)
                     [] b.timer = "wait"  -> TftpdTimeout(b1)
                     [] b.timer = "tftpd" -> TftpdResend(b1)
                     [] b.timer = "ping"  -> PingTimeout(b1)
                     [] b.timer = "again" -> [b1 EXCEPT !.state = "restart"]
                     [] OTHER -> b1
  BY DEF Expired
<1> HIDE DEF b1
<1>3. Wire(b1) = Wire(b) /\ Requests(b1) = Requests(b) /\ Acks(b1) = Acks(b)
  BY <1>1 DEF Wire, Held, Requests, Acks
<1>4. BoardOk(b1, n) /\ LoadOk(b1, n)
  <2>1. BoardOk(b1, n)
    BY <1>1, <1>3, SameOk
  <2>2. CallOk(b1, n)
    BY <1>0, <1>1, <1>3, KeepsCall
  <2>3. ContentOk(b1)
    BY <1>0, <1>1, <1>3, KeepsContent
  <2> QED BY <2>1, <2>2, <2>3 DEF LoadOk
<1>5. CASE b.timer = "tftp"
  <2>1. b1.t.started /\ (b1.handler # "ignore" \/ b1.proto # "TFTP")
    BY <1>0, <1>1, <1>5 DEF BoardOk, SessionOk, CallOk, RunOk, SameLoop, SameCall
  <2> QED
    BY <1>2, <1>4, <1>5, <2>1, TftpTimeoutLoad
<1>6. ASSUME b.timer \in {"wait", "tftpd", "ping"}, NEW c, IsBoard(c), SameStore(b1, c),
             c.proto = b1.proto, c.t = b1.t, Requests(c) \subseteq Requests(b1)
      PROVE  LoadOk(c, n)
  <2>1. b1.proto # "TFTP" /\ CallOk(b1, n)
    BY <1>0, <1>1, <1>4, <1>6 DEF LoadOk, CallOk, RunOk, SameLoop, SameCall
  <2> QED
    BY <1>6, <2>1, StillOther
<1>7. CASE b.timer \in {"wait", "tftpd"}
  <2> DEFINE w == [b1 EXCEPT !.timer = "wait"]
             r == [b1 EXCEPT !.timer = "tftpd"]
             s == TftpdSend(r)
  <2>1. Expired(b) = w \/ Expired(b) = s
    BY <1>2, <1>7 DEF TftpdTimeout, TftpdResend, NetSetTimeout
  <2>2. /\ IsBoard(w) /\ SameStore(b1, w) /\ w.proto = b1.proto /\ w.t = b1.t
        /\ w.arp = b1.arp /\ w.out = b1.out /\ w.queue = b1.queue
    BY <1>1 DEF IsBoard, SameStore
  <2>3. /\ IsBoard(r) /\ SameStore(b1, r) /\ r.proto = b1.proto /\ r.t = b1.t
        /\ r.arp = b1.arp /\ r.out = b1.out /\ r.queue = b1.queue
    BY <1>1 DEF IsBoard, SameStore
  <2> HIDE DEF w, r
  <2>4. Requests(w) \subseteq Requests(b1) /\ Requests(r) \subseteq Requests(b1)
    BY <2>2, <2>3 DEF Wire, Held, Requests
  <2>5. /\ IsBoard(s) /\ SameLoop(r, s) /\ SameStore(r, s) /\ s.t = r.t
        /\ Requests(s) \subseteq Requests(r)
    BY <2>3, TftpdSends
  <2> HIDE DEF s
  <2>6. LoadOk(w, n)
    BY <1>6, <1>7, <2>2, <2>4
  <2>7. SameStore(b1, s) /\ s.proto = b1.proto /\ s.t = b1.t /\ Requests(s) \subseteq Requests(b1)
    BY <2>3, <2>4, <2>5 DEF SameStore, SameLoop, SameCall
  <2>8. LoadOk(s, n)
    BY <1>6, <1>7, <2>5, <2>7
  <2> QED BY <2>1, <2>6, <2>8
<1>8. CASE b.timer = "ping"
  <2> DEFINE c == [eth_halt(b1) EXCEPT !.state = "fail"]
  <2>1. Expired(b) = c
    BY <1>2, <1>8 DEF PingTimeout
  <2>2. /\ IsBoard(c) /\ SameStore(b1, c) /\ c.proto = b1.proto /\ c.t = b1.t
        /\ c.arp = b1.arp /\ c.out = b1.out /\ c.queue = b1.queue
    BY <1>1 DEF eth_halt, IsBoard, SameStore
  <2> HIDE DEF c
  <2>3. Requests(c) \subseteq Requests(b1)
    BY <2>2 DEF Wire, Held, Requests
  <2> QED
    BY <1>6, <1>8, <2>1, <2>2, <2>3
<1>9. CASE b.timer = "again"
  <2> DEFINE c == [b1 EXCEPT !.state = "restart"]
  <2>1. Expired(b) = c
    BY <1>2, <1>9
  <2>2. /\ IsBoard(c) /\ SameCall(b1, c) /\ SameStore(b1, c) /\ SameAddress(b1, c) /\ c.t = b1.t
        /\ c.up = b1.up /\ c.handler = b1.handler /\ c.timer = b1.timer /\ c.state = "restart"
        /\ c.arp = b1.arp /\ c.out = b1.out /\ c.queue = b1.queue
    BY <1>1 DEF IsBoard, SameCall, SameStore, SameAddress
  <2> HIDE DEF c
  <2>3. Wire(c) = Wire(b1) /\ Requests(c) \subseteq Requests(b1)
    BY <2>2 DEF Wire, Held, Requests
  <2>4. ArpOk(c) /\ RunOk(c)
    BY <1>4, <2>2, <2>3 DEF LoadOk, CallOk, ArpOk, RunOk, IsRequest, SameCall, SameAddress
  <2>5. CallOk(c, n)
    BY <1>4, <2>2, <2>3, <2>4, StillCall DEF LoadOk, SameCall
  <2>6. ASSUME Watched(c) PROVE AckedOk(c) /\ LastOk(c) /\ BlockOk(c)
    <3>1. AckedOk(b1) /\ LastOk(b1) /\ BlockOk(b1)
      BY <1>4, <2>2, <2>6 DEF LoadOk, ContentOk, Watched, SameCall, SameStore
    <3>2. AckedOk(c)
      BY <2>2, <2>3, <3>1 DEF AckedOk, Stored, SameStore
    <3>3. LastOk(c) /\ BlockOk(c)
      BY <2>2, <3>1 DEF LastOk, BlockOk, Stuck, Stored, SameStore
    <3> QED BY <3>2, <3>3
  <2> QED
    BY <2>1, <2>5, <2>6 DEF LoadOk, ContentOk
<1>10. CASE b.timer \notin {"tftp", "wait", "tftpd", "ping", "again"}
  <2>1. Expired(b) = b1
    BY <1>2, <1>10
  <2> QED
    BY <1>4, <2>1
<1> QED
  BY <1>5, <1>7, <1>8, <1>9, <1>10

-----------------------------------------------------------------------------
(***************************************************************************)
(* A NetLoop that starts, and one that ends.                               *)
(***************************************************************************)
\* What a protocol may be started on: the file may be another than that of the requests sent.
StartOk(b, n) ==
  /\ IsBoard(b) /\ "len" \in DOMAIN b.d /\ DOMAIN b.mem = Slots /\ KernelChecked(b) /\ LoadedOk(b)
  /\ b.t.started => mode = "cli"
  /\ b.proto = "TFTP" => /\ mode = "cli" /\ b.file \in Files
                         /\ netretry # "no" => b.up /\ b.queue = {}
                         /\ b.arp.ip # Nobody => b.arp.owner = "server"
  /\ b.proto = "TFTPD" => mode # "cli"
  /\ b.proto # "TFTP" => RequestsOk(b, n)
  /\ \A m \in Requests(b) : m.oport \in 1..n

LEMMA StartsOther ==
  ASSUME NEW b, NEW c, NEW n, StartOk(b, n), b.proto \in {"TFTPD", "PING"}, IsBoard(c),
         c.proto = b.proto, c.t = b.t, c.file = b.file, c.loaded = b.loaded, c.filesize = b.filesize,
         c.kernel = b.kernel, c.xfer = 0, "len" \in DOMAIN c.d, DOMAIN c.mem = Slots,
         mode = "cli" => c.mem = b.mem, Requests(c) \subseteq Requests(b)
  PROVE  LoadOk(c, n)
<1>1. KernelChecked(c) /\ ModeOk(c)
  BY DEF StartOk, KernelChecked, ModeOk
<1>2. LoadedOk(c)
  BY DEF StartOk, LoadedOk
<1>3. RequestsOk(c, n)
  BY DEF StartOk, RequestsOk, Requests
<1>4. ArpOk(c) /\ RunOk(c) /\ ContentOk(c)
  BY DEF ArpOk, RunOk, ContentOk, Watched
<1> QED
  BY <1>1, <1>2, <1>3, <1>4 DEF LoadOk, CallOk

\* A transfer has a port nothing was sent from, so nothing is acknowledged yet.
LEMMA StartsTransferLoad ==
  ASSUME NEW b, NEW c, NEW n \in Nat, StartOk(b, n), SessionOk(b, n), b.proto = "TFTP", IsBoard(c),
         c.proto = "TFTP", c.file = b.file, c.loaded = b.loaded, c.kernel = b.kernel, c.d = b.d,
         c.mem = b.mem, c.t.started = TRUE, c.t.state = "rrq", c.t.block = 0, c.t.oport = n + 1,
         c.handler = "tftp", c.timer = "tftp", c.sip = Server, ~c.ether, c.arp = b.arp,
         c.up = b.up, c.out = b.out, c.queue = b.queue, c.state = "continue"
  PROVE  LoadOk([TftpSend(c) EXCEPT !.xfer = 0], n + 1)
<1> DEFINE s == TftpSend(c)
           r == [s EXCEPT !.xfer = 0]
<1>1. Wire(c) = Wire(b) /\ Requests(c) = Requests(b)
  BY DEF Wire, Held, Requests
<1>2. CallOk(c, n + 1)
  <2>1. KernelChecked(c) /\ ModeOk(c) /\ LoadedOk(c)
    BY DEF StartOk, KernelChecked, ModeOk, LoadedOk
  <2>2. \A m \in Requests(c) : m.oport \in 1 .. n + 1 /\ m.oport # c.t.oport
    BY <1>1 DEF StartOk
  <2>3. RequestsOk(c, n + 1)
    BY <2>2 DEF RequestsOk, Requests
  <2>4. ArpOk(c)
    BY <2>2 DEF StartOk, ArpOk, IsRequest, Requests
  <2>5. RunOk(c)
    BY DEF StartOk, RunOk
  <2> QED
    BY <2>1, <2>3, <2>4, <2>5 DEF StartOk, CallOk
<1>3. /\ CallOk(s, n + 1) /\ SameLoop(c, s) /\ SameStore(c, s) /\ s.t = c.t /\ s.timer = c.timer
      /\ \A m \in Wire(s) : m.kind = "ack" => m \in Wire(c)
  <2> DEFINE n1 == n + 1
  <2>1. CallOk(c, n1) /\ c.t.oport \in 1 .. n1
    BY <1>2
  <2> HIDE DEF n1
  <2>2. /\ CallOk(s, n1) /\ SameLoop(c, s) /\ SameStore(c, s) /\ s.t = c.t /\ s.timer = c.timer
        /\ \A m \in Wire(s) : m.kind = "ack" =>
             m \in Wire(c) \/ (m = AckOf(c.t) /\ c.t.state # "rrq" /\ c.up)
    BY <2>1, TftpSendCall
  <2> QED BY <2>2 DEF n1
<1> HIDE DEF s
<1>4. /\ IsBoard(r) /\ SameLoop(s, r) /\ SameAddress(s, r) /\ r.t = s.t /\ r.timer = s.timer
      /\ r.arp = s.arp /\ r.out = s.out /\ r.queue = s.queue
      /\ r.file = s.file /\ r.loaded = s.loaded /\ r.filesize = s.filesize /\ r.mem = s.mem
      /\ r.kernel = s.kernel /\ r.d = s.d /\ r.xfer = 0
  BY <1>3 DEF CallOk, IsBoard, SameLoop, SameCall, SameAddress
<1> HIDE DEF r
<1>5. Wire(r) = Wire(s) /\ Requests(r) = Requests(s)
  BY <1>4 DEF Wire, Held, Requests
<1>6. CallOk(r, n + 1)
  <2>1. KernelChecked(r) /\ ModeOk(r) /\ LoadedOk(r)
    BY <1>3, <1>4 DEF CallOk, KernelChecked, ModeOk, LoadedOk, SameLoop, SameCall
  <2>2. RequestsOk(r, n + 1)
    BY <1>3, <1>4, <1>5 DEF CallOk, RequestsOk, Requests
  <2>3. ArpOk(r)
    BY <1>3, <1>4, <1>5 DEF CallOk, ArpOk, IsRequest, SameLoop, SameCall, SameAddress
  <2>4. RunOk(r)
    BY <1>3, <1>4 DEF CallOk, RunOk, SameLoop, SameCall
  <2> QED
    BY <1>3, <1>4, <2>1, <2>2, <2>3, <2>4 DEF CallOk
<1>7. ASSUME Watched(r) PROVE AckedOk(r) /\ LastOk(r) /\ BlockOk(r)
  <2>1. /\ r.t.oport = n + 1 /\ r.t.state = "rrq" /\ r.t.block = 0 /\ r.xfer = 0
        /\ r.state = "continue" /\ r.file = b.file
    BY <1>3, <1>4 DEF SameLoop, SameStore
  <2>2. \A m \in Wire(r) : m.kind = "ack" => m.oport \in 1..n
    BY <1>1, <1>3, <1>5 DEF SessionOk, AllAcks, Acks, Wire, Sent
  <2>3. AckedOk(r)
    BY <2>1, <2>2 DEF AckedOk
  <2>4. Length(r.file) \in Nat
    BY <1>6, <1>7, FileSize DEF Length, Full, Short
  <2>5. LastOk(r) /\ BlockOk(r)
    BY <2>1, <2>4 DEF LastOk, BlockOk
  <2> QED BY <2>3, <2>5
<1> QED
  BY <1>6, <1>7 DEF LoadOk, ContentOk, r, s

LEMMA StartingLoad ==
  ASSUME NEW b, NEW n \in Nat, StartOk(b, n), SessionOk(b, n), b.proto \in {"TFTP", "TFTPD", "PING"}
  PROVE  LoadOk(Starting(b, n + 1), Ports(b, n))
<1> DEFINE b1 == [b EXCEPT !.state = "continue", !.sip = Server]
           b2 == CASE b.proto = "TFTP"  -> TftpStart(b1, n + 1)
                   [] b.proto = "TFTPD" -> TftpdStart(b1)
                   [] b.proto = "PING"  -> PingStart(b1)
           b3 == [b2 EXCEPT !.xfer = 0]
<1>0. IsBoard(b) /\ "len" \in DOMAIN b.d /\ DOMAIN b.mem = Slots
  BY DEF StartOk
<1>1. /\ IsBoard(b1) /\ SameStore(b, b1) /\ b1.proto = b.proto /\ b1.state = "continue" /\ b1.sip = Server
      /\ b1.t = b.t /\ b1.arp = b.arp /\ b1.out = b.out /\ b1.queue = b.queue /\ b1.up = b.up
  BY <1>0 DEF IsBoard, SameStore
<1>2. Starting(b, n + 1) = b3
  <2> HIDE DEF b1
  <2>1. Starting(b, n + 1) =
          [(CASE b1.proto = "TFTP"  -> TftpStart(b1, n + 1)
              [] b1.proto = "TFTPD" -> TftpdStart(b1)
              [] b1.proto = "PING"  -> PingStart(b1)) EXCEPT !.xfer = 0]
    BY DEF Starting, b1
  <2> QED
    BY <1>1, <2>1
<1> HIDE DEF b1
<1>3. CASE b.proto = "TFTP"
  <2> DEFINE c0 == NetSetHandler(NetSetTimeout(b1, "tftp"), "tftp")
             t == [b1.t EXCEPT !.started = TRUE, !.state = "rrq", !.block = 0,
                               !.sport = WellKnown, !.oport = n + 1, !.tries = 0]
             c == [c0 EXCEPT !.ether = FALSE, !.t = t]
  <2>1. /\ IsBoard(c0) /\ SameStore(b1, c0) /\ c0.proto = b1.proto /\ c0.state = b1.state
        /\ c0.sip = b1.sip /\ c0.t = b1.t /\ c0.arp = b1.arp /\ c0.out = b1.out /\ c0.queue = b1.queue
        /\ c0.up = b1.up /\ c0.handler = "tftp" /\ c0.timer = "tftp"
    BY <1>1 DEF NetSetHandler, NetSetTimeout, IsBoard, SameStore
  <2>2. b2 = TftpSend(c)
    BY <1>3, <2>1 DEF TftpStart
  <2>3. /\ {"started", "state", "block", "last", "wrap", "sport", "oport", "tries"} \subseteq DOMAIN t
        /\ t.started = TRUE /\ t.state = "rrq" /\ t.block = 0 /\ t.oport = n + 1
    BY <1>1 DEF IsBoard
  <2> HIDE DEF c0, t
  <2>4. /\ IsBoard(c) /\ SameStore(c0, c) /\ c.proto = c0.proto /\ c.state = c0.state
        /\ c.sip = c0.sip /\ c.t = t /\ c.arp = c0.arp /\ c.out = c0.out /\ c.queue = c0.queue
        /\ c.up = c0.up /\ c.handler = "tftp" /\ c.timer = "tftp" /\ ~c.ether
    BY <2>1, <2>3 DEF IsBoard, SameStore
  <2> HIDE DEF c
  <2>5. /\ c.proto = "TFTP" /\ c.file = b.file /\ c.loaded = b.loaded /\ c.kernel = b.kernel
        /\ c.d = b.d /\ c.mem = b.mem /\ c.t.started = TRUE /\ c.t.state = "rrq" /\ c.t.block = 0
        /\ c.t.oport = n + 1 /\ c.sip = Server /\ c.arp = b.arp
        /\ c.up = b.up /\ c.out = b.out /\ c.queue = b.queue /\ c.state = "continue"
    BY <1>1, <1>3, <2>1, <2>3, <2>4 DEF SameStore
  <2>6. LoadOk([TftpSend(c) EXCEPT !.xfer = 0], n + 1)
    BY <1>3, <2>4, <2>5, StartsTransferLoad
  <2> QED
    BY <1>2, <1>3, <2>2, <2>6 DEF Ports
<1>4. ASSUME NEW s, IsBoard(s), b2 = s, b.proto \in {"TFTPD", "PING"},
             s.proto = b.proto, s.t = b.t, s.file = b.file, s.loaded = b.loaded,
             s.filesize = b.filesize, s.kernel = b.kernel, "len" \in DOMAIN s.d,
             DOMAIN s.mem = Slots, mode = "cli" => s.mem = b.mem, Requests(s) \subseteq Requests(b)
      PROVE  LoadOk(b3, Ports(b, n))
  <2> DEFINE r == [s EXCEPT !.xfer = 0]
  <2>1. /\ IsBoard(r) /\ r.proto = s.proto /\ r.t = s.t /\ r.file = s.file /\ r.loaded = s.loaded
        /\ r.filesize = s.filesize /\ r.kernel = s.kernel /\ r.d = s.d /\ r.mem = s.mem /\ r.xfer = 0
        /\ r.arp = s.arp /\ r.out = s.out /\ r.queue = s.queue
    BY <1>4 DEF IsBoard
  <2>2. b3 = r
    BY <1>4
  <2> HIDE DEF r, b2, b3
  <2>3. Requests(r) \subseteq Requests(b)
    BY <1>4, <2>1 DEF Wire, Held, Requests
  <2>4. LoadOk(r, n)
    BY <1>4, <2>1, <2>3, StartsOther
  <2> QED
    BY <1>4, <2>2, <2>4 DEF Ports
<1>5. CASE b.proto = "TFTPD"
  <2> DEFINE c0 == NetSetHandler(NetSetTimeout(b1, "wait"), "tftpd")
             m == [b1.mem EXCEPT ![0] = Empty]
             d == [b1.d EXCEPT !.state = "rrq", !.block = 0, !.len = 0, !.ok = FALSE]
             s == [c0 EXCEPT !.ether = FALSE, !.mem = m, !.d = d]
  <2>1. /\ IsBoard(c0) /\ SameStore(b1, c0) /\ c0.proto = b1.proto /\ c0.t = b1.t /\ c0.arp = b1.arp
        /\ c0.out = b1.out /\ c0.queue = b1.queue
    BY <1>1 DEF NetSetHandler, NetSetTimeout, IsBoard, SameStore
  <2>2. DOMAIN m = Slots /\ "len" \in DOMAIN d
    BY <1>0, <1>1 DEF SameStore
  <2>3. TftpdStart(b1) = s
    BY <2>1 DEF TftpdStart, IsBoard, SameStore
  <2>4. b2 = s
    BY <1>5, <2>3
  <2> HIDE DEF c0, m, d
  <2>5. /\ IsBoard(s) /\ s.proto = c0.proto /\ s.t = c0.t /\ s.arp = c0.arp /\ s.out = c0.out
        /\ s.queue = c0.queue /\ s.file = c0.file /\ s.loaded = c0.loaded
        /\ s.filesize = c0.filesize /\ s.kernel = c0.kernel /\ s.mem = m /\ s.d = d
    BY <2>1 DEF IsBoard
  <2> HIDE DEF s, b2, b3
  <2>6. /\ s.proto = b.proto /\ s.t = b.t /\ s.file = b.file /\ s.loaded = b.loaded
        /\ s.filesize = b.filesize /\ s.kernel = b.kernel
        /\ s.arp = b.arp /\ s.out = b.out /\ s.queue = b.queue
    BY <1>1, <2>1, <2>5 DEF SameStore
  <2>7. Requests(s) \subseteq Requests(b)
    BY <2>6 DEF Wire, Held, Requests
  <2>8. mode # "cli"
    BY <1>5 DEF StartOk
  <2>9. LoadOk(b3, Ports(b, n))
    BY <1>4, <1>5, <2>2, <2>4, <2>5, <2>6, <2>7, <2>8
  <2> QED
    BY <1>2, <2>9
<1>6. CASE b.proto = "PING"
  <2> DEFINE w == NetSetHandler(NetSetTimeout(b1, "ping"), "ping")
             pkt == [kind |-> "echo", ip |-> w.host]
             ip == w.host
             s == WaitForArp(w, ip, "ping", pkt)
  <2>1. b2 = s
    BY <1>1, <1>6 DEF PingStart, PingSend
  <2>2. /\ IsBoard(w) /\ SameStore(b1, w) /\ w.proto = b1.proto /\ w.t = b1.t /\ w.arp = b1.arp
        /\ w.out = b1.out /\ w.queue = b1.queue
    BY <1>1 DEF NetSetHandler, NetSetTimeout, IsBoard, SameStore
  <2>3. pkt.kind # "rrq" /\ ArpReq(ip).kind # "rrq"
    BY DEF ArpReq
  <2> HIDE DEF w, pkt, ip
  <2>4. Sends(w, s, {ArpReq(ip)}) /\ s.arp.ip = ip /\ s.arp.owner = "ping" /\ s.arp.pkt = pkt
    BY <2>2, WaitSends
  <2> HIDE DEF s, b2, b3
  <2>5. /\ IsBoard(s) /\ s.proto = b.proto /\ s.t = b.t /\ s.file = b.file /\ s.loaded = b.loaded
        /\ s.filesize = b.filesize /\ s.kernel = b.kernel /\ s.d = b.d /\ s.mem = b.mem
    BY <1>1, <2>2, <2>4 DEF Sends, SameStore, SameLoop, SameCall
  <2>6. Requests(s) \subseteq Requests(b)
    BY <1>1, <2>2, <2>3, <2>4 DEF Sends, Wire, Held, Requests
  <2>7. LoadOk(b3, Ports(b, n))
    BY <1>0, <1>4, <1>6, <2>1, <2>5, <2>6
  <2> QED
    BY <1>2, <2>7
<1> QED
  BY <1>3, <1>5, <1>6

\* After a reset only memory and flash keep anything; what was sent stays sent.
LEMMA FreshLoad ==
  ASSUME NEW b, NEW n, CallOk(b, n)
  PROVE  LoadOk([Fresh(b.mem, b.kernel) EXCEPT !.out = b.out], n)
<1> DEFINE c == [Fresh(b.mem, b.kernel) EXCEPT !.out = b.out]
<1>1. /\ IsBoard(c) /\ c.proto = "none" /\ c.t.started = FALSE /\ c.t.oport = 0 /\ c.loaded = Nobody
      /\ c.queue = {} /\ c.arp.ip = Nobody /\ c.out = b.out /\ c.mem = b.mem /\ c.kernel = b.kernel
      /\ "len" \in DOMAIN c.d
  BY DEF Fresh, NoArpWait, IsBoard
<1> HIDE DEF c
<1>2. Wire(c) = Wire(b) /\ Held(c) = {}
  BY <1>1 DEF Wire, Held
<1>3. RequestsOk(c, n)
  BY <1>1, <1>2 DEF CallOk, RequestsOk
<1>4. KernelChecked(c) /\ ModeOk(c) /\ LoadedOk(c) /\ ArpOk(c) /\ RunOk(c) /\ ContentOk(c)
  BY <1>1 DEF CallOk, KernelChecked, ModeOk, LoadedOk, ArpOk, RunOk, ContentOk, Watched
<1> QED
  BY <1>1, <1>3, <1>4 DEF LoadOk, CallOk, c

\* At the prompt only memory, flash and requests count.
LEMMA PromptLoad ==
  ASSUME NEW b, NEW c, NEW n, CallOk(b, n), IsBoard(c), c.proto = "none", c.t = b.t, c.file = b.file,
         c.mem = b.mem, c.kernel = b.kernel, c.d = b.d, LoadedOk(c), Requests(c) \subseteq Requests(b)
  PROVE  LoadOk(c, n)
<1>1. KernelChecked(c) /\ ModeOk(c) /\ ArpOk(c) /\ RunOk(c) /\ ContentOk(c)
  BY DEF CallOk, KernelChecked, ModeOk, ArpOk, RunOk, ContentOk, Watched
<1>2. RequestsOk(c, n)
  BY DEF CallOk, RequestsOk, Requests
<1> QED
  BY <1>1, <1>2 DEF LoadOk, CallOk

LEMMA FailedLoad ==
  ASSUME NEW b, NEW n, CallOk(b, n), NEW h, IsBoard(h), SameStore(b, h), h.proto = b.proto, h.t = b.t,
         h.out = b.out, h.queue = b.queue, h.arp = b.arp
  PROVE  LoadOk(Failed(h), n)
<1>1. CASE b.proto = "TFTPD"
  <2>1. Failed(h) = [Fresh(b.mem, b.kernel) EXCEPT !.out = b.out]
    BY <1>1 DEF Failed, SameStore
  <2> QED
    BY <2>1, FreshLoad
<1>2. CASE b.proto # "TFTPD"
  <2> DEFINE c == [h EXCEPT !.proto = "none", !.ret = "failed"]
  <2>1. Failed(h) = c
    BY <1>2 DEF Failed
  <2>2. /\ IsBoard(c) /\ c.proto = "none" /\ c.t = b.t /\ c.file = b.file /\ c.mem = b.mem
        /\ c.kernel = b.kernel /\ c.d = b.d /\ c.loaded = b.loaded /\ c.filesize = b.filesize
        /\ c.out = b.out /\ c.queue = b.queue /\ c.arp = b.arp
    BY DEF IsBoard, SameStore
  <2> HIDE DEF c
  <2>3. LoadedOk(c)
    BY <2>2 DEF CallOk, LoadedOk
  <2>4. Requests(c) \subseteq Requests(b)
    BY <2>2 DEF Wire, Held, Requests
  <2> QED
    BY <2>1, <2>2, <2>3, <2>4, PromptLoad
<1> QED
  BY <1>1, <1>2

\* A success of a transfer is the whole file; that of a ping changes nothing.
LEMMA SucceededLoad ==
  ASSUME NEW b, NEW n, LoadOk(b, n), b.state = "success", b.proto \in {"TFTP", "TFTPD", "PING"}
  PROVE  LoadOk(Succeeded(b), n)
<1> DEFINE h == eth_halt(b)
           b1 == [h EXCEPT !.proto = "none", !.filesize = IF b.xfer > 0 THEN b.xfer ELSE @]
<1>0. IsBoard(b) /\ CallOk(b, n)
  BY DEF LoadOk, CallOk
<1>1. /\ IsBoard(h) /\ SameStore(b, h) /\ h.t = b.t /\ h.out = b.out /\ h.queue = b.queue /\ h.arp = b.arp
  BY <1>0 DEF eth_halt, IsBoard, SameStore
<1>2. Succeeded(b) = CASE b.proto = "TFTP"  -> [b1 EXCEPT !.ret = "loaded", !.loaded = b.file]
                       [] b.proto = "PING"  -> [b1 EXCEPT !.ret = "alive"]
                       [] OTHER -> [Fresh(b.mem, b.kernel) EXCEPT !.out = b.out]
  BY DEF Succeeded
<1> HIDE DEF h
<1>3. /\ IsBoard(b1) /\ b1.proto = "none" /\ b1.t = b.t /\ b1.file = b.file /\ b1.mem = b.mem
      /\ b1.kernel = b.kernel /\ b1.d = b.d /\ b1.loaded = b.loaded
      /\ b1.filesize = (IF b.xfer > 0 THEN b.xfer ELSE b.filesize)
      /\ b1.out = b.out /\ b1.queue = b.queue /\ b1.arp = b.arp
  BY <1>1 DEF IsBoard, SameStore
<1> HIDE DEF b1
<1>4. CASE b.proto = "TFTP"
  <2> DEFINE c == [b1 EXCEPT !.ret = "loaded", !.loaded = b.file]
  <2>1. Succeeded(b) = c
    BY <1>2, <1>4
  <2>2. /\ IsBoard(c) /\ c.proto = "none" /\ c.t = b.t /\ c.file = b.file /\ c.mem = b.mem
        /\ c.kernel = b.kernel /\ c.d = b.d /\ c.loaded = b.file /\ c.filesize = b1.filesize
        /\ c.out = b.out /\ c.queue = b.queue /\ c.arp = b.arp
    BY <1>3 DEF IsBoard
  <2> HIDE DEF c
  <2>3. ASSUME netretry # "once", ~Wraps(b.file)
        PROVE  InMemory(b.mem, b.file) /\ b1.filesize = Length(b.file)
    <3>1. Watched(b)
      BY <1>4, <2>3 DEF Watched
    <3>2. b.xfer = Length(b.file) /\ \A k \in 1 .. Size[b.file] : Stored(b, k)
      BY <3>1 DEF LoadOk, ContentOk, LastOk
    <3>3. Length(b.file) > 0
      BY <1>0, <3>1, FileSize DEF Length, Full, Short
    <3> QED
      BY <1>3, <3>2, <3>3 DEF InMemory, Stored
  <2>4. LoadedOk(c)
    BY <1>0, <1>4, <2>2, <2>3 DEF LoadedOk, CallOk, ModeOk
  <2>5. Requests(c) \subseteq Requests(b)
    BY <2>2 DEF Wire, Held, Requests
  <2> QED
    BY <1>0, <2>1, <2>2, <2>4, <2>5, PromptLoad
<1>5. CASE b.proto = "PING"
  <2> DEFINE c == [b1 EXCEPT !.ret = "alive"]
  <2>1. Succeeded(b) = c
    BY <1>2, <1>5
  <2>2. /\ IsBoard(c) /\ c.proto = "none" /\ c.t = b.t /\ c.file = b.file /\ c.mem = b.mem
        /\ c.kernel = b.kernel /\ c.d = b.d /\ c.loaded = b.loaded /\ c.filesize = b1.filesize
        /\ c.out = b.out /\ c.queue = b.queue /\ c.arp = b.arp
    BY <1>3 DEF IsBoard
  <2> HIDE DEF c
  <2>3. b.xfer = 0
    BY <1>0, <1>5 DEF CallOk, ModeOk
  <2>4. LoadedOk(c)
    BY <1>0, <1>3, <2>2, <2>3 DEF CallOk, LoadedOk
  <2>5. Requests(c) \subseteq Requests(b)
    BY <2>2 DEF Wire, Held, Requests
  <2> QED
    BY <1>0, <2>1, <2>2, <2>4, <2>5, PromptLoad
<1>6. CASE b.proto = "TFTPD"
  <2>1. Succeeded(b) = [Fresh(b.mem, b.kernel) EXCEPT !.out = b.out]
    BY <1>2, <1>6
  <2> QED
    BY <1>0, <2>1, FreshLoad
<1> QED
  BY <1>4, <1>5, <1>6

-----------------------------------------------------------------------------
(***************************************************************************)
(* The inductive invariant, and that every action keeps it.                *)
(***************************************************************************)
LoadInv == LoadOk(board, starts)

\* What a call sends is what has been sent after the step.
LEMMA StepLoad ==
  ASSUME NEW c, Step(c), LoadOk(c, starts'), mode' = mode, netretry' = netretry
  PROVE  LoadInv'
<1>0. IsBoard(c) /\ CallOk(c, starts')
  BY DEF LoadOk, CallOk
<1>1. board' = [c EXCEPT !.out = {}] /\ sent' = sent \cup c.out
  BY DEF Step
<1>2. /\ IsBoard(board') /\ SameLoop(c, board') /\ SameStore(c, board') /\ SameAddress(c, board')
      /\ board'.t = c.t /\ board'.timer = c.timer /\ board'.arp = c.arp /\ board'.queue = c.queue
      /\ board'.out = {}
  BY <1>0, <1>1 DEF IsBoard, SameLoop, SameCall, SameStore, SameAddress
<1>3. Wire(board)' = Wire(c)
  BY <1>1, <1>2 DEF Wire
<1>4. Held(board)' = Held(c)
  BY <1>2 DEF Held
<1>5. KernelChecked(board)' /\ ModeOk(board)'
  BY <1>0, <1>2 DEF CallOk, KernelChecked, ModeOk, SameLoop, SameCall, SameStore
<1>6. LoadedOk(board)'
  BY <1>0, <1>2 DEF CallOk, LoadedOk, SameLoop, SameCall, SameStore
<1>7. RequestsOk(board, starts)'
  BY <1>0, <1>2, <1>3, <1>4 DEF CallOk, RequestsOk, SameStore
<1>8. ArpOk(board)'
  BY <1>0, <1>2, <1>3 DEF CallOk, ArpOk, IsRequest, SameLoop, SameCall, SameAddress
<1>9. RunOk(board)'
  BY <1>0, <1>2 DEF CallOk, RunOk, SameLoop, SameCall
<1>10. CallOk(board, starts)'
  BY <1>0, <1>2, <1>5, <1>6, <1>7, <1>8, <1>9 DEF CallOk, SameStore
<1>11. ASSUME Watched(board)' PROVE AckedOk(board)' /\ LastOk(board)' /\ BlockOk(board)'
  <2>1. AckedOk(c) /\ LastOk(c) /\ BlockOk(c)
    BY <1>2, <1>11 DEF LoadOk, ContentOk, Watched, SameLoop, SameCall, SameStore
  <2>2. AckedOk(board)'
    BY <1>2, <1>3, <2>1 DEF AckedOk, Stored, SameStore
  <2>3. LastOk(board)'
    BY <1>2, <2>1 DEF LastOk, Stored, SameStore, SameLoop
  <2>4. BlockOk(board)'
    BY <1>2, <2>1 DEF BlockOk, Stuck, Stored, SameStore, SameLoop
  <2> QED BY <2>2, <2>3, <2>4
<1> QED
  BY <1>10, <1>11 DEF LoadInv, LoadOk, ContentOk

\* NetLoop begins with the device halted and started, and what its ring held sent.
LEMMA NetLoopLoad ==
  ASSUME IInv, LoadInv, NEW b, NetLoop(b), IsBoard(b), b.t = board.t, b.out = board.out,
         b.queue = board.queue, b.proto \in {"TFTP", "TFTPD", "PING"},
         b.handler = board.handler, b.timer = board.timer,
         b.mem = board.mem, b.kernel = board.kernel, b.d = board.d, b.filesize = board.filesize,
         b.proto = "TFTP" => mode = "cli" /\ b.file \in Files /\ b.loaded = Nobody,
         b.proto # "TFTP" => b.file = board.file /\ b.loaded = board.loaded,
         b.proto = "TFTPD" => mode # "cli"
  PROVE  LoadInv'
<1> DEFINE b0 == [b EXCEPT !.arp = NoArpWait, !.ret = "none"]
           h == eth_halt(b0)
           i == eth_init(h)
           c == Starting(i, starts + 1)
<1>0. starts \in Nat /\ SessionOk(board, starts) /\ CallOk(board, starts) /\ board.proto = "none"
  BY DEF IInv, LoadInv, LoadOk, NetLoop
<1>1. /\ IsBoard(b0) /\ SameStore(b, b0) /\ b0.proto = b.proto /\ b0.t = b.t /\ b0.out = b.out
      /\ b0.queue = b.queue /\ b0.arp.ip = Nobody
      /\ b0.handler = b.handler /\ b0.timer = b.timer
  BY DEF NoArpWait, IsBoard, SameStore
<1>2. Step(c) /\ netretry' = netretry /\ mode' = mode
      /\ starts' = IF b0.proto = "TFTP" THEN starts + 1 ELSE starts
  BY <1>1 DEF NetLoop, NewPort, StartsTransfer
<1> HIDE DEF b0
<1>3. /\ IsBoard(h) /\ SameStore(b0, h) /\ h.proto = b0.proto /\ h.t = b0.t /\ h.out = b0.out
      /\ h.queue = b0.queue /\ h.arp = b0.arp /\ h.handler = b0.handler /\ h.timer = b0.timer
  BY <1>1 DEF eth_halt, IsBoard, SameStore
<1> HIDE DEF h
<1>4. /\ IsBoard(i) /\ SameStore(h, i) /\ i.proto = h.proto /\ i.t = h.t /\ i.out = h.out \cup h.queue
      /\ i.queue = {} /\ i.arp = h.arp /\ i.up = TRUE /\ i.handler = h.handler /\ i.timer = h.timer
  BY <1>3 DEF eth_init, IsBoard, SameStore
<1> HIDE DEF i
<1>5. /\ SameStore(b, i) /\ i.proto = b.proto /\ i.t = board.t /\ i.arp.ip = Nobody
      /\ i.handler = board.handler /\ i.timer = board.timer
      /\ i.out = board.out \cup board.queue
  BY <1>1, <1>3, <1>4 DEF SameStore
<1>6. SessionOk(i, starts)
  <2>1. AllAcks(i) \subseteq AllAcks(board)
    BY <1>4, <1>5 DEF AllAcks, Acks
  <2> QED
    BY <1>0, <1>5, <2>1 DEF SessionOk
<1>7. Requests(i) \subseteq Requests(board)
  BY <1>4, <1>5 DEF Requests, Wire, Held
<1>8. StartOk(i, starts)
  <2>1. KernelChecked(i) /\ LoadedOk(i)
    BY <1>0, <1>5 DEF CallOk, KernelChecked, LoadedOk, SameStore
  <2>2. \A m \in Requests(i) : m.oport \in 1 .. starts
    BY <1>0, <1>7 DEF CallOk, RequestsOk, Requests
  <2>3. i.proto # "TFTP" => RequestsOk(i, starts)
    BY <1>0, <1>5, <1>7 DEF CallOk, RequestsOk, Requests, SameStore
  <2> QED
    BY <1>0, <1>4, <1>5, <2>1, <2>2, <2>3 DEF StartOk, CallOk, ModeOk, SameStore
<1>9. LoadOk(c, Ports(i, starts))
  BY <1>0, <1>5, <1>6, <1>8, StartingLoad
<1> HIDE DEF c
<1>10. starts' = Ports(i, starts)
  BY <1>1, <1>2, <1>5 DEF Ports
<1> QED
  BY <1>2, <1>9, <1>10, StepLoad

LEMMA PassLoad ==
  ASSUME IInv, LoadInv, NEW arpdue \in BOOLEAN, NEW due \in BOOLEAN, Pass(arpdue, due)
  PROVE  LoadInv'
<1> DEFINE b1 == IF arpdue THEN ArpTimeout(board, netretry) ELSE board
           b2 == IF due THEN Expired(b1) ELSE b1
           c == Starting(b2, starts + 1)
<1>0. /\ board.proto \in {"TFTP", "TFTPD", "PING"} /\ netretry' = netretry /\ mode' = mode
      /\ \/ b2.state = "continue" /\ Step(b2) /\ starts' = starts
         \/ b2.state = "restart" /\ Step(c) /\ starts' = IF b2.proto = "TFTP" THEN starts + 1 ELSE starts
         \/ b2.state = "success" /\ Step(Succeeded(b2)) /\ starts' = starts
         \/ b2.state = "fail" /\ Step(Failed(b2)) /\ starts' = starts
  BY DEF Pass, IInv, NewPort, StartsTransfer
<1>1. starts \in Nat /\ BoardOk(board, starts) /\ LoadOk(board, starts)
  BY <1>0 DEF IInv, BoardOk, LoadInv
<1>2. BoardOk(b1, starts) /\ SameCall(board, b1) /\ LoadOk(b1, starts)
  BY <1>1, ArpTimeoutOk, ArpTimeoutLoad DEF SameCall
<1> HIDE DEF b1
<1>3. Ended(b2, starts) /\ SameCall(board, b2) /\ LoadOk(b2, starts)
  <2>1. Ended(Expired(b1), starts) /\ SameCall(b1, Expired(b1)) /\ LoadOk(Expired(b1), starts)
    BY <1>2, ExpiredOk, ExpiredLoad
  <2> QED
    BY <1>2, <2>1 DEF BoardOk, Ended, SameCall
<1> HIDE DEF b2
<1>4. b2.proto \in {"TFTP", "TFTPD", "PING"}
  BY <1>0, <1>3 DEF SameCall
<1>5. CASE b2.state = "continue" /\ Step(b2) /\ starts' = starts
  BY <1>0, <1>3, <1>5, StepLoad
<1>6. CASE b2.state = "restart" /\ Step(c) /\ starts' = IF b2.proto = "TFTP" THEN starts + 1 ELSE starts
  <2>1. StartOk(b2, starts)
    <3>1. CallOk(b2, starts)
      BY <1>3 DEF LoadOk
    <3>2. \A m \in Requests(b2) : m.oport \in 1 .. starts
      BY <3>1 DEF CallOk, RequestsOk, Requests
    <3> QED
      BY <3>1, <3>2 DEF StartOk, CallOk, ModeOk, ArpOk, RunOk
  <2>2. LoadOk(c, Ports(b2, starts))
    BY <1>1, <1>3, <1>4, <2>1, StartingLoad DEF Ended
  <2> HIDE DEF c
  <2>3. starts' = Ports(b2, starts)
    BY <1>6 DEF Ports
  <2> QED
    BY <1>0, <1>6, <2>2, <2>3, StepLoad
<1>7. CASE b2.state = "success" /\ Step(Succeeded(b2)) /\ starts' = starts
  <2>1. LoadOk(Succeeded(b2), starts)
    BY <1>3, <1>4, <1>7, SucceededLoad
  <2> QED
    BY <1>0, <1>7, <2>1, StepLoad
<1>8. CASE b2.state = "fail" /\ Step(Failed(b2)) /\ starts' = starts
  <2>1. LoadOk(Failed(b2), starts)
    BY <1>3, FailedLoad DEF LoadOk, CallOk, SameStore
  <2> QED
    BY <1>0, <1>8, <2>1, StepLoad
<1> QED
  BY <1>0, <1>5, <1>6, <1>7, <1>8

LEMMA LoadStep ==
  ASSUME IInv, LoadInv, [Next]_vars
  PROVE  LoadInv'
<1>0. IsBoard(board) /\ CallOk(board, starts)
  BY DEF LoadInv, LoadOk, CallOk
<1>1. ASSUME NEW f \in Files, do_tftpb(f) PROVE LoadInv'
  <2> DEFINE b == [board EXCEPT !.proto = "TFTP", !.file = f, !.loaded = Nobody]
  <2>1. NetLoop(b) /\ mode = "cli"
    BY <1>1 DEF do_tftpb
  <2>2. /\ IsBoard(b) /\ b.t = board.t /\ b.out = board.out /\ b.queue = board.queue
        /\ b.handler = board.handler /\ b.timer = board.timer
        /\ b.mem = board.mem /\ b.kernel = board.kernel /\ b.d = board.d
        /\ b.filesize = board.filesize /\ b.proto = "TFTP" /\ b.file = f /\ b.loaded = Nobody
    BY <1>0 DEF IsBoard
  <2> HIDE DEF b
  <2> QED BY <2>1, <2>2, NetLoopLoad
<1>2. ASSUME NEW a, do_ping(a) PROVE LoadInv'
  <2> DEFINE b == [board EXCEPT !.proto = "PING", !.host = a]
  <2>1. NetLoop(b)
    BY <1>2 DEF do_ping
  <2>2. /\ IsBoard(b) /\ b.t = board.t /\ b.out = board.out /\ b.queue = board.queue
        /\ b.handler = board.handler /\ b.timer = board.timer
        /\ b.mem = board.mem /\ b.kernel = board.kernel /\ b.d = board.d
        /\ b.filesize = board.filesize /\ b.proto = "PING" /\ b.file = board.file
        /\ b.loaded = board.loaded
    BY <1>0 DEF IsBoard
  <2> HIDE DEF b
  <2> QED BY <2>1, <2>2, NetLoopLoad
<1>3. CASE launch_recovery
  <2> DEFINE b == [board EXCEPT !.proto = "TFTPD"]
  <2>1. NetLoop(b) /\ mode # "cli"
    BY <1>3 DEF launch_recovery
  <2>2. /\ IsBoard(b) /\ b.t = board.t /\ b.out = board.out /\ b.queue = board.queue
        /\ b.handler = board.handler /\ b.timer = board.timer
        /\ b.mem = board.mem /\ b.kernel = board.kernel /\ b.d = board.d
        /\ b.filesize = board.filesize /\ b.proto = "TFTPD" /\ b.file = board.file
        /\ b.loaded = board.loaded
    BY <1>0 DEF IsBoard
  <2> HIDE DEF b
  <2> QED BY <2>1, <2>2, NetLoopLoad
<1>4. ASSUME NEW p \in OnTheWire, NEW works \in BOOLEAN, eth_rx(p, works) PROVE LoadInv'
  <2> DEFINE c == NetReceive(board, p, works)
  <2>1. /\ board.proto \in {"TFTP", "TFTPD", "PING"} /\ netretry' = netretry /\ mode' = mode
        /\ Step(c) /\ starts' = starts
    BY <1>4 DEF eth_rx, IInv
  <2>2. BoardOk(board, starts) /\ LoadOk(board, starts)
    BY <2>1 DEF IInv, BoardOk, LoadInv
  <2>3. LoadOk(c, starts)
    BY <2>1, <2>2, NetReceiveLoad
  <2> HIDE DEF c
  <2> QED
    BY <2>1, <2>3, StepLoad
<1>5. CASE LoopPasses
  BY <1>5, PassLoad DEF LoopPasses
<1>6. CASE CtrlC
  <2> DEFINE h == eth_halt(board)
  <2>1. Step(Failed(h)) /\ starts' = starts /\ netretry' = netretry /\ mode' = mode
    BY <1>6 DEF CtrlC
  <2>2. /\ IsBoard(h) /\ SameStore(board, h) /\ h.proto = board.proto /\ h.t = board.t
        /\ h.out = board.out /\ h.queue = board.queue /\ h.arp = board.arp
    BY <1>0 DEF eth_halt, IsBoard, SameStore
  <2> HIDE DEF h
  <2>3. LoadOk(Failed(h), starts)
    BY <1>0, <2>2, FailedLoad
  <2> QED
    BY <2>1, <2>3, StepLoad
<1>7. CASE UNCHANGED vars
  BY <1>7 DEF vars, LoadInv, LoadOk, CallOk, ContentOk, Watched, AckedOk, LastOk, BlockOk, Stuck, Stored,
              KernelChecked, ModeOk, LoadedOk, RequestsOk, ArpOk, RunOk, IsRequest, Wire, Held
<1> QED
  BY <1>1, <1>2, <1>3, <1>4, <1>5, <1>6, <1>7 DEF Next, Receives

LEMMA LoadInit == Init => LoadInv
<1> SUFFICES ASSUME Init PROVE LoadInv
  OBVIOUS
<1> DEFINE mem == [i \in Slots |-> Empty]
<1>1. board = Fresh(mem, Nobody) /\ sent = {} /\ starts = 0
  BY DEF Init
<1>2. DOMAIN mem = Slots
  OBVIOUS
<1> HIDE DEF mem
<1>3. /\ IsBoard(board) /\ board.proto = "none" /\ board.t.started = FALSE /\ board.mem = mem
      /\ board.kernel = Nobody /\ board.loaded = Nobody /\ board.out = {} /\ board.queue = {}
      /\ board.arp.ip = Nobody /\ "len" \in DOMAIN board.d
  BY <1>1 DEF Fresh, NoArpWait, IsBoard
<1>4. Wire(board) = {} /\ Held(board) = {}
  BY <1>1, <1>3 DEF Wire, Held
<1> QED
  BY <1>2, <1>3, <1>4 DEF LoadInv, LoadOk, CallOk, ContentOk, Watched, KernelChecked, ModeOk, LoadedOk,
                          RequestsOk, ArpOk, RunOk

LEMMA LoadIsInvariant == Spec => []LoadInv
  BY InvIsInvariant, LoadInit, LoadStep, PTL DEF Spec

-----------------------------------------------------------------------------
(***************************************************************************)
(* tftpboot says a file is loaded only when all of its blocks are in       *)
(* memory, each in its slot, and filesize is the length of the file        *)
(* (store_block and the end of TftpHandler, the success case of NetLoop),  *)
(* whatever was lost, repeated, late or answered by several sessions.      *)
(***************************************************************************)
THEOREM LoadedIsWhole == Spec => []LoadIsExact
<1>1. LoadInv => LoadIsExact
  BY DEF LoadInv, LoadOk, CallOk, LoadedOk, LoadIsExact
<1> QED
  BY LoadIsInvariant, <1>1, PTL

(***************************************************************************)
(* A block the client has acknowledged in a transfer is in memory at its   *)
(* slot (TftpHandler stores before TftpSend), also after timeouts, ARP     *)
(* waits and NetStartAgain have made TftpSend run in between.              *)
(***************************************************************************)
THEOREM AcknowledgedIsKept == Spec => []AckedIsStored
<1>1. LoadInv => AckedIsStored
  <2> SUFFICES ASSUME LoadInv, board.proto = "TFTP", netretry # "once", ~Wraps(board.file),
                      NEW k \in 1 .. Size[board.file],
                      NEW s \in Sessions, Acked(board.t.oport, s, k)
               PROVE  board.mem[k - 1] = <<board.file, k>>
    BY DEF AckedIsStored
  <2>1. CallOk(board, starts) /\ Watched(board) /\ AckedOk(board)
    BY DEF LoadInv, LoadOk, ContentOk, Watched
  <2>2. Size[board.file] \in Nat /\ Size[board.file] < Seq
    BY <2>1, FileSize
  <2>3. k \in Nat /\ k < Seq
    BY <2>2, SeqAssumption
  <2>4. k % Seq = k
    BY <2>3, SmallNumber
  <2>5. [kind |-> "ack", oport |-> board.t.oport, sport |-> s, n |-> k] \in Wire(board)
    BY <2>4 DEF Acked, Wire
  <2>6. Stored(board, k)
    BY <2>1, <2>5 DEF AckedOk
  <2> QED
    BY <2>6 DEF Stored
<1> QED
  BY LoadIsInvariant, <1>1, PTL

(***************************************************************************)
(* What the rescue mode has written to the kernel partition is, as far as  *)
(* it goes, the image whose CRCs were found right (TftpHandler of          *)
(* cmd_tftpServer.c and flash_kernel_image), whoever puts blocks of what,  *)
(* whole or cut off, in whatever order, and whether the write works, the   *)
(* check not having been skipped.  That it goes to the end of the image is *)
(* not said: RescueIsWhole fails.                                          *)
(***************************************************************************)
THEOREM FlashedIsChecked == Spec => []RescueIsChecked
<1>1. LoadInv => RescueIsChecked
  BY DEF LoadInv, LoadOk, CallOk, KernelChecked, RescueIsChecked
<1> QED
  BY LoadIsInvariant, <1>1, PTL

-----------------------------------------------------------------------------
(***************************************************************************)
(* The types.  What holds of the board at every point inside a call: a     *)
(* timer that counts has tries left, and the memory has a slot for every   *)
(* offset.                                                                 *)
(***************************************************************************)
CountersOk(t, n) ==
  /\ t.tries \in 0 .. MaxTries + 1 /\ t.block \in 0 .. Seq - 1
  /\ t.wrap \in 0 .. MaxWrap /\ t.oport \in 0 .. n

Fits(b, n) ==
  /\ IsBoard(b)
  /\ b.state \in {"continue", "restart", "success", "fail"}
  /\ b.handler \in {"null", "tftp", "tftpd", "ping", "ignore"}
  /\ b.timer \in {"none", "tftp", "wait", "tftpd", "ping", "again"}
  /\ b.arp.try \in 0 .. ArpTries
  /\ CountersOk(b.t, n)
  /\ b.timer = "tftp" => b.t.tries <= MaxTries
  /\ b.mem \in [Slots -> Payloads]

\* The handler of a transfer is only called while there are tries left.
HasTries(b) == b.handler = "tftp" => b.t.tries <= MaxTries

\* c is b after frames were sent.
Alike(b, c) ==
  /\ IsBoard(c) /\ SameLoop(b, c) /\ c.timer = b.timer /\ c.t = b.t /\ c.mem = b.mem
  /\ c.arp.try \in {b.arp.try, 0, 1}

LEMMA AlikeFits ==
  ASSUME NEW b, NEW c, NEW n, Alike(b, c), Fits(b, n)
  PROVE  Fits(c, n) /\ (HasTries(b) => HasTries(c))
  BY ArpTriesAssumption DEF Fits, Alike, SameLoop, HasTries

LEMMA EthAlike ==
  ASSUME NEW b, IsBoard(b), NEW pkt
  PROVE  Alike(b, eth_send(b, pkt)) /\ eth_send(b, pkt).arp = b.arp
<1>1. Sends(b, eth_send(b, pkt), {pkt}) /\ eth_send(b, pkt).arp = b.arp
  BY EthSends
<1> QED
  BY <1>1 DEF Alike, Sends, SameStore

LEMMA WaitAlike ==
  ASSUME NEW b, IsBoard(b), NEW ip, NEW owner, NEW pkt
  PROVE  Alike(b, WaitForArp(b, ip, owner, pkt))
<1> DEFINE c1 == [b EXCEPT !.arp = [ip |-> ip, owner |-> owner, try |-> 1, pkt |-> pkt]]
           c == eth_send(c1, [kind |-> "arpreq", ip |-> c1.arp.ip])
<1>1. WaitForArp(b, ip, owner, pkt) = c
  BY DEF WaitForArp, ArpRequest
<1>2. /\ IsBoard(c1) /\ SameLoop(b, c1) /\ c1.timer = b.timer /\ c1.t = b.t /\ c1.mem = b.mem
      /\ c1.arp.try = 1
  BY DEF IsBoard, SameLoop, SameCall
<1> HIDE DEF c1
<1>3. Alike(c1, c) /\ c.arp = c1.arp
  BY <1>2, EthAlike
<1> HIDE DEF c
<1> QED
  BY <1>1, <1>2, <1>3 DEF Alike, SameLoop, SameCall

LEMMA UdpAlike ==
  ASSUME NEW b, IsBoard(b), NEW dest, NEW pkt
  PROVE  Alike(b, NetSendUDPPacket(b, dest, pkt))
<1>1. CASE dest = Nobody \/ b.ether
  BY <1>1, EthAlike DEF NetSendUDPPacket
<1>2. CASE ~(dest = Nobody \/ b.ether)
  BY <1>2, WaitAlike DEF NetSendUDPPacket
<1> QED
  BY <1>1, <1>2

LEMMA TftpSendFits ==
  ASSUME NEW b, NEW n, Fits(b, n)
  PROVE  LET c == TftpSend(b) IN Alike(b, c) /\ Fits(c, n)
<1> DEFINE pkt == IF b.t.state = "rrq"
                  THEN [kind |-> "rrq", oport |-> b.t.oport, file |-> b.file]
                  ELSE [kind |-> "ack", oport |-> b.t.oport, sport |-> b.t.sport, n |-> b.t.block]
<1>1. TftpSend(b) = NetSendUDPPacket(b, b.sip, pkt)
  BY DEF TftpSend
<1> HIDE DEF pkt
<1>2. Alike(b, TftpSend(b))
  BY <1>1, UdpAlike DEF Fits
<1> QED
  BY <1>2, AlikeFits

LEMMA TftpdSendFits ==
  ASSUME NEW b, NEW n, Fits(b, n)
  PROVE  LET c == TftpdSend(b) IN Alike(b, c) /\ Fits(c, n)
<1> DEFINE pkt ==
      CASE b.d.state = "rrq" -> [kind |-> "vacant", oport |-> b.d.sport]
        [] b.d.state = "finishack" -> [kind |-> "finish", oport |-> b.d.sport, ok |-> b.d.ok]
        [] OTHER -> [kind |-> "dack", oport |-> b.d.sport, n |-> b.d.block]
<1>1. TftpdSend(b) = NetSendUDPPacket(b, b.sip, pkt)
  BY DEF TftpdSend
<1> HIDE DEF pkt
<1>2. Alike(b, TftpdSend(b))
  BY <1>1, UdpAlike DEF Fits
<1> QED
  BY <1>2, AlikeFits

LEMMA AgainFits ==
  ASSUME NEW b, NEW n, Fits(b, n)
  PROVE  LET c == NetStartAgain(b, netretry)
         IN  /\ Fits(c, n) /\ c.t = b.t /\ (HasTries(b) => HasTries(c))
             /\ c.handler = "tftp" => c.state = "fail"
<1> DEFINE c == NetStartAgain(b, netretry)
<1>1. /\ IsBoard(c) /\ SameCall(b, c) /\ SameStore(b, c) /\ c.t = b.t /\ c.arp = b.arp
      /\ netretry = "no" => c.state = "fail" /\ c.handler = b.handler /\ c.timer = b.timer
      /\ netretry = "once" => c.state = "fail" /\ c.handler = b.handler /\ c.timer = b.timer
      /\ netretry \notin {"no", "once"} => c.state = b.state /\ c.handler = "ignore" /\ c.timer = "again"
  BY AgainSends DEF Fits
<1> HIDE DEF c
<1>2. c.mem = b.mem
  BY <1>1 DEF SameStore
<1>3. CASE netretry \in {"no", "once"}
  BY <1>1, <1>2, <1>3 DEF Fits, HasTries, c
<1>4. CASE netretry \notin {"no", "once"}
  BY <1>1, <1>2, <1>4 DEF Fits, HasTries, c
<1> QED
  BY <1>3, <1>4

LEMMA ArpTimeoutFits ==
  ASSUME NEW b, NEW n, Fits(b, n)
  PROVE  LET c == ArpTimeout(b, netretry) IN Fits(c, n) /\ (HasTries(b) => HasTries(c))
<1> DEFINE again == [b EXCEPT !.arp.try = 0]
           more == [b EXCEPT !.arp.try = @ + 1]
<1>1. /\ IsBoard(again) /\ SameLoop(b, again) /\ again.timer = b.timer /\ again.t = b.t
      /\ again.mem = b.mem /\ again.arp.try = 0
  BY DEF Fits, IsBoard, SameLoop, SameCall
<1>2. /\ IsBoard(more) /\ SameLoop(b, more) /\ more.timer = b.timer /\ more.t = b.t
      /\ more.mem = b.mem /\ more.arp.try = b.arp.try + 1
  BY DEF Fits, IsBoard, SameLoop, SameCall
<1> HIDE DEF again, more
<1>3. CASE b.arp.try + 1 >= ArpTries
  <2>1. ArpTimeout(b, netretry) = NetStartAgain(again, netretry)
    BY <1>3 DEF ArpTimeout, again
  <2>2. Fits(again, n) /\ (HasTries(b) => HasTries(again))
    BY <1>1, AlikeFits DEF Alike
  <2> QED
    BY <2>1, <2>2, AgainFits
<1>4. CASE ~(b.arp.try + 1 >= ArpTries)
  <2> DEFINE pkt == [kind |-> "arpreq", ip |-> more.arp.ip]
  <2>1. ArpTimeout(b, netretry) = eth_send(more, pkt)
    BY <1>4 DEF ArpTimeout, ArpRequest, more
  <2> HIDE DEF pkt
  <2>2. more.arp.try \in 0 .. ArpTries
    BY <1>2, <1>4, ArpTriesAssumption DEF Fits
  <2>3. Fits(more, n) /\ (HasTries(b) => HasTries(more))
    BY <1>2, <2>2 DEF Fits, HasTries, SameLoop
  <2>4. Alike(more, eth_send(more, pkt))
    BY <1>2, EthAlike
  <2> QED
    BY <2>1, <2>3, <2>4, AlikeFits
<1> QED
  BY <1>3, <1>4

LEMMA SuccessFits ==
  ASSUME NEW b, NEW n, Fits(b, n)
  PROVE  LET c == [b EXCEPT !.state = "success"] IN Fits(c, n) /\ (HasTries(b) => HasTries(c))
  BY DEF Fits, IsBoard, HasTries

\* A block number moves the offset only within the memory.
LEMMA TftpDataFits ==
  ASSUME NEW b, NEW n, NEW p, Fits(b, n), HasTries(b), b.handler = "tftp",
         p.n \in 0 .. Seq - 1, p.load \in Payloads, p.n = 0 => b.t.wrap + Seq <= MaxWrap
  PROVE  LET c == TftpData(b, p, netretry) IN Fits(c, n) /\ HasTries(c)
<1> DEFINE first == b.t.state \in {"rrq", "oack"}
           num == Numbered(b, p)
           b1 == IF first THEN FirstBlock(num, p) ELSE num
<1>0. /\ IsBoard(b) /\ b.t.tries <= MaxTries /\ Seq \in Nat /\ MaxWrap \in Nat
      /\ b.t.wrap \in 0 .. MaxWrap /\ b.t.tries \in 0 .. MaxTries + 1 /\ b.t.oport \in 0 .. n
  BY SeqAssumption, FilesAssumption DEF Fits, CountersOk, HasTries
<1>1. /\ IsBoard(num) /\ SameLoop(b, num) /\ num.timer = b.timer /\ num.mem = b.mem /\ num.arp = b.arp
      /\ num.t.oport = b.t.oport /\ num.t.tries = b.t.tries /\ num.t.block = p.n
      /\ num.t.wrap = IF p.n = 0 THEN b.t.wrap + Seq ELSE b.t.wrap
  BY <1>0 DEF Numbered, IsBoard, SameLoop, SameCall
<1> HIDE DEF num
<1>2. /\ IsBoard(b1) /\ SameLoop(b, b1) /\ b1.timer = b.timer /\ b1.mem = b.mem /\ b1.arp = b.arp
      /\ b1.t.oport = b.t.oport /\ b1.t.tries = b.t.tries /\ b1.t.block = p.n
      /\ b1.t.wrap \in {0, num.t.wrap}
  <2>1. CASE first
    <3>1. b1 = FirstBlock(num, p)
      BY <2>1
    <3> HIDE DEF b1
    <3> QED
      BY <1>1, <3>1 DEF FirstBlock, IsBoard, SameLoop, SameCall
  <2>2. CASE ~first
    BY <1>1, <2>2
  <2> QED BY <2>1, <2>2
<1>3. b1.t.wrap \in 0 .. MaxWrap
  BY <1>0, <1>1, <1>2
<1> HIDE DEF b1
<1>4. Fits(b1, n) /\ HasTries(b1)
  BY <1>0, <1>2, <1>3 DEF Fits, CountersOk, HasTries, SameLoop
<1>5. CASE first /\ p.n # 1
  <2>1. TftpData(b, p, netretry) = NetStartAgain(b1, netretry)
    BY <1>5 DEF TftpData, b1, num
  <2> QED
    BY <1>4, <2>1, AgainFits
<1>6. CASE ~(first /\ p.n # 1) /\ p.n = b1.t.last
  <2>1. TftpData(b, p, netretry) = b1
    BY <1>6 DEF TftpData, b1, num
  <2> QED
    BY <1>4, <2>1
<1>7. CASE ~(first /\ p.n # 1) /\ p.n # b1.t.last
  <2> DEFINE s0 == [b1 EXCEPT !.t.last = p.n]
             s1 == NetSetTimeout(s0, "tftp")
             i == Slot(s1.t)
             s2 == store_block(s1, p)
             s3 == TftpSend(s2)
             s4 == [s3 EXCEPT !.state = "success"]
  <2>1. TftpData(b, p, netretry) = IF p.len < Full THEN s4 ELSE s3
    <3>1. TftpData(b, p, netretry) = TakeBlock(b1, p)
      BY <1>7 DEF TftpData, b1, num
    <3> QED
      BY <3>1 DEF TakeBlock
  <2>2. /\ IsBoard(s0) /\ SameLoop(b1, s0) /\ s0.timer = b1.timer /\ s0.mem = b1.mem /\ s0.arp = b1.arp
        /\ s0.t.oport = b1.t.oport /\ s0.t.tries = b1.t.tries /\ s0.t.block = b1.t.block
        /\ s0.t.wrap = b1.t.wrap
    BY <1>2 DEF IsBoard, SameLoop, SameCall
  <2> HIDE DEF s0
  <2>3. /\ IsBoard(s1) /\ SameLoop(s0, s1) /\ s1.timer = "tftp" /\ s1.mem = s0.mem
        /\ s1.arp = s0.arp /\ s1.t = s0.t
    BY <2>2 DEF NetSetTimeout, IsBoard, SameLoop, SameCall
  <2> HIDE DEF s1
  <2>4. i \in Slots
    BY <1>0, <1>2, <1>3, <2>2, <2>3 DEF Slot, Slots
  <2> HIDE DEF i
  <2>5. /\ IsBoard(s2) /\ SameLoop(s1, s2) /\ s2.timer = "tftp" /\ s2.arp = s1.arp /\ s2.t = s1.t
        /\ s2.mem = [s1.mem EXCEPT ![i] = p.load]
    BY <2>3 DEF store_block, i, IsBoard, SameLoop, SameCall
  <2> HIDE DEF s2
  <2>6. s2.mem \in [Slots -> Payloads]
    BY <1>4, <2>2, <2>3, <2>4, <2>5 DEF Fits
  <2>7. Fits(s2, n) /\ HasTries(s2)
    BY <1>0, <1>2, <1>3, <1>4, <2>2, <2>3, <2>5, <2>6 DEF Fits, CountersOk, HasTries, SameLoop
  <2>8. Fits(s3, n) /\ HasTries(s3)
    BY <2>7, TftpSendFits, AlikeFits
  <2> HIDE DEF s3
  <2>9. Fits(s4, n) /\ HasTries(s4)
    BY <2>8, SuccessFits
  <2> QED
    BY <2>1, <2>8, <2>9
<1> QED
  BY <1>5, <1>6, <1>7

LEMMA TftpHandlerFits ==
  ASSUME NEW b, NEW n, NEW p, Fits(b, n), HasTries(b), b.handler = "tftp",
         p.kind = "data" /\ p.dport = b.t.oport =>
           /\ p.n \in 0 .. Seq - 1 /\ p.load \in Payloads
           /\ p.n = 0 => b.t.wrap + Seq <= MaxWrap
  PROVE  LET c == TftpHandler(b, p, netretry) IN Fits(c, n) /\ HasTries(c)
<1>1. CASE ~ForUs(b, p) \/ p.kind \notin {"oack", "data", "error"}
  BY <1>1 DEF TftpHandler
<1>2. CASE ForUs(b, p) /\ p.kind = "oack"
  <2> DEFINE c == [b EXCEPT !.t.state = "oack", !.t.sport = p.sport]
  <2>1. TftpHandler(b, p, netretry) = TftpSend(c)
    BY <1>2 DEF TftpHandler
  <2>2. Fits(c, n) /\ HasTries(c)
    <3>1. /\ IsBoard(c) /\ SameLoop(b, c) /\ c.timer = b.timer /\ c.mem = b.mem /\ c.arp = b.arp
          /\ c.t.oport = b.t.oport /\ c.t.tries = b.t.tries /\ c.t.block = b.t.block
          /\ c.t.wrap = b.t.wrap
      BY DEF Fits, IsBoard, SameLoop, SameCall
    <3> HIDE DEF c
    <3> QED
      BY <3>1 DEF Fits, CountersOk, HasTries, SameLoop
  <2> HIDE DEF c
  <2> QED
    BY <2>1, <2>2, TftpSendFits, AlikeFits
<1>3. CASE ForUs(b, p) /\ p.kind = "data"
  <2>1. TftpHandler(b, p, netretry) = TftpData(b, p, netretry) /\ p.dport = b.t.oport
    BY <1>3 DEF TftpHandler, ForUs
  <2> QED
    BY <1>3, <2>1, TftpDataFits
<1>4. CASE ForUs(b, p) /\ p.kind = "error"
  <2>1. TftpHandler(b, p, netretry) = NetStartAgain(b, netretry)
    BY <1>4 DEF TftpHandler
  <2> QED
    BY <2>1, AgainFits
<1> QED
  BY <1>1, <1>2, <1>3, <1>4

\* The tries are counted to one more than there are, and then the timer is not set again.
LEMMA TftpTimeoutFits ==
  ASSUME NEW b, NEW n, Fits(b, n), b.timer = "none", b.t.tries <= MaxTries
  PROVE  LET c == TftpTimeout(b, netretry) IN Fits(c, n) /\ (c.state = "fail" \/ HasTries(c))
<1> DEFINE b1 == [b EXCEPT !.t.tries = @ + 1]
           b2 == NetSetTimeout(b1, "tftp")
<1>1. TftpTimeout(b, netretry) = IF b1.t.tries > MaxTries THEN NetStartAgain(b1, netretry) ELSE TftpSend(b2)
  BY DEF TftpTimeout
<1>2. /\ IsBoard(b1) /\ SameLoop(b, b1) /\ b1.timer = b.timer /\ b1.mem = b.mem /\ b1.arp = b.arp
      /\ b1.t.oport = b.t.oport /\ b1.t.tries = b.t.tries + 1 /\ b1.t.block = b.t.block
      /\ b1.t.wrap = b.t.wrap
  BY DEF Fits, IsBoard, SameLoop, SameCall
<1> HIDE DEF b1
<1>3. b1.t.tries \in 0 .. MaxTries + 1
  BY <1>2, TriesAssumption DEF Fits, CountersOk
<1>4. Fits(b1, n)
  BY <1>2, <1>3 DEF Fits, CountersOk, SameLoop
<1>5. CASE b1.t.tries > MaxTries
  <2>1. Fits(NetStartAgain(b1, netretry), n)
        /\ (NetStartAgain(b1, netretry).handler = "tftp" => NetStartAgain(b1, netretry).state = "fail")
    BY <1>4, AgainFits
  <2> QED
    BY <1>1, <1>5, <2>1 DEF HasTries
<1>6. CASE ~(b1.t.tries > MaxTries)
  <2>1. b1.t.tries <= MaxTries
    BY <1>3, <1>6, TriesAssumption
  <2>2. /\ IsBoard(b2) /\ SameLoop(b1, b2) /\ b2.timer = "tftp" /\ b2.mem = b1.mem /\ b2.arp = b1.arp
        /\ b2.t = b1.t
    BY <1>2 DEF NetSetTimeout, IsBoard, SameLoop, SameCall
  <2> HIDE DEF b2
  <2>3. Fits(b2, n) /\ HasTries(b2)
    BY <1>4, <2>1, <2>2 DEF Fits, HasTries, SameLoop
  <2> QED
    BY <1>1, <1>6, <2>3, TftpSendFits, AlikeFits
<1> QED
  BY <1>5, <1>6

LEMMA FlashFits ==
  ASSUME NEW b, NEW works, NEW n, NEW len, Fits(b, n)
  PROVE  LET c == flash_kernel_image(b, len, works)
         IN  Fits(c, n) /\ (HasTries(b) => HasTries(c))
<1>1. CASE len < MinLength
  <2>1. flash_kernel_image(b, len, works) = [b EXCEPT !.d.ok = FALSE]
    BY <1>1 DEF flash_kernel_image, Flashed
  <2>2. Alike(b, flash_kernel_image(b, len, works))
    BY <2>1 DEF Fits, Alike, IsBoard, SameLoop, SameCall
  <2> QED
    BY <2>2, AlikeFits
<1>2. CASE ~(len < MinLength)
  <2> DEFINE good == verify_kernel_image(b)
             kernel == IF ~good THEN b.kernel ELSE IF works THEN Copied(b, len) ELSE Nobody
             d == [b.d EXCEPT !.ok = good /\ works, !.header = IF good THEN b.mem[0] ELSE Empty]
  <2>1. flash_kernel_image(b, len, works) = [b EXCEPT !.d = d, !.kernel = kernel]
    BY <1>2 DEF flash_kernel_image, Flashed, Fits, IsBoard
  <2> HIDE DEF kernel, d
  <2>2. Alike(b, flash_kernel_image(b, len, works))
    BY <2>1 DEF Fits, Alike, IsBoard, SameLoop, SameCall
  <2> QED
    BY <2>2, AlikeFits
<1> QED
  BY <1>1, <1>2

LEMMA TftpdStoreFits ==
  ASSUME NEW b, NEW works, NEW n, NEW p, Fits(b, n), HasTries(b), p.n - 1 \in Slots, p.load \in Payloads
  PROVE  LET c == TftpdStore(b, p, works) IN Fits(c, n) /\ HasTries(c)
<1> DEFINE i == p.n - 1
           s0 == [b EXCEPT !.d.last = p.n, !.d.len = Full * i + p.len, !.mem[i] = IF p.len = 0 THEN @ ELSE p.load]
           s1 == NetSetTimeout(s0, "tftpd")
           s2 == TftpdSend(s1)
           f0 == flash_kernel_image(s2, s2.d.len, works)
           f1 == [f0 EXCEPT !.d.state = "finishack"]
           f2 == TftpdSend(f1)
           f3 == [f2 EXCEPT !.state = "success"]
<1>1. TftpdStore(b, p, works) = IF p.len < Full THEN f3 ELSE s2
  BY DEF TftpdStore, TftpdFinish
<1> HIDE DEF i
<1>2. /\ IsBoard(s0) /\ SameLoop(b, s0) /\ s0.timer = b.timer /\ s0.t = b.t /\ s0.arp = b.arp
      /\ s0.mem = [b.mem EXCEPT ![i] = IF p.len = 0 THEN @ ELSE p.load]
  BY DEF Fits, IsBoard, SameLoop, SameCall
<1> HIDE DEF s0
<1>3. Fits(s0, n) /\ HasTries(s0)
  <2>1. s0.mem \in [Slots -> Payloads]
    BY <1>2 DEF Fits, i
  <2> QED
    BY <1>2, <2>1 DEF Fits, HasTries, SameLoop
<1>4. /\ IsBoard(s1) /\ SameLoop(s0, s1) /\ s1.timer = "tftpd" /\ s1.t = s0.t /\ s1.arp = s0.arp
      /\ s1.mem = s0.mem
  BY <1>2 DEF NetSetTimeout, IsBoard, SameLoop, SameCall
<1> HIDE DEF s1
<1>5. Fits(s1, n) /\ HasTries(s1)
  BY <1>3, <1>4 DEF Fits, HasTries, SameLoop
<1>6. Fits(s2, n) /\ HasTries(s2)
  BY <1>5, TftpdSendFits, AlikeFits
<1> HIDE DEF s2
<1>7. Fits(f0, n) /\ HasTries(f0)
  BY <1>6, FlashFits
<1> HIDE DEF f0
<1>8. Fits(f1, n) /\ HasTries(f1)
  <2>1. Alike(f0, f1)
    BY <1>7 DEF Fits, Alike, IsBoard, SameLoop, SameCall
  <2> QED
    BY <1>7, <2>1, AlikeFits
<1> HIDE DEF f1
<1>9. Fits(f2, n) /\ HasTries(f2)
  BY <1>8, TftpdSendFits, AlikeFits
<1> HIDE DEF f2
<1>10. Fits(f3, n) /\ HasTries(f3)
  BY <1>9, SuccessFits
<1> HIDE DEF f3
<1> QED
  BY <1>1, <1>6, <1>10

LEMMA TftpdHandlerFits ==
  ASSUME NEW b, NEW works, NEW n, NEW p, Fits(b, n), HasTries(b),
         p.kind = "data" => p.n - 1 \in Slots /\ p.load \in Payloads
  PROVE  LET c == TftpdHandler(b, p, netretry, works) IN Fits(c, n) /\ HasTries(c)
<1> DEFINE stranger == p.dport # PortTftp \/ (b.d.state # "rrq" /\ p.sport # b.d.sport)
<1>1. CASE stranger \/ p.kind \notin {"ask", "wrq", "data", "error"}
  BY <1>1 DEF TftpdHandler
<1>2. CASE ~stranger /\ p.kind = "ask"
  <2> DEFINE c == [b EXCEPT !.sip = Nobody, !.d.sport = p.sport, !.d.block = 1, !.d.state = "rrq"]
  <2>1. TftpdHandler(b, p, netretry, works) = TftpdSend(c)
    BY <1>2 DEF TftpdHandler
  <2>2. Alike(b, c)
    BY DEF Fits, Alike, IsBoard, SameLoop, SameCall
  <2> HIDE DEF c
  <2>3. Fits(c, n) /\ HasTries(c)
    BY <2>2, AlikeFits
  <2> QED
    BY <2>1, <2>3, TftpdSendFits, AlikeFits
<1>3. CASE ~stranger /\ p.kind = "wrq"
  <2> DEFINE c == [b EXCEPT !.d.sport = p.sport, !.d.block = 0, !.d.state = "wrq"]
  <2>1. TftpdHandler(b, p, netretry, works) = TftpdSend(c)
    BY <1>3 DEF TftpdHandler
  <2>2. Alike(b, c)
    BY DEF Fits, Alike, IsBoard, SameLoop, SameCall
  <2> HIDE DEF c
  <2>3. Fits(c, n) /\ HasTries(c)
    BY <2>2, AlikeFits
  <2> QED
    BY <2>1, <2>3, TftpdSendFits, AlikeFits
<1>4. CASE ~stranger /\ p.kind = "data"
  <2> DEFINE first == b.d.state = "wrq"
             b1 == IF first
                   THEN [b EXCEPT !.d.block = p.n, !.d.state = "data", !.d.sport = p.sport, !.d.last = 0]
                   ELSE [b EXCEPT !.d.block = p.n]
  <2>1. TftpdHandler(b, p, netretry, works) =
          IF first /\ p.n # 1 THEN NetStartAgain(b1, netretry)
          ELSE IF p.n = b1.d.last THEN b1
          ELSE TftpdStore(b1, p, works)
    <3>1. TftpdHandler(b, p, netretry, works) = TftpdData(b, p, netretry, works)
      BY <1>4 DEF TftpdHandler
    <3> QED
      BY <3>1 DEF TftpdData
  <2>2. Alike(b, b1)
    BY DEF Fits, Alike, IsBoard, SameLoop, SameCall
  <2> HIDE DEF b1
  <2>3. Fits(b1, n) /\ HasTries(b1)
    BY <2>2, AlikeFits
  <2>4. Fits(NetStartAgain(b1, netretry), n) /\ HasTries(NetStartAgain(b1, netretry))
    BY <2>3, AgainFits
  <2>5. Fits(TftpdStore(b1, p, works), n) /\ HasTries(TftpdStore(b1, p, works))
    BY <1>4, <2>3, TftpdStoreFits
  <2> QED
    BY <2>1, <2>3, <2>4, <2>5
<1>5. CASE ~stranger /\ p.kind = "error"
  <2>1. TftpdHandler(b, p, netretry, works) = NetStartAgain(b, netretry)
    BY <1>5 DEF TftpdHandler
  <2> QED
    BY <2>1, AgainFits
<1> QED
  BY <1>1, <1>2, <1>3, <1>4, <1>5

LEMMA ArpReplyFits ==
  ASSUME NEW b, NEW n, NEW p, Fits(b, n), HasTries(b)
  PROVE  LET c == ArpReply(b, p) IN Fits(c, n) /\ HasTries(c)
<1> DEFINE b1 == IF b.arp.owner = "server" THEN [b EXCEPT !.ether = TRUE] ELSE b
           b0 == eth_send(b1, b.arp.pkt)
           b2 == [b0 EXCEPT !.arp = NoArpWait]
<1>1. ArpReply(b, p) = IF b.arp.ip = Nobody \/ p.ip # b.arp.ip THEN b
                       ELSE IF b.t.started THEN TftpSend(b2) ELSE b2
  BY DEF ArpReply
<1>2. Alike(b, b1)
  BY DEF Fits, Alike, IsBoard, SameLoop, SameCall
<1> HIDE DEF b1
<1>3. Fits(b1, n) /\ HasTries(b1)
  BY <1>2, AlikeFits
<1>4. Alike(b1, b0)
  BY <1>2, EthAlike DEF Alike
<1> HIDE DEF b0
<1>5. Fits(b0, n) /\ HasTries(b0)
  BY <1>3, <1>4, AlikeFits
<1>6. Alike(b0, b2)
  BY <1>4 DEF Alike, NoArpWait, IsBoard, SameLoop, SameCall
<1> HIDE DEF b2
<1>7. Fits(b2, n) /\ HasTries(b2)
  BY <1>5, <1>6, AlikeFits
<1> QED
  BY <1>1, <1>7, TftpSendFits, AlikeFits

\* What arrives for a transfer is a block of its file.
LEMMA DataIsOfFile ==
  ASSUME NEW b, NEW n, CallOk(b, n), b.proto = "TFTP",
         NEW p \in OnTheWire, p.kind = "data", p.dport = b.t.oport
  PROVE  p.n \in 0 .. Seq - 1 /\ p.load \in Payloads
<1>1. mode = "cli" /\ b.file \in Files
  BY DEF CallOk, ModeOk
<1>2. PICK m \in sent, s \in Sessions :
        m.kind = "rrq" /\ m.oport = p.dport /\ p \in SessionAnswers(m.oport, s, m.file)
  BY <1>1, Served
<1>3. m.file = b.file
  BY <1>2 DEF CallOk, RequestsOk, Wire
<1>4. PICK k \in 1 .. Size[b.file] : p = Data(m.oport, s, b.file, k)
  BY <1>2, <1>3 DEF SessionAnswers
<1>5. p.n = k % Seq /\ p.load = <<b.file, k>>
  BY <1>4 DEF Data
<1>6. k \in Nat /\ Size[b.file] \in Nat
  BY <1>1, FilesAssumption
<1>7. p.n \in 0 .. Seq - 1
  <2>1. Seq \in Nat /\ Seq > 0
    BY SeqAssumption
  <2> QED BY <1>5, <1>6, <2>1
<1>8. p.load \in {<<b.file, j>> : j \in 1 .. Size[b.file]}
  BY <1>5
<1> QED
  BY <1>1, <1>7, <1>8 DEF Payloads

\* What arrives in the rescue mode lies in the memory.
LEMMA DataIsOfUpload ==
  ASSUME NEW p \in OnTheWire, mode # "cli", p.kind = "data"
  PROVE  p.n - 1 \in Slots /\ p.load \in Payloads
<1>1. p \notin StationAnswers
  BY DEF StationAnswers
<1>2. p \in UploadersSend
  BY <1>1 DEF OnTheWire
<1>3. PICK u \in Uploaders : p \in Put(u, Upload[u])
  BY <1>2 DEF UploadersSend
<1>4. PICK k \in 1 .. Size[Upload[u]] : p.n = k /\ p.load \in {Empty, <<Upload[u], k>>}
  BY <1>3 DEF Put, PutBlock
<1>5. Size[Upload[u]] \in 1 .. MaxWrap + Seq + 1 /\ MaxWrap \in Nat /\ Seq \in Nat
  BY <1>3, FilesAssumption, SeqAssumption
<1>6. p.n - 1 \in Slots
  BY <1>4, <1>5 DEF Slots
<1>7. p.load \in {Empty} \cup {<<Upload[u], j>> : j \in 1 .. Size[Upload[u]]}
  BY <1>4
<1> QED
  BY <1>6, <1>7 DEF Payloads

LEMMA NetReceiveFits ==
  ASSUME NEW b, NEW works, NEW n, NEW p \in OnTheWire, Fits(b, n), HasTries(b), CallOk(b, n),
         b.handler = "tftp" => b.proto = "TFTP", b.handler = "tftpd" => mode # "cli",
         b.proto = "TFTP" /\ p.kind = "data" => p.n # 0 \/ b.t.wrap + Seq <= MaxWrap
  PROVE  LET c == NetReceive(b, p, works) IN Fits(c, n) /\ HasTries(c)
<1>1. CASE p.kind = "arprep"
  BY <1>1, ArpReplyFits DEF NetReceive
<1>2. CASE p.kind # "arprep" /\ b.handler = "ping"
  <2>1. NetReceive(b, p, works) = b \/ NetReceive(b, p, works) = [b EXCEPT !.state = "success"]
    BY <1>2 DEF NetReceive, PingHandler
  <2> QED
    BY <2>1, SuccessFits
<1>3. CASE p.kind \notin {"arprep", "reply"} /\ b.handler = "tftp"
  <2>1. NetReceive(b, p, works) = TftpHandler(b, p, netretry)
    BY <1>3 DEF NetReceive
  <2> QED
    BY <1>3, <2>1, DataIsOfFile, TftpHandlerFits
<1>4. CASE p.kind \notin {"arprep", "reply"} /\ b.handler = "tftpd"
  <2>1. NetReceive(b, p, works) = TftpdHandler(b, p, netretry, works)
    BY <1>4 DEF NetReceive
  <2> QED
    BY <1>4, <2>1, DataIsOfUpload, TftpdHandlerFits
<1>5. CASE /\ p.kind # "arprep" /\ b.handler # "ping"
           /\ p.kind = "reply" \/ b.handler \notin {"tftp", "tftpd"}
  <2>1. NetReceive(b, p, works) = b
    BY <1>5 DEF NetReceive
  <2> QED
    BY <2>1
<1> QED
  BY <1>1, <1>2, <1>3, <1>4, <1>5

LEMMA ExpiredFits ==
  ASSUME NEW b, NEW n, Fits(b, n), HasTries(b)
  PROVE  LET c == Expired(b) IN Fits(c, n) /\ (c.state = "fail" \/ HasTries(c))
<1> DEFINE b1 == [b EXCEPT !.timer = "none"]
<1>1. /\ IsBoard(b1) /\ SameLoop(b, b1) /\ b1.timer = "none" /\ b1.t = b.t /\ b1.mem = b.mem
      /\ b1.arp = b.arp
  BY DEF Fits, IsBoard, SameLoop, SameCall
<1> HIDE DEF b1
<1>2. Fits(b1, n) /\ HasTries(b1)
  BY <1>1 DEF Fits, HasTries, SameLoop
<1>3. CASE b.timer = "tftp"
  <2>1. Expired(b) = TftpTimeout(b1, netretry)
    BY <1>3 DEF Expired, b1
  <2>2. b1.t.tries <= MaxTries
    BY <1>1, <1>3 DEF Fits
  <2> QED
    BY <1>1, <1>2, <2>1, <2>2, TftpTimeoutFits
<1>4. CASE b.timer \in {"wait", "tftpd"}
  <2> DEFINE w == NetSetTimeout(b1, "wait")
             r == NetSetTimeout(b1, "tftpd")
  <2>1. Expired(b) = w \/ Expired(b) = TftpdSend(r)
    BY <1>4 DEF Expired, TftpdTimeout, TftpdResend, b1
  <2>2. /\ IsBoard(w) /\ SameLoop(b1, w) /\ w.timer = "wait" /\ w.t = b1.t /\ w.mem = b1.mem
        /\ w.arp = b1.arp
    BY <1>1 DEF NetSetTimeout, IsBoard, SameLoop, SameCall
  <2>3. /\ IsBoard(r) /\ SameLoop(b1, r) /\ r.timer = "tftpd" /\ r.t = b1.t /\ r.mem = b1.mem
        /\ r.arp = b1.arp
    BY <1>1 DEF NetSetTimeout, IsBoard, SameLoop, SameCall
  <2> HIDE DEF w, r
  <2>4. Fits(w, n) /\ HasTries(w)
    BY <1>2, <2>2 DEF Fits, HasTries, SameLoop
  <2>5. Fits(r, n) /\ HasTries(r)
    BY <1>2, <2>3 DEF Fits, HasTries, SameLoop
  <2> QED
    BY <2>1, <2>4, <2>5, TftpdSendFits, AlikeFits
<1>5. CASE b.timer \in {"ping", "again"}
  <2>1. \/ Expired(b) = [eth_halt(b1) EXCEPT !.state = "fail"]
        \/ Expired(b) = [b1 EXCEPT !.state = "restart"]
    BY <1>5 DEF Expired, PingTimeout, b1
  <2> DEFINE c == Expired(b)
  <2>2. /\ IsBoard(c) /\ c.state \in {"fail", "restart"} /\ c.handler = b1.handler
        /\ c.timer = b1.timer /\ c.t = b1.t /\ c.mem = b1.mem /\ c.arp = b1.arp
    BY <1>1, <2>1 DEF eth_halt, IsBoard
  <2> HIDE DEF c
  <2>3. Fits(c, n) /\ HasTries(c)
    BY <1>2, <2>2 DEF Fits, HasTries
  <2> QED
    BY <2>3 DEF c
<1>6. CASE b.timer = "none"
  <2>1. Expired(b) = b1
    BY <1>6 DEF Expired, b1
  <2> QED
    BY <1>2, <2>1
<1> QED
  BY <1>3, <1>4, <1>5, <1>6 DEF Fits

\* Every protocol starts with handlers and a timer of its own, a transfer with no tries.
LEMMA StartingFits ==
  ASSUME NEW b, NEW n \in Nat, Fits(b, n), b.proto \in {"TFTP", "TFTPD", "PING"}
  PROVE  LET c == Starting(b, n + 1) IN Fits(c, Ports(b, n)) /\ HasTries(c)
<1> DEFINE b1 == [b EXCEPT !.state = "continue", !.sip = Server]
           b2 == CASE b.proto = "TFTP"  -> TftpStart(b1, n + 1)
                   [] b.proto = "TFTPD" -> TftpdStart(b1)
                   [] b.proto = "PING"  -> PingStart(b1)
           b3 == [b2 EXCEPT !.xfer = 0]
<1>1. /\ IsBoard(b1) /\ b1.proto = b.proto /\ b1.state = "continue" /\ b1.handler = b.handler
      /\ b1.timer = b.timer /\ b1.t = b.t /\ b1.mem = b.mem /\ b1.arp = b.arp
  BY DEF Fits, IsBoard
<1>2. Starting(b, n + 1) = b3
  BY <1>1 DEF Starting
<1> HIDE DEF b1
<1>3. SUFFICES Fits(b2, Ports(b, n)) /\ HasTries(b2)
  <2> HIDE DEF b2
  <2>1. ASSUME Fits(b2, Ports(b, n)), HasTries(b2)
        PROVE  Fits(b3, Ports(b, n)) /\ HasTries(b3)
    <3>1. Alike(b2, b3)
      BY <2>1 DEF Fits, Alike, IsBoard, SameLoop, SameCall
    <3> QED
      BY <2>1, <3>1, AlikeFits
  <2> QED
    BY <1>2, <2>1
<1>4. CASE b.proto = "TFTP"
  <2> DEFINE s == [NetSetHandler(NetSetTimeout(b1, "tftp"), "tftp") EXCEPT
                     !.ether = FALSE,
                     !.t = [@ EXCEPT !.started = TRUE, !.state = "rrq", !.block = 0,
                                     !.sport = WellKnown, !.oport = n + 1, !.tries = 0]]
  <2>1. b2 = TftpSend(s) /\ Ports(b, n) = n + 1
    BY <1>4 DEF TftpStart, Ports
  <2>2. /\ IsBoard(s) /\ s.state = "continue" /\ s.handler = "tftp" /\ s.timer = "tftp"
        /\ s.mem = b1.mem /\ s.arp = b1.arp
        /\ s.t.block = 0 /\ s.t.oport = n + 1 /\ s.t.tries = 0 /\ s.t.wrap = b1.t.wrap
    BY <1>1 DEF NetSetHandler, NetSetTimeout, IsBoard
  <2> HIDE DEF s
  <2>3. CountersOk(s.t, n + 1) /\ s.t.tries <= MaxTries
    BY <1>1, <2>2, SeqAssumption, TriesAssumption DEF Fits, CountersOk
  <2>4. Fits(s, n + 1) /\ HasTries(s)
    BY <1>1, <2>2, <2>3 DEF Fits, HasTries
  <2> QED
    BY <2>1, <2>4, TftpSendFits, AlikeFits
<1>5. CASE b.proto = "TFTPD"
  <2> DEFINE s == TftpdStart(b1)
  <2>1. b2 = s /\ Ports(b, n) = n
    BY <1>5 DEF Ports
  <2>2. /\ IsBoard(s) /\ s.state = "continue" /\ s.handler = "tftpd" /\ s.timer = "wait"
        /\ s.t = b1.t /\ s.arp = b1.arp /\ s.mem = [b1.mem EXCEPT ![0] = Empty]
    BY <1>1 DEF TftpdStart, NetSetHandler, NetSetTimeout, IsBoard
  <2> HIDE DEF s
  <2>3. s.mem \in [Slots -> Payloads]
    <3>1. Empty \in Payloads
      BY DEF Payloads
    <3>2. b1.mem \in [Slots -> Payloads]
      BY <1>1 DEF Fits
    <3> QED
      BY <2>2, <3>1, <3>2
  <2>4. /\ b1.t.tries \in 0 .. MaxTries + 1 /\ CountersOk(b1.t, n) /\ b1.arp.try \in 0 .. ArpTries
    BY <1>1 DEF Fits, CountersOk
  <2>5. Fits(s, n) /\ HasTries(s)
    BY <2>2, <2>3, <2>4 DEF Fits, HasTries
  <2> QED
    BY <2>1, <2>5
<1>6. CASE b.proto = "PING"
  <2> DEFINE w == NetSetHandler(NetSetTimeout(b1, "ping"), "ping")
             pkt == [kind |-> "echo", ip |-> w.host]
  <2>1. b2 = WaitForArp(w, w.host, "ping", pkt) /\ Ports(b, n) = n
    BY <1>6 DEF PingStart, PingSend, Ports
  <2>2. /\ IsBoard(w) /\ w.state = "continue" /\ w.handler = "ping" /\ w.timer = "ping"
        /\ w.t = b1.t /\ w.arp = b1.arp /\ w.mem = b1.mem
    BY <1>1 DEF NetSetHandler, NetSetTimeout, IsBoard
  <2> HIDE DEF w, pkt
  <2>3. Fits(w, n) /\ HasTries(w)
    BY <1>1, <2>2 DEF Fits, HasTries
  <2>4. Alike(w, WaitForArp(w, w.host, "ping", pkt))
    BY <2>2, WaitAlike
  <2> QED
    BY <2>1, <2>3, <2>4, AlikeFits
<1> QED
  BY <1>4, <1>5, <1>6

LEMMA FreshFits ==
  ASSUME NEW b, NEW n \in Nat, Fits(b, n)
  PROVE  LET c == [Fresh(b.mem, b.kernel) EXCEPT !.out = b.out] IN Fits(c, n) /\ HasTries(c)
<1> DEFINE c == [Fresh(b.mem, b.kernel) EXCEPT !.out = b.out]
<1>1. /\ IsBoard(c) /\ c.state = "continue" /\ c.handler = "null" /\ c.timer = "none" /\ c.mem = b.mem
      /\ c.arp.try = 0 /\ c.t.tries = 0 /\ c.t.block = 0 /\ c.t.wrap = 0 /\ c.t.oport = 0
  BY DEF Fresh, NoArpWait, IsBoard
<1> HIDE DEF c
<1>2. CountersOk(c.t, n)
  BY <1>1, SeqAssumption, TriesAssumption, FilesAssumption DEF CountersOk
<1>3. Fits(c, n) /\ HasTries(c)
  BY <1>1, <1>2, ArpTriesAssumption DEF Fits, HasTries
<1> QED
  BY <1>3 DEF c

LEMMA FailedFits ==
  ASSUME NEW b, NEW n \in Nat, Fits(b, n)
  PROVE  Fits(Failed(b), n) /\ Failed(b).proto = "none"
<1>1. CASE b.proto = "TFTPD"
  <2>1. Failed(b) = [Fresh(b.mem, b.kernel) EXCEPT !.out = b.out]
    BY <1>1 DEF Failed
  <2>2. Failed(b).proto = "none"
    BY <2>1 DEF Fresh
  <2> QED
    BY <2>1, <2>2, FreshFits
<1>2. CASE b.proto # "TFTPD"
  <2> DEFINE c == [b EXCEPT !.proto = "none", !.ret = "failed"]
  <2>1. Failed(b) = c
    BY <1>2 DEF Failed
  <2>2. /\ IsBoard(c) /\ c.proto = "none" /\ c.state = b.state /\ c.handler = b.handler
        /\ c.timer = b.timer /\ c.t = b.t /\ c.mem = b.mem /\ c.arp = b.arp
    BY DEF Fits, IsBoard
  <2> HIDE DEF c
  <2> QED
    BY <2>1, <2>2 DEF Fits
<1> QED
  BY <1>1, <1>2

LEMMA SucceededFits ==
  ASSUME NEW b, NEW n \in Nat, Fits(b, n), b.proto \in {"TFTP", "TFTPD", "PING"}
  PROVE  Fits(Succeeded(b), n) /\ Succeeded(b).proto = "none"
<1> DEFINE b1 == [eth_halt(b) EXCEPT !.proto = "none", !.filesize = IF b.xfer > 0 THEN b.xfer ELSE @]
<1>1. /\ IsBoard(b1) /\ b1.proto = "none" /\ b1.state = b.state /\ b1.handler = b.handler
      /\ b1.timer = b.timer /\ b1.t = b.t /\ b1.mem = b.mem /\ b1.arp = b.arp
  BY DEF Fits, IsBoard, eth_halt
<1>2. /\ b.proto = "TFTP" => Succeeded(b) = [b1 EXCEPT !.ret = "loaded", !.loaded = b.file]
      /\ b.proto = "PING" => Succeeded(b) = [b1 EXCEPT !.ret = "alive"]
      /\ b.proto = "TFTPD" => Succeeded(b) = [Fresh(b.mem, b.kernel) EXCEPT !.out = b.out]
  BY DEF Succeeded
<1> HIDE DEF b1
<1>3. CASE b.proto \in {"TFTP", "PING"}
  <2> DEFINE c == Succeeded(b)
  <2>1. /\ IsBoard(c) /\ c.proto = "none" /\ c.state = b1.state /\ c.handler = b1.handler
        /\ c.timer = b1.timer /\ c.t = b1.t /\ c.mem = b1.mem /\ c.arp = b1.arp
    BY <1>1, <1>2, <1>3 DEF IsBoard
  <2> HIDE DEF c
  <2>2. Fits(c, n)
    BY <1>1, <2>1 DEF Fits
  <2> QED
    BY <2>1, <2>2 DEF c
<1>4. CASE b.proto = "TFTPD"
  <2>1. Succeeded(b).proto = "none"
    BY <1>2, <1>4 DEF Fresh
  <2> QED
    BY <1>2, <1>4, <2>1, FreshFits
<1> QED
  BY <1>3, <1>4

-----------------------------------------------------------------------------
(***************************************************************************)
(* The types hold in every state, and the tries of a transfer that runs.   *)
(***************************************************************************)
TypeInv ==
  /\ Fits(board, starts) /\ board.out = {}
  /\ board.proto # "none" => HasTries(board)

LEMMA StepFits ==
  ASSUME NEW c, Step(c), Fits(c, starts'), c.proto # "none" => HasTries(c)
  PROVE  TypeInv'
<1>1. board' = [c EXCEPT !.out = {}]
  BY DEF Step
<1>2. /\ IsBoard(board') /\ board'.proto = c.proto /\ board'.state = c.state
      /\ board'.handler = c.handler /\ board'.timer = c.timer /\ board'.t = c.t
      /\ board'.mem = c.mem /\ board'.arp = c.arp /\ board'.out = {}
  BY <1>1 DEF Fits, IsBoard
<1> QED
  BY <1>2 DEF TypeInv, Fits, HasTries

LEMMA NetLoopFits ==
  ASSUME IInv, TypeInv, NEW b, NetLoop(b), IsBoard(b), b.t = board.t, b.state = board.state,
         b.handler = board.handler, b.timer = board.timer, b.mem = board.mem,
         b.proto \in {"TFTP", "TFTPD", "PING"}
  PROVE  TypeInv'
<1> DEFINE b0 == [b EXCEPT !.arp = NoArpWait, !.ret = "none"]
           i == eth_init(eth_halt(b0))
           c == Starting(i, starts + 1)
<1>1. /\ IsBoard(b0) /\ b0.proto = b.proto /\ b0.state = b.state /\ b0.handler = b.handler
      /\ b0.timer = b.timer /\ b0.t = b.t /\ b0.mem = b.mem /\ b0.arp.try = 0
  BY DEF NoArpWait, IsBoard
<1>2. Step(c) /\ starts' = IF b0.proto = "TFTP" THEN starts + 1 ELSE starts
  BY <1>1 DEF NetLoop, NewPort, StartsTransfer
<1> HIDE DEF b0
<1>3. /\ IsBoard(i) /\ i.proto = b0.proto /\ i.state = b0.state /\ i.handler = b0.handler
      /\ i.timer = b0.timer /\ i.t = b0.t /\ i.mem = b0.mem /\ i.arp = b0.arp
  BY <1>1 DEF eth_halt, eth_init, IsBoard
<1> HIDE DEF i
<1>4. Fits(i, starts) /\ starts \in Nat
  BY <1>1, <1>3, ArpTriesAssumption DEF TypeInv, Fits, IInv
<1>5. Fits(c, Ports(i, starts)) /\ HasTries(c)
  BY <1>1, <1>3, <1>4, StartingFits
<1> HIDE DEF c
<1>6. starts' = Ports(i, starts)
  BY <1>2, <1>3 DEF Ports
<1> QED
  BY <1>2, <1>5, <1>6, StepFits

LEMMA PassFits ==
  ASSUME IInv, TypeInv, NEW arpdue \in BOOLEAN, NEW due \in BOOLEAN, Pass(arpdue, due)
  PROVE  TypeInv'
<1> DEFINE b1 == IF arpdue THEN ArpTimeout(board, netretry) ELSE board
           b2 == IF due THEN Expired(b1) ELSE b1
           c == Starting(b2, starts + 1)
<1>0. /\ board.proto \in {"TFTP", "TFTPD", "PING"}
      /\ \/ b2.state = "continue" /\ Step(b2) /\ starts' = starts
         \/ b2.state = "restart" /\ Step(c) /\ starts' = IF b2.proto = "TFTP" THEN starts + 1 ELSE starts
         \/ b2.state = "success" /\ Step(Succeeded(b2)) /\ starts' = starts
         \/ b2.state = "fail" /\ Step(Failed(b2)) /\ starts' = starts
  BY DEF Pass, IInv, NewPort, StartsTransfer
<1>1. starts \in Nat /\ BoardOk(board, starts) /\ Fits(board, starts) /\ HasTries(board)
  BY <1>0 DEF IInv, BoardOk, TypeInv
<1>2. BoardOk(b1, starts) /\ SameCall(board, b1) /\ Fits(b1, starts) /\ HasTries(b1)
  BY <1>1, ArpTimeoutOk, ArpTimeoutFits DEF SameCall
<1> HIDE DEF b1
<1>3. SameCall(board, b2) /\ Fits(b2, starts) /\ (b2.state = "fail" \/ HasTries(b2))
  <2>1. SameCall(b1, Expired(b1)) /\ Fits(Expired(b1), starts)
        /\ (Expired(b1).state = "fail" \/ HasTries(Expired(b1)))
    BY <1>2, ExpiredOk, ExpiredFits
  <2> QED
    BY <1>2, <2>1 DEF SameCall
<1> HIDE DEF b2
<1>4. b2.proto \in {"TFTP", "TFTPD", "PING"}
  BY <1>0, <1>3 DEF SameCall
<1>5. CASE b2.state = "continue" /\ Step(b2) /\ starts' = starts
  BY <1>3, <1>5, StepFits
<1>6. CASE b2.state = "restart" /\ Step(c) /\ starts' = IF b2.proto = "TFTP" THEN starts + 1 ELSE starts
  <2>1. Fits(c, Ports(b2, starts)) /\ HasTries(c)
    BY <1>1, <1>3, <1>4, StartingFits
  <2> HIDE DEF c
  <2>2. starts' = Ports(b2, starts)
    BY <1>6 DEF Ports
  <2> QED
    BY <1>6, <2>1, <2>2, StepFits
<1>7. CASE b2.state = "success" /\ Step(Succeeded(b2)) /\ starts' = starts
  BY <1>1, <1>3, <1>4, <1>7, SucceededFits, StepFits
<1>8. CASE b2.state = "fail" /\ Step(Failed(b2)) /\ starts' = starts
  BY <1>1, <1>3, <1>8, FailedFits, StepFits
<1> QED
  BY <1>0, <1>5, <1>6, <1>7, <1>8

LEMMA TypeStep ==
  ASSUME IInv, LoadInv, TypeInv, [Next]_vars
  PROVE  TypeInv'
<1>0. IsBoard(board) /\ CallOk(board, starts)
  BY DEF LoadInv, LoadOk, CallOk
<1>1. ASSUME NEW b, IsBoard(b), NetLoop(b),
             \/ \E f : b = [board EXCEPT !.proto = "TFTP", !.file = f, !.loaded = Nobody]
             \/ \E a : b = [board EXCEPT !.proto = "PING", !.host = a]
             \/ b = [board EXCEPT !.proto = "TFTPD"]
      PROVE  TypeInv'
  <2>1. /\ b.t = board.t /\ b.state = board.state /\ b.handler = board.handler /\ b.timer = board.timer
        /\ b.mem = board.mem /\ b.proto \in {"TFTP", "TFTPD", "PING"}
    BY <1>0, <1>1 DEF IsBoard
  <2> QED BY <1>1, <2>1, NetLoopFits
<1>2. CASE (\E f \in Files : do_tftpb(f)) \/ (\E h \in Hosts : do_ping(h)) \/ launch_recovery
  <2>1. CASE \E f \in Files : do_tftpb(f)
    <3>1. PICK f : NetLoop([board EXCEPT !.proto = "TFTP", !.file = f, !.loaded = Nobody])
      BY <2>1 DEF do_tftpb
    <3>2. IsBoard([board EXCEPT !.proto = "TFTP", !.file = f, !.loaded = Nobody])
      BY <1>0 DEF IsBoard
    <3> QED BY <1>1, <3>1, <3>2
  <2>2. CASE \E h \in Hosts : do_ping(h)
    <3>1. PICK a : NetLoop([board EXCEPT !.proto = "PING", !.host = a])
      BY <2>2 DEF do_ping
    <3>2. IsBoard([board EXCEPT !.proto = "PING", !.host = a])
      BY <1>0 DEF IsBoard
    <3> QED BY <1>1, <3>1, <3>2
  <2>3. CASE launch_recovery
    <3>1. NetLoop([board EXCEPT !.proto = "TFTPD"])
      BY <2>3 DEF launch_recovery
    <3>2. IsBoard([board EXCEPT !.proto = "TFTPD"])
      BY <1>0 DEF IsBoard
    <3> QED BY <1>1, <3>1, <3>2
  <2> QED BY <1>2, <2>1, <2>2, <2>3
<1>3. ASSUME NEW p \in OnTheWire, NEW works \in BOOLEAN, eth_rx(p, works) PROVE TypeInv'
  <2>1. /\ board.proto \in {"TFTP", "TFTPD", "PING"} /\ Step(NetReceive(board, p, works)) /\ starts' = starts
        /\ board.proto = "TFTP" /\ p.kind = "data" => p.n # 0 \/ board.t.wrap + Seq <= MaxWrap
    BY <1>3 DEF eth_rx, IInv
  <2>2. Fits(board, starts) /\ HasTries(board)
    BY <2>1 DEF TypeInv
  <2>3. /\ LoopOk(board) /\ ModeOk(board) /\ RunOk(board)
        /\ board.handler = "tftp" => board.t.started
    BY <1>0, <2>1 DEF IInv, SessionOk, CallOk
  <2>4. /\ board.handler = "tftp" => board.proto = "TFTP"
        /\ board.handler = "tftpd" => mode # "cli"
    BY <2>1, <2>3 DEF LoopOk, ModeOk, RunOk
  <2>5. Fits(NetReceive(board, p, works), starts) /\ HasTries(NetReceive(board, p, works))
    BY <1>0, <2>1, <2>2, <2>4, NetReceiveFits
  <2> QED
    BY <2>1, <2>5, StepFits
<1>4. CASE LoopPasses
  BY <1>4, PassFits DEF LoopPasses
<1>5. CASE CtrlC
  <2> DEFINE h == eth_halt(board)
  <2>1. Step(Failed(h)) /\ starts' = starts
    BY <1>5 DEF CtrlC
  <2>2. /\ IsBoard(h) /\ h.state = board.state /\ h.handler = board.handler
        /\ h.timer = board.timer /\ h.t = board.t /\ h.mem = board.mem /\ h.arp = board.arp
    BY <1>0 DEF eth_halt, IsBoard
  <2> HIDE DEF h
  <2>3. Fits(h, starts) /\ starts \in Nat
    BY <2>2 DEF TypeInv, Fits, IInv
  <2> QED
    BY <2>1, <2>3, FailedFits, StepFits
<1>6. CASE UNCHANGED vars
  BY <1>6 DEF vars, TypeInv, Fits, CountersOk, HasTries
<1> QED
  BY <1>2, <1>3, <1>4, <1>5, <1>6 DEF Next, Receives

LEMMA TypeInit == Init => TypeInv
<1> SUFFICES ASSUME Init PROVE TypeInv
  OBVIOUS
<1> DEFINE mem == [i \in Slots |-> Empty]
<1>1. board = Fresh(mem, Nobody) /\ starts = 0
  BY DEF Init
<1>2. mem \in [Slots -> Payloads]
  BY DEF Payloads
<1> HIDE DEF mem
<1>3. /\ IsBoard(board) /\ board.proto = "none" /\ board.state = "continue" /\ board.handler = "null"
      /\ board.timer = "none" /\ board.mem = mem /\ board.arp.try = 0 /\ board.out = {}
      /\ board.t.tries = 0 /\ board.t.block = 0 /\ board.t.wrap = 0 /\ board.t.oport = 0
  BY <1>1 DEF Fresh, NoArpWait, IsBoard
<1>4. CountersOk(board.t, starts)
  BY <1>1, <1>3, SeqAssumption, TriesAssumption, FilesAssumption DEF CountersOk
<1> QED
  BY <1>2, <1>3, <1>4, ArpTriesAssumption DEF TypeInv, Fits

(***************************************************************************)
(* The board keeps to its types: a block that arrives lies in the memory   *)
(* (store_block and the store of the server), and the counters of          *)
(* TftpTimeout and ArpTimeoutCheck stop at their limits.                   *)
(***************************************************************************)
THEOREM TypeCorrect == Spec => []TypeOK
<1>1. Spec => []TypeInv
  BY InvIsInvariant, LoadIsInvariant, TypeInit, TypeStep, PTL DEF Spec
<1>2. IInv /\ TypeInv => TypeOK
  BY DEF IInv, TypeInv, Fits, CountersOk, TypeOK
<1> QED
  BY InvIsInvariant, <1>1, <1>2, PTL
==============================================================================
