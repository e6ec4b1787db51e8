------------------------------- MODULE NetBoot -------------------------------
(***************************************************************************)
(* NetLoop (net/net.c) with the protocols it runs in this configuration:   *)
(* the commands tftpboot and ping of the command line (cmd_net.c), and the *)
(* TFTP server of a build whose recovery is not the web server             *)
(* (launch_recovery, lib_mips/board.c).                                    *)
(*                                                                         *)
(* sent holds every frame the board has ever sent, and OnTheWire what the  *)
(* other stations may have answered to those.  A frame of either is never  *)
(* taken away: it may be lost, arrive late, twice or out of order, in this *)
(* NetLoop or in a later one.                                              *)
(***************************************************************************)
EXTENDS Tftp, Tftpd

CONSTANTS
  Modes,        \* "cli" and "rescue": how the board has started
  Files,        \* the files of the TFTP server
  Hosts,        \* the addresses a user pings
  Uploaders,    \* the source ports TFTP clients put images from
  Upload,       \* Upload[u]: the kernel image the client at port u puts
  Cut,          \* Cut[u]: the blocks of it in a copy that was cut off
  Spelled,      \* <<c, h>>: contents with the address h in bytes 12 to 15
  Sessions,     \* the sessions a read request opens at the TFTP server
  OptionSessions, \* those that acknowledge the option first
  Retries,      \* the values of the variable netretry, by mode
  MaxStarts,    \* bound: transfers started
  MaxWrap       \* bound: TftpBlockWrapOffset

(***************************************************************************)
(* A file has a block; the images put to the board fit into the memory.    *)
(***************************************************************************)
ASSUME FilesAssumption ==
  /\ MaxWrap \in Nat
  /\ \A f \in Files : f # Nobody /\ Size[f] \in Nat \ {0}
  /\ \A u \in Uploaders : /\ Size[Upload[u]] \in 1 .. MaxWrap + Seq + 1
                           /\ Cut[u] \in 1 .. Size[Upload[u]]

VARIABLES
  board,        \* the state of the boot loader
  sent,         \* the frames the board has sent
  mode,         \* the member of Modes
  netretry,     \* the variable netretry
  starts        \* the transfers started: the last port the clock gave

vars == <<board, sent, mode, netretry, starts>>

Length(f) == Full * (Size[f] - 1) + Short
BlockLength(f, k) == IF k = Size[f] THEN Short ELSE Full
Slots == -1 .. MaxWrap + Seq

(***************************************************************************)
(* The board after a reset: only the flash and the memory keep anything.   *)
(***************************************************************************)
Fresh(mem, kernel) ==
  [proto |-> "none", state |-> "continue", handler |-> "null", timer |-> "none",
   up |-> FALSE, ether |-> FALSE, sip |-> Nobody, arp |-> NoArpWait, out |-> {}, queue |-> {},
   file |-> Nobody, host |-> Nobody, ret |-> "none", loaded |-> Nobody, filesize |-> 0,
   xfer |-> 0, mem |-> mem, kernel |-> kernel,
   t |-> [started |-> FALSE, state |-> "rrq", block |-> 0, last |-> 0, wrap |-> 0,
          sport |-> Nobody, oport |-> 0, tries |-> 0],
   d |-> [state |-> "rrq", block |-> 0, last |-> 0, sport |-> Nobody, len |-> 0, ok |-> FALSE,
         header |-> Empty]]

Init ==
  /\ board = Fresh([i \in Slots |-> Empty], Nobody)
  /\ sent = {}
  /\ mode \in Modes
  /\ netretry \in Retries[mode]
  /\ starts = 0

-----------------------------------------------------------------------------
(***************************************************************************)
(* PingSend always asks for the address and keeps the echo request until   *)
(* the answer; the address goes to a mac of its own.                       *)
(***************************************************************************)
PingSend(b) == WaitForArp(b, b.host, "ping", [kind |-> "echo", ip |-> b.host])

(* Mutant: the handler of the protocol before stays. *)
PingStartOldHandler(b) == PingSend(NetSetTimeout(b, "ping"))

PingStart(b) == PingSend(NetSetHandler(NetSetTimeout(b, "ping"), "ping"))

(* Mutant: the device is not halted. *)
PingTimeoutStaysUp(b) == [b EXCEPT !.state = "fail"]

PingTimeout(b) == [eth_halt(b) EXCEPT !.state = "fail"]

(***************************************************************************)
(* The handler reads an address where the source of an IP packet is.  An   *)
(* echo reply has it there; of a UDP packet it is given the contents, of   *)
(* which Spelled tells what is read.                                       *)
(***************************************************************************)
Contents(p) == IF p.kind = "data" THEN p.load ELSE <<p.kind, 0>>
IpSrc(b, p) == IF p.kind = "reply" THEN p.ip = b.host ELSE <<Contents(p), b.host>> \in Spelled

PingHandler(b, p) == IF IpSrc(b, p) THEN [b EXCEPT !.state = "success"] ELSE b

(***************************************************************************)
(* The start of a protocol (net.c:374-535), also after NETLOOP_RESTART.    *)
(***************************************************************************)
Starting(b, port) ==
  LET b1 == [b EXCEPT !.state = "continue", !.sip = Server]
      b2 == CASE b.proto = "TFTP"  -> TftpStart(b1, port)
              [] b.proto = "TFTPD" -> TftpdStart(b1)
              [] b.proto = "PING"  -> PingStart(b1)
  IN [b2 EXCEPT !.xfer = 0]

(***************************************************************************)
(* An answer to the ARP request waited for: the waiting packet goes out,   *)
(* and if TFTP has ever been started TftpSend is called too.               *)
(***************************************************************************)
ArpReply(b, p) ==
  LET b1 == IF b.arp.owner = "server" THEN [b EXCEPT !.ether = TRUE] ELSE b
      b2 == [eth_send(b1, b.arp.pkt) EXCEPT !.arp = NoArpWait]
  IN IF b.arp.ip = Nobody \/ p.ip # b.arp.ip THEN b
     ELSE IF b.t.started THEN TftpSend(b2) ELSE b2

(***************************************************************************)
(* NetReceive: echo replies and UDP packets go to the current handler,     *)
(* whatever it is.  An echo reply has no port, which the TFTP handlers     *)
(* take for a foreign one.                                                 *)
(***************************************************************************)
NetReceive(b, p, works) ==
  IF p.kind = "arprep" THEN ArpReply(b, p)
  ELSE CASE b.handler = "ping" -> PingHandler(b, p)
         [] p.kind # "reply" /\ b.handler = "tftp" -> TftpHandler(b, p, netretry)
         [] p.kind # "reply" /\ b.handler = "tftpd" -> TftpdHandler(b, p, netretry, works)
         [] OTHER -> b

(***************************************************************************)
(* A timer that has run out: the handler is taken away before it is run.   *)
(***************************************************************************)
Expired(b) ==
  LET b1 == [b EXCEPT !.timer = "none"] IN
  CASE b.timer = "tftp"  -> TftpTimeout(b1, netretry)
    [] b.timer = "wait"  -> TftpdTimeout(b1)
    [] b.timer = "tftpd" -> TftpdResend(b1)
    [] b.timer = "ping"  -> PingTimeout(b1)
    [] b.timer = "again" -> [b1 EXCEPT !.state = "restart"]
    [] OTHER -> b1

(***************************************************************************)
(* The end of NetLoop: what it returns, and what the commands make of it.  *)
(* A success leaves the size in the variable filesize; a failure leaves    *)
(* the old one there.  The end of TFTPD is followed by a reset.            *)
(***************************************************************************)
Succeeded(b) ==
  LET b1 == [eth_halt(b) EXCEPT !.proto = "none", !.filesize = IF b.xfer > 0 THEN b.xfer ELSE @] IN
  CASE b.proto = "TFTP"  -> [b1 EXCEPT !.ret = "loaded", !.loaded = b.file]
    [] b.proto = "PING"  -> [b1 EXCEPT !.ret = "alive"]
    [] OTHER -> [Fresh(b.mem, b.kernel) EXCEPT !.out = b.out]

Failed(b) ==
  IF b.proto = "TFTPD"
  THEN [Fresh(b.mem, b.kernel) EXCEPT !.out = b.out]
  ELSE [b EXCEPT !.proto = "none", !.ret = "failed"]

-----------------------------------------------------------------------------
(***************************************************************************)
(* A step of the board: the frames it sends go on the wire.  NewPort is    *)
(* the port a transfer started now gets: the clock has moved since the     *)
(* last start, so it is taken for one no earlier transfer has used.        *)
(***************************************************************************)
NewPort == starts + 1

Step(b) ==
  /\ board' = [b EXCEPT !.out = {}]
  /\ sent' = sent \cup b.out

StartsTransfer(b) == b.proto = "TFTP"

(***************************************************************************)
(* NetLoop(protocol) up to its loop: no packet waits, the device is halted *)
(* and started, the protocol begins.                                       *)
(***************************************************************************)
NetLoop(b) ==
  /\ board.proto = "none"
  /\ StartsTransfer(b) => starts < MaxStarts
  /\ starts' = IF StartsTransfer(b) THEN starts + 1 ELSE starts
  /\ Step(Starting(eth_init(eth_halt([b EXCEPT !.arp = NoArpWait, !.ret = "none"])), NewPort))
  /\ UNCHANGED <<mode, netretry>>

(***************************************************************************)
(* tftpboot and ping at the prompt, and launch_recovery.                   *)
(***************************************************************************)
do_tftpb(f) ==
  /\ mode = "cli"
  /\ NetLoop([board EXCEPT !.proto = "TFTP", !.file = f, !.loaded = Nobody])

do_ping(h) ==
  /\ mode = "cli"
  /\ NetLoop([board EXCEPT !.proto = "PING", !.host = h])

launch_recovery ==
  /\ mode = "rescue"
  /\ NetLoop([board EXCEPT !.proto = "TFTPD"])

(***************************************************************************)
(* eth_rx: every frame the device holds is handled before NetState is      *)
(* looked at again.  works is the result of writing the flash, should the  *)
(* frame make the board do that.                                           *)
(***************************************************************************)
eth_rx(p, works) ==
  /\ board.proto # "none"
  /\ board.proto = "TFTP" /\ p.kind = "data" => p.n # 0 \/ board.t.wrap + Seq <= MaxWrap
  /\ Step(NetReceive(board, p, works))
  /\ UNCHANGED <<mode, netretry, starts>>

(***************************************************************************)
(* The rest of a pass through the loop: the ARP timer, the timer, and the  *)
(* switch on NetState.  Either timer may have run out.                     *)
(***************************************************************************)
Pass(arpdue, due) ==
  LET b1 == IF arpdue THEN ArpTimeout(board, netretry) ELSE board
      b2 == IF due THEN Expired(b1) ELSE b1
  IN /\ board.proto # "none"
     /\ arpdue => board.arp.ip # Nobody
     /\ due => b1.timer # "none"
     /\ UNCHANGED <<mode, netretry>>
     /\ \/ /\ b2.state = "continue"
           /\ Step(b2)
           /\ UNCHANGED starts
        \/ /\ b2.state = "restart"
           /\ StartsTransfer(b2) => starts < MaxStarts
           /\ starts' = IF StartsTransfer(b2) THEN starts + 1 ELSE starts
           /\ Step(Starting(b2, NewPort))
        \/ /\ b2.state = "success"
           /\ Step(Succeeded(b2))
           /\ UNCHANGED starts
        \/ /\ b2.state = "fail"
           /\ Step(Failed(b2))
           /\ UNCHANGED starts

LoopPasses == \E arpdue, due \in BOOLEAN : Pass(arpdue, due)

(***************************************************************************)
(* Control-C ends the loop with what was received left where it is.  In    *)
(* the rescue mode the reset comes next.                                   *)
(***************************************************************************)
CtrlC ==
  /\ board.proto # "none"
  /\ Step(Failed(eth_halt(board)))
  /\ UNCHANGED <<mode, netretry, starts>>

-----------------------------------------------------------------------------
(***************************************************************************)
(* The other stations.  What they may have answered to the frames of the   *)
(* board so far is on its way, for as long as it takes.                    *)
(***************************************************************************)
Sent(kind) == {m \in sent : m.kind = kind}

StationAnswers ==
  {[kind |-> "arprep", ip |-> m.ip] : m \in Sent("arpreq")}
    \cup {[kind |-> "reply", ip |-> m.ip] : m \in Sent("echo")}

(***************************************************************************)
(* The TFTP server: every read request it sees opens a session with a port *)
(* of its own.  It sends a block once the ones before were acknowledged to *)
(* that port, a session with options its first one after ACK 0.            *)
(***************************************************************************)
Acked(oport, s, n) ==
  [kind |-> "ack", oport |-> oport, sport |-> s, n |-> n % Seq] \in sent

MaySend(oport, s, k) ==
  \A n \in (IF s \in OptionSessions THEN 0 ELSE 1) .. k - 1 : Acked(oport, s, n)

Data(oport, s, f, k) ==
  [kind |-> "data", dport |-> oport, sport |-> s, n |-> k % Seq,
   load |-> <<f, k>>, len |-> BlockLength(f, k)]

SessionAnswers(oport, s, f) ==
  {Data(oport, s, f, k) : k \in {k \in 1 .. Size[f] : MaySend(oport, s, k)}}
    \cup {[kind |-> "oack", dport |-> oport, sport |-> s] : o \in OptionSessions \cap {s}}
    \cup {[kind |-> "error", dport |-> oport, sport |-> s]}

ServerAnswers ==
  UNION {SessionAnswers(m.oport, s, m.file) : m \in Sent("rrq"), s \in Sessions}

(***************************************************************************)
(* The TFTP clients that put an image to the board, with or without the    *)
(* read request of the vendor's rescue tool before it.  A client may have  *)
(* a copy that was cut off after a whole block, and ends it with an empty  *)
(* one.                                                                    *)
(***************************************************************************)
PutBlock(u, k, load, len) ==
  [kind |-> "data", dport |-> PortTftp, sport |-> u, n |-> k, load |-> load, len |-> len]

MayPut(u, k) == \A n \in 0 .. k - 1 : [kind |-> "dack", oport |-> u, n |-> n] \in sent

Put(u, f) ==
  {[kind |-> k, dport |-> PortTftp, sport |-> u] : k \in {"ask", "wrq"}}
    \cup {PutBlock(u, k, <<f, k>>, BlockLength(f, k)) : k \in {k \in 1 .. Size[f] : MayPut(u, k)}}
    \cup {PutBlock(u, k, Empty, 0) : k \in {k \in 1 .. Size[f] : k = Cut[u] + 1 /\ MayPut(u, k)}}

UploadersSend == UNION {Put(u, Upload[u]) : u \in Uploaders}

OnTheWire ==
  StationAnswers \cup IF mode = "cli" THEN ServerAnswers ELSE UploadersSend

Receives == \E p \in OnTheWire, works \in BOOLEAN : eth_rx(p, works)

Next ==
  \/ \E f \in Files : do_tftpb(f)
  \/ \E h \in Hosts : do_ping(h)
  \/ launch_recovery
  \/ Receives
  \/ LoopPasses
  \/ CtrlC

(***************************************************************************)
(* The loop goes round, and its timers run out.                            *)
(***************************************************************************)
TimersRunOut == \E arpdue \in BOOLEAN : Pass(arpdue, TRUE)
Fairness == WF_vars(board.state # "continue" /\ LoopPasses) /\ WF_vars(TimersRunOut)

Spec == Init /\ [][Next]_vars /\ Fairness

-----------------------------------------------------------------------------
(***************************************************************************)
(* The board only holds values its C variables can hold.                   *)
(***************************************************************************)
Payloads ==
  {Empty} \cup UNION {{<<f, k>> : k \in 1 .. Size[f]} : f \in Files \cup {Upload[u] : u \in Uploaders}}

TypeOK ==
  /\ board.proto \in {"none", "TFTP", "TFTPD", "PING"}
  /\ board.state \in {"continue", "restart", "success", "fail"}
  /\ board.handler \in {"null", "tftp", "tftpd", "ping", "ignore"}
  /\ board.timer \in {"none", "tftp", "wait", "tftpd", "ping", "again"}
  /\ board.arp.try \in 0 .. ArpTries
  /\ board.out = {}
  /\ board.t.tries \in 0 .. MaxTries + 1
  /\ board.t.block \in 0 .. Seq - 1
  /\ board.mem \in [Slots -> Payloads]
  /\ board.t.oport \in 0 .. starts

(***************************************************************************)
(* A transfer tftpboot reports as loaded is the whole file, in its place,  *)
(* with its size in the variable filesize, and stays so through the pings  *)
(* that follow - whatever was lost, repeated or late, and though every     *)
(* transfer opens two sessions at the server (net.c:1054 and 1064 both     *)
(* send a read request).  For files whose block numbers do not wrap (see   *)
(* Wraps), and not for netretry=once (see AckedIsStored).                  *)
(***************************************************************************)
Wraps(f) == Size[f] >= Seq

LoadIsExact ==
  board.loaded # Nobody /\ netretry # "once" /\ ~Wraps(board.loaded) =>
    /\ InMemory(board.mem, board.loaded)
    /\ board.filesize = Length(board.loaded)

(***************************************************************************)
(* The server forgets a block once it is acknowledged: whatever of this    *)
(* transfer was acknowledged is in memory, also after a timeout, a late    *)
(* option acknowledgement or a repeated block made TftpSend run again.     *)
(* After netretry=no has failed the transfer the frames of the same eth_rx *)
(* still acknowledge the block it was given up for, but the device is      *)
(* halted by then; "once" has started it again.                            *)
(***************************************************************************)
AckedIsStored ==
  board.proto = "TFTP" /\ netretry # "once" /\ ~Wraps(board.file) =>
    \A k \in 1 .. Size[board.file] :
      (\E s \in Sessions : Acked(board.t.oport, s, k)) => board.mem[k - 1] = <<board.file, k>>

(***************************************************************************)
(* Of the sessions its requests open, a transfer only ever acknowledges    *)
(* one (tftp.c:196, the port of the server is held from the first answer). *)
(***************************************************************************)
OneSession ==
  \A m1, m2 \in Sent("ack") : m1.oport = m2.oport => m1.sport = m2.sport

(***************************************************************************)
(* ping: "host %s is alive".  An echo request went to that host before it  *)
(* says so.  It need not have: PingHandler is given the late packets of a  *)
(* transfer ping came after, and takes four bytes of them for the address  *)
(* of their sender.                                                        *)
(***************************************************************************)
WasAsked(h) == \E m \in Sent("echo") : m.ip = h

AskedIfAlive == board.ret = "alive" => WasAsked(board.host)

(***************************************************************************)
(* The packets that spell the address are the only ones that mislead ping: *)
(* it calls a host alive that it asked, or after a transfer of a file with *)
(* the address in it (or from a server with the address in its words), and *)
(* never on account of a transfer it interrupted that goes on, nor of the  *)
(* answers another host still owes.                                        *)
(***************************************************************************)
Spells(f, h) ==
  \E c \in {<<f, k>> : k \in 1 .. Size[f]} \cup {<<"oack", 0>>, <<"error", 0>>} : <<c, h>> \in Spelled

PingIsTrue ==
  board.ret = "alive" =>
    WasAsked(board.host) \/ \E m \in Sent("rrq") : Spells(m.file, board.host)

(***************************************************************************)
(* Between two NetLoops the device is halted, so that it does not write    *)
(* frames into the memory of what is booted next.  "once" is the           *)
(* exception: NetStartAgain has started the device again when it gives up. *)
(***************************************************************************)
QuietAtPrompt == board.proto = "none" /\ netretry # "once" => ~board.up

(***************************************************************************)
(* "We received the whole thing": what the rescue mode writes to the       *)
(* kernel partition is a whole image.  It is not, when a client puts a     *)
(* copy that was cut off over the image the memory has kept from the put   *)
(* before: the CRCs are those of the whole image in memory, the length is  *)
(* that of the copy.                                                       *)
(***************************************************************************)
RescueIsWhole ==
  board.kernel # Nobody /\ ~board.kernel.known =>
    \E f \in Kernels : /\ Size[f] - 1 \in DOMAIN board.kernel.data
                       /\ InMemory(board.kernel.data, f)

(***************************************************************************)
(* What the rescue mode writes is a kernel image from its first block on,  *)
(* as far as the write goes: it may end early, or with blocks of another   *)
(* put behind the end of the image, but has no wrong block inside it,      *)
(* whoever put blocks of what between a reset and the next.  For a put     *)
(* that ends in the same eth_rx as one that was flashed, and has its       *)
(* header, nothing is checked.                                             *)
(***************************************************************************)
RescueIsChecked ==
  board.kernel # Nobody /\ ~board.kernel.known =>
    \E f \in Kernels : \A i \in DOMAIN board.kernel.data :
      i < Size[f] => board.kernel.data[i] = <<f, i + 1>>

(***************************************************************************)
(* A client is told that its image is flashed only if something was: the   *)
(* flag it is told by outlives the put it was set for, and the write after *)
(* it may fail.                                                            *)
(***************************************************************************)
FinishIsTrue ==
  board.d.state = "finishack" /\ board.d.ok => board.kernel # Nobody

(***************************************************************************)
(* A command on a network that has fallen silent comes back to the prompt, *)
(* unless netretry tells it to go on for ever.                             *)
(***************************************************************************)
Silent == <>[][mode = "cli" => ~Receives]_vars

LoopReturns ==
  mode = "cli" /\ netretry # "yes" /\ Silent => []<>(board.proto = "none")
==============================================================================
