--------------------------------- MODULE Net ---------------------------------
(***************************************************************************)
(* The machinery of net/net.c and net/eth.c every network protocol of the  *)
(* boot loader is built on: one packet handler, one timer, one packet that *)
(* waits for an ARP reply, and NetStartAgain.  The handlers call each      *)
(* other inside one C call, so each function is an operator from the state *)
(* of the board to the state of the board; NetBoot makes actions of them.  *)
(* The fields of the board used here:                                      *)
(*   state    NetState                handler  packetHandler               *)
(*   timer    timeHandler             up       the device is ACTIVE        *)
(*   ether    NetServerEther is known (not zero)      sip  NetServerIP     *)
(*   arp      NetArpWaitPacketIP, ...MAC, ...Try and the waiting packet    *)
(*   out      the frames this call puts on the wire                        *)
(*   queue    the frames in the ring of a device that is halted            *)
(***************************************************************************)
EXTENDS Naturals

CONSTANTS
  ArpTries,     \* ARP_TIMEOUT_COUNT
  Server,       \* the address in the variable serverip
  Nobody        \* no address, no packet, no source port

ASSUME ArpTriesAssumption == ArpTries \in Nat \ {0}
ASSUME ServerAssumption == Server # Nobody

(***************************************************************************)
(* No packet waits for an address (net.c:318-322, 1054-1056).  The owner   *)
(* is what NetArpWaitPacketMAC points to: NetServerEther or ping's own mac.*)
(***************************************************************************)
NoArpWait == [ip |-> Nobody, owner |-> Nobody, try |-> 0, pkt |-> Nobody]

(***************************************************************************)
(* A size counts Full for a whole block of a file and Short for its last.  *)
(***************************************************************************)
Full == 2
Short == 1

(***************************************************************************)
(* Frames nobody answers, which are forgotten at once.                     *)
(***************************************************************************)
Unanswered == {"vacant", "finish"}

(***************************************************************************)
(* The device does not look at its state when it is given a frame: while   *)
(* it is halted the frame stays in the ring, until it is started again.    *)
(* Of the frames that wait there some may go out as copies of a younger    *)
(* one (EthRings, SentIsBuilt).  On a network that may lose and repeat any *)
(* frame those are frames that were lost and frames that were repeated.    *)
(***************************************************************************)
eth_send(b, pkt) ==
  LET frames == {m \in {pkt} : m.kind \notin Unanswered}
  IN IF b.up THEN [b EXCEPT !.out = @ \cup frames] ELSE [b EXCEPT !.queue = @ \cup frames]
eth_halt(b) == [b EXCEPT !.up = FALSE]
eth_init(b) == [b EXCEPT !.up = TRUE, !.out = @ \cup b.queue, !.queue = {}]

NetSetHandler(b, h) == [b EXCEPT !.handler = h]
NetSetTimeout(b, h) == [b EXCEPT !.timer = h]

ArpRequest(b) == eth_send(b, [kind |-> "arpreq", ip |-> b.arp.ip])

(***************************************************************************)
(* A packet to an address whose Ethernet address is not known is kept and  *)
(* an ARP request goes out instead; a packet kept before is forgotten.     *)
(***************************************************************************)
WaitForArp(b, ip, owner, pkt) ==
  ArpRequest([b EXCEPT !.arp = [ip |-> ip, owner |-> owner, try |-> 1, pkt |-> pkt]])

(***************************************************************************)
(* NetSendUDPPacket: dest 0 is turned into the broadcast address, which    *)
(* needs no ARP.                                                           *)
(***************************************************************************)
NetSendUDPPacket(b, dest, pkt) ==
  IF dest = Nobody \/ b.ether
  THEN eth_send(b, pkt)
  ELSE WaitForArp(b, dest, "server", pkt)

(***************************************************************************)
(* NetStartAgain, with the one device eth2: eth_try_another comes back to  *)
(* it at once, so NetRestartWrap is set on every call, and "once" gives up *)
(* the first time.                                                         *)
(***************************************************************************)
NetStartAgain(b, netretry) ==
  CASE netretry = "no"   -> [eth_halt(b) EXCEPT !.state = "fail"]
    [] netretry = "once" -> [eth_init(eth_halt(b)) EXCEPT !.state = "fail"]
    [] OTHER -> NetSetHandler(NetSetTimeout(eth_init(eth_halt(b)), "again"), "ignore")

(* Mutant: giving up does not start the count again. *)
ArpTimeoutCountsOn(b, netretry) ==
  IF b.arp.try + 1 >= ArpTries
  THEN NetStartAgain([b EXCEPT !.arp.try = @ + 1], netretry)
  ELSE ArpRequest([b EXCEPT !.arp.try = @ + 1])

(***************************************************************************)
(* ArpTimeoutCheck, when the waiting time of the request has passed.       *)
(* Giving up leaves the packet waiting: requests go on in the pause.       *)
(***************************************************************************)
ArpTimeout(b, netretry) ==
  IF b.arp.try + 1 >= ArpTries
  THEN NetStartAgain([b EXCEPT !.arp.try = 0], netretry)
  ELSE ArpRequest([b EXCEPT !.arp.try = @ + 1])

==============================================================================
