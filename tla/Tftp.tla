--------------------------------- MODULE Tftp ---------------------------------
(***************************************************************************)
(* The TFTP client, net/tftp.c.  Its statics are the field t of the board: *)
(* started (TftpStarted), state, block, last, wrap (TftpBlockWrapOffset in *)
(* blocks), sport (TftpServerPort), oport (TftpOurPort) and tries          *)
(* (TftpTimeoutCount); file is BootFile, xfer NetBootFileXferSize and mem  *)
(* the memory at load_addr, a slot per block of 512 bytes.                 *)
(***************************************************************************)
EXTENDS Net

CONSTANTS
  Seq,          \* TFTP_SEQUENCE_SIZE: block numbers are taken modulo Seq
  MaxTries,     \* TIMEOUT_COUNT
  WellKnown     \* WELL_KNOWN_PORT

ASSUME SeqAssumption == Seq \in Nat \ {0, 1}
ASSUME TriesAssumption == MaxTries \in Nat

larger(a, b) == IF a < b THEN b ELSE a

(***************************************************************************)
(* store_block(TftpBlock - 1, ...): the slot counts from 0, and block 0    *)
(* after a wrap lands before the offset the wrap has added.                *)
(***************************************************************************)
Slot(t) == (t.wrap + t.block) - 1

store_block(b, p) ==
  [b EXCEPT !.mem[Slot(b.t)] = p.load,
            !.xfer = larger(@, Full * Slot(b.t) + p.len)]

(***************************************************************************)
(* TftpSend: the read request, or the ACK of the block seen last.          *)
(***************************************************************************)
TftpSend(b) ==
  LET t == b.t IN
  NetSendUDPPacket(b, b.sip,
    IF t.state = "rrq"
    THEN [kind |-> "rrq", oport |-> t.oport, file |-> b.file]
    ELSE [kind |-> "ack", oport |-> t.oport, sport |-> t.sport, n |-> t.block])

(* Mutant: the block of the transfer before is not forgotten. *)
TftpStartKeepsBlock(b, port) ==
  TftpSend([NetSetHandler(NetSetTimeout(b, "tftp"), "tftp") EXCEPT
    !.ether = FALSE,
    !.t = [@ EXCEPT !.started = TRUE, !.state = "rrq",
                    !.sport = WellKnown, !.oport = port, !.tries = 0]])

(***************************************************************************)
(* TftpStart, with the port the clock gives it.  The state of a transfer   *)
(* before it is left in last and wrap until the first block arrives.       *)
(***************************************************************************)
TftpStart(b, port) ==
  TftpSend([NetSetHandler(NetSetTimeout(b, "tftp"), "tftp") EXCEPT
    !.ether = FALSE,
    !.t = [@ EXCEPT !.started = TRUE, !.state = "rrq", !.block = 0,
                    !.sport = WellKnown, !.oport = port, !.tries = 0]])

(* Mutant: timeouts are not counted. *)
TftpTimeoutUncounted(b, netretry) == TftpSend(NetSetTimeout(b, "tftp"))

TftpTimeout(b, netretry) ==
  LET b1 == [b EXCEPT !.t.tries = @ + 1] IN
  IF b1.t.tries > MaxTries
  THEN NetStartAgain(b1, netretry)
  ELSE TftpSend(NetSetTimeout(b1, "tftp"))

(***************************************************************************)
(* A data block: its number is taken before anything is checked, a zero    *)
(* moves the offset, the first block of a transfer must be block 1 and the *)
(* same number as the last one is ignored.                                 *)
(***************************************************************************)
Numbered(b, p) ==
  [b EXCEPT !.t.block = p.n, !.t.wrap = IF p.n = 0 THEN @ + Seq ELSE @]

FirstBlock(b, p) ==
  [b EXCEPT !.t.state = "data", !.t.sport = p.sport, !.t.last = 0, !.t.wrap = 0]

TakeBlock(b, p) ==
  LET b1 == store_block(NetSetTimeout([b EXCEPT !.t.last = p.n], "tftp"), p)
      b2 == TftpSend(b1)
  IN IF p.len < Full THEN [b2 EXCEPT !.state = "success"] ELSE b2

TftpData(b, p, netretry) ==
  LET first == b.t.state \in {"rrq", "oack"}
      b1 == IF first THEN FirstBlock(Numbered(b, p), p) ELSE Numbered(b, p)
  IN IF first /\ p.n # 1 THEN NetStartAgain(b1, netretry)
     ELSE IF p.n = b1.t.last THEN b1
     ELSE TakeBlock(b1, p)

(* Mutants: one of the two ports is not looked at. *)
ForUsAnyPort(b, p) == b.t.state = "rrq" \/ p.sport = b.t.sport
ForUsAnySession(b, p) == p.dport = b.t.oport

(***************************************************************************)
(* TftpHandler: until the server has answered any source port will do.     *)
(***************************************************************************)
ForUs(b, p) ==
  /\ p.dport = b.t.oport
  /\ b.t.state = "rrq" \/ p.sport = b.t.sport

TftpHandler(b, p, netretry) ==
  IF ~ForUs(b, p) THEN b
  ELSE CASE p.kind = "oack" ->
              TftpSend([b EXCEPT !.t.state = "oack", !.t.sport = p.sport])
         [] p.kind = "data" -> TftpData(b, p, netretry)
         [] p.kind = "error" -> NetStartAgain(b, netretry)
         [] OTHER -> b
===============================================================================
