-------------------------------- MODULE Tftpd --------------------------------
(***************************************************************************)
(* The TFTP server of the rescue mode, common/cmd_tftpServer.c, which      *)
(* flashes the kernel image a PC puts to it.  Its statics are the field d  *)
(* of the board: state (TftpState), block, last, sport (TftpServerPort),   *)
(* len (image_len), ok (RescueAckFlag) and, of cmd_bootm.c, header: the    *)
(* block with the header found right last, Empty without its magic.  mem   *)
(* is the memory at image_ptr (CFG_LOAD_ADDR), kernel what was written to  *)
(* the kernel partition: Nobody if nothing was or a write has failed.      *)
(***************************************************************************)
EXTENDS Net, Integers

CONSTANTS
  PortTftp,     \* PORT_TFTP
  Kernels,      \* the files that are kernel images
  Size,         \* Size[f]: the blocks of file f
  MinLength     \* LINUX_FILE_SIZE_MIN

ASSUME SizeAssumption == \A f \in Kernels : Size[f] \in Nat \ {0}

Empty == <<Nobody, 0>>

(***************************************************************************)
(* TftpdSend answers whoever NetServerIP names: the variable serverip, or  *)
(* everybody once a read request has set it to TempServerIP, which nothing *)
(* sets.                                                                   *)
(***************************************************************************)
TftpdSend(b) ==
  LET d == b.d IN
  NetSendUDPPacket(b, b.sip,
    CASE d.state = "rrq" -> [kind |-> "vacant", oport |-> d.sport]
      [] d.state = "finishack" -> [kind |-> "finish", oport |-> d.sport, ok |-> d.ok]
      [] OTHER -> [kind |-> "dack", oport |-> d.sport, n |-> d.block])

(***************************************************************************)
(* TftpdStart.  The magic of the image in memory is cleared; the number of *)
(* the last block and the port of the last client are not.                 *)
(***************************************************************************)
TftpdStart(b) ==
  [NetSetHandler(NetSetTimeout(b, "wait"), "tftpd") EXCEPT
    !.ether = FALSE,
    !.mem[0] = Empty,
    !.d = [@ EXCEPT !.state = "rrq", !.block = 0, !.len = 0, !.ok = FALSE]]

(***************************************************************************)
(* Before the first write request the timer only re-arms itself, after it  *)
(* the last answer is sent again, for ever.                                *)
(***************************************************************************)
TftpdTimeout(b) == NetSetTimeout(b, "wait")
TftpdResend(b) == TftpdSend(NetSetTimeout(b, "tftpd"))

(***************************************************************************)
(* verify_kernel_image with its argument 1: a header and data whose two    *)
(* CRCs are right, which is to say the blocks of one kernel image - or the *)
(* header that was found right last, under which nothing is checked again. *)
(***************************************************************************)
InMemory(mem, f) == \A k \in 1 .. Size[f] : mem[k - 1] = <<f, k>>
Known(b) == b.mem[0] # Empty /\ b.mem[0] = b.d.header
verify_kernel_image(b) == Known(b) \/ \E f \in Kernels : InMemory(b.mem, f)

(***************************************************************************)
(* image_size bytes of the memory are erased and written: the size is that *)
(* of the transfer, not the one the header gives the image.  known is      *)
(* history: the check was skipped.                                         *)
(***************************************************************************)
Copied(b, len) == [data |-> [i \in 0 .. (len - 1) \div Full |-> b.mem[i]], known |-> Known(b)]

Flashed(b, len, good, works) ==
  IF len < MinLength
  THEN [b EXCEPT !.d.ok = FALSE]
  ELSE [b EXCEPT !.d.ok = good /\ works,
                 !.d.header = IF good THEN b.mem[0] ELSE Empty,
                 !.kernel = IF ~good THEN @ ELSE IF works THEN Copied(b, len) ELSE Nobody]

(* Mutant: the CRCs are not checked. *)
flash_unverified(b, len, works) == Flashed(b, len, TRUE, works)

(* Mutant: the result of the write is not looked at. *)
flash_unreported(b, len, works) ==
  [Flashed(b, len, verify_kernel_image(b), works) EXCEPT
    !.d.ok = len >= MinLength /\ verify_kernel_image(b)]

(***************************************************************************)
(* flash_kernel_image refuses too short an image and one that does not     *)
(* check.  works is what raspi_erase_write returns.                        *)
(***************************************************************************)
flash_kernel_image(b, len, works) == Flashed(b, len, verify_kernel_image(b), works)

(***************************************************************************)
(* The last block ends it, with the image accepted or not: the answers of  *)
(* TftpdFinish go out and NetLoop returns to a reset.                      *)
(***************************************************************************)
TftpdFinish(b, works) ==
  LET b1 == flash_kernel_image(b, b.d.len, works)
  IN [TftpdSend([b1 EXCEPT !.d.state = "finishack"]) EXCEPT !.state = "success"]

(***************************************************************************)
(* A data block.  In the state RRQ it is stored without any write request; *)
(* the length is that of the block stored last, wherever it lies.  An      *)
(* empty block leaves the memory as it is.                                 *)
(***************************************************************************)
TftpdStore(b, p, works) ==
  LET b1 == NetSetTimeout([b EXCEPT !.d.last = p.n,
                                    !.d.len = Full * (p.n - 1) + p.len,
                                    !.mem[p.n - 1] = IF p.len = 0 THEN @ ELSE p.load], "tftpd")
      b2 == TftpdSend(b1)
  IN IF p.len < Full THEN TftpdFinish(b2, works) ELSE b2

TftpdData(b, p, netretry, works) ==
  LET first == b.d.state = "wrq"
      b1 == IF first
            THEN [b EXCEPT !.d.block = p.n, !.d.state = "data", !.d.sport = p.sport, !.d.last = 0]
            ELSE [b EXCEPT !.d.block = p.n]
  IN IF first /\ p.n # 1 THEN NetStartAgain(b1, netretry)
     ELSE IF p.n = b1.d.last THEN b1
     ELSE TftpdStore(b1, p, works)

(***************************************************************************)
(* TftpHandler of the server.  Outside the state RRQ only the port counts, *)
(* never the address the packet comes from.                                *)
(***************************************************************************)
TftpdHandler(b, p, netretry, works) ==
  IF p.dport # PortTftp \/ (b.d.state # "rrq" /\ p.sport # b.d.sport) THEN b
  ELSE CASE p.kind = "ask" ->
              TftpdSend([b EXCEPT !.sip = Nobody, !.d.sport = p.sport, !.d.block = 1, !.d.state = "rrq"])
         [] p.kind = "wrq" ->
              TftpdSend([b EXCEPT !.d.sport = p.sport, !.d.block = 0, !.d.state = "wrq"])
         [] p.kind = "data" -> TftpdData(b, p, netretry, works)
         [] p.kind = "error" -> NetStartAgain(b, netretry)
         [] OTHER -> b
==============================================================================
