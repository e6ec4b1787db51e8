-------------------------------- MODULE Kermit --------------------------------
(***************************************************************************)
(* Loading a file over the serial line, common/cmd_load.c: the receiver    *)
(* k_recv writes the characters of a packet to memory as they come in and  *)
(* takes them back when the packet turns out to be bad or a repetition.    *)
(* The other end is a Kermit program that sends one packet at a time and   *)
(* repeats it until it is acknowledged.                                    *)
(*                                                                         *)
(* A character is a number, the QUOTE included.                            *)
(***************************************************************************)
EXTENDS Integers, Sequences, SequencesExt

CONSTANTS
  Files,        \* what can be sent
  Pieces,       \* Pieces[f]: the characters of file f, packet by packet
  QUOTE,        \* his_quote
  Controls,     \* the characters that are sent quoted
  CTRL,         \* bit 6, which quoting flips; above all characters
  Modulus,      \* packets are numbered modulo this: 64
  Lines,        \* what sender and line a load may have
  MaxFaults,    \* bound: packets lost or damaged in a load
  MaxLine,      \* bound: packets on the line, in each direction
  MemSize       \* bound: characters of memory from the load address on

ASSUME KermitAssumption ==
  /\ Modulus \in Nat /\ Modulus > 2
  /\ Lines \subseteq [patient : BOOLEAN, damages : SUBSET {"lost", "length", "body"}]
  /\ MemSize \in Nat

ASSUME CharAssumption ==
  /\ CTRL \in Nat /\ QUOTE \in 0 .. CTRL /\ Controls \subseteq 1 .. CTRL
  /\ \A f \in Files : Pieces[f] \in Seq(Seq(0 .. CTRL))

VARIABLES
  loading,      \* k_recv: "off" | "receiving" | "done" | "interrupted"
  ram,          \* memory from the load address on
  data,         \* os_data_addr and k_data_escape
  saved,        \* os_data_addr_saved and k_data_escape_saved
  n,            \* n: the number of the last packet that showed one
  last_n,       \* last_n
  remote,       \* the sender: its file, the packet it is at, its number, its line
  toBoard,      \* packets on the line to the board
  toRemote,     \* answers on the line to the sender
  faults

kermitVars == <<loading, ram, data, saved, n, last_n, remote, toBoard, toRemote, faults>>

Memory == 1 .. MemSize

(***************************************************************************)
(* ktrans and k_data_char: one character of a data packet.                 *)
(***************************************************************************)
ktrans(c) == IF c > CTRL THEN c - CTRL ELSE c

k_data_char(m, c) ==
  IF m.escape
  THEN [ram |-> [m.ram EXCEPT ![m.addr + 1] = ktrans(c)], addr |-> m.addr + 1, escape |-> FALSE]
  ELSE IF c = QUOTE THEN [m EXCEPT !.escape = TRUE]
  ELSE [m EXCEPT !.ram[m.addr + 1] = c, !.addr = @ + 1]

(***************************************************************************)
(* The characters of a packet, one after the other.                        *)
(***************************************************************************)
k_data_chars(m, cs) ==
  LET after[i \in 0 .. Len(cs)] == IF i = 0 THEN m ELSE k_data_char(after[i - 1], cs[i])
  IN after[Len(cs)]

Stored(cs, d) == k_data_chars([ram |-> ram, addr |-> d.addr, escape |-> d.escape], cs)

DataOf(m) == [addr |-> m.addr, escape |-> m.escape]

-----------------------------------------------------------------------------
(***************************************************************************)
(* The sender: S, F, the data, Z and B, numbered in turn.                  *)
(***************************************************************************)
Encoded(c) == IF c \in Controls THEN <<QUOTE, c + CTRL>> ELSE IF c = QUOTE THEN <<c, c>> ELSE <<c>>

EncodedPiece(cs) == FlattenSeq([i \in 1 .. Len(cs) |-> Encoded(cs[i])])

Packets(f) ==
  <<[type |-> "S", chars |-> <<1>>], [type |-> "F", chars |-> <<1>>]>>
    \o [i \in 1 .. Len(Pieces[f]) |-> [type |-> "D", chars |-> EncodedPiece(Pieces[f][i])]]
    \o <<[type |-> "Z", chars |-> <<>>], [type |-> "B", chars |-> <<>>]>>

EndOfFile(f) == Len(Pieces[f]) + 3

(***************************************************************************)
(* The first i pieces of a file.                                           *)
(***************************************************************************)
Plain(f, i) == FlattenSeq(SubSeq(Pieces[f], 1, i))
Content(f) == FlattenSeq(Pieces[f])

PatientLine == [patient |-> TRUE, damages |-> {}]
NoRemote == [file |-> "none", at |-> 0, num |-> 0, cancelled |-> FALSE, line |-> PatientLine]

(***************************************************************************)
(* do_load_serial_bin starts k_recv; the user starts the sender.           *)
(***************************************************************************)
StartLoad(f, line) ==
  /\ loading' = "receiving"
  /\ data' = [addr |-> 0, escape |-> FALSE]
  /\ saved' = [addr |-> 0, escape |-> FALSE]
  /\ n' = 0
  /\ last_n' = -1
  /\ remote' = [file |-> f, at |-> 1, num |-> 0, cancelled |-> FALSE, line |-> line]
  /\ toBoard' = <<>>
  /\ toRemote' = <<>>
  /\ faults' = 0
  /\ UNCHANGED ram

(***************************************************************************)
(* No load: what it kept is not used any more.                             *)
(***************************************************************************)
Idle ==
  /\ loading = "off"
  /\ data = [addr |-> 0, escape |-> FALSE] /\ saved = data
  /\ n = 0 /\ last_n = -1 /\ remote = NoRemote
  /\ toBoard = <<>> /\ toRemote = <<>> /\ faults = 0

ForgetLoad ==
  /\ loading' = "off"
  /\ data' = [addr |-> 0, escape |-> FALSE] /\ saved' = data'
  /\ n' = 0 /\ last_n' = -1 /\ remote' = NoRemote
  /\ toBoard' = <<>> /\ toRemote' = <<>> /\ faults' = 0

Sending == loading = "receiving" /\ remote.at > 0

(***************************************************************************)
(* A packet is sent, or sent again.  An impatient sender may time out      *)
(* while its packet or the answer is still on the line.                    *)
(***************************************************************************)
RemoteSends ==
  /\ Sending
  /\ Len(toBoard) < MaxLine
  /\ remote.line.patient => toBoard = <<>> /\ toRemote = <<>>
  /\ LET p == Packets(remote.file)[remote.at]
     IN toBoard' = Append(toBoard, [n |-> remote.num, type |-> p.type, chars |-> p.chars, bad |-> "no"])
  /\ UNCHANGED <<loading, ram, data, saved, n, last_n, remote, toRemote, faults>>

(***************************************************************************)
(* An ACK of the packet, or a NAK of the one after it, which means the     *)
(* same, moves the sender on; after a cancellation, to the end of the      *)
(* file.  Anything else leaves it to send the packet again.                *)
(***************************************************************************)
Moves(a) == \/ a.type = "ACK" /\ a.n = remote.num
            \/ a.type = "NAK" /\ a.n = (remote.num + 1) % Modulus

RemoteHears ==
  /\ Sending
  /\ toRemote # <<>>
  /\ toRemote' = Tail(toRemote)
  /\ remote' = IF ~Moves(Head(toRemote)) THEN remote
               ELSE [remote EXCEPT !.num = (@ + 1) % Modulus,
                                   !.at = IF @ = EndOfFile(remote.file) + 1 THEN 0
                                          ELSE IF remote.cancelled /\ @ < EndOfFile(remote.file)
                                          THEN EndOfFile(remote.file)
                                          ELSE @ + 1]
  /\ UNCHANGED <<loading, ram, data, saved, n, last_n, toBoard, faults>>

(***************************************************************************)
(* The user of the sender cancels the file.                                *)
(***************************************************************************)
RemoteCancels ==
  /\ Sending
  /\ ~remote.cancelled
  /\ remote.at \in 3 .. EndOfFile(remote.file) - 1
  /\ remote' = [remote EXCEPT !.cancelled = TRUE]
  /\ UNCHANGED <<loading, ram, data, saved, n, last_n, toBoard, toRemote, faults>>

(***************************************************************************)
(* The line.  A packet is lost with its START_CHAR; its "length" becomes   *)
(* a control character; or its "body" - the type or anything after it - is *)
(* damaged, which is noticed at a control character or at the checksum,    *)
(* when some characters have been taken for data.  The number of a packet  *)
(* is never damaged: "this new code assumes that the sequence number is    *)
(* correctly received".                                                    *)
(***************************************************************************)
BadLength(p) == [p EXCEPT !.bad = "length"]
BadBody(p, t, j) == [p EXCEPT !.bad = "body", !.type = t, !.chars = SubSeq(@, 1, j)]

Damaged(p) ==
  (IF "length" \in remote.line.damages THEN {BadLength(p)} ELSE {})
    \cup (IF "body" \in remote.line.damages
          THEN {BadBody(p, t, j) : t \in {"D", "B"}, j \in 0 .. Len(p.chars)}
          ELSE {})

LineDamages ==
  /\ faults < MaxFaults
  /\ toBoard # <<>>
  /\ Head(toBoard).bad = "no"
  /\ \/ "lost" \in remote.line.damages /\ toBoard' = Tail(toBoard)
     \/ \E p \in Damaged(Head(toBoard)) : toBoard' = <<p>> \o Tail(toBoard)
  /\ faults' = faults + 1
  /\ UNCHANGED <<loading, ram, data, saved, n, last_n, remote, toRemote>>

LineLosesAnswer ==
  /\ faults < MaxFaults
  /\ toRemote # <<>>
  /\ "lost" \in remote.line.damages
  /\ toRemote' = Tail(toRemote)
  /\ faults' = faults + 1
  /\ UNCHANGED <<loading, ram, data, saved, n, last_n, remote, toBoard>>

-----------------------------------------------------------------------------
(***************************************************************************)
(* k_recv, one packet.                                                     *)
(***************************************************************************)
Answer(type, num) ==
  toRemote' = IF Len(toRemote) < MaxLine THEN Append(toRemote, [type |-> type, n |-> num]) ELSE toRemote

(***************************************************************************)
(* Mutant: a repeated packet is taken for a new one.                       *)
(***************************************************************************)
CheckpointAlways(num) == data

(***************************************************************************)
(* What the data goes on from: a repetition takes back what the first copy *)
(* stored.                                                                 *)
(***************************************************************************)
Checkpoint(num) == IF num = last_n THEN saved ELSE data

(***************************************************************************)
(* An error before the number is known: the state goes back to the last    *)
(* checkpoint all the same, and the NAK carries the number before.         *)
(***************************************************************************)
ReceiveBadStart ==
  /\ loading = "receiving" /\ toBoard # <<>>
  /\ Head(toBoard).bad = "length"
  /\ toBoard' = Tail(toBoard)
  /\ data' = saved
  /\ Answer("NAK", n)
  /\ UNCHANGED <<loading, ram, saved, n, last_n, remote, faults>>

(***************************************************************************)
(* An error after the number: what was stored stays in memory, and the     *)
(* address goes back to where the packet began.                            *)
(***************************************************************************)
ReceiveBadBody ==
  /\ loading = "receiving" /\ toBoard # <<>>
  /\ LET p == Head(toBoard)
         d == Checkpoint(p.n)
     IN /\ p.bad = "body"
        /\ ram' = IF p.type = "D" THEN Stored(p.chars, d).ram ELSE ram
        /\ data' = d
        /\ saved' = d
        /\ n' = p.n
        /\ last_n' = p.n
        /\ Answer("NAK", p.n)
  /\ toBoard' = Tail(toBoard)
  /\ UNCHANGED <<loading, remote, faults>>

(***************************************************************************)
(* A good packet.  Only a BREAK_TYPE ends the transfer, whatever came      *)
(* before it; all other types are acknowledged.                            *)
(***************************************************************************)
ReceiveGood ==
  /\ loading = "receiving" /\ toBoard # <<>>
  /\ LET p == Head(toBoard)
         d == Checkpoint(p.n)
         m == Stored(IF p.type = "D" THEN p.chars ELSE <<>>, d)
     IN /\ p.bad = "no"
        /\ ram' = m.ram
        /\ data' = DataOf(m)
        /\ saved' = d
        /\ n' = p.n
        /\ last_n' = p.n
        /\ loading' = IF p.type = "B" THEN "done" ELSE "receiving"
        /\ Answer("ACK", p.n)
  /\ toBoard' = Tail(toBoard)
  /\ UNCHANGED <<remote, faults>>

(***************************************************************************)
(* A control C between two packets, typed or noise: k_recv returns 0.      *)
(***************************************************************************)
Interrupt ==
  /\ loading = "receiving"
  /\ loading' = "interrupted"
  /\ UNCHANGED <<ram, data, saved, n, last_n, remote, toBoard, toRemote, faults>>

Receive == ReceiveBadStart \/ ReceiveBadBody \/ ReceiveGood

LineStep ==
  RemoteSends \/ RemoteHears \/ RemoteCancels \/ LineDamages \/ LineLosesAnswer \/ Receive \/ Interrupt

(***************************************************************************)
(* What k_recv returns, and load_serial_bin stores in filesize.            *)
(***************************************************************************)
LoadSize == IF loading = "done" THEN data.addr ELSE 0

-----------------------------------------------------------------------------
Holds(cs) == \A i \in 1 .. Len(cs) : ram[i] = cs[i]

(***************************************************************************)
(* What the sender has an acknowledgment for is in memory, and a finished  *)
(* load is the file, or whole pieces of it if the sender cancelled: over   *)
(* repetitions, damaged packets and lost answers, and although characters  *)
(* are written before their packet is known to be good.                    *)
(***************************************************************************)
LoadedIsSent ==
  /\ Sending /\ ~remote.cancelled /\ remote.at \in 4 .. EndOfFile(remote.file) =>
       Holds(Plain(remote.file, remote.at - 3))
  /\ loading = "done" =>
       \E i \in 0 .. Len(Pieces[remote.file]) :
         /\ remote.cancelled \/ i = Len(Pieces[remote.file])
         /\ LoadSize = Len(Plain(remote.file, i))
         /\ Holds(Plain(remote.file, i))
===============================================================================
