------------------------------ MODULE SpiFlash ------------------------------
(***************************************************************************)
(* The SPI flash driver (drivers/spi_rt6855A_flash.c): raspi_erase,        *)
(* raspi_write and raspi_erase_write, with saveenv's use of them           *)
(* (common/env_spi.c), on a NOR chip that can lose a command, keep an      *)
(* erase going for longer than the driver waits, or lose its power.        *)
(*                                                                         *)
(* A cell is the smallest amount a program command can carry; a command    *)
(* carries up to More of them (MORE_BUF_MODE) and, as NOR chips do, wraps  *)
(* around inside its page.  A programmed cell keeps its value until its    *)
(* sector is erased: programming it again leaves the AND of both.          *)
(***************************************************************************)
EXTENDS Integers, FiniteSets

CONSTANTS
  SectorSize, PageSize, More,   \* sizes in cells
  NSectors,
  Head, Tail,  \* sectors before the kernel (boot loader, environment) and behind
               \* what it may fill (misc, radio)
  Calls,       \* calls the boot loader makes: [op, offs, len]
  MaxCalls,    \* bound on the calls of a behaviour
  MaxFaults    \* bound on the commands the chip loses or delays

Total == SectorSize * NSectors
Addrs == 0..(Total - 1)
Sectors == 0..(NSectors - 1)

Ops == {"erase_write", "write", "erase", "save"}

ASSUME SizesAssumption ==
  /\ SectorSize \in Nat \ {0} /\ PageSize \in Nat \ {0} /\ More \in Nat \ {0}
  /\ NSectors \in Nat \ {0} /\ Head \in Nat /\ Tail \in Nat /\ Head + Tail <= NSectors
  /\ SectorSize % PageSize = 0 /\ PageSize % More = 0
ASSUME CallsAssumption ==
  /\ Calls \subseteq [op : Ops, offs : Addrs, len : 1..Total]
  /\ \A c \in Calls :
       \/ c.op = "write" \/ c.offs + c.len <= Total
       \/ c.op = "erase_write" /\ c.len > SectorSize * (NSectors - (Head + Tail))
  /\ MaxCalls \in Nat /\ MaxFaults \in Nat

\* env_spi.c copies the environment into a buffer of one sector.
ASSUME SaveAssumption ==
  \A c \in Calls : c.op = "save" => (c.offs % SectorSize) + c.len <= SectorSize

\* What a cell holds: cell i of the buffer of call n, where call 0 is what the
\* chip held at first; Blank after an erase, Mixed after a torn erase or after
\* programming a cell that was not blank.
Blank == <<-1, 0>>
Mixed == <<-2, 0>>
Contents == ((0..MaxCalls) \X (0..Total)) \cup {Blank, Mixed}

VARIABLES
  flash,    \* the cells
  chip,     \* the sector an erase is still busy with, or -1
  pc,       \* where the driver is
  job,      \* the call it works on
  done,     \* cells of the buffer raspi_erase_write has finished with
  piece,    \* what it erases, programs and reads back now
  k,        \* cells of the piece erased, programmed or read back
  ret,      \* result of the last call
  calls,    \* number of calls so far; names the buffer of this one
  faults,   \* commands lost or delayed so far
  before    \* history: the cells when the call began

vars == <<flash, chip, pc, job, done, piece, k, ret, calls, faults, before>>

Least(a, b) == IF a < b THEN a ELSE b
Sector(a) == a \div SectorSize
CellsOf(s) == (s * SectorSize)..(s * SectorSize + SectorSize - 1)
Busy == chip # -1

\* The cells f, once an erase still going on has ended.
Settled(f) == [a \in Addrs |-> IF Sector(a) = chip THEN Blank ELSE f[a]]

NoPiece == [addr |-> 0, len |-> 0, data |-> <<>>, used |-> 0]

Init ==
  /\ flash = [a \in Addrs |-> <<0, a>>]
  /\ before = flash
  /\ chip = -1 /\ pc = "idle" /\ ret = "none"
  /\ job = [op |-> "erase", offs |-> 0, len |-> 1]
  /\ done = 0 /\ k = 0 /\ piece = NoPiece
  /\ calls = 0 /\ faults = 0

\* A call returns to its caller.
Return(r) ==
  /\ ret' = r /\ pc' = "idle"
  /\ piece' = NoPiece /\ k' = 0 /\ done' = 0

-----------------------------------------------------------------------------
(* Calls *)

\* len is compared with the size of the chip without what no image may fill;
\* where the image begins plays no part in it.
MaxSize == SectorSize * (NSectors - (Head + Tail))
TooLongForChip(c) == c.len > Total
TooLong(c) == c.len > MaxSize

\* raspi_write refuses a range that ends behind the chip.
OffEnd(a, n) == a + n > Total

\* The data raspi_write and saveenv work on.
Plain(c) == [addr |-> c.offs, len |-> c.len, used |-> c.len,
             data |-> [i \in 0..(c.len - 1) |-> <<calls + 1, i>>]]

\* The sector of a, with n cells of the buffer of call b from i on put over it.
Overlaid(a, n, b, i) ==
  LET base == Sector(a) * SectorSize
  IN  [addr |-> base, len |-> SectorSize, used |-> n,
       data |-> [j \in 0..(SectorSize - 1) |->
                   IF base + j \in a..(a + n - 1) THEN <<b, i + base + j - a>>
                   ELSE flash[base + j]]]

\* saveenv reads the sector, puts the environment over it, and goes on to erase.
Begin(c) ==
  /\ pc = "idle" /\ calls < MaxCalls
  /\ calls' = calls + 1 /\ job' = c /\ before' = Settled(flash)
  /\ k' = 0 /\ done' = 0
  /\ \/ /\ c.op = "erase_write"
        /\ pc' = IF TooLong(c) THEN "idle" ELSE "loop"
        /\ ret' = IF TooLong(c) THEN "fail" ELSE "none"
        /\ piece' = NoPiece
     \/ /\ c.op = "write"
        /\ LET no == OffEnd(c.offs, c.len) \/ Busy
           IN  /\ pc' = IF no THEN "idle" ELSE "write"
               /\ ret' = IF no THEN "fail" ELSE "none"
               /\ piece' = IF no THEN NoPiece ELSE Plain(c)
     \/ /\ c.op = "erase"
        /\ pc' = "erase" /\ ret' = "none" /\ piece' = [Plain(c) EXCEPT !.data = <<>>]
     \/ /\ c.op = "save"
        /\ pc' = IF Busy THEN "idle" ELSE "erase"
        /\ ret' = IF Busy THEN "fail" ELSE "none"
        /\ piece' = IF Busy THEN NoPiece ELSE Overlaid(c.offs, c.len, calls + 1, 0)
  /\ UNCHANGED <<flash, chip, faults>>

-----------------------------------------------------------------------------
(* raspi_erase_write: one sector through a copy of it, or all whole sectors   *)

Left == job.len - done
At == job.offs + done
InSector == At % SectorSize

PartialUnaligned == InSector # 0

\* An unaligned start, or less than a sector, goes through a copy of the sector.
Partial == InSector # 0 \/ Left < SectorSize
PieceSizeFull == Least(Left, SectorSize)
PieceSize == Least(Left, SectorSize - InSector)
BulkRounded == Left + SectorSize - 1 - ((Left + SectorSize - 1) % SectorSize)
Bulk == Left - (Left % SectorSize)

TakePiece ==
  /\ pc = "loop" /\ Left > 0
  /\ \/ /\ Partial /\ ~Busy
        /\ piece' = Overlaid(At, PieceSize, calls, done)
        /\ pc' = "erase" /\ k' = 0 /\ UNCHANGED <<ret, done>>
     \/ /\ ~Partial
        /\ piece' = [addr |-> At, len |-> Bulk, used |-> Bulk,
                     data |-> [i \in 0..(Bulk - 1) |-> <<calls, done + i>>]]
        /\ pc' = "erase" /\ k' = 0 /\ UNCHANGED <<ret, done>>
     \/ Partial /\ Busy /\ Return("fail")      \* raspi_read failed
     \/ Return("fail")                         \* malloc failed
  /\ UNCHANGED <<flash, chip, job, calls, faults, before>>

Finish ==
  /\ pc = "loop" /\ Left <= 0
  /\ Return("ok")
  /\ UNCHANGED <<flash, chip, job, calls, faults, before>>

-----------------------------------------------------------------------------
(* raspi_erase: sector by sector; what the chip reports after an erase is     *)
(* ignored, so only the next command notices that it is still busy.           *)

\* Addresses beyond the chip wrap around.
ErasedNext == Sector((piece.addr + k + SectorSize) % Total)
ErasedSector == Sector((piece.addr + k) % Total)

EraseOutcome ==
  \/ /\ flash' = [a \in Addrs |-> IF a \in CellsOf(ErasedSector) THEN Blank ELSE flash[a]]
     /\ UNCHANGED <<chip, faults>>
  \/ /\ faults < MaxFaults /\ faults' = faults + 1       \* the command was lost
     /\ UNCHANGED <<flash, chip>>
  \/ /\ faults < MaxFaults /\ faults' = faults + 1       \* it goes on after the wait
     /\ flash' = [a \in Addrs |-> IF a \in CellsOf(ErasedSector) THEN Mixed ELSE flash[a]]
     /\ chip' = ErasedSector

EraseSector ==
  /\ pc = "erase" /\ k < piece.len
  /\ \/ /\ ~Busy
        /\ EraseOutcome
        /\ k' = k + SectorSize
        /\ UNCHANGED <<pc, ret, piece, done>>
     \/ /\ Busy
        /\ Return("fail")
        /\ UNCHANGED <<flash, chip, faults>>
  /\ UNCHANGED <<job, calls, before>>

Erased ==
  /\ pc = "erase" /\ k >= piece.len
  /\ \/ job.op = "erase" /\ Return("ok")
     \/ /\ job.op # "erase"
        /\ \/ /\ ~Busy /\ ~OffEnd(piece.addr, piece.len)
              /\ pc' = "write" /\ k' = 0
              /\ UNCHANGED <<ret, piece, done>>
           \/ (Busy \/ OffEnd(piece.addr, piece.len)) /\ Return("fail")
  /\ UNCHANGED <<flash, chip, job, calls, faults, before>>

-----------------------------------------------------------------------------
(* raspi_write: page by page, up to More cells per command                    *)

ToPageEnd(a) == PageSize - (a % PageSize)
ChunkAcross == Least(More, piece.len - k)
Chunk == Least(More, Least(piece.len - k, ToPageEnd(piece.addr + k)))

\* The chip counts addresses up within the page only.
InPage(a, i) == (a \div PageSize) * PageSize + ((a + i) % PageSize)

Programmed(old, new) == IF old \in {Blank, new} THEN new ELSE Mixed

ProgramChunk ==
  /\ pc = "write" /\ k < piece.len
  /\ \/ /\ LET a == piece.addr + k
               hit == [i \in 0..(Chunk - 1) |-> InPage(a, i)]
           IN  flash' = [c \in Addrs |->
                           IF \E i \in DOMAIN hit : hit[i] = c
                           THEN LET i == CHOOSE i \in DOMAIN hit : hit[i] = c
                                IN  Programmed(flash[c], piece.data[k + i])
                           ELSE flash[c]]
        /\ UNCHANGED faults
     \/ /\ faults < MaxFaults /\ faults' = faults + 1    \* the command was lost
        /\ UNCHANGED flash
  /\ k' = k + Chunk
  /\ UNCHANGED <<chip, pc, job, done, piece, ret, calls, before>>

\* raspi_write counts what it sent, not what the chip took: only
\* raspi_erase_write reads the flash back.
Written ==
  /\ pc = "write" /\ k >= piece.len
  /\ \/ /\ job.op \in {"write", "save"}
        /\ Return("ok")
     \/ /\ job.op = "erase_write"
        /\ pc' = "verify" /\ k' = 0
        /\ UNCHANGED <<ret, piece, done>>
  /\ UNCHANGED <<flash, chip, job, calls, faults, before>>

\* RALINK_SPI_UPGRADE_CHECK: one sector of the piece is read back.
BlockMatchesFirst == flash[piece.addr + k] = piece.data[k]
BlockMatches ==
  \A i \in k..(k + SectorSize - 1) : flash[piece.addr + i] = piece.data[i]

VerifyBlock ==
  /\ pc = "verify" /\ k < piece.len
  /\ \/ /\ ~Busy /\ BlockMatches
        /\ k' = k + SectorSize
        /\ UNCHANGED <<pc, ret, piece, done>>
     \/ (Busy \/ ~BlockMatches) /\ Return("fail")
  /\ UNCHANGED <<flash, chip, job, calls, faults, before>>

Verified ==
  /\ pc = "verify" /\ k >= piece.len
  /\ done' = done + piece.used
  /\ pc' = "loop" /\ k' = 0 /\ piece' = NoPiece
  /\ UNCHANGED <<flash, chip, job, ret, calls, faults, before>>

-----------------------------------------------------------------------------
(* The chip, and the power *)

\* An erase the driver gave up waiting for comes to its end.
EraseEnds ==
  /\ Busy
  /\ flash' = Settled(flash) /\ chip' = -1
  /\ UNCHANGED <<pc, job, done, piece, k, ret, calls, faults, before>>

\* What the command the driver is about to send changes.
InFlight ==
  IF pc = "erase" /\ k < piece.len /\ ~Busy THEN CellsOf(ErasedSector)
  ELSE IF pc = "write" /\ k < piece.len
       THEN {InPage(piece.addr + k, i) : i \in 0..(Chunk - 1)}
       ELSE {}

\* The power fails, before the next command or in the middle of it; an erase left
\* going by an earlier call stays torn.
PowerLoss ==
  /\ pc # "idle"
  /\ \E torn \in {{}, InFlight} :
       flash' = [a \in Addrs |-> IF a \in torn THEN Mixed ELSE flash[a]]
  /\ Return("lost") /\ chip' = -1
  /\ before' = [a \in Addrs |-> IF Sector(a) = chip THEN flash[a] ELSE before[a]]
  /\ UNCHANGED <<job, calls, faults>>

Step ==
  TakePiece \/ Finish \/ EraseSector \/ Erased \/ ProgramChunk \/ Written
    \/ VerifyBlock \/ Verified

Next == (\E c \in Calls : Begin(c)) \/ Step \/ EraseEnds \/ PowerLoss

Spec == Init /\ [][Next]_vars

\* The driver runs to its end without yielding, and a delayed erase ends.
FairSpec == Spec /\ WF_vars(Step) /\ WF_vars(EraseEnds)

-----------------------------------------------------------------------------
(* Properties *)

TypeOK ==
  /\ flash \in [Addrs -> Contents] /\ before \in [Addrs -> Contents]
  /\ chip \in Sectors \cup {-1}
  /\ pc \in {"idle", "loop", "erase", "write", "verify"}
  /\ job \in [op : Ops, offs : Addrs, len : 1..Total]
  /\ done \in 0..job.len
  /\ piece.addr \in Addrs /\ piece.len \in 0..Total /\ piece.used \in 0..Total
  /\ pc \in {"write", "verify"} => piece.data \in [0..(piece.len - 1) -> Contents]
  /\ k \in 0..(Total + SectorSize)
  /\ ret \in {"none", "ok", "fail", "lost"}
  /\ calls \in 0..MaxCalls /\ faults \in 0..MaxFaults

\* The cells of the call, and the cells with the buffer put over them.
Target == job.offs..(job.offs + job.len - 1)
Result == [a \in Addrs |-> IF a \in Target THEN <<calls, a - job.offs>> ELSE before[a]]

\* raspi_erase_write returns 0 only when the flash holds the image, and beside it
\* what it held before: whatever command the chip lost or delayed, the copy of a
\* partial sector, the whole sectors and the check after them add up to that.
WriteIsExact ==
  job.op = "erase_write" /\ ret = "ok" => flash = Result

\* A sector that no cell of the call is in keeps its content, however the call
\* ends and wherever the power fails.
NeighboursUntouched ==
  \A a \in Addrs :
    Sector(a) \notin {Sector(t) : t \in Target} => Settled(flash)[a] = before[a]

\* However long the file, an image written where the kernel begins spares the
\* configuration and calibration data behind it.
ImageSparesTail ==
  job.op = "erase_write" /\ job.offs = Head * SectorSize =>
    \A a \in Addrs : Sector(a) >= NSectors - Tail => Settled(flash)[a] = before[a]

\* What raspi_erase_write has checked is final: no later piece of the same call
\* erases or programs it again, so a failure never costs what was verified.
VerifiedStays ==
  [][pc # "idle" /\ job.op = "erase_write" =>
       \A a \in job.offs..(job.offs + done - 1) : flash'[a] = flash[a]]_vars

\* On a chip that takes every command, saveenv keeps the rest of its sector, and
\* raspi_write fills a blank range wherever in a page it begins.
PlainWritesAreExact ==
  /\ ret = "ok" /\ faults = 0
  /\ job.op = "save" \/ (job.op = "write" /\ \A a \in Target : before[a] = Blank)
  => flash = Result

\* Every call returns: the loop over the pieces always gets shorter.
CallReturns == pc # "idle" ~> pc = "idle"
=============================================================================
