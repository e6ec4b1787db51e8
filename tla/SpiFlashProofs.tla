--------------------------- MODULE SpiFlashProofs ---------------------------
(***************************************************************************)
(* Theorems about SpiFlash: its types, that a call stays within the        *)
(* sectors it is for, that an image spares what lies behind the kernel,    *)
(* and that raspi_erase_write is exact when it succeeds - for every size   *)
(* of cells, pages and sectors, all calls and any number of faults.        *)
(***************************************************************************)
EXTENDS SpiFlash, TLAPS

-----------------------------------------------------------------------------
(***************************************************************************)
(* The inductive invariant.                                                *)
(***************************************************************************)
Aligned(a) == a % SectorSize = 0
Working == pc \in {"erase", "write", "verify"}
PieceCells == piece.addr..(piece.addr + piece.len - 1)
TargetSectors == {Sector(t) : t \in Target}

\* The cells with the first d of the buffer put over them.
Overlay(d) ==
  [a \in Addrs |-> IF a \in job.offs..(job.offs + d - 1) THEN <<calls, a - job.offs>> ELSE before[a]]

\* A call at work lies on the chip, and was not refused.
CallInv ==
  /\ pc # "idle" => job.offs + job.len <= Total
  /\ pc # "idle" /\ job.op = "erase_write" => ~TooLong(job)
  /\ pc \in {"loop", "verify"} => job.op = "erase_write"
  /\ pc \in {"write", "verify"} => job.op # "erase" /\ ~Busy
  /\ job.op # "erase_write" => done = 0
  /\ ret = "ok" => pc = "idle"

\* The piece lies within the sectors of the call.
PieceInv ==
  /\ ~Working => piece.len = 0
  /\ Working => 
       /\ piece.len > 0 /\ piece.addr + piece.len <= Total
       /\ \A a \in PieceCells : Sector(a) \in TargetSectors
       /\ job.op # "erase" => piece.data \in [0..(piece.len - 1) -> Contents]

\* So do the cells that are not what they were.
StaysWithin ==
  \A a \in Addrs :
    Sector(a) \notin TargetSectors \/ (job.op = "erase_write" /\ TooLong(job))
    => Settled(flash)[a] = before[a]

\* raspi_erase_write at work: outside its piece the flash is as far as the
\* pieces before have brought it.
FlashInv ==
  job.op = "erase_write" /\ pc # "idle" =>
    /\ done = 0 \/ Left = 0 \/ Aligned(At)
    /\ done # 0 => \A a \in Addrs : Sector(a) = chip => a \in PieceCells
    /\ \A a \in Addrs : a \notin PieceCells => Settled(flash)[a] = Overlay(done)[a]

\* Its piece is whole sectors, holds what the flash is to hold, and begins
\* behind what is done.
ImageInv ==
  job.op = "erase_write" /\ Working =>
    /\ Aligned(piece.addr) /\ Aligned(piece.len) /\ (pc = "erase" => Aligned(k))
    /\ piece.used > 0 /\ done + piece.used <= job.len
    /\ piece.addr <= At /\ At + piece.used <= piece.addr + piece.len
    /\ done = 0 \/ piece.addr = At
    /\ done + piece.used = job.len \/ Aligned(At + piece.used)
    /\ \A j \in 0..(piece.len - 1) : piece.data[j] = Overlay(done + piece.used)[piece.addr + j]
    /\ pc = "verify" => \A j \in 0..(piece.len - 1) : j < k => flash[piece.addr + j] = piece.data[j]

\* Having succeeded, it leaves no erase going on.
DoneInv == job.op = "erase_write" /\ ret = "ok" => ~Busy /\ flash = Result

IInv == TypeOK /\ CallInv /\ PieceInv /\ StaysWithin /\ FlashInv /\ ImageInv /\ DoneInv

-----------------------------------------------------------------------------
(***************************************************************************)
(* Arithmetic of sectors and pages.                                        *)
(***************************************************************************)
LEMMA Sizes ==
  /\ SectorSize \in Nat /\ SectorSize > 0 /\ PageSize \in Nat /\ PageSize > 0
  /\ More \in Nat /\ More > 0 /\ NSectors \in Nat /\ NSectors > 0
  /\ Head \in Nat /\ Tail \in Nat /\ Head + Tail <= NSectors
  /\ MaxCalls \in Nat /\ MaxFaults \in Nat
<1>1. MaxCalls \in Nat /\ MaxFaults \in Nat
  BY CallsAssumption, Zenon
<1> QED
  BY <1>1, SizesAssumption

LEMMA TotalIsNat == Total \in Nat /\ Total > 0
BY Sizes DEF Total

\* The chip ends where its last sector does.
LEMMA TotalIs == Total = NSectors * SectorSize
BY Sizes DEF Total

LEMMA SectorBounds ==
  ASSUME NEW a \in Nat
  PROVE  /\ Sector(a) \in Nat
         /\ Sector(a) * SectorSize <= a /\ a < Sector(a) * SectorSize + SectorSize
BY Sizes DEF Sector

LEMMA SectorIs ==
  ASSUME NEW a \in Nat, NEW q \in Nat, q * SectorSize <= a, a < q * SectorSize + SectorSize
  PROVE  Sector(a) = q
BY Sizes DEF Sector

LEMMA CellsOfSector ==
  ASSUME NEW a \in Nat, NEW s \in Nat
  PROVE  a \in CellsOf(s) <=> Sector(a) = s
<1>1. s * SectorSize \in Nat
  BY Sizes
<1>2. a \in CellsOf(s) <=> s * SectorSize <= a /\ a < s * SectorSize + SectorSize
  BY <1>1, Sizes DEF CellsOf
<1>3. Sector(a) = s => a \in CellsOf(s)
  BY <1>2, SectorBounds
<1> QED
  BY <1>2, <1>3, SectorIs

LEMMA SectorBefore ==
  ASSUME NEW a \in Nat, NEW q \in Nat, a < q * SectorSize
  PROVE  Sector(a) < q /\ Sector(a) * SectorSize + SectorSize <= q * SectorSize
<1>1. Sector(a) \in Nat /\ Sector(a) * SectorSize <= a
  BY SectorBounds
<1>2. Sector(a) < q
  <2> SUFFICES ASSUME Sector(a) >= q  PROVE FALSE
    BY <1>1
  <2>1. Sector(a) * SectorSize >= q * SectorSize
    BY <1>1, Sizes
  <2> QED
    BY <2>1, <1>1, Sizes
<1>3. (Sector(a) + 1) * SectorSize <= q * SectorSize
  BY <1>1, <1>2, Sizes
<1>4. (Sector(a) + 1) * SectorSize = Sector(a) * SectorSize + SectorSize
  BY <1>1, Sizes
<1> QED
  BY <1>1, <1>2, <1>3, <1>4, Sizes

LEMMA SectorFits == SectorSize <= Total
<1>1. 1 * SectorSize <= NSectors * SectorSize
  BY Sizes
<1> QED
  BY <1>1, TotalIs, Sizes

LEMMA AddrIsNat == \A a \in Addrs : a \in Nat /\ a < Total
BY TotalIsNat DEF Addrs

LEMMA SectorOnChip ==
  ASSUME NEW a \in Addrs
  PROVE  Sector(a) \in Sectors /\ Sector(a) * SectorSize + SectorSize <= Total
<1>1. a \in Nat /\ a < NSectors * SectorSize
  BY AddrIsNat, TotalIs
<1>2. Sector(a) < NSectors /\ Sector(a) * SectorSize + SectorSize <= Total
  BY <1>1, SectorBefore, TotalIs, Sizes
<1> QED
  BY <1>1, <1>2, SectorBounds, Sizes DEF Sectors

LEMMA AlignedIs ==
  ASSUME NEW a \in Nat
  PROVE  Aligned(a) <=> a = Sector(a) * SectorSize
<1>1. a = (a \div SectorSize) * SectorSize + (a % SectorSize) /\ a % SectorSize \in Nat /\ a \div SectorSize \in Nat
  BY Sizes
<1> QED
  BY <1>1, Sizes DEF Aligned, Sector

LEMMA MultipleIsAligned ==
  ASSUME NEW q \in Nat
  PROVE  q * SectorSize \in Nat /\ Aligned(q * SectorSize) /\ Sector(q * SectorSize) = q
<1>1. q * SectorSize \in Nat
  BY Sizes
<1>2. Sector(q * SectorSize) = q
  BY <1>1, SectorIs, Sizes
<1> QED
  BY <1>1, <1>2, AlignedIs

LEMMA AlignedSum ==
  ASSUME NEW a \in Nat, NEW b \in Nat, Aligned(a), Aligned(b)
  PROVE  Aligned(a + b)
<1>1. a = Sector(a) * SectorSize /\ b = Sector(b) * SectorSize /\ Sector(a) \in Nat /\ Sector(b) \in Nat
  BY AlignedIs, SectorBounds
<1>2. a + b = (Sector(a) + Sector(b)) * SectorSize
  BY <1>1, Sizes
<1> QED
  BY <1>1, <1>2, MultipleIsAligned

LEMMA AlignedLess ==
  ASSUME NEW a \in Nat, NEW b \in Nat, Aligned(a), Aligned(b), a < b
  PROVE  a + SectorSize <= b
<1>1. a = Sector(a) * SectorSize /\ b = Sector(b) * SectorSize /\ Sector(a) \in Nat /\ Sector(b) \in Nat
  BY AlignedIs, SectorBounds
<1> QED
  BY <1>1, SectorBefore

LEMMA SectorSizeAligned == Aligned(SectorSize) /\ Aligned(0)
<1>1. SectorSize = 1 * SectorSize /\ 0 = 0 * SectorSize
  BY Sizes
<1> QED
  BY <1>1, MultipleIsAligned

LEMMA SectorOfAligned ==
  ASSUME NEW a \in Nat, NEW x \in Nat, Aligned(a)
  PROVE  Sector(x) = Sector(a) <=> x \in a..(a + SectorSize - 1)
<1>1. Sector(a) \in Nat /\ a = Sector(a) * SectorSize
  BY AlignedIs, SectorBounds
<1>2. x \in CellsOf(Sector(a)) <=> Sector(x) = Sector(a)
  BY <1>1, CellsOfSector
<1> QED
  BY <1>1, <1>2 DEF CellsOf

LEMMA InPageIsNext ==
  ASSUME NEW a \in Nat, NEW i \in Nat, i < ToPageEnd(a)
  PROVE  InPage(a, i) = a + i
<1> DEFINE q == a \div PageSize
           r == a % PageSize
<1>1. q \in Nat /\ r \in Nat /\ r < PageSize /\ a = (q * PageSize) + r
  BY Sizes
<1>2. i < PageSize - r
  BY <1>1, Sizes DEF ToPageEnd
<1>3. a + i = (q * PageSize) + (r + i) /\ r + i \in 0..(PageSize - 1)
  BY <1>1, <1>2, Sizes
<1>4. (a + i) % PageSize = r + i
  BY <1>1, <1>3, Sizes
<1> QED
  BY <1>1, <1>3, <1>4, Sizes DEF InPage

-----------------------------------------------------------------------------
(***************************************************************************)
(* What the invariant says of the numbers in a state, and what the         *)
(* operators of the steps yield.                                           *)
(***************************************************************************)
LEMMA TypeFacts ==
  ASSUME TypeOK
  PROVE  /\ job.offs \in Nat /\ job.offs < Total /\ job.len \in Nat /\ job.len > 0 /\ job.len <= Total
         /\ done \in Nat /\ done <= job.len
         /\ piece.addr \in Nat /\ piece.addr < Total
         /\ piece.len \in Nat /\ piece.len <= Total /\ piece.used \in Nat /\ piece.used <= Total
         /\ k \in Nat /\ calls \in Nat /\ calls <= MaxCalls /\ faults \in Nat /\ faults <= MaxFaults
BY TotalIsNat, Sizes DEF TypeOK, Addrs

LEMMA BufferCell ==
  ASSUME NEW b \in 0..MaxCalls, NEW i \in 0..Total
  PROVE  <<b, i>> \in Contents
BY DEF Contents

LEMMA SettledType ==
  ASSUME TypeOK
  PROVE  /\ Settled(flash) \in [Addrs -> Contents]
         /\ \A a \in Addrs : Settled(flash)[a] = IF Sector(a) = chip THEN Blank ELSE flash[a]
BY DEF Settled, TypeOK, Contents

LEMMA NotBusy ==
  ASSUME TypeOK, ~Busy
  PROVE  Settled(flash) = flash /\ \A a \in Addrs : Sector(a) # chip
<1>1. \A a \in Addrs : Sector(a) \in Nat /\ chip = -1
  BY SectorBounds, AddrIsNat DEF Busy
<1>2. \A a \in Addrs : Sector(a) # chip
  BY <1>1
<1> QED
  BY <1>2 DEF Settled, TypeOK

LEMMA OverlaidIs ==
  ASSUME TypeOK, NEW a \in Addrs, NEW n \in Nat, NEW b \in 0..MaxCalls, NEW i \in Nat,
         i + n <= Total, n <= Total
  PROVE  LET p == Overlaid(a, n, b, i)
         IN  /\ p.addr \in Addrs /\ p.len = SectorSize /\ p.used = n
             /\ p.addr <= a /\ a < p.addr + SectorSize /\ p.addr + SectorSize <= Total
             /\ Aligned(p.addr) /\ Sector(p.addr) = Sector(a)
             /\ p.data \in [0..(SectorSize - 1) -> Contents]
             /\ \A j \in 0..(SectorSize - 1) :
                  p.data[j] = IF p.addr + j \in a..(a + n - 1) THEN <<b, i + p.addr + j - a>>
                              ELSE flash[p.addr + j]
<1> DEFINE p == Overlaid(a, n, b, i)
           base == Sector(a) * SectorSize
<1>1. /\ base \in Nat /\ base <= a /\ a < base + SectorSize /\ base + SectorSize <= Total
      /\ Sector(a) \in Nat
  BY SectorBounds, SectorOnChip, AddrIsNat, Sizes
<1>2. base \in Addrs /\ Aligned(base) /\ Sector(base) = Sector(a)
  BY <1>1, MultipleIsAligned, Sizes, TotalIsNat DEF Addrs
<1>3. ASSUME NEW j \in 0..(SectorSize - 1)
      PROVE  (IF base + j \in a..(a + n - 1) THEN <<b, i + base + j - a>> ELSE flash[base + j]) \in Contents
  <2>1. a \in Nat /\ j \in Nat /\ base + j \in Addrs
    BY <1>1, AddrIsNat, Sizes, TotalIsNat DEF Addrs
  <2>2. CASE base + j \in a..(a + n - 1)
    <3>1. i + base + j - a \in 0..Total
      BY <1>1, <2>1, <2>2, TotalIsNat
    <3> QED
      BY <2>2, <3>1, BufferCell
  <2>3. CASE base + j \notin a..(a + n - 1)
    BY <2>1, <2>3 DEF TypeOK
  <2> QED
    BY <2>2, <2>3
<1>4. /\ p.addr = base /\ p.len = SectorSize /\ p.used = n
      /\ p.data = [j \in 0..(SectorSize - 1) |->
                     IF base + j \in a..(a + n - 1) THEN <<b, i + base + j - a>> ELSE flash[base + j]]
  BY DEF Overlaid
<1> HIDE DEF p, base
<1> QED
  BY <1>1, <1>2, <1>3, <1>4 DEF p

LEMMA PlainIs ==
  ASSUME TypeOK, calls < MaxCalls, NEW c \in Calls
  PROVE  /\ Plain(c).addr = c.offs /\ Plain(c).len = c.len /\ Plain(c).used = c.len
         /\ Plain(c).data \in [0..(c.len - 1) -> Contents]
<1>1. calls + 1 \in 0..MaxCalls /\ c.len \in 1..Total
  BY TypeFacts, CallsAssumption, Sizes
<1>2. \A i \in 0..(c.len - 1) : <<calls + 1, i>> \in Contents
  BY <1>1, BufferCell, TotalIsNat
<1> QED
  BY <1>2 DEF Plain

LEMMA CallIs ==
  ASSUME NEW c \in Calls
  PROVE  /\ c \in [op : Ops, offs : Addrs, len : 1..Total]
         /\ c.op \in Ops /\ c.offs \in Addrs /\ c.len \in 1..Total
         /\ c.offs \in Nat /\ c.offs < Total /\ c.len \in Nat /\ c.len > 0 /\ c.len <= Total
         /\ c.op = "write" \/ c.offs + c.len <= Total \/ (c.op = "erase_write" /\ TooLong(c))
<1>1. c \in [op : Ops, offs : Addrs, len : 1..Total]
  BY CallsAssumption
<1>2. c.op \in Ops /\ c.offs \in Addrs /\ c.len \in 1..Total
  BY <1>1
<1>3. c.op = "write" \/ c.offs + c.len <= Total \/ (c.op = "erase_write" /\ TooLong(c))
  BY CallsAssumption DEF TooLong, MaxSize
<1> QED
  BY <1>1, <1>2, <1>3, AddrIsNat, TotalIsNat

LEMMA InitIInv == Init => IInv
<1> SUFFICES ASSUME Init PROVE IInv
  OBVIOUS
<1>1. TypeOK
  <2>1. \A a \in Addrs : <<0, a>> \in Contents
    BY BufferCell, AddrIsNat, TotalIsNat, Sizes
  <2>2. 0 \in Addrs /\ 1 \in 1..Total /\ 0 \in 0..Total /\ 0 \in 0..MaxCalls /\ 0 \in 0..MaxFaults
        /\ 0 \in 0..(Total + SectorSize)
    BY TotalIsNat, Sizes DEF Addrs
  <2> QED
    BY <2>1, <2>2 DEF Init, TypeOK, NoPiece, Ops
<1>2. Settled(flash) = before
  BY <1>1, NotBusy DEF Init, Busy
<1> QED
  BY <1>1, <1>2 DEF IInv, Init, NoPiece, CallInv, PieceInv, Working, StaysWithin, FlashInv, ImageInv, DoneInv

-----------------------------------------------------------------------------
(***************************************************************************)
(* Types.                                                                  *)
(***************************************************************************)
LEMMA ReturnType ==
  ASSUME TypeOK, NEW r \in {"ok", "fail", "lost"}, Return(r),
         flash' \in [Addrs -> Contents], before' \in [Addrs -> Contents], chip' \in Sectors \cup {-1},
         UNCHANGED <<job, calls, faults>>
  PROVE  TypeOK'
<1>1. 0 \in Addrs /\ 0 \in 0..Total /\ 0 \in 0..(Total + SectorSize) /\ 0 \in 0..job.len
  BY TotalIsNat, TypeFacts, Sizes DEF Addrs
<1>2. /\ pc' = "idle" /\ ret' \in {"none", "ok", "fail", "lost"}
      /\ piece'.addr \in Addrs /\ piece'.len \in 0..Total /\ piece'.used \in 0..Total
      /\ done' \in 0..job'.len /\ k' \in 0..(Total + SectorSize)
  BY <1>1 DEF Return, NoPiece
<1> QED
  BY <1>2 DEF TypeOK

LEMMA ErasedFlashType ==
  ASSUME TypeOK, NEW set, NEW v \in {Blank, Mixed}
  PROVE  [a \in Addrs |-> IF a \in set THEN v ELSE flash[a]] \in [Addrs -> Contents]
BY DEF TypeOK, Contents

\* A program command takes at least one cell and stays in its piece.
LEMMA ChunkIs ==
  ASSUME TypeOK, k < piece.len
  PROVE  /\ Chunk \in Nat /\ Chunk > 0 /\ Chunk <= piece.len - k
         /\ \A i \in 0..(Chunk - 1) : InPage(piece.addr + k, i) = piece.addr + k + i
<1> DEFINE a == piece.addr + k
<1>1. a \in Nat /\ k \in Nat /\ piece.len \in Nat /\ piece.addr \in Nat
  BY TypeFacts
<1>2. ToPageEnd(a) \in Nat /\ ToPageEnd(a) > 0
  BY <1>1, Sizes DEF ToPageEnd
<1> HIDE DEF a
<1>3. Chunk \in Nat /\ Chunk > 0 /\ Chunk <= piece.len - k /\ Chunk <= ToPageEnd(a)
  BY <1>1, <1>2, Sizes DEF Chunk, Least, a
<1>4. \A i \in 0..(Chunk - 1) : InPage(a, i) = a + i
  BY <1>1, <1>2, <1>3, InPageIsNext
<1> QED
  BY <1>1, <1>3, <1>4 DEF a

\* What it changes is where it was sent to.
LEMMA ProgramEffect ==
  ASSUME TypeOK, ProgramChunk
  PROVE  /\ flash' \in [Addrs -> Contents]
         /\ \A c \in Addrs : flash'[c] = flash[c] \/ c \in (piece.addr + k)..(piece.addr + k + Chunk - 1)
<1> DEFINE hit == [i \in 0..(Chunk - 1) |-> InPage(piece.addr + k, i)]
           struck(c) == \E i \in DOMAIN hit : hit[i] = c
           pick(c) == CHOOSE i \in DOMAIN hit : hit[i] = c
<1>1. CASE UNCHANGED flash
  BY <1>1 DEF TypeOK
<1>2. CASE flash' = [c \in Addrs |-> IF struck(c) THEN Programmed(flash[c], piece.data[k + pick(c)]) ELSE flash[c]]
  <2>1. pc = "write" /\ k < piece.len
    BY DEF ProgramChunk
  <2>2. ASSUME NEW c \in Addrs, struck(c)
        PROVE  pick(c) \in 0..(Chunk - 1) /\ c = piece.addr + k + pick(c)
    <3>1. pick(c) \in DOMAIN hit /\ hit[pick(c)] = c
      BY <2>2
    <3> HIDE DEF pick
    <3> QED
      BY <3>1, <2>1, ChunkIs
  <2> HIDE DEF struck, pick
  <2>3. ASSUME NEW c \in Addrs, struck(c)
        PROVE  /\ Programmed(flash[c], piece.data[k + pick(c)]) \in Contents
               /\ c \in (piece.addr + k)..(piece.addr + k + Chunk - 1)
    <3>1. pick(c) \in 0..(Chunk - 1) /\ c = piece.addr + k + pick(c)
      BY <2>2, <2>3
    <3>2. k + pick(c) \in 0..(piece.len - 1) /\ c \in (piece.addr + k)..(piece.addr + k + Chunk - 1)
      BY <3>1, <2>1, ChunkIs, TypeFacts
    <3>3. piece.data[k + pick(c)] \in Contents
      BY <2>1, <3>2 DEF TypeOK
    <3> QED
      BY <3>2, <3>3 DEF Programmed, Contents
  <2> QED
    BY <1>2, <2>3 DEF TypeOK
<1> QED
  BY <1>1, <1>2 DEF ProgramChunk

\* The piece fits into what is left of the image.
LEMMA PieceSizeIs ==
  ASSUME TypeOK, Left > 0, job.offs + job.len <= Total
  PROVE  /\ At \in Addrs /\ At \in Nat /\ Left \in Nat /\ Left <= Total /\ done + Left = job.len
         /\ InSector \in Nat /\ InSector < SectorSize /\ At = Sector(At) * SectorSize + InSector
         /\ PieceSize \in Nat /\ PieceSize > 0 /\ PieceSize <= Left /\ PieceSize <= SectorSize - InSector
         /\ PieceSize = Left \/ PieceSize = SectorSize - InSector
         /\ Bulk \in Nat /\ Bulk <= Left /\ Aligned(Bulk) /\ Left < Bulk + SectorSize
         /\ ~Partial => Bulk > 0 /\ Aligned(At)
<1>1. Left \in Nat /\ done + Left = job.len /\ Left <= Total /\ At \in Nat /\ At < Total
  BY TypeFacts, TotalIsNat DEF Left, At
<1>2. At \in Addrs
  BY <1>1, TotalIsNat DEF Addrs
<1>3. /\ InSector \in Nat /\ InSector < SectorSize /\ At = Sector(At) * SectorSize + InSector
  BY <1>1, Sizes DEF InSector, Sector
<1>4. /\ PieceSize \in Nat /\ PieceSize > 0 /\ PieceSize <= Left /\ PieceSize <= SectorSize - InSector
      /\ PieceSize = Left \/ PieceSize = SectorSize - InSector
  BY <1>1, <1>3, Sizes DEF PieceSize, Least
<1>5. /\ Left = (Left \div SectorSize) * SectorSize + (Left % SectorSize)
      /\ Left \div SectorSize \in Nat /\ Left % SectorSize \in Nat /\ Left % SectorSize < SectorSize
  BY <1>1, Sizes
<1>6. Bulk = (Left \div SectorSize) * SectorSize
  BY <1>1, <1>5, Sizes DEF Bulk
<1>7. Bulk \in Nat /\ Aligned(Bulk) /\ Bulk <= Left /\ Left < Bulk + SectorSize
  <2>1. Bulk \in Nat /\ Aligned(Bulk)
    BY <1>5, <1>6, MultipleIsAligned
  <2>2. Left = Bulk + (Left % SectorSize)
    BY <1>5, <1>6
  <2> QED
    BY <1>1, <1>5, <2>1, <2>2, Sizes
<1>8. ~Partial => Bulk > 0 /\ Aligned(At)
  BY <1>1, <1>7, Sizes DEF Partial, Aligned, InSector
<1> QED
  BY <1>1, <1>2, <1>3, <1>4, <1>7, <1>8

LEMMA TypeStep == IInv /\ [Next]_vars => TypeOK'
<1> SUFFICES ASSUME IInv, [Next]_vars PROVE TypeOK'
  OBVIOUS
<1>0. TypeOK /\ CallInv /\ PieceInv
  BY DEF IInv
<1>1. ASSUME NEW c \in Calls, Begin(c) PROVE TypeOK'
  <2>0. calls < MaxCalls /\ c.len \in Nat
    BY <1>1, CallIs DEF Begin
  <2>1. /\ calls + 1 \in 0..MaxCalls /\ 0 \in 0..c.len /\ 0 \in 0..(Total + SectorSize) /\ 0 \in 0..Total
        /\ 0 \in Addrs /\ SectorSize \in 0..Total
    BY <1>0, <2>0, TypeFacts, Sizes, TotalIsNat, SectorFits DEF Addrs
  <2>2. before' \in [Addrs -> Contents]
    BY <1>0, <1>1, SettledType DEF Begin
  <2>3. /\ pc' \in {"idle", "loop", "erase", "write", "verify"} /\ ret' \in {"none", "ok", "fail", "lost"}
        /\ piece'.addr \in Addrs /\ piece'.len \in 0..Total /\ piece'.used \in 0..Total
        /\ pc' \in {"write", "verify"} => piece'.data \in [0..(piece'.len - 1) -> Contents]
    <3>1. calls < MaxCalls /\ c.offs \in Addrs /\ c.len \in 0..Total /\ c.len \in Nat /\ c.len <= Total
      BY <1>1, CallIs, TotalIsNat DEF Begin
    <3>2. CASE c.op = "erase_write"
      BY <1>1, <2>1, <3>2 DEF Begin, NoPiece
    <3>3. CASE c.op = "write"
      BY <1>0, <1>1, <2>1, <3>1, <3>3, PlainIs DEF Begin, NoPiece
    <3>4. CASE c.op = "erase"
      BY <1>0, <1>1, <2>1, <3>1, <3>4, PlainIs DEF Begin, Plain
    <3>5. CASE c.op = "save"
      <4>1. 0 \in Nat /\ 0 + c.len <= Total
        BY <3>1
      <4> QED
        BY <1>0, <1>1, <2>1, <3>1, <3>5, <4>1, OverlaidIs DEF Begin, NoPiece
    <3> QED
      BY <1>1, <3>2, <3>3, <3>4, <3>5 DEF Begin
  <2> QED
    BY <1>0, <1>1, <2>1, <2>2, <2>3, CallIs DEF Begin, TypeOK
<1>2. ASSUME TakePiece PROVE TypeOK'
  <2>1. CASE \E r \in {"ok", "fail", "lost"} : Return(r)
    BY <1>0, <1>2, <2>1, ReturnType DEF TakePiece, TypeOK
  <2>2. pc = "loop" /\ Left > 0 /\ job.offs + job.len <= Total
    BY <1>0, <1>2 DEF TakePiece, CallInv
  <2>3. 0 \in 0..(Total + SectorSize)
    BY TotalIsNat, Sizes
  <2>4. CASE piece' = Overlaid(At, PieceSize, calls, done) /\ pc' = "erase" /\ k' = 0 /\ UNCHANGED <<ret, done>>
    <3>1. /\ At \in Addrs /\ PieceSize \in Nat /\ done \in Nat /\ calls \in 0..MaxCalls
          /\ done + PieceSize <= Total /\ PieceSize <= Total
      BY <1>0, <2>2, PieceSizeIs, TypeFacts, Sizes, TotalIsNat
    <3>3. piece'.addr \in Addrs /\ piece'.len = SectorSize /\ piece'.used = PieceSize
      BY <1>0, <2>4, <3>1, OverlaidIs
    <3>2. SectorSize \in 0..Total /\ PieceSize \in 0..Total
      BY <3>1, SectorFits, TotalIsNat, Sizes
    <3> QED
      BY <1>0, <1>2, <2>3, <2>4, <3>2, <3>3 DEF TakePiece, TypeOK
  <2>5. CASE /\ piece' = [addr |-> At, len |-> Bulk, used |-> Bulk, data |-> [i \in 0..(Bulk - 1) |-> <<calls, done + i>>]]
             /\ pc' = "erase" /\ k' = 0 /\ UNCHANGED <<ret, done>>
    <3>1. At \in Addrs /\ Bulk \in 0..Total
      BY <1>0, <2>2, PieceSizeIs, TotalIsNat
    <3> QED
      BY <1>0, <1>2, <2>3, <2>5, <3>1 DEF TakePiece, TypeOK
  <2> QED
    BY <1>2, <2>1, <2>4, <2>5 DEF TakePiece
<1>3. ASSUME Finish PROVE TypeOK'
  BY <1>0, <1>3, ReturnType DEF Finish, TypeOK
<1>4. ASSUME EraseSector PROVE TypeOK'
  <2>1. CASE Return("fail") /\ UNCHANGED <<flash, chip, faults>>
    BY <1>0, <1>4, <2>1, ReturnType DEF EraseSector, TypeOK
  <2>2. CASE EraseOutcome /\ k' = k + SectorSize /\ UNCHANGED <<pc, ret, piece, done>>
    <3>1. pc = "erase" /\ k + SectorSize \in 0..(Total + SectorSize)
      BY <1>0, <1>4, TypeFacts, Sizes, TotalIsNat DEF EraseSector
    <3>2. (piece.addr + k) % Total \in Addrs
      BY <1>0, TypeFacts, TotalIsNat DEF Addrs
    <3>3. ErasedSector \in Sectors
      BY <3>2, SectorOnChip DEF ErasedSector
    <3>4. flash' \in [Addrs -> Contents] /\ chip' \in Sectors \cup {-1} /\ faults' \in 0..MaxFaults
      BY <1>0, <2>2, <3>3, ErasedFlashType, TypeFacts, Sizes DEF EraseOutcome, TypeOK
    <3> QED
      BY <1>0, <1>4, <2>2, <3>1, <3>4 DEF EraseSector, TypeOK
  <2> QED
    BY <1>4, <2>1, <2>2 DEF EraseSector
<1>5. ASSUME Erased PROVE TypeOK'
  <2>1. CASE \E r \in {"ok", "fail", "lost"} : Return(r)
    BY <1>0, <1>5, <2>1, ReturnType DEF Erased, TypeOK
  <2>2. CASE job.op # "erase" /\ pc' = "write" /\ k' = 0 /\ UNCHANGED <<ret, piece, done>>
    <3>1. piece.data \in [0..(piece.len - 1) -> Contents] /\ 0 \in 0..(Total + SectorSize)
      BY <1>0, <1>5, <2>2, TotalIsNat, Sizes DEF Erased, PieceInv, Working
    <3> QED
      BY <1>0, <1>5, <2>2, <3>1 DEF Erased, TypeOK
  <2> QED
    BY <1>5, <2>1, <2>2 DEF Erased
<1>6. ASSUME ProgramChunk PROVE TypeOK'
  <2>1. flash' \in [Addrs -> Contents]
    BY <1>0, <1>6, ProgramEffect
  <2>2. k' \in 0..(Total + SectorSize)
    <3>1. k < piece.len /\ k' = k + Chunk
      BY <1>6 DEF ProgramChunk
    <3>2. Chunk \in Nat /\ Chunk <= piece.len - k
      BY <1>0, <3>1, ChunkIs
    <3> QED
      BY <1>0, <3>1, <3>2, TypeFacts, Sizes, TotalIsNat
  <2>3. faults' \in 0..MaxFaults
    BY <1>0, <1>6, TypeFacts, Sizes, SMTT(30) DEF ProgramChunk
  <2> QED
    BY <1>0, <1>6, <2>1, <2>2, <2>3 DEF ProgramChunk, TypeOK
<1>7. ASSUME Written PROVE TypeOK'
  <2>1. CASE \E r \in {"ok", "fail", "lost"} : Return(r)
    BY <1>0, <1>7, <2>1, ReturnType DEF Written, TypeOK
  <2>2. CASE pc' = "verify" /\ k' = 0 /\ UNCHANGED <<ret, piece, done>>
    <3>1. 0 \in 0..(Total + SectorSize)
      BY TotalIsNat, Sizes
    <3> QED
      BY <1>0, <1>7, <2>2, <3>1 DEF Written, TypeOK
  <2> QED
    BY <1>7, <2>1, <2>2 DEF Written
<1>8. ASSUME VerifyBlock PROVE TypeOK'
  <2>1. CASE Return("fail")
    BY <1>0, <1>8, <2>1, ReturnType DEF VerifyBlock, TypeOK
  <2>2. CASE k' = k + SectorSize /\ UNCHANGED <<pc, ret, piece, done>>
    <3>1. k + SectorSize \in 0..(Total + SectorSize)
      BY <1>0, <1>8, TypeFacts, Sizes, TotalIsNat DEF VerifyBlock
    <3> QED
      BY <1>0, <1>8, <2>2, <3>1 DEF VerifyBlock, TypeOK
  <2> QED
    BY <1>8, <2>1, <2>2 DEF VerifyBlock
<1>9. ASSUME Verified PROVE TypeOK'
  <2>1. done + piece.used \in 0..job.len
    BY <1>0, <1>9, TypeFacts DEF Verified, IInv, ImageInv, CallInv, Working
  <2>2. 0 \in Addrs /\ 0 \in 0..Total /\ 0 \in 0..(Total + SectorSize)
    BY TotalIsNat, Sizes DEF Addrs
  <2> QED
    BY <1>0, <1>9, <2>1, <2>2 DEF Verified, TypeOK, NoPiece
<1>10. ASSUME EraseEnds PROVE TypeOK'
  BY <1>0, <1>10, SettledType DEF EraseEnds, TypeOK
<1>11. ASSUME PowerLoss PROVE TypeOK'
  <2>1. flash' \in [Addrs -> Contents] /\ before' \in [Addrs -> Contents]
    BY <1>0, <1>11 DEF PowerLoss, TypeOK, Contents
  <2>2. Return("lost")
    BY <1>11 DEF PowerLoss
  <2> QED
    BY <1>0, <1>11, <2>1, <2>2, ReturnType DEF PowerLoss, TypeOK
<1>12. CASE UNCHANGED vars
  BY <1>0, <1>12 DEF vars, TypeOK
<1> QED
  BY <1>1, <1>2, <1>3, <1>4, <1>5, <1>6, <1>7, <1>8, <1>9, <1>10, <1>11, <1>12 DEF Next, Step

-----------------------------------------------------------------------------
(***************************************************************************)
(* A call and its piece.                                                   *)
(***************************************************************************)
LEMMA CallStep == IInv /\ [Next]_vars => CallInv'
<1> SUFFICES ASSUME IInv, [Next]_vars PROVE CallInv'
  OBVIOUS
<1>0. TypeOK /\ CallInv
  BY DEF IInv
<1>1. ASSUME NEW c \in Calls, Begin(c) PROVE CallInv'
  <2>1. CASE c.op = "erase_write"
    BY <1>1, <2>1, CallIs DEF Begin, CallInv, TooLong
  <2>2. CASE c.op = "write"
    <3>1. ~OffEnd(c.offs, c.len) => c.offs + c.len <= Total
      BY CallIs, TotalIsNat DEF OffEnd
    <3> QED
      BY <1>1, <2>2, <3>1 DEF Begin, CallInv, Busy
  <2>3. CASE c.op \in {"erase", "save"}
    BY <1>1, <2>3, CallIs DEF Begin, CallInv
  <2> QED
    BY <1>1, <2>1, <2>2, <2>3 DEF Begin
<1>2. ASSUME TakePiece PROVE CallInv'
  BY <1>0, <1>2 DEF TakePiece, Return, CallInv, TooLong
<1>3. ASSUME Finish PROVE CallInv'
  BY <1>0, <1>3 DEF Finish, Return, CallInv, TooLong
<1>4. ASSUME EraseSector PROVE CallInv'
  BY <1>0, <1>4 DEF EraseSector, Return, CallInv, TooLong
<1>5. ASSUME Erased PROVE CallInv'
  BY <1>0, <1>5 DEF Erased, Return, CallInv, TooLong, Busy
<1>6. ASSUME ProgramChunk PROVE CallInv'
  BY <1>0, <1>6 DEF ProgramChunk, CallInv, TooLong, Busy
<1>7. ASSUME Written PROVE CallInv'
  BY <1>0, <1>7 DEF Written, Return, CallInv, TooLong, Busy
<1>8. ASSUME VerifyBlock PROVE CallInv'
  BY <1>0, <1>8 DEF VerifyBlock, Return, CallInv, TooLong, Busy
<1>9. ASSUME Verified PROVE CallInv'
  BY <1>0, <1>9 DEF Verified, CallInv, TooLong, Busy
<1>10. ASSUME EraseEnds PROVE CallInv'
  BY <1>0, <1>10 DEF EraseEnds, CallInv, TooLong, Busy
<1>11. ASSUME PowerLoss PROVE CallInv'
  BY <1>0, <1>11 DEF PowerLoss, Return, CallInv, TooLong
<1>12. CASE UNCHANGED vars
  BY <1>0, <1>12 DEF vars, CallInv, TooLong, Busy
<1> QED
  BY <1>1, <1>2, <1>3, <1>4, <1>5, <1>6, <1>7, <1>8, <1>9, <1>10, <1>11, <1>12 DEF Next, Step

\* The sector erased next is one of the piece, and one of the call.
LEMMA ErasedIs ==
  ASSUME TypeOK, PieceInv, pc = "erase", k < piece.len
  PROVE  /\ piece.addr + k \in PieceCells /\ piece.addr + k \in Nat
         /\ ErasedSector = Sector(piece.addr + k) /\ ErasedSector \in Nat /\ ErasedSector \in TargetSectors
         /\ \A a \in Addrs : a \in CellsOf(ErasedSector) <=> Sector(a) = ErasedSector
<1>1. /\ piece.addr + k \in PieceCells /\ piece.addr + k \in Nat /\ piece.addr + k < Total
  BY TypeFacts, TotalIsNat, SMTT(30) DEF PieceInv, Working, PieceCells
<1>2. (piece.addr + k) % Total = piece.addr + k
  BY <1>1, TotalIsNat
<1>3. ErasedSector = Sector(piece.addr + k)
  BY <1>2 DEF ErasedSector
<1> QED
  BY <1>1, <1>3, SectorBounds, CellsOfSector, AddrIsNat DEF PieceInv, Working

\* A copied sector is the one its first cell of the call is in.
LEMMA CopyIsWithin ==
  ASSUME NEW base \in Nat, Aligned(base), NEW a \in Nat, Sector(base) = Sector(a),
         NEW x \in base..(base + SectorSize - 1)
  PROVE  Sector(x) = Sector(a)
BY SectorOfAligned, Sizes

LEMMA PieceStep == IInv /\ [Next]_vars => PieceInv'
<1> SUFFICES ASSUME IInv, [Next]_vars PROVE PieceInv'
  OBVIOUS
<1>0. TypeOK /\ CallInv /\ PieceInv
  BY DEF IInv
<1> HIDE DEF IInv
<1>1. ASSUME NEW c \in Calls, Begin(c) PROVE PieceInv'
  <2>0. calls < MaxCalls /\ job' = c /\ c.len \in Nat /\ c.offs \in Nat /\ c.len > 0 /\ c.len <= Total
    BY <1>1, CallIs DEF Begin
  <2>1. CASE c.op = "erase_write" \/ pc' = "idle"
    BY <1>1, <2>1 DEF Begin, PieceInv, Working, NoPiece
  <2>2. CASE c.op = "write" /\ pc' = "write"
    <3>1. piece' = Plain(c) /\ c.offs + c.len <= Total
      BY <1>1, <2>2, CallIs, TotalIsNat DEF Begin, OffEnd
    <3>2. piece'.addr = c.offs /\ piece'.len = c.len /\ piece'.data \in [0..(c.len - 1) -> Contents]
      BY <1>0, <2>0, <3>1, PlainIs
    <3> QED
      BY <2>0, <2>2, <3>1, <3>2 DEF PieceInv, Working, PieceCells, TargetSectors, Target
  <2>3. CASE c.op = "erase"
    <3>1. piece'.addr = c.offs /\ piece'.len = c.len /\ pc' = "erase" /\ c.offs + c.len <= Total
      BY <1>1, <2>3, CallIs DEF Begin, Plain
    <3> QED
      BY <2>0, <2>3, <3>1 DEF PieceInv, Working, PieceCells, TargetSectors, Target
  <2>4. CASE c.op = "save" /\ pc' = "erase"
    <3>1. piece' = Overlaid(c.offs, c.len, calls + 1, 0)
      BY <1>1, <2>4 DEF Begin
    <3>2. c.offs \in Addrs /\ calls + 1 \in 0..MaxCalls /\ 0 + c.len <= Total /\ 0 \in Nat
      BY <1>0, <2>0, CallIs, TypeFacts, Sizes
    <3>3. /\ piece'.addr \in Nat /\ piece'.len = SectorSize /\ piece'.addr + SectorSize <= Total
          /\ Aligned(piece'.addr) /\ Sector(piece'.addr) = Sector(c.offs)
          /\ piece'.data \in [0..(SectorSize - 1) -> Contents]
      BY <1>0, <2>0, <3>1, <3>2, OverlaidIs, AddrIsNat
    <3>4. \A a \in PieceCells' : Sector(a) = Sector(c.offs)
      BY <2>0, <3>3, CopyIsWithin DEF PieceCells
    <3>5. c.offs \in Target'
      BY <2>0 DEF Target
    <3> QED
      BY <2>4, <3>3, <3>4, <3>5, Sizes DEF PieceInv, Working, TargetSectors
  <2> QED
    BY <1>1, <2>1, <2>2, <2>3, <2>4 DEF Begin
<1>2. ASSUME TakePiece PROVE PieceInv'
  <2>1. CASE \E r \in {"fail"} : Return(r)
    BY <2>1 DEF Return, PieceInv, Working, NoPiece
  <2>2. pc = "loop" /\ Left > 0 /\ job.offs + job.len <= Total /\ UNCHANGED <<job>>
    BY <1>0, <1>2 DEF TakePiece, CallInv
  <2>3. At \in Target /\ Target' = Target
    BY <1>0, <2>2, PieceSizeIs, TypeFacts DEF Target, At
  <2>4. CASE piece' = Overlaid(At, PieceSize, calls, done) /\ pc' = "erase"
    <3>1. /\ At \in Addrs /\ At \in Nat /\ PieceSize \in Nat /\ done \in Nat /\ calls \in 0..MaxCalls
          /\ done + PieceSize <= Total /\ PieceSize <= Total
      BY <1>0, <2>2, PieceSizeIs, TypeFacts, Sizes, TotalIsNat
    <3>4. /\ piece'.addr \in Addrs /\ piece'.len = SectorSize /\ piece'.addr + SectorSize <= Total
          /\ Aligned(piece'.addr) /\ Sector(piece'.addr) = Sector(At)
          /\ piece'.data \in [0..(SectorSize - 1) -> Contents]
      BY <1>0, <2>4, <3>1, OverlaidIs
    <3>2. /\ piece'.addr \in Nat /\ piece'.len = SectorSize /\ piece'.addr + SectorSize <= Total
          /\ Aligned(piece'.addr) /\ Sector(piece'.addr) = Sector(At)
          /\ piece'.data \in [0..(SectorSize - 1) -> Contents]
      BY <3>4, AddrIsNat
    <3>3. \A a \in PieceCells' : Sector(a) = Sector(At)
      BY <3>1, <3>2, CopyIsWithin DEF PieceCells
    <3> QED
      BY <2>3, <2>4, <3>2, <3>3, Sizes DEF PieceInv, Working, TargetSectors
  <2>5. CASE /\ piece' = [addr |-> At, len |-> Bulk, used |-> Bulk, data |-> [i \in 0..(Bulk - 1) |-> <<calls, done + i>>]]
             /\ pc' = "erase" /\ ~Partial
    <3>1. /\ At \in Nat /\ Bulk \in Nat /\ Bulk > 0 /\ Bulk <= Left /\ Left \in Nat
          /\ At + Left = job.offs + job.len /\ At >= job.offs /\ job.offs \in Nat /\ job.len \in Nat
      <4>1. Left \in Nat /\ done + Left = job.len /\ Bulk \in Nat /\ Bulk > 0 /\ Bulk <= Left
        BY <1>0, <2>2, <2>5, PieceSizeIs
      <4> QED
        BY <1>0, <4>1, TypeFacts DEF At
    <3>4. piece'.addr = At /\ piece'.len = Bulk /\ piece'.data = [i \in 0..(Bulk - 1) |-> <<calls, done + i>>]
      BY <2>5
    <3>2. \A a \in PieceCells' : a \in Target
      BY <3>1, <3>4 DEF PieceCells, Target
    <3>3. \A i \in 0..(Bulk - 1) : <<calls, done + i>> \in Contents
      <4>1. \A i \in 0..(Bulk - 1) : done + i \in 0..Total
        BY <1>0, <2>2, <3>1, PieceSizeIs, TypeFacts, TotalIsNat
      <4>2. calls \in 0..MaxCalls
        BY <1>0 DEF TypeOK
      <4> QED
        BY <4>1, <4>2, BufferCell
    <3>5. piece'.data \in [0..(piece'.len - 1) -> Contents]
      BY <3>3, <3>4
    <3>6. piece'.len > 0 /\ piece'.addr + piece'.len <= Total
      BY <2>2, <3>1, <3>4, TotalIsNat
    <3> QED
      BY <2>3, <2>5, <3>2, <3>5, <3>6 DEF PieceInv, Working, TargetSectors
  <2> QED
    BY <1>2, <2>1, <2>4, <2>5 DEF TakePiece
<1>3. ASSUME Finish PROVE PieceInv'
  BY <1>3 DEF Finish, Return, PieceInv, Working, NoPiece
<1>4. CASE \E r \in {"ok", "fail", "lost"} : Return(r)
  BY <1>4 DEF Return, PieceInv, Working, NoPiece
<1>5. CASE UNCHANGED <<piece, job>> /\ (Working <=> Working')
  BY <1>0, <1>5 DEF PieceInv, PieceCells, TargetSectors, Target
<1>6. ASSUME Verified PROVE PieceInv'
  BY <1>6 DEF Verified, PieceInv, Working, NoPiece
<1>7. ASSUME EraseSector \/ Erased \/ ProgramChunk \/ Written \/ VerifyBlock \/ EraseEnds \/ PowerLoss
      PROVE  PieceInv'
  <2>1. CASE EraseSector
    BY <1>4, <1>5, <2>1 DEF EraseSector, Working
  <2>2. CASE Erased
    BY <1>4, <1>5, <2>2 DEF Erased, Working
  <2>3. CASE ProgramChunk
    BY <1>5, <2>3 DEF ProgramChunk, Working
  <2>4. CASE Written
    BY <1>4, <1>5, <2>4 DEF Written, Working
  <2>5. CASE VerifyBlock
    BY <1>4, <1>5, <2>5 DEF VerifyBlock, Working
  <2>6. CASE EraseEnds
    BY <1>5, <2>6 DEF EraseEnds, Working
  <2>7. CASE PowerLoss
    BY <1>4, <2>7 DEF PowerLoss
  <2> QED
    BY <1>7, <2>1, <2>2, <2>3, <2>4, <2>5, <2>6, <2>7
<1>8. CASE UNCHANGED vars
  BY <1>5, <1>8 DEF vars, Working
<1> QED
  BY <1>1, <1>2, <1>3, <1>6, <1>7, <1>8 DEF Next, Step

-----------------------------------------------------------------------------
(***************************************************************************)
(* What a step of the driver changes lies in the sector it erases or in    *)
(* the piece it programs; the end of a late erase changes nothing that was *)
(* not as good as blank.                                                   *)
(***************************************************************************)
Spared(a) ==
  /\ pc = "erase" /\ k < piece.len => Sector(a) # ErasedSector
  /\ pc = "write" => a \notin PieceCells

LEMMA SparedKeeps ==
  ASSUME TypeOK, CallInv, PieceInv, Step \/ EraseEnds, NEW a \in Addrs, Spared(a)
  PROVE  /\ Settled(flash)'[a] = Settled(flash)[a]
         /\ Sector(a) # chip => flash'[a] = flash[a] /\ Sector(a) # chip'
<1>0. /\ Settled(flash)[a] = IF Sector(a) = chip THEN Blank ELSE flash[a]
      /\ Settled(flash)'[a] = IF Sector(a) = chip' THEN Blank ELSE flash'[a]
      /\ Sector(a) \in Nat
  BY SectorBounds, AddrIsNat DEF Settled
<1>1. CASE UNCHANGED <<flash, chip>>
  BY <1>0, <1>1
<1>2. CASE EraseSector
  <2>1. pc = "erase" /\ k < piece.len /\ Sector(a) # ErasedSector
    BY <1>2 DEF EraseSector, Spared
  <2>2. a \notin CellsOf(ErasedSector)
    BY <2>1, ErasedIs
  <2>3. CASE EraseOutcome /\ ~Busy
    <3>1. flash'[a] = flash[a] /\ (chip' = chip \/ chip' = ErasedSector)
      BY <2>2, <2>3 DEF EraseOutcome, TypeOK
    <3>2. Sector(a) # chip /\ Sector(a) # chip'
      BY <1>0, <2>1, <2>3, <3>1 DEF Busy
    <3> QED
      BY <1>0, <3>1, <3>2
  <2> QED
    BY <1>1, <1>2, <2>3 DEF EraseSector
<1>3. CASE ProgramChunk
  <2>1. a \notin PieceCells /\ k < piece.len /\ UNCHANGED chip
    BY <1>3 DEF ProgramChunk, Spared
  <2>2. /\ Chunk \in Nat /\ Chunk <= piece.len - k
        /\ flash'[a] = flash[a] \/ a \in (piece.addr + k)..(piece.addr + k + Chunk - 1)
    BY <1>3, <2>1, ChunkIs, ProgramEffect
  <2>3. a \notin (piece.addr + k)..(piece.addr + k + Chunk - 1)
    BY <2>1, <2>2, TypeFacts DEF PieceCells
  <2> QED
    BY <1>0, <2>1, <2>2, <2>3
<1>4. CASE EraseEnds
  <2>1. flash' = Settled(flash) /\ chip' = -1
    BY <1>4 DEF EraseEnds
  <2> QED
    BY <1>0, <2>1
<1> QED
  BY <1>1, <1>2, <1>3, <1>4
    DEF Step, TakePiece, Finish, Erased, Written, VerifyBlock, Verified

LEMMA SparedNotInFlight ==
  ASSUME TypeOK, PieceInv, NEW a \in Addrs, Spared(a)
  PROVE  a \notin InFlight
<1>1. CASE pc = "erase" /\ k < piece.len /\ ~Busy
  BY <1>1, ErasedIs DEF InFlight, Spared
<1>2. CASE pc = "write" /\ k < piece.len
  <2>1. \A i \in 0..(Chunk - 1) : InPage(piece.addr + k, i) \in PieceCells
    BY <1>2, ChunkIs, TypeFacts DEF PieceCells
  <2> QED
    BY <1>2, <2>1 DEF InFlight, Spared
<1> QED
  BY <1>1, <1>2 DEF InFlight

LEMMA WithinStep == IInv /\ [Next]_vars => StaysWithin'
<1> SUFFICES ASSUME IInv, [Next]_vars PROVE StaysWithin'
  OBVIOUS
<1>0. TypeOK /\ CallInv /\ PieceInv /\ StaysWithin
  BY DEF IInv
<1>1. ASSUME NEW c \in Calls, Begin(c) PROVE StaysWithin'
  BY <1>1 DEF Begin, StaysWithin, Settled
<1>2. ASSUME Step \/ EraseEnds PROVE StaysWithin'
  <2>1. UNCHANGED <<job, before>>
    BY <1>2 DEF Step, TakePiece, Finish, EraseSector, Erased, ProgramChunk, Written, VerifyBlock, Verified, EraseEnds
  <2>2. pc # "idle" => ~(job.op = "erase_write" /\ TooLong(job))
    BY <1>0 DEF CallInv
  <2> SUFFICES ASSUME NEW a \in Addrs,
                      Sector(a) \notin TargetSectors \/ (job.op = "erase_write" /\ TooLong(job))
               PROVE  Settled(flash)'[a] = before[a]
    BY <2>1 DEF StaysWithin, TargetSectors, Target, TooLong
  <2>3. Settled(flash)[a] = before[a]
    BY <1>0 DEF StaysWithin
  <2>4. Spared(a)
    <3>1. CASE pc = "idle"
      BY <3>1 DEF Spared
    <3>2. CASE Sector(a) \notin TargetSectors
      BY <1>0, <3>2, ErasedIs DEF Spared, PieceInv, Working
    <3> QED
      BY <2>2, <3>1, <3>2
  <2> QED
    BY <1>0, <1>2, <2>3, <2>4, SparedKeeps
<1>3. ASSUME PowerLoss PROVE StaysWithin'
  <2>0. UNCHANGED job /\ pc # "idle" /\ chip' = -1
    BY <1>3 DEF PowerLoss
  <2>1. PICK torn \in {{}, InFlight} : flash' = [a \in Addrs |-> IF a \in torn THEN Mixed ELSE flash[a]]
    BY <1>3 DEF PowerLoss
  <2>2. before' = [a \in Addrs |-> IF Sector(a) = chip THEN flash[a] ELSE before[a]]
    BY <1>3 DEF PowerLoss
  <2> SUFFICES ASSUME NEW a \in Addrs, Sector(a) \notin TargetSectors
               PROVE  Settled(flash)'[a] = before'[a]
    BY <1>0, <2>0 DEF StaysWithin, CallInv, TargetSectors, Target, TooLong
  <2>3. a \notin InFlight
    <3>1. Spared(a)
      BY <1>0, ErasedIs DEF Spared, PieceInv, Working
    <3> QED
      BY <1>0, <3>1, SparedNotInFlight
  <2>4. flash'[a] = flash[a]
    BY <2>1, <2>3
  <2>5. Settled(flash)'[a] = flash'[a]
    BY <2>0, SectorBounds, AddrIsNat DEF Settled
  <2>6. Sector(a) # chip => flash[a] = before[a]
    BY <1>0, SettledType DEF StaysWithin
  <2> QED
    BY <2>2, <2>4, <2>5, <2>6
<1>4. CASE UNCHANGED vars
  BY <1>0, <1>4 DEF vars, StaysWithin, TargetSectors, Target, TooLong, Settled
<1> QED
  BY <1>1, <1>2, <1>3, <1>4 DEF Next

-----------------------------------------------------------------------------
(***************************************************************************)
(* raspi_erase_write, piece by piece.                                      *)
(***************************************************************************)
LEMMA OverlayMore ==
  ASSUME TypeOK, NEW d \in Nat, NEW n \in Nat, NEW a \in Addrs
  PROVE  Overlay(d + n)[a] =
           IF a \in (job.offs + d)..(job.offs + d + n - 1) THEN <<calls, a - job.offs>> ELSE Overlay(d)[a]
<1>1. job.offs \in Nat /\ a \in Nat
  BY TypeFacts, AddrIsNat
<1>2. a \in job.offs..(job.offs + (d + n) - 1)
        <=> a \in job.offs..(job.offs + d - 1) \/ a \in (job.offs + d)..(job.offs + d + n - 1)
  BY <1>1
<1> QED
  BY <1>2 DEF Overlay

LEMMA OverlayStable ==
  ASSUME UNCHANGED <<job, calls, before>>, NEW d
  PROVE  Overlay(d)' = Overlay(d)
BY DEF Overlay

LEMMA ErasedInPiece ==
  ASSUME TypeOK, PieceInv, ImageInv, job.op = "erase_write", pc = "erase", k < piece.len,
         NEW a \in Addrs, Sector(a) = ErasedSector
  PROVE  a \in PieceCells
<1>1. Aligned(piece.addr) /\ Aligned(piece.len) /\ Aligned(k)
  BY DEF ImageInv, Working
<1>2. piece.addr \in Nat /\ k \in Nat /\ piece.len \in Nat /\ a \in Nat /\ piece.addr + k \in Nat
  BY TypeFacts, AddrIsNat
<1>3. Aligned(piece.addr + k) /\ k + SectorSize <= piece.len
  BY <1>1, <1>2, AlignedSum, AlignedLess
<1>4. Sector(a) = Sector(piece.addr + k)
  BY ErasedIs
<1>5. a \in (piece.addr + k)..(piece.addr + k + SectorSize - 1)
  BY <1>2, <1>3, <1>4, SectorOfAligned
<1> QED
  BY <1>2, <1>3, <1>5, Sizes DEF PieceCells

\* When all blocks are verified, the flash is as far as the piece brings it.
LEMMA VerifiedCells ==
  ASSUME IInv, pc = "verify", k >= piece.len, NEW a \in Addrs
  PROVE  flash[a] = Overlay(done + piece.used)[a]
<1>0. /\ TypeOK /\ CallInv /\ PieceInv /\ FlashInv /\ ImageInv /\ job.op = "erase_write" /\ ~Busy /\ Working
  BY DEF IInv, CallInv, Working
<1>1. flash[a] = Settled(flash)[a] /\ a \in Nat
  BY <1>0, NotBusy, AddrIsNat
<1>2. CASE a \in PieceCells
  <2> DEFINE j == a - piece.addr
  <2>1. j \in 0..(piece.len - 1) /\ j < k /\ piece.addr + j = a
    BY <1>0, <1>1, <1>2, TypeFacts DEF PieceCells
  <2> HIDE DEF j
  <2>2. flash[piece.addr + j] = piece.data[j] /\ piece.data[j] = Overlay(done + piece.used)[piece.addr + j]
    BY <1>0, <2>1 DEF ImageInv
  <2> QED
    BY <2>1, <2>2
<1>3. CASE a \notin PieceCells
  <2>1. Settled(flash)[a] = Overlay(done)[a]
    BY <1>0, <1>3 DEF FlashInv
  <2>2. /\ piece.addr <= job.offs + done /\ job.offs + done + piece.used <= piece.addr + piece.len
    BY <1>0 DEF ImageInv, At
  <2>3. a \notin (job.offs + done)..(job.offs + done + piece.used - 1)
    BY <1>0, <1>1, <1>3, <2>2, TypeFacts DEF PieceCells
  <2>4. done \in Nat /\ piece.used \in Nat
    BY <1>0, TypeFacts
  <2>5. Overlay(done + piece.used)[a] = Overlay(done)[a]
    BY <1>0, <2>3, <2>4, OverlayMore
  <2> QED
    BY <1>1, <2>1, <2>5
<1> QED
  BY <1>2, <1>3

LEMMA FlashStep == IInv /\ [Next]_vars => FlashInv'
<1> SUFFICES ASSUME IInv, [Next]_vars PROVE FlashInv'
  OBVIOUS
<1>0. TypeOK /\ CallInv /\ PieceInv /\ FlashInv /\ ImageInv
  BY DEF IInv
<1>1. ASSUME NEW c \in Calls, Begin(c) PROVE FlashInv'
  <2>1. CASE c.op = "erase_write" /\ pc' = "loop"
    <3>1. /\ done' = 0 /\ before' = Settled(flash) /\ UNCHANGED <<flash, chip>> /\ job' = c
      BY <1>1, <2>1 DEF Begin
    <3>2. Overlay(0)' = before'
      <4>1. \A a \in Addrs : a \notin c.offs..(c.offs + 0 - 1)
        BY CallIs, AddrIsNat
      <4>2. before' = [a \in Addrs |-> before'[a]]
        BY <3>1 DEF Settled
      <4> QED
        BY <3>1, <4>1, <4>2 DEF Overlay
    <3>3. Settled(flash)' = Settled(flash)
      BY <3>1 DEF Settled
    <3> QED
      BY <3>1, <3>2, <3>3 DEF FlashInv
  <2> QED
    BY <1>1, <2>1 DEF Begin, FlashInv
<1>2. ASSUME Step \/ EraseEnds, ~Verified PROVE FlashInv'
  <2>1. UNCHANGED <<job, calls, before>>
    BY <1>2 DEF Step, TakePiece, Finish, EraseSector, Erased, ProgramChunk, Written, VerifyBlock, EraseEnds
  <2> SUFFICES ASSUME job.op = "erase_write", pc' # "idle"
               PROVE  FlashInv'
    BY <2>1 DEF FlashInv
  <2>2. pc # "idle" /\ UNCHANGED done /\ (UNCHANGED piece \/ piece.len = 0)
    BY <1>0, <1>2 DEF Step, TakePiece, Finish, EraseSector, Erased, ProgramChunk, Written, VerifyBlock,
                      EraseEnds, Return, PieceInv, Working
  <2>3. \A a \in Addrs : a \in PieceCells => a \in PieceCells'
    BY <1>0, <2>2, TypeFacts, AddrIsNat DEF PieceCells
  <2>4. ASSUME NEW a \in Addrs, a \notin PieceCells PROVE Spared(a)
    BY <1>0, <2>2, <2>4, ErasedInPiece DEF Spared
  <2>5. done = 0 \/ Left = 0 \/ Aligned(At)
    BY <1>0, <2>2 DEF FlashInv
  <2>6. ASSUME done # 0, NEW a \in Addrs, Sector(a) = chip' PROVE a \in PieceCells'
    <3>1. CASE a \in PieceCells
      BY <2>3, <3>1
    <3>2. CASE a \notin PieceCells
      <4>1. Sector(a) # chip
        BY <1>0, <2>2, <2>6, <3>2 DEF FlashInv
      <4> QED
        BY <1>0, <1>2, <2>4, <2>6, <3>2, <4>1, SparedKeeps
    <3> QED
      BY <3>1, <3>2
  <2>7. ASSUME NEW a \in Addrs, a \notin PieceCells' PROVE Settled(flash)'[a] = Overlay(done)[a]
    <3>1. a \notin PieceCells
      BY <2>3, <2>7
    <3>2. Settled(flash)[a] = Overlay(done)[a]
      BY <1>0, <2>2, <3>1 DEF FlashInv
    <3> QED
      BY <1>0, <1>2, <2>4, <3>1, <3>2, SparedKeeps
  <2>8. Overlay(done)' = Overlay(done)
    BY <2>1, <2>2 DEF Overlay
  <2> QED
    BY <2>1, <2>2, <2>5, <2>6, <2>7, <2>8 DEF FlashInv, Left, At
<1>3. ASSUME Verified PROVE FlashInv'
  <2>1. /\ pc = "verify" /\ k >= piece.len /\ done' = done + piece.used /\ piece' = NoPiece
        /\ UNCHANGED <<flash, chip, job, calls, before>>
    BY <1>3 DEF Verified
  <2>2. job.op = "erase_write" /\ ~Busy /\ Working
    BY <1>0, <2>1 DEF CallInv, Working
  <2>3. done' = 0 \/ Left' = 0 \/ Aligned(At')
    <3>1. done + piece.used = job.len \/ Aligned(At + piece.used)
      BY <1>0, <2>2 DEF ImageInv
    <3>2. At' = At + piece.used
      BY <1>0, <2>1, TypeFacts DEF At
    <3>3. done + piece.used = job.len => Left' = 0
      BY <1>0, <2>1, TypeFacts DEF Left
    <3> QED
      BY <3>1, <3>2, <3>3
  <2>4. Overlay(done)' = Overlay(done + piece.used)
    BY <2>1 DEF Overlay
  <2>5. \A a \in Addrs : Settled(flash)'[a] = flash[a] /\ Sector(a) # chip'
    BY <1>0, <2>1, <2>2, NotBusy DEF Settled
  <2> QED
    BY <2>1, <2>3, <2>4, <2>5, VerifiedCells DEF FlashInv, Aligned
<1>4. ASSUME PowerLoss PROVE FlashInv'
  BY <1>4 DEF PowerLoss, Return, FlashInv
<1>5. CASE UNCHANGED vars
  BY <1>0, <1>5 DEF vars, FlashInv, Left, At, PieceCells, Settled, Overlay
<1> QED
  BY <1>1, <1>2, <1>3, <1>4, <1>5 DEF Next, Step

LEMMA ImageStep == IInv /\ [Next]_vars => ImageInv'
<1> SUFFICES ASSUME IInv, [Next]_vars PROVE ImageInv'
  OBVIOUS
<1>0. TypeOK /\ CallInv /\ PieceInv /\ FlashInv /\ ImageInv
  BY DEF IInv
<1>1. ASSUME NEW c \in Calls, Begin(c) PROVE ImageInv'
  BY <1>1 DEF Begin, ImageInv, Working
<1>2. ASSUME TakePiece PROVE ImageInv'
  <2>1. CASE \E r \in {"fail"} : Return(r)
    BY <2>1 DEF Return, ImageInv, Working
  <2>2. /\ pc = "loop" /\ Left > 0 /\ job.offs + job.len <= Total /\ job.op = "erase_write"
        /\ UNCHANGED <<job, calls, before, flash, chip>>
    BY <1>0, <1>2 DEF TakePiece, CallInv
  <2>3. /\ done = 0 \/ Aligned(At)
        /\ \A a \in Addrs : Settled(flash)[a] = Overlay(done)[a]
    <3>1. \A a \in Addrs : a \notin PieceCells
      BY <1>0, <2>2, TypeFacts, AddrIsNat DEF PieceInv, Working, PieceCells
    <3>2. Left # 0
      BY <1>0, <2>2, PieceSizeIs
    <3> QED
      BY <1>0, <2>2, <3>1, <3>2 DEF FlashInv
  <2>4. /\ At \in Addrs /\ At \in Nat /\ done \in Nat /\ job.offs \in Nat /\ job.len \in Nat
        /\ At = job.offs + done /\ Left \in Nat /\ done + Left = job.len
        /\ calls \in 0..MaxCalls
    BY <1>0, <2>2, PieceSizeIs, TypeFacts, Sizes DEF At
  <2>5. Aligned(0)
    BY SectorSizeAligned
  <2>6. \A d : Overlay(d)' = Overlay(d)
    BY <2>2 DEF Overlay
  <2>7. CASE /\ piece' = Overlaid(At, PieceSize, calls, done) /\ ~Busy
             /\ pc' = "erase" /\ k' = 0 /\ UNCHANGED <<ret, done>>
    <3>1. /\ PieceSize \in Nat /\ PieceSize > 0 /\ PieceSize <= Left /\ PieceSize <= SectorSize - InSector
          /\ PieceSize = Left \/ PieceSize = SectorSize - InSector
          /\ InSector \in Nat /\ InSector < SectorSize /\ At = Sector(At) * SectorSize + InSector
          /\ done + PieceSize <= Total /\ PieceSize <= Total
      BY <1>0, <2>2, <2>4, PieceSizeIs, TypeFacts, TotalIsNat, Sizes
    <3>2. /\ piece'.addr \in Addrs /\ piece'.len = SectorSize /\ piece'.used = PieceSize
          /\ piece'.addr <= At /\ At < piece'.addr + SectorSize /\ piece'.addr + SectorSize <= Total
          /\ Aligned(piece'.addr) /\ Sector(piece'.addr) = Sector(At)
          /\ \A j \in 0..(SectorSize - 1) :
               piece'.data[j] = IF piece'.addr + j \in At..(At + PieceSize - 1)
                                THEN <<calls, done + piece'.addr + j - At>>
                                ELSE flash[piece'.addr + j]
      <4> DEFINE p == Overlaid(At, PieceSize, calls, done)
      <4>1. /\ p.addr \in Addrs /\ p.len = SectorSize /\ p.used = PieceSize
            /\ p.addr <= At /\ At < p.addr + SectorSize /\ p.addr + SectorSize <= Total
            /\ Aligned(p.addr) /\ Sector(p.addr) = Sector(At)
        BY <1>0, <2>4, <3>1, OverlaidIs
      <4>2. \A j \in 0..(SectorSize - 1) :
              p.data[j] = IF p.addr + j \in At..(At + PieceSize - 1)
                          THEN <<calls, done + p.addr + j - At>> ELSE flash[p.addr + j]
        BY DEF Overlaid
      <4>3. piece' = p
        BY <2>7
      <4> HIDE DEF p
      <4> QED
        BY <4>1, <4>2, <4>3
    <3>3. piece'.addr \in Nat /\ piece'.addr = Sector(At) * SectorSize /\ At = piece'.addr + InSector
      BY <3>1, <3>2, AddrIsNat, AlignedIs
    <3>4. At + PieceSize <= piece'.addr + piece'.len
      BY <2>4, <3>1, <3>2, <3>3, Sizes
    <3>5. done = 0 \/ piece'.addr = At
      BY <2>3, <2>4, <3>3, AlignedIs
    <3>6. done + PieceSize = job.len \/ Aligned(At + PieceSize)
      <4>1. CASE PieceSize = Left
        BY <2>4, <4>1
      <4>2. CASE PieceSize = SectorSize - InSector
        <5>1. At + PieceSize = piece'.addr + SectorSize
          BY <3>1, <3>3, <4>2, Sizes
        <5> QED
          BY <3>2, <3>3, <5>1, AlignedSum, SectorSizeAligned, Sizes
      <4> QED
        BY <3>1, <4>1, <4>2
    <3>7. ASSUME NEW j \in 0..(SectorSize - 1)
          PROVE  piece'.data[j] = Overlay(done + PieceSize)[piece'.addr + j]
      <4>1. piece'.addr + j \in Addrs /\ j \in Nat /\ piece'.addr + j \in Nat
        BY <3>2, <3>3, Sizes, TotalIsNat DEF Addrs
      <4>2. Overlay(done + PieceSize)[piece'.addr + j] =
              IF piece'.addr + j \in At..(At + PieceSize - 1)
              THEN <<calls, (piece'.addr + j) - job.offs>> ELSE Overlay(done)[piece'.addr + j]
        BY <1>0, <2>4, <3>1, <4>1, OverlayMore
      <4>3. done + piece'.addr + j - At = (piece'.addr + j) - job.offs
        BY <2>4, <3>3, <4>1
      <4>4. flash[piece'.addr + j] = Overlay(done)[piece'.addr + j]
        BY <1>0, <2>3, <2>7, <4>1, NotBusy
      <4> QED
        BY <3>2, <4>2, <4>3, <4>4
    <3>8. Aligned(piece'.len) /\ done' = done /\ At' = At
      BY <2>2, <2>7, <3>2, SectorSizeAligned DEF At
    <3>9. done + PieceSize <= job.len
      BY <2>4, <3>1
    <3> QED
      BY <2>2, <2>5, <2>6, <2>7, <3>1, <3>2, <3>4, <3>5, <3>6, <3>7, <3>8, <3>9 DEF ImageInv, Working, Aligned
  <2>8. CASE /\ piece' = [addr |-> At, len |-> Bulk, used |-> Bulk, data |-> [i \in 0..(Bulk - 1) |-> <<calls, done + i>>]]
             /\ pc' = "erase" /\ k' = 0 /\ UNCHANGED <<ret, done>> /\ ~Partial
    <3>1. Bulk \in Nat /\ Bulk > 0 /\ Bulk <= Left /\ Aligned(Bulk) /\ Aligned(At)
      BY <1>0, <2>2, <2>8, PieceSizeIs
    <3>2. /\ piece'.addr = At /\ piece'.len = Bulk /\ piece'.used = Bulk
          /\ piece'.data = [i \in 0..(Bulk - 1) |-> <<calls, done + i>>]
      BY <2>8
    <3>3. Aligned(At + Bulk) /\ done + Bulk <= job.len
      BY <2>4, <3>1, AlignedSum
    <3>4. ASSUME NEW j \in 0..(Bulk - 1)
          PROVE  piece'.data[j] = Overlay(done + Bulk)[At + j]
      <4>1. At + j \in Addrs /\ j \in Nat /\ At + j \in At..(At + Bulk - 1)
        BY <2>2, <2>4, <3>1, TotalIsNat DEF Addrs
      <4>2. Overlay(done + Bulk)[At + j] = <<calls, (At + j) - job.offs>>
        BY <1>0, <2>4, <3>1, <4>1, OverlayMore
      <4>3. (At + j) - job.offs = done + j
        BY <2>4, <4>1
      <4> QED
        BY <3>2, <4>2, <4>3
    <3>5. done' = done /\ At' = At
      BY <2>2, <2>8 DEF At
    <3> QED
      <4>1. pc' = "erase" /\ k' = 0 /\ done' = done /\ At' = At /\ UNCHANGED job
        BY <2>2, <2>8, <3>5
      <4>2. /\ Aligned(piece'.addr) /\ Aligned(piece'.len) /\ Aligned(k') /\ Aligned(At + piece'.used)
            /\ piece'.used > 0 /\ done + piece'.used <= job.len /\ piece'.addr = At
            /\ At <= At /\ At + piece'.used <= piece'.addr + piece'.len
        BY <2>4, <2>5, <3>1, <3>2, <3>3, <4>1, SMTT(30)
      <4>3. \A j \in 0..(piece'.len - 1) : piece'.data[j] = Overlay(done + piece'.used)[piece'.addr + j]
        BY <3>2, <3>4
      <4> QED
        BY <2>6, <4>1, <4>2, <4>3 DEF ImageInv, Working, Aligned
  <2> QED
    BY <1>2, <2>1, <2>7, <2>8 DEF TakePiece
<1>3. ASSUME ~Working' PROVE ImageInv'
  BY <1>3 DEF ImageInv
<1>4. ASSUME UNCHANGED <<piece, done, job, calls, before>>, Working, pc' = "erase" => Aligned(k'),
             job.op = "erase_write", pc' = "verify" =>
               \A j \in 0..(piece.len - 1) : j < k' => flash'[piece.addr + j] = piece.data[j]
      PROVE  ImageInv'
  BY <1>0, <1>4 DEF ImageInv, Aligned, At, Overlay
<1>5. ASSUME EraseSector PROVE ImageInv'
  <2>1. CASE pc' = "idle"
    BY <1>3, <2>1 DEF Working
  <2>2. CASE pc' = pc /\ k' = k + SectorSize /\ UNCHANGED <<piece, done>> /\ job.op = "erase_write"
    <3>1. pc = "erase" /\ UNCHANGED <<job, calls, before>> /\ Working
      BY <1>5 DEF EraseSector, Working
    <3>2. Aligned(k)
      BY <1>0, <2>2, <3>1 DEF ImageInv
    <3>3. Aligned(k')
      BY <1>0, <2>2, <3>2, AlignedSum, SectorSizeAligned, TypeFacts, Sizes
    <3> QED
      BY <1>4, <2>2, <3>1, <3>3
  <2>3. CASE job.op # "erase_write"
    BY <1>5, <2>3 DEF EraseSector, ImageInv
  <2> QED
    BY <1>5, <2>1, <2>2, <2>3 DEF EraseSector, Return
<1>6. ASSUME Erased PROVE ImageInv'
  <2>1. CASE pc' = "idle" \/ job.op # "erase_write"
    BY <1>6, <2>1 DEF Erased, ImageInv, Working
  <2>2. CASE pc' = "write" /\ UNCHANGED <<piece, done>> /\ job.op = "erase_write"
    BY <1>4, <1>6, <2>2 DEF Erased, Working
  <2> QED
    BY <1>6, <2>1, <2>2 DEF Erased, Return
<1>7. ASSUME ProgramChunk PROVE ImageInv'
  <2>1. CASE job.op = "erase_write"
    BY <1>4, <1>7, <2>1 DEF ProgramChunk, Working
  <2> QED
    BY <1>7, <2>1 DEF ProgramChunk, ImageInv
<1>8. ASSUME Written PROVE ImageInv'
  <2>1. CASE pc' = "idle" \/ job.op # "erase_write"
    BY <1>8, <2>1 DEF Written, ImageInv, Working
  <2>2. CASE pc' = "verify" /\ UNCHANGED <<piece, done>> /\ job.op = "erase_write" /\ k' = 0
    <3>1. \A j \in 0..(piece.len - 1) : ~(j < k')
      BY <1>0, <2>2, TypeFacts
    <3> QED
      BY <1>4, <1>8, <2>2, <3>1 DEF Written, Working
  <2> QED
    BY <1>8, <2>1, <2>2 DEF Written, Return
<1>9. ASSUME VerifyBlock PROVE ImageInv'
  <2>1. CASE pc' = "idle"
    BY <1>3, <2>1 DEF Working
  <2>2. CASE BlockMatches /\ k' = k + SectorSize /\ UNCHANGED <<pc, piece, done>>
    <3>1. pc = "verify" /\ job.op = "erase_write" /\ Working /\ UNCHANGED <<flash, job, calls, before>>
      BY <1>0, <1>9 DEF VerifyBlock, CallInv, Working
    <3>2. ASSUME NEW j \in 0..(piece.len - 1), j < k' PROVE flash[piece.addr + j] = piece.data[j]
      <4>1. CASE j < k
        BY <1>0, <3>1, <4>1 DEF ImageInv
      <4>2. CASE ~(j < k)
        <5>1. j \in k..(k + SectorSize - 1)
          BY <1>0, <2>2, <3>2, <4>2, TypeFacts, Sizes
        <5> QED
          BY <2>2, <5>1 DEF BlockMatches
      <4> QED
        BY <4>1, <4>2
    <3> QED
      BY <1>4, <2>2, <3>1, <3>2
  <2> QED
    BY <1>9, <2>1, <2>2 DEF VerifyBlock, Return
<1>10. ASSUME EraseEnds PROVE ImageInv'
  <2>1. CASE job.op = "erase_write" /\ Working
    <3>1. pc # "verify" /\ UNCHANGED <<pc, k, piece, done, job, calls, before>>
      BY <1>0, <1>10 DEF EraseEnds, CallInv
    <3> QED
      BY <1>0, <1>4, <2>1, <3>1 DEF ImageInv
  <2> QED
    BY <1>10, <2>1 DEF EraseEnds, ImageInv, Working
<1>11. ASSUME Finish \/ Verified \/ PowerLoss PROVE ImageInv'
  BY <1>3, <1>11 DEF Finish, Verified, PowerLoss, Return, Working
<1>12. CASE UNCHANGED vars
  BY <1>0, <1>12 DEF vars, ImageInv, Working, Aligned, At, Overlay
<1> QED
  BY <1>1, <1>2, <1>5, <1>6, <1>7, <1>8, <1>9, <1>10, <1>11, <1>12 DEF Next, Step

LEMMA DoneStep == IInv /\ [Next]_vars => DoneInv'
<1> SUFFICES ASSUME IInv, [Next]_vars PROVE DoneInv'
  OBVIOUS
<1>0. TypeOK /\ CallInv /\ PieceInv /\ FlashInv /\ ImageInv /\ DoneInv
  BY DEF IInv
<1>1. CASE ret' # "ok" \/ job'.op # "erase_write"
  BY <1>1 DEF DoneInv
<1>2. ASSUME Finish, job.op = "erase_write" PROVE DoneInv'
  <2>1. /\ pc = "loop" /\ Left <= 0 /\ UNCHANGED <<flash, chip, job, calls, before>>
    BY <1>2 DEF Finish
  <2>2. done = job.len /\ done # 0
    BY <1>0, <2>1, TypeFacts DEF Left
  <2>3. \A a \in Addrs : a \notin PieceCells
    BY <1>0, <2>1, TypeFacts, AddrIsNat DEF PieceInv, Working, PieceCells
  <2>4. ~Busy
    <3> SUFFICES ASSUME chip \in Sectors PROVE FALSE
      BY <1>0 DEF TypeOK, Busy
    <3>1. chip * SectorSize \in Addrs /\ Sector(chip * SectorSize) = chip
      <4>1. chip \in Nat /\ chip < NSectors
        BY Sizes DEF Sectors
      <4>2. chip * SectorSize \in Nat /\ Sector(chip * SectorSize) = chip
        BY <4>1, MultipleIsAligned
      <4>3. (chip + 1) * SectorSize <= NSectors * SectorSize
        BY <4>1, Sizes
      <4> QED
        BY <4>1, <4>2, <4>3, TotalIs, Sizes, TotalIsNat DEF Addrs
    <3> QED
      BY <1>0, <1>2, <2>1, <2>2, <2>3, <3>1 DEF FlashInv
  <2>5. flash = Result
    <3>1. \A a \in Addrs : flash[a] = Overlay(job.len)[a]
      BY <1>0, <1>2, <2>1, <2>2, <2>3, <2>4, NotBusy DEF FlashInv
    <3>2. Overlay(job.len) = Result
      BY DEF Overlay, Result, Target
    <3>3. flash = [a \in Addrs |-> flash[a]] /\ Result = [a \in Addrs |-> Result[a]]
      BY <1>0 DEF TypeOK, Result
    <3> QED
      BY <3>1, <3>2, <3>3
  <2> QED
    BY <2>1, <2>4, <2>5 DEF DoneInv, Busy, Result, Target
<1>3. CASE pc = "idle" /\ EraseEnds
  BY <1>0, <1>3 DEF EraseEnds, DoneInv
<1>4. CASE UNCHANGED vars
  BY <1>0, <1>4 DEF vars, DoneInv, Busy, Result, Target
<1>5. ASSUME Step \/ EraseEnds \/ PowerLoss, pc # "idle", ret' = "ok", job'.op = "erase_write" PROVE Finish /\ job.op = "erase_write"
  BY <1>0, <1>5 DEF CallInv, Step, TakePiece, Finish, EraseSector, Erased, ProgramChunk, Written, VerifyBlock,
                    Verified, EraseEnds, PowerLoss, Return
<1>6. ASSUME Step \/ PowerLoss PROVE pc # "idle"
  BY <1>6 DEF Step, TakePiece, Finish, EraseSector, Erased, ProgramChunk, Written, VerifyBlock, Verified, PowerLoss
<1>7. ASSUME NEW c \in Calls, Begin(c) PROVE ret' # "ok"
  BY <1>7 DEF Begin
<1> QED
  BY <1>1, <1>2, <1>3, <1>4, <1>5, <1>6, <1>7 DEF Next

-----------------------------------------------------------------------------
(***************************************************************************)
(* The theorems.                                                           *)
(***************************************************************************)
LEMMA StepIInv == IInv /\ [Next]_vars => IInv'
BY TypeStep, CallStep, PieceStep, WithinStep, FlashStep, ImageStep, DoneStep DEF IInv

LEMMA InvIsInvariant == Spec => []IInv
BY InitIInv, StepIInv, PTL DEF Spec

(***************************************************************************)
(* Whatever the calls and the faults of the chip, the driver keeps to its  *)
(* types: its piece lies on the chip, its progress within the buffer.      *)
(***************************************************************************)
THEOREM TypeCorrect == Spec => []TypeOK
<1>1. IInv => TypeOK
  BY DEF IInv
<1> QED
  BY InvIsInvariant, <1>1, PTL

(***************************************************************************)
(* raspi_erase_write is exact when it returns 0, on a chip of any size, for *)
(* any offset and length, and for any number of commands the chip loses or *)
(* delays.                                                                 *)
(***************************************************************************)
THEOREM EraseWriteIsExact == Spec => []WriteIsExact
<1>1. IInv => WriteIsExact
  BY DEF IInv, DoneInv, WriteIsExact
<1> QED
  BY InvIsInvariant, <1>1, PTL

(***************************************************************************)
(* However a call of the driver ends, and wherever the power fails, the    *)
(* sectors it is not for keep their content.                               *)
(***************************************************************************)
THEOREM CallsStayApart == Spec => []NeighboursUntouched
<1>1. IInv => NeighboursUntouched
  BY DEF IInv, StaysWithin, NeighboursUntouched, TargetSectors
<1> QED
  BY InvIsInvariant, <1>1, PTL

(***************************************************************************)
(* An image written to the kernel's place, of whatever length, leaves the  *)
(* sectors behind that place alone.                                        *)
(***************************************************************************)
THEOREM TailIsSpared == Spec => []ImageSparesTail
<1>1. IInv => ImageSparesTail
  <2> SUFFICES ASSUME IInv, job.op = "erase_write", job.offs = Head * SectorSize,
                      NEW a \in Addrs, Sector(a) >= NSectors - Tail
               PROVE  Settled(flash)[a] = before[a]
    BY DEF ImageSparesTail
  <2>1. TypeOK /\ StaysWithin
    BY DEF IInv
  <2>2. CASE TooLong(job)
    BY <2>1, <2>2 DEF StaysWithin
  <2>3. CASE ~TooLong(job)
    <3>1. /\ job.offs \in Nat /\ job.len \in Nat /\ NSectors - Tail \in Nat
          /\ job.offs + job.len <= (NSectors - Tail) * SectorSize
      <4>1. job.offs \in Nat /\ job.len \in Nat /\ NSectors - Tail \in Nat
        BY <2>1, TypeFacts, Sizes
      <4>2. job.len <= SectorSize * (NSectors - (Head + Tail))
        BY <2>3, <4>1, Sizes DEF TooLong, MaxSize
      <4>3. Head * SectorSize + SectorSize * (NSectors - (Head + Tail)) = (NSectors - Tail) * SectorSize
        BY Sizes
      <4>4. SectorSize * (NSectors - (Head + Tail)) \in Int /\ (NSectors - Tail) * SectorSize \in Int
        BY Sizes
      <4> QED
        BY <4>1, <4>2, <4>3, <4>4
    <3>2. \A t \in Target : Sector(t) < NSectors - Tail
      <4> SUFFICES ASSUME NEW t \in Target PROVE Sector(t) < NSectors - Tail
        OBVIOUS
      <4>1. t \in Nat /\ t < job.offs + job.len
        BY <3>1 DEF Target
      <4>2. (NSectors - Tail) * SectorSize \in Nat
        BY <3>1, Sizes
      <4>3. t < (NSectors - Tail) * SectorSize
        BY <3>1, <4>1, <4>2
      <4> QED
        BY <3>1, <4>1, <4>3, SectorBefore
    <3>3. Sector(a) \notin TargetSectors
      <4>1. Sector(a) \in Nat /\ NSectors - Tail \in Nat
        BY <3>1, SectorBounds, AddrIsNat
      <4>2. \A t \in Target : Sector(t) # Sector(a)
        BY <3>2, <4>1
      <4> QED
        BY <4>2 DEF TargetSectors
    <3> QED
      BY <2>1, <3>3 DEF StaysWithin
  <2> QED
    BY <2>2, <2>3
<1> QED
  BY InvIsInvariant, <1>1, PTL

(***************************************************************************)
(* No step of raspi_erase_write, and no power failure during one, changes  *)
(* what an earlier piece of it has written and verified.                   *)
(***************************************************************************)
THEOREM VerifiedIsFinal == Spec => VerifiedStays
<1> DEFINE Stays ==
      pc # "idle" /\ job.op = "erase_write" => \A a \in job.offs..(job.offs + done - 1) : flash'[a] = flash[a]
<1>1. IInv /\ [Next]_vars => [Stays]_vars
  <2> SUFFICES ASSUME IInv, Next, pc # "idle", job.op = "erase_write", NEW a \in job.offs..(job.offs + done - 1)
               PROVE  flash'[a] = flash[a]
    OBVIOUS
  <2>1. TypeOK /\ CallInv /\ PieceInv /\ FlashInv /\ ImageInv
    BY DEF IInv
  <2>2. a \in Addrs /\ a \in Nat /\ done # 0 /\ a < At
    BY <2>1, TypeFacts, TotalIsNat DEF At, Addrs, CallInv
  <2>3. a \notin PieceCells
    <3>1. CASE Working
      BY <2>1, <2>2, <3>1, TypeFacts DEF ImageInv, PieceCells, At
    <3>2. CASE ~Working
      BY <2>1, <2>2, <3>2, TypeFacts DEF PieceInv, PieceCells
    <3> QED
      BY <3>1, <3>2
  <2>4. Spared(a) /\ Sector(a) # chip
    BY <2>1, <2>2, <2>3, ErasedInPiece DEF Spared, FlashInv
  <2>5. CASE Step \/ EraseEnds
    BY <2>1, <2>2, <2>4, <2>5, SparedKeeps
  <2>6. CASE PowerLoss
    BY <2>1, <2>2, <2>4, <2>6, SparedNotInFlight DEF PowerLoss
  <2> QED
    BY <2>5, <2>6 DEF Next, Begin
<1> QED
  BY InvIsInvariant, <1>1, PTL DEF Spec, VerifiedStays

-----------------------------------------------------------------------------
(***************************************************************************)
(* raspi_write and saveenv on a chip that takes every command.  The piece  *)
(* holds what the call is to change, is erased first for saveenv, and is   *)
(* programmed cell by cell over blank ones.                                *)
(***************************************************************************)
PlainCall ==
  job.op = "save" \/ (job.op = "write" /\ \A a \in Target : before[a] = Blank)

\* The flash once the piece is there.
PieceIsResult ==
  \A a \in Addrs : Result[a] = IF a \in PieceCells THEN piece.data[a - piece.addr] ELSE before[a]

SectorErased ==
  /\ job.op = "save" /\ Aligned(piece.addr) /\ piece.len = SectorSize /\ k \in {0, SectorSize}
  /\ \A a \in Addrs : flash[a] = IF k # 0 /\ a \in PieceCells THEN Blank ELSE before[a]

CellsProgrammed ==
  \A a \in Addrs :
    flash[a] = IF a \notin PieceCells THEN before[a]
               ELSE IF a < piece.addr + k THEN piece.data[a - piece.addr] ELSE Blank

PlainInv ==
  /\ faults = 0 => ~Busy
  /\ pc = "erase" => job.op # "write"
  /\ faults = 0 /\ PlainCall =>
       /\ pc \in {"erase", "write"} => PieceIsResult
       /\ pc = "erase" => SectorErased
       /\ pc = "write" => CellsProgrammed
       /\ ret = "ok" => flash = Result

\* Each cell of the command gets its value, all others keep theirs.
LEMMA ProgramCells ==
  ASSUME TypeOK, ProgramChunk, faults' = 0, NEW c \in Addrs
  PROVE  flash'[c] = IF c \in (piece.addr + k)..(piece.addr + k + Chunk - 1)
                     THEN Programmed(flash[c], piece.data[c - piece.addr]) ELSE flash[c]
<1> DEFINE hit == [i \in 0..(Chunk - 1) |-> InPage(piece.addr + k, i)]
           hits(x) == \E i \in DOMAIN hit : hit[i] = x
           at(x) == CHOOSE i \in DOMAIN hit : hit[i] = x
           struck == hits(c)
           pick == at(c)
<1>1. pc = "write" /\ k < piece.len
  BY DEF ProgramChunk
<1>2. flash' = [x \in Addrs |-> IF hits(x) THEN Programmed(flash[x], piece.data[k + at(x)]) ELSE flash[x]]
  <2>1. faults' # faults + 1
    BY TypeFacts
  <2> QED
    BY <2>1 DEF ProgramChunk
<1>3. /\ Chunk \in Nat /\ piece.addr \in Nat /\ k \in Nat /\ c \in Nat
      /\ \A i \in 0..(Chunk - 1) : InPage(piece.addr + k, i) = piece.addr + k + i
  BY <1>1, ChunkIs, TypeFacts, AddrIsNat
<1>4. struck <=> c \in (piece.addr + k)..(piece.addr + k + Chunk - 1)
  <2>1. ASSUME struck PROVE c \in (piece.addr + k)..(piece.addr + k + Chunk - 1)
    BY <1>3, <2>1
  <2>2. ASSUME c \in (piece.addr + k)..(piece.addr + k + Chunk - 1) PROVE struck
    <3>1. c - (piece.addr + k) \in 0..(Chunk - 1) /\ piece.addr + k + (c - (piece.addr + k)) = c
      BY <1>3, <2>2
    <3> QED
      BY <1>3, <3>1
  <2> QED
    BY <2>1, <2>2
<1>5. ASSUME struck PROVE k + pick = c - piece.addr
  <2>1. pick \in DOMAIN hit /\ hit[pick] = c
    BY <1>5
  <2> HIDE DEF pick
  <2> QED
    BY <1>3, <2>1
<1>6. flash'[c] = IF struck THEN Programmed(flash[c], piece.data[k + pick]) ELSE flash[c]
  <2> HIDE DEF hits, at
  <2> QED
    BY <1>2
<1> HIDE DEF struck, pick
<1> QED
  BY <1>4, <1>5, <1>6

\* What saveenv goes to work with: its sector, with the environment put over it.
LEMMA SaveIs ==
  ASSUME TypeOK, NEW c \in Calls, c.op = "save", calls < MaxCalls, NEW p,
         p = Overlaid(c.offs, c.len, calls + 1, 0)
  PROVE  /\ p.addr \in Nat /\ p.len = SectorSize /\ Aligned(p.addr)
         /\ p.addr <= c.offs /\ c.offs + c.len <= p.addr + SectorSize
         /\ \A j \in 0..(SectorSize - 1) :
              p.data[j] = IF p.addr + j \in c.offs..(c.offs + c.len - 1)
                          THEN <<calls + 1, p.addr + j - c.offs>> ELSE flash[p.addr + j]
<1> DEFINE b == calls + 1
<1>1. /\ c.offs \in Addrs /\ c.offs \in Nat /\ c.len \in Nat /\ c.len <= Total
      /\ b \in 0..MaxCalls /\ p = Overlaid(c.offs, c.len, b, 0) /\ 0 + c.len <= Total
  BY CallIs, TypeFacts, Sizes
<1> HIDE DEF b
<1>2. /\ p.addr \in Addrs /\ p.len = SectorSize /\ Aligned(p.addr)
      /\ p.addr <= c.offs /\ Sector(p.addr) = Sector(c.offs)
      /\ \A j \in 0..(SectorSize - 1) :
           p.data[j] = IF p.addr + j \in c.offs..(c.offs + c.len - 1)
                       THEN <<b, 0 + p.addr + j - c.offs>> ELSE flash[p.addr + j]
  <2>1. PICK a, len : a = c.offs /\ len = c.len
    OBVIOUS
  <2>2. p = Overlaid(a, len, b, 0) /\ a \in Addrs /\ len \in Nat /\ len <= Total /\ 0 + len <= Total
        /\ b \in 0..MaxCalls /\ 0 \in Nat
    BY <1>1, <2>1
  <2>3. /\ p.addr \in Addrs /\ p.len = SectorSize /\ Aligned(p.addr)
        /\ p.addr <= a /\ Sector(p.addr) = Sector(a)
        /\ \A j \in 0..(SectorSize - 1) :
             p.data[j] = IF p.addr + j \in a..(a + len - 1) THEN <<b, 0 + p.addr + j - a>> ELSE flash[p.addr + j]
    BY ONLY TypeOK, <2>2, OverlaidIs
  <2> QED BY ONLY <2>1, <2>3
<1>3. c.offs + c.len <= p.addr + SectorSize
  <2>1. c.offs = Sector(c.offs) * SectorSize + (c.offs % SectorSize)
    BY <1>1, Sizes DEF Sector
  <2>2. p.addr = Sector(c.offs) * SectorSize
    BY <1>2, AddrIsNat, AlignedIs
  <2>3. (c.offs % SectorSize) + c.len <= SectorSize /\ c.offs % SectorSize \in Nat
    BY <1>1, SaveAssumption, Sizes
  <2>4. p.addr \in Nat
    BY <1>2, AddrIsNat
  <2> QED
    BY <1>1, <2>1, <2>2, <2>3, <2>4, Sizes
<1>4. p.addr \in Nat /\ \A j \in 0..(SectorSize - 1) : 0 + p.addr + j = p.addr + j
  BY <1>2, AddrIsNat, Sizes
<1> QED
  BY <1>1, <1>2, <1>3, <1>4 DEF b

LEMMA PlainBegins ==
  ASSUME IInv, PlainInv, NEW c \in Calls, Begin(c)
  PROVE  PlainInv'
<1>0. TypeOK /\ calls < MaxCalls
  BY DEF IInv, Begin
<1>1. /\ calls' = calls + 1 /\ job' = c /\ before' = Settled(flash) /\ k' = 0
      /\ UNCHANGED <<flash, chip, faults>> /\ ret' # "ok"
      /\ (faults' = 0 => ~Busy') /\ (pc' = "erase" => job'.op # "write")
  BY DEF Begin, PlainInv, Busy
<1>2. /\ c.offs \in Nat /\ c.len \in Nat /\ c.len > 0
  BY CallIs
<1>3. SUFFICES ASSUME faults' = 0, PlainCall', pc' # "idle"
               PROVE  /\ pc' \in {"erase", "write"} => PieceIsResult'
                      /\ pc' = "erase" => SectorErased'
                      /\ pc' = "write" => CellsProgrammed'
  BY <1>1 DEF PlainInv
<1>4. before' = flash /\ \A a \in Addrs : a \in Nat
  BY <1>0, <1>1, <1>3, NotBusy, AddrIsNat DEF PlainInv
<1>5. Target' = c.offs..(c.offs + c.len - 1)
      /\ \A a \in Addrs : Result'[a] = IF a \in Target' THEN <<calls + 1, a - c.offs>> ELSE flash[a]
  BY <1>1, <1>4 DEF Result, Target
<1>6. CASE c.op = "write"
  <2>1. pc' = "write" /\ piece' = Plain(c)
    BY <1>3, <1>6 DEF Begin
  <2>2. /\ piece'.addr = c.offs /\ piece'.len = c.len
        /\ \A i \in 0..(c.len - 1) : piece'.data[i] = <<calls + 1, i>>
    BY <2>1 DEF Plain
  <2>3. PieceCells' = Target'
    BY <1>5, <2>2 DEF PieceCells
  <2>4. \A a \in Target' : a - c.offs \in 0..(c.len - 1)
    BY <1>2, <1>5
  <2>5. PieceIsResult'
    BY <1>4, <1>5, <2>2, <2>3, <2>4 DEF PieceIsResult
  <2>6. \A a \in Addrs : a \in PieceCells' => flash[a] = Blank /\ ~(a < piece'.addr + k')
    BY <1>1, <1>2, <1>3, <1>4, <1>5, <1>6, <2>2, <2>3 DEF PlainCall
  <2>7. CellsProgrammed'
    BY <1>1, <1>4, <2>6 DEF CellsProgrammed
  <2> QED
    BY <2>1, <2>5, <2>7
<1>7. CASE c.op = "save"
  <2> DEFINE p == Overlaid(c.offs, c.len, calls + 1, 0)
  <2>1. pc' = "erase" /\ piece' = p
    BY <1>3, <1>7 DEF Begin
  <2> HIDE DEF p
  <2>2. /\ p.addr \in Nat /\ p.len = SectorSize /\ Aligned(p.addr)
        /\ p.addr <= c.offs /\ c.offs + c.len <= p.addr + SectorSize
        /\ \A j \in 0..(SectorSize - 1) :
             p.data[j] = IF p.addr + j \in c.offs..(c.offs + c.len - 1)
                         THEN <<calls + 1, p.addr + j - c.offs>> ELSE flash[p.addr + j]
    BY <1>0, <1>7, SaveIs DEF p
  <2>3. PieceCells' = p.addr..(p.addr + SectorSize - 1)
    BY <2>1, <2>2 DEF PieceCells
  <2>4. ASSUME NEW a \in Addrs, a \in PieceCells'
        PROVE  Result'[a] = p.data[a - p.addr]
    <3> DEFINE j == a - p.addr
    <3>1. j \in 0..(SectorSize - 1) /\ p.addr + j = a
      BY <1>4, <2>2, <2>3, <2>4, Sizes
    <3> HIDE DEF j
    <3>2. /\ p.addr + j \in c.offs..(c.offs + c.len - 1) => p.data[j] = <<calls + 1, p.addr + j - c.offs>>
          /\ p.addr + j \notin c.offs..(c.offs + c.len - 1) => p.data[j] = flash[p.addr + j]
      BY <2>2, <3>1
    <3>3. CASE a \in c.offs..(c.offs + c.len - 1)
      <4>1. p.data[j] = <<calls + 1, p.addr + j - c.offs>>
        BY <3>1, <3>2, <3>3
      <4>2. p.addr + j - c.offs = a - c.offs
        BY <1>2, <2>2, <3>1
      <4> QED
        BY <1>5, <3>3, <4>1, <4>2 DEF j
    <3>4. CASE a \notin c.offs..(c.offs + c.len - 1)
      <4>1. p.data[j] = flash[a]
        BY <3>1, <3>2, <3>4
      <4> QED
        BY <1>5, <3>4, <4>1 DEF j
    <3> QED
      BY <3>3, <3>4
  <2>5. ASSUME NEW a \in Addrs, a \notin PieceCells' PROVE Result'[a] = flash[a]
    <3>1. a \in Nat /\ (a < p.addr \/ p.addr + SectorSize <= a)
      BY <1>4, <2>2, <2>3, <2>5, Sizes
    <3>2. a \notin c.offs..(c.offs + c.len - 1)
      BY <1>2, <2>2, <3>1, Sizes
    <3> QED
      BY <1>5, <3>2
  <2>6. PieceIsResult'
    BY <1>4, <2>1, <2>4, <2>5 DEF PieceIsResult
  <2>7. Aligned(piece.addr)'
    BY <2>1, <2>2 DEF Aligned
  <2>8. SectorErased'
    BY <1>1, <1>4, <1>7, <2>1, <2>2, <2>7 DEF SectorErased
  <2> QED
    BY <2>1, <2>6, <2>8
<1> QED
  BY <1>1, <1>3, <1>6, <1>7 DEF PlainCall

LEMMA PlainErases ==
  ASSUME IInv, PlainInv, EraseSector
  PROVE  PlainInv'
<1>0. TypeOK /\ PieceInv /\ pc = "erase" /\ k < piece.len /\ UNCHANGED <<job, calls, before>> /\ ret # "ok"
  BY DEF IInv, CallInv, EraseSector
<1>1. /\ faults' = 0 => faults = 0
      /\ pc' = "erase" \/ (pc' = "idle" /\ ret' = "fail")
      /\ faults' = 0 => chip' = chip
  BY <1>0, TypeFacts DEF EraseSector, EraseOutcome, Return
<1>2. /\ faults' = 0 => ~Busy'
      /\ pc' = "erase" => job'.op # "write"
      /\ pc' = "erase" => ret' # "ok" /\ piece' = piece /\ k' = k + SectorSize
  BY <1>0, <1>1 DEF PlainInv, Busy, EraseSector, Return
<1>3. SUFFICES ASSUME faults' = 0, PlainCall', pc' = "erase"
               PROVE  PieceIsResult' /\ SectorErased'
  BY <1>1, <1>2 DEF PlainInv
<1>4. PlainCall /\ PieceIsResult /\ SectorErased
  BY <1>0, <1>1, <1>3 DEF PlainInv, PlainCall, Target
<1>5. Result' = Result /\ PieceCells' = PieceCells
  BY <1>0, <1>2, <1>3 DEF Result, Target, PieceCells
<1>6. PieceIsResult'
  BY <1>0, <1>2, <1>3, <1>4, <1>5 DEF PieceIsResult
<1>7. k = 0 /\ k' = SectorSize
  BY <1>0, <1>2, <1>3, <1>4, Sizes DEF SectorErased
<1>8. flash' = [a \in Addrs |-> IF a \in CellsOf(ErasedSector) THEN Blank ELSE flash[a]]
  <2>1. faults' # faults + 1
    BY <1>0, <1>1, <1>3, TypeFacts
  <2> QED
    BY <1>0, <1>3, <2>1 DEF EraseSector, EraseOutcome, Return
<1>9. ASSUME NEW a \in Addrs PROVE a \in CellsOf(ErasedSector) <=> a \in PieceCells
  <2>1. ErasedSector = Sector(piece.addr) /\ piece.addr \in Nat /\ a \in Nat
    BY <1>0, <1>7, ErasedIs, TypeFacts, AddrIsNat
  <2>2. a \in CellsOf(ErasedSector) <=> Sector(a) = ErasedSector
    BY <1>0, ErasedIs
  <2> QED
    BY <1>4, <2>1, <2>2, SectorOfAligned DEF SectorErased, PieceCells
<1>10. \A a \in Addrs : flash'[a] = IF a \in PieceCells THEN Blank ELSE before[a]
  BY <1>4, <1>7, <1>8, <1>9 DEF SectorErased
<1>11. Aligned(piece.addr)'
  BY <1>2, <1>3, <1>4 DEF SectorErased, Aligned
<1>12. k' # 0 /\ job'.op = "save" /\ piece'.len = SectorSize
  BY <1>0, <1>2, <1>3, <1>4, <1>7, Sizes DEF SectorErased
<1> QED
  BY <1>0, <1>5, <1>6, <1>7, <1>10, <1>11, <1>12 DEF SectorErased

LEMMA PlainPrograms ==
  ASSUME IInv, PlainInv, ProgramChunk
  PROVE  PlainInv'
<1>0. /\ TypeOK /\ pc = "write" /\ k < piece.len /\ k' = k + Chunk
      /\ UNCHANGED <<chip, pc, job, done, piece, ret, calls, before>> /\ ret # "ok"
  BY DEF IInv, CallInv, ProgramChunk
<1>1. faults' = 0 => faults = 0
  BY <1>0, TypeFacts DEF ProgramChunk
<1>2. SUFFICES ASSUME faults' = 0, PlainCall'
               PROVE  PieceIsResult' /\ CellsProgrammed'
  BY <1>0, <1>1 DEF PlainInv, Busy
<1>3. PlainCall /\ PieceIsResult /\ CellsProgrammed
  BY <1>0, <1>1, <1>2 DEF PlainInv, PlainCall, Target
<1>4. Result' = Result /\ PieceCells' = PieceCells
  BY <1>0 DEF Result, Target, PieceCells
<1>5. PieceIsResult'
  BY <1>0, <1>3, <1>4 DEF PieceIsResult
<1>6. /\ Chunk \in Nat /\ Chunk > 0 /\ Chunk <= piece.len - k
      /\ piece.addr \in Nat /\ k \in Nat /\ piece.len \in Nat
  BY <1>0, ChunkIs, TypeFacts
<1>7. ASSUME NEW a \in Addrs
      PROVE  flash'[a] = IF a \notin PieceCells THEN before[a]
                         ELSE IF a < piece.addr + (k + Chunk) THEN piece.data[a - piece.addr] ELSE Blank
  <2>0. a \in Nat
    BY AddrIsNat
  <2>1. flash'[a] = IF a \in (piece.addr + k)..(piece.addr + k + Chunk - 1)
                    THEN Programmed(flash[a], piece.data[a - piece.addr]) ELSE flash[a]
    BY <1>0, <1>2, ProgramCells
  <2>2. flash[a] = IF a \notin PieceCells THEN before[a]
                   ELSE IF a < piece.addr + k THEN piece.data[a - piece.addr] ELSE Blank
    BY <1>3 DEF CellsProgrammed
  <2>3. CASE a \in (piece.addr + k)..(piece.addr + k + Chunk - 1)
    <3>1. a \in PieceCells /\ ~(a < piece.addr + k) /\ a < piece.addr + (k + Chunk)
      BY <1>6, <2>0, <2>3 DEF PieceCells
    <3> QED
      BY <2>1, <2>2, <2>3, <3>1 DEF Programmed
  <2>4. CASE a \notin (piece.addr + k)..(piece.addr + k + Chunk - 1)
    <3>1. a < piece.addr + k <=> a < piece.addr + (k + Chunk)
      BY <1>6, <2>0, <2>4
    <3> QED
      BY <2>1, <2>2, <2>4, <3>1
  <2> QED
    BY <2>3, <2>4
<1>8. CellsProgrammed'
  BY <1>0, <1>4, <1>7 DEF CellsProgrammed
<1> QED
  BY <1>5, <1>8

LEMMA PlainStep == IInv /\ PlainInv /\ [Next]_vars => PlainInv'
<1> SUFFICES ASSUME IInv, PlainInv, [Next]_vars PROVE PlainInv'
  OBVIOUS
<1>0. TypeOK /\ CallInv /\ PieceInv
  BY DEF IInv
<1>1. CASE \E c \in Calls : Begin(c)
  BY <1>1, PlainBegins
<1>2. CASE TakePiece \/ Finish \/ VerifyBlock \/ Verified
  <2>1. /\ job'.op = "erase_write" /\ UNCHANGED <<chip, faults>>
    BY <1>0, <1>2 DEF CallInv, TakePiece, Finish, VerifyBlock, Verified
  <2> QED
    BY <2>1 DEF PlainInv, PlainCall, Busy
<1>3. CASE EraseSector
  BY <1>3, PlainErases
<1>4. CASE Erased
  <2>1. /\ pc = "erase" /\ k >= piece.len /\ UNCHANGED <<flash, chip, job, calls, faults, before>>
        /\ PieceInv /\ ret # "ok"
    BY <1>0, <1>4 DEF Erased, CallInv
  <2>2. CASE pc' = "idle"
    <3>1. (job.op = "erase" /\ ret' = "ok") \/ ret' = "fail"
      BY <1>4, <2>2 DEF Erased, Return
    <3> QED
      BY <2>1, <2>2, <3>1 DEF PlainInv, PlainCall, Busy
  <2>3. CASE pc' # "idle"
    <3>1. pc' = "write" /\ k' = 0 /\ UNCHANGED <<ret, piece>>
      BY <1>4, <2>3 DEF Erased, Return
    <3>2. SUFFICES ASSUME faults = 0, PlainCall PROVE PieceIsResult' /\ CellsProgrammed'
      BY <2>1, <3>1 DEF PlainInv, PlainCall, Target, Busy
    <3>3. PieceIsResult /\ SectorErased
      BY <2>1, <3>2 DEF PlainInv
    <3>4. Result' = Result /\ PieceCells' = PieceCells
      BY <2>1, <3>1 DEF Result, Target, PieceCells
    <3>5. k # 0
      BY <2>1, <3>3, Sizes DEF SectorErased
    <3>6. \A a \in Addrs : a \in PieceCells => ~(a < piece.addr + 0)
      BY <1>0, TypeFacts, AddrIsNat DEF PieceCells
    <3>7. PieceIsResult'
      BY <2>1, <3>1, <3>3, <3>4 DEF PieceIsResult
    <3>8. CellsProgrammed'
      BY <2>1, <3>1, <3>3, <3>4, <3>5, <3>6 DEF CellsProgrammed, SectorErased
    <3> QED
      BY <3>7, <3>8
  <2> QED
    BY <2>2, <2>3
<1>5. CASE ProgramChunk
  BY <1>5, PlainPrograms
<1>6. CASE Written
  <2>1. /\ pc = "write" /\ k >= piece.len /\ UNCHANGED <<flash, chip, job, calls, faults, before>>
    BY <1>6 DEF Written
  <2>2. /\ job.op \in {"write", "save"} => pc' = "idle"
        /\ job.op \notin {"write", "save"} => ~PlainCall'
        /\ pc' \notin {"erase", "write"}
    BY <1>6, <2>1 DEF Written, Return, PlainCall
  <2>3. Result' = Result /\ (PlainCall' => PlainCall)
    BY <2>1 DEF Result, Target, PlainCall
  <2>4. ASSUME faults = 0, PlainCall PROVE flash = Result
    <3>1. PieceIsResult /\ CellsProgrammed
      BY <2>1, <2>4 DEF PlainInv
    <3>2. \A a \in Addrs : a \in PieceCells => a < piece.addr + k
      BY <1>0, <2>1, TypeFacts, AddrIsNat DEF PieceCells
    <3>3. \A a \in Addrs : flash[a] = Result[a]
      BY <3>1, <3>2 DEF PieceIsResult, CellsProgrammed
    <3>4. flash = [a \in Addrs |-> flash[a]] /\ Result = [a \in Addrs |-> Result[a]]
      BY <1>0 DEF TypeOK, Result
    <3> QED
      BY <3>3, <3>4
  <2> QED
    BY <2>1, <2>2, <2>3, <2>4 DEF PlainInv, Busy
<1>7. CASE EraseEnds
  <2>1. faults' # 0 /\ pc' = pc /\ job' = job
    BY <1>7 DEF EraseEnds, PlainInv
  <2> QED
    BY <2>1 DEF PlainInv
<1>8. CASE PowerLoss
  BY <1>8 DEF PowerLoss, Return, PlainInv, Busy
<1>9. CASE UNCHANGED vars
  BY <1>9 DEF vars, PlainInv, PlainCall, PieceIsResult, SectorErased, CellsProgrammed, Busy, Result,
              Target, PieceCells, Aligned
<1> QED
  BY <1>1, <1>2, <1>3, <1>4, <1>5, <1>6, <1>7, <1>8, <1>9 DEF Next, Step

LEMMA PlainInit == Init => PlainInv
BY DEF Init, PlainInv, PlainCall, Busy

(***************************************************************************)
(* On a chip that takes every command, saveenv writes the environment and  *)
(* keeps the rest of its sector, and raspi_write fills a blank range, of   *)
(* any length and wherever in a page it begins.                            *)
(***************************************************************************)
THEOREM PlainIsExact == Spec => []PlainWritesAreExact
<1>1. PlainInv => PlainWritesAreExact
  BY DEF PlainInv, PlainCall, PlainWritesAreExact
<1> QED
  BY InvIsInvariant, PlainInit, PlainStep, <1>1, PTL DEF Spec
=============================================================================
