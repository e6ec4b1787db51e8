---------------------------- MODULE EthRingsProofs ----------------------------
(***************************************************************************)
(* Proofs about EthRings, for rings of any size.  The inductive invariant  *)
(* says where in a ring the frames lie: from the index of the reader up to *)
(* the index of the writer, going round, in the order of their numbers.    *)
(***************************************************************************)
EXTENDS EthRings, TLAPS

(***************************************************************************)
(* The steps from index a to index b of a ring of n descriptors.           *)
(***************************************************************************)
Steps(a, b, n) == IF b >= a THEN b - a ELSE (b - a) + n

PoolInv ==
  /\ running => initd
  /\ txbuf = 0 => taken = 0 /\ ~initd
  /\ txbuf # 0 /\ ~initd => txbuf = 1 /\ taken = 1 + NumRx
  /\ initd => txbuf = 1 /\ \A i \in Rx : rxbuf[i] = 2 + NumRx + i

(***************************************************************************)
(* The receive ring: the DDONE bits are set from owner up to drx, the      *)
(* frame of the descriptor i steps on is the i-th one not handled yet, and *)
(* the descriptor before owner was released last.                          *)
(***************************************************************************)
RxInv ==
  /\ ~initd => ~handling /\ arrived = 0 /\ handled = 0
  /\ initd => /\ After(calc, NumRx) = owner
              /\ arrived = handled + Steps(owner, drx, NumRx)
              /\ handling => owner # drx
              /\ \A i \in Rx : rxDone[i] <=> Steps(owner, i, NumRx) < Steps(owner, drx, NumRx)
              /\ \A i \in Rx : rxDone[i] => rxFrame[i] = handled + Steps(owner, i, NumRx)

(***************************************************************************)
(* The transmit ring: the bits are clear from dtx up to cpuTx.             *)
(***************************************************************************)
TxInv ==
  /\ ~initd => queued = 0 /\ wired = 0
  /\ initd => /\ queued = wired + Steps(dtx, cpuTx, NumTx)
              /\ \A i \in Tx : ~txDone[i] <=> Steps(dtx, i, NumTx) < Steps(dtx, cpuTx, NumTx)
              /\ \A i \in Tx : ~txDone[i] => txFrame[i] = wired + Steps(dtx, i, NumTx)

(***************************************************************************)
(* The buffers: the one eth_send is called with holds the frame it is      *)
(* called for and is none the engine fills, and one that a filled          *)
(* descriptor points to holds no frame older than the descriptor's.        *)
(***************************************************************************)
BufInv ==
  /\ sending # None => /\ initd /\ built[sending] = queued
                       /\ sending \in Rx => handling /\ sending = owner
  /\ initd => \A i \in Tx : ~txDone[i] => built[txPtr[i]] \in {None} \cup (txFrame[i] .. queued)

IInv == TypeOK /\ PoolInv /\ RxInv /\ TxInv /\ BufInv

-----------------------------------------------------------------------------
(***************************************************************************)
(* Going round a ring: the next index is an index, it is another one, and  *)
(* moving either end by one changes the number of steps by one.            *)
(***************************************************************************)
LEMMA AfterIsIndex ==
  ASSUME NEW n \in Nat, n > 1, NEW i \in 0 .. n - 1
  PROVE  After(i, n) \in 0 .. n - 1 /\ After(i, n) # i
BY DEF After

LEMMA StepsBound ==
  ASSUME NEW n \in Nat, NEW a \in 0 .. n - 1, NEW b \in 0 .. n - 1
  PROVE  /\ Steps(a, b, n) \in 0 .. n - 1
         /\ Steps(a, b, n) = 0 <=> a = b
BY DEF Steps

LEMMA WriterMoves ==
  ASSUME NEW n \in Nat, n > 1, NEW a \in 0 .. n - 1, NEW b \in 0 .. n - 1, After(b, n) # a
  PROVE  Steps(a, After(b, n), n) = Steps(a, b, n) + 1
BY DEF Steps, After

LEMMA ReaderMoves ==
  ASSUME NEW n \in Nat, n > 1, NEW a \in 0 .. n - 1, NEW b \in 0 .. n - 1, a # b
  PROVE  Steps(After(a, n), b, n) = Steps(a, b, n) - 1
BY DEF Steps, After

LEMMA StepsDistinct ==
  ASSUME NEW n \in Nat, NEW a \in 0 .. n - 1, NEW b \in 0 .. n - 1, NEW c \in 0 .. n - 1,
         Steps(a, b, n) = Steps(a, c, n)
  PROVE  b = c
BY DEF Steps

LEMMA ReaderIsLast ==
  ASSUME NEW n \in Nat, n > 1, NEW a \in 0 .. n - 1
  PROVE  Steps(After(a, n), a, n) = n - 1
BY DEF Steps, After

-----------------------------------------------------------------------------
LEMMA InitIInv == Init => IInv
<1> SUFFICES ASSUME Init PROVE IInv
  OBVIOUS
<1>1. TypeOK
  <2>1. rxDone \in [Rx -> BOOLEAN] /\ txDone \in [Tx -> BOOLEAN]
    BY Zenon DEF Init
  <2>2. rxbuf \in [Rx -> Nat] /\ rxFrame \in [Rx -> Nat] /\ txFrame \in [Tx -> Nat]
    BY DEF Init
  <2>3. initd \in BOOLEAN /\ running \in BOOLEAN /\ handling \in BOOLEAN
    BY Zenon DEF Init
  <2>4. 0 \in Rx /\ 0 \in Tx
    BY RingAssumption DEF Rx, Tx
  <2>5. txPtr \in [Tx -> Bufs] /\ built \in [Bufs -> Nat \cup {None}]
    BY RingAssumption DEF Init, Bufs, NetTxPacket
  <2> QED BY <2>1, <2>2, <2>3, <2>4, <2>5 DEF Init, TypeOK
<1>2. PoolInv /\ RxInv /\ TxInv /\ BufInv
  BY DEF Init, PoolInv, RxInv, TxInv, BufInv
<1> QED BY <1>1, <1>2 DEF IInv

LEMMA TypeStep == IInv /\ [Next]_vars => TypeOK'
<1> SUFFICES ASSUME IInv, [Next]_vars PROVE TypeOK'
  OBVIOUS
<1> USE RingAssumption, AfterIsIndex DEF IInv, TypeOK, Rx, Tx
<1>1. CASE NetBuffers
  <2>1. rxbuf' \in [Rx -> Nat] /\ taken' \in Nat /\ txbuf' \in Nat
    BY <1>1 DEF NetBuffers
  <2>2. UNCHANGED <<initd, running, rxVars, txVars, bufVars>>
    BY Zenon, <1>1 DEF NetBuffers
  <2> QED BY <2>1, <2>2 DEF rxVars, txVars, bufVars
<1>2. CASE rt2880_eth_setup
  <2>1. rxDone' \in [Rx -> BOOLEAN] /\ txDone' \in [Tx -> BOOLEAN]
    BY Zenon, <1>2 DEF rt2880_eth_setup
  <2>2. rxbuf' \in [Rx -> Nat] /\ taken' \in Nat
    BY <1>2 DEF rt2880_eth_setup
  <2>3. initd' \in BOOLEAN /\ running' \in BOOLEAN
    BY Zenon, <1>2 DEF rt2880_eth_setup
  <2>4. owner' \in Rx /\ calc' \in Rx /\ drx' \in Rx /\ cpuTx' \in Tx /\ dtx' \in Tx
    BY <1>2 DEF rt2880_eth_setup
  <2> QED BY <1>2, <2>1, <2>2, <2>3, <2>4 DEF rt2880_eth_setup, bufVars
<1>3. CASE START_ETH \/ STOP_ETH
  <2>1. running' \in BOOLEAN
    BY Zenon, <1>3 DEF START_ETH, STOP_ETH
  <2> QED BY <1>3, <2>1 DEF START_ETH, STOP_ETH, poolVars, rxVars, txVars, bufVars
<1>4. CASE Receive
  BY <1>4 DEF Receive, poolVars, txVars, bufVars
<1>5. CASE Release
  <2>1. handling' \in BOOLEAN /\ rxDone' \in [Rx -> BOOLEAN]
    BY Zenon, <1>5 DEF Release
  <2>2. calc' \in Rx /\ owner' \in Rx /\ handled' \in Nat
    BY <1>5 DEF Release
  <2> QED BY <1>5, <2>1, <2>2 DEF Release, poolVars, txVars, bufVars
<1>6. CASE eth_send
  <2>1. txDone' \in [Tx -> BOOLEAN]
    BY Zenon, <1>6 DEF eth_send
  <2>2. cpuTx' \in Tx /\ queued' \in Nat /\ txFrame' \in [Tx -> Nat]
    <3>1. cpuTx' = After(cpuTx, NumTx) /\ queued' = queued + 1
          /\ txFrame' = [txFrame EXCEPT ![cpuTx] = queued]
      BY Zenon, <1>6 DEF eth_send
    <3> QED BY <3>1
  <2>3. txPtr' \in [Tx -> Bufs] /\ sending' \in Bufs \cup {None}
    <3>1. sending \in Bufs /\ sending' = None /\ txPtr' = [txPtr EXCEPT ![cpuTx] = sending]
      BY Zenon, <1>6 DEF eth_send
    <3>2. txPtr \in [Tx -> Bufs]
      BY Zenon
    <3> HIDE DEF IInv, TypeOK, Rx, Tx
    <3> QED BY Zenon, <3>1, <3>2
  <2> QED BY <1>6, <2>1, <2>2, <2>3 DEF eth_send, poolVars, rxVars
<1>7. CASE DmaReceives
  <2>1. rxDone' \in [Rx -> BOOLEAN]
    BY Zenon, <1>7 DEF DmaReceives
  <2>2. rxFrame' \in [Rx -> Nat] /\ drx' \in Rx /\ arrived' \in Nat
    BY <1>7 DEF DmaReceives
  <2>3. built' \in [Bufs -> Nat \cup {None}]
    BY <1>7 DEF DmaReceives
  <2> QED BY <1>7, <2>1, <2>2, <2>3 DEF DmaReceives, poolVars, txVars
<1>8. CASE DmaSends
  BY <1>8 DEF DmaSends, poolVars, rxVars, bufVars
<1>9. CASE (\E b \in Bufs : NetBuilds(b)) \/ NetArpWaits \/ eth_send_fails
  <2>1. /\ sending' \in Bufs \cup {None}
        /\ \E b \in Bufs, v \in Nat \cup {None} : built' = [built EXCEPT ![b] = v]
    <3>1. NetArpWaitTxPacket \in Bufs
      BY DEF NetArpWaitTxPacket, Bufs
    <3> QED BY Zenon, <3>1, <1>9 DEF NetBuilds, NetArpWaits, eth_send_fails
  <2>3. built' \in [Bufs -> Nat \cup {None}]
    BY Zenon, <2>1
  <2>2. UNCHANGED <<initd, running, poolVars, rxVars, txVars>>
    BY Zenon, <1>9 DEF NetBuilds, NetArpWaits, eth_send_fails
  <2> QED BY <2>1, <2>2, <2>3 DEF poolVars, rxVars, txVars
<1>10. CASE UNCHANGED vars
  BY <1>10 DEF vars, poolVars, rxVars, txVars, bufVars
<1> QED BY <1>1, <1>2, <1>3, <1>4, <1>5, <1>6, <1>7, <1>8, <1>9, <1>10 DEF Next

(***************************************************************************)
(* The pool: both drawings from it happen once.                            *)
(***************************************************************************)
LEMMA PoolStep == IInv /\ [Next]_vars => PoolInv'
<1> SUFFICES ASSUME IInv, [Next]_vars PROVE PoolInv'
  OBVIOUS
<1> USE RingAssumption DEF IInv, TypeOK, PoolInv, Rx
<1>1. CASE NetBuffers
  BY <1>1 DEF NetBuffers, rxVars, txVars
<1>2. CASE rt2880_eth_setup
  BY <1>2 DEF rt2880_eth_setup
<1>3. CASE START_ETH \/ STOP_ETH
  BY <1>3 DEF START_ETH, STOP_ETH, poolVars, rxVars, txVars
<1>4. CASE UNCHANGED <<initd, running, poolVars>>
  BY <1>4 DEF poolVars
<1>5. QED BY <1>1, <1>2, <1>3, <1>4
  DEF Next, Receive, Release, NetBuilds, NetArpWaits, eth_send, eth_send_fails,
      DmaReceives, DmaSends, vars

(***************************************************************************)
(* The receive ring.  The engine stops before the descriptor released      *)
(* last, so its index never catches up with owner from behind.             *)
(***************************************************************************)
LEMMA RxStep == IInv /\ [Next]_vars => RxInv'
<1> SUFFICES ASSUME IInv, [Next]_vars PROVE RxInv'
  OBVIOUS
<1> USE RingAssumption
<1>t. TypeOK /\ PoolInv /\ RxInv
  BY DEF IInv
<1>1. CASE UNCHANGED <<initd, rxVars>>
  BY <1>1, <1>t DEF RxInv, rxVars
<1>2. CASE rt2880_eth_setup
  <2>1. handling' = FALSE /\ arrived' = 0 /\ handled' = 0
    BY <1>2, <1>t DEF rt2880_eth_setup, RxInv, TypeOK
  <2>2. Steps(0, 0, NumRx) = 0 /\ After(NumRx - 1, NumRx) = 0
    BY DEF Steps, After
  <2>3. After(calc', NumRx) = owner' /\ Steps(owner', drx', NumRx) = 0
    BY <1>2, <2>2 DEF rt2880_eth_setup
  <2>4. ASSUME NEW i \in Rx
        PROVE  ~rxDone'[i] /\ ~(Steps(owner', i, NumRx) < Steps(owner', drx', NumRx))
    <3>1. ~rxDone'[i] /\ owner' = 0
      <4>1. rxDone' = [j \in Rx |-> FALSE] /\ owner' = 0
        BY Zenon, <1>2 DEF rt2880_eth_setup
      <4>2. rxDone'[i] = FALSE
        BY Zenon, <4>1
      <4> QED BY Zenon, <4>1, <4>2
    <3>2. Steps(0, i, NumRx) \in Nat
      BY DEF Steps, Rx
    <3>3. ~(Steps(0, i, NumRx) < 0)
      BY <3>2
    <3> QED BY Zenon, <3>1, <3>3, <2>3
  <2> QED BY <2>1, <2>3, <2>4 DEF RxInv
<1>3. CASE Receive
  <2>1. owner # drx
    BY <1>3, <1>t DEF Receive, RxInv, TypeOK, Rx, Steps
  <2> QED BY <1>3, <1>t, <2>1 DEF Receive, RxInv
<1>4. CASE Release
  <2>1. initd /\ initd' = initd /\ handling' = FALSE /\ handled' = handled + 1 /\ arrived' = arrived
        /\ calc' = owner /\ owner' = After(owner, NumRx) /\ drx' = drx /\ rxFrame' = rxFrame
        /\ rxDone' = [rxDone EXCEPT ![owner] = FALSE]
    BY <1>4, <1>t DEF Release, RxInv
  <2>2. owner \in 0 .. NumRx - 1 /\ drx \in 0 .. NumRx - 1 /\ owner # drx
        /\ handled \in Nat /\ arrived \in Nat /\ rxDone \in [Rx -> BOOLEAN]
    BY <1>4, <1>t DEF Release, RxInv, TypeOK, Rx
  <2>3. Steps(owner', drx', NumRx) = Steps(owner, drx, NumRx) - 1
    BY <2>1, <2>2, ReaderMoves
  <2>4. After(calc', NumRx) = owner' /\ arrived' = handled' + Steps(owner', drx', NumRx)
    <3>1. arrived = handled + Steps(owner, drx, NumRx)
      BY <1>t, <2>1 DEF RxInv
    <3> QED BY <2>1, <2>2, <2>3, <3>1, StepsBound
  <2>5. ASSUME NEW i \in Rx
        PROVE  /\ rxDone'[i] <=> Steps(owner', i, NumRx) < Steps(owner', drx', NumRx)
               /\ rxDone'[i] => rxFrame'[i] = handled' + Steps(owner', i, NumRx)
    <3>1. i \in 0 .. NumRx - 1
      BY DEF Rx
    <3>2. CASE i = owner
      <4>1. Steps(owner', i, NumRx) = NumRx - 1
        BY <2>1, <2>2, <3>2, ReaderIsLast
      <4>2. Steps(owner, drx, NumRx) \in 0 .. NumRx - 1
        BY <2>2, StepsBound
      <4>3. rxDone'[i] = FALSE
        BY <2>1, <2>2, <3>2
      <4> QED BY <4>1, <4>2, <4>3, <2>3
    <3>3. CASE i # owner
      <4>1. Steps(owner', i, NumRx) = Steps(owner, i, NumRx) - 1
        BY <2>1, <2>2, <3>1, <3>3, ReaderMoves
      <4>2. rxDone'[i] = rxDone[i] /\ rxFrame'[i] = rxFrame[i]
        BY <2>1, <2>2, <3>3
      <4>3. Steps(owner, i, NumRx) \in 0 .. NumRx - 1 /\ Steps(owner, drx, NumRx) \in 0 .. NumRx - 1
        BY <2>2, <3>1, StepsBound
      <4>4. /\ rxDone[i] <=> Steps(owner, i, NumRx) < Steps(owner, drx, NumRx)
            /\ rxDone[i] => rxFrame[i] = handled + Steps(owner, i, NumRx)
        BY <1>t, <2>1 DEF RxInv
      <4>5. rxDone'[i] <=> Steps(owner', i, NumRx) < Steps(owner', drx', NumRx)
        BY <4>1, <4>2, <4>3, <4>4, <2>3
      <4>6. rxDone'[i] => rxFrame'[i] = handled' + Steps(owner', i, NumRx)
        BY <4>1, <4>2, <4>3, <4>4, <2>1, <2>2
      <4> QED BY <4>5, <4>6
    <3> QED BY <3>2, <3>3
  <2> QED BY <2>1, <2>4, <2>5 DEF RxInv
<1>5. CASE DmaReceives
  <2>1. initd /\ initd' = initd /\ handling' = handling /\ handled' = handled
        /\ arrived' = arrived + 1 /\ calc' = calc /\ owner' = owner /\ drx' = After(drx, NumRx)
        /\ drx # calc
        /\ rxFrame' = [rxFrame EXCEPT ![drx] = arrived]
        /\ rxDone' = [rxDone EXCEPT ![drx] = TRUE]
    BY <1>5, <1>t DEF DmaReceives, PoolInv
  <2>2. owner \in 0 .. NumRx - 1 /\ drx \in 0 .. NumRx - 1 /\ calc \in 0 .. NumRx - 1
        /\ handled \in Nat /\ arrived \in Nat
        /\ rxDone \in [Rx -> BOOLEAN] /\ rxFrame \in [Rx -> Nat]
    BY <1>t DEF TypeOK, Rx
  <2>3. After(calc, NumRx) = owner /\ arrived = handled + Steps(owner, drx, NumRx)
    BY <1>t, <2>1 DEF RxInv
  <2>4. After(drx, NumRx) # owner
    BY <2>1, <2>2, <2>3 DEF After
  <2>5. Steps(owner', drx', NumRx) = Steps(owner, drx, NumRx) + 1
    BY <2>1, <2>2, <2>4, WriterMoves
  <2>6. Steps(owner, drx, NumRx) \in 0 .. NumRx - 1
    BY <2>2, StepsBound
  <2>7. handling' => owner' # drx'
    BY <2>1, <2>4
  <2>8. arrived' = handled' + Steps(owner', drx', NumRx)
    BY <2>1, <2>2, <2>3, <2>5, <2>6
  <2>9. ASSUME NEW i \in Rx
        PROVE  /\ rxDone'[i] <=> Steps(owner', i, NumRx) < Steps(owner', drx', NumRx)
               /\ rxDone'[i] => rxFrame'[i] = handled' + Steps(owner', i, NumRx)
    <3>1. i \in 0 .. NumRx - 1
      BY DEF Rx
    <3>2. Steps(owner', i, NumRx) = Steps(owner, i, NumRx) /\ Steps(owner, i, NumRx) \in 0 .. NumRx - 1
      BY <2>1, <2>2, <3>1, StepsBound
    <3>3. CASE i = drx
      <4>1. rxDone'[i] = TRUE /\ rxFrame'[i] = arrived
        BY <2>1, <2>2, <3>3 DEF Rx
      <4> QED BY <4>1, <3>2, <3>3, <2>1, <2>2, <2>3, <2>5, <2>6
    <3>4. CASE i # drx
      <4>1. rxDone'[i] = rxDone[i] /\ rxFrame'[i] = rxFrame[i]
        BY <2>1, <2>2, <3>4
      <4>2. Steps(owner, i, NumRx) # Steps(owner, drx, NumRx)
        BY <2>2, <3>1, <3>4, StepsDistinct
      <4>3. /\ rxDone[i] <=> Steps(owner, i, NumRx) < Steps(owner, drx, NumRx)
            /\ rxDone[i] => rxFrame[i] = handled + Steps(owner, i, NumRx)
        BY <1>t, <2>1 DEF RxInv
      <4>4. rxDone'[i] <=> Steps(owner', i, NumRx) < Steps(owner', drx', NumRx)
        BY <4>1, <4>2, <4>3, <3>2, <2>5, <2>6
      <4>5. rxDone'[i] => rxFrame'[i] = handled' + Steps(owner', i, NumRx)
        BY <4>1, <4>3, <3>2, <2>1
      <4> QED BY <4>4, <4>5
    <3> QED BY <3>3, <3>4
  <2> QED BY <2>1, <2>3, <2>7, <2>8, <2>9 DEF RxInv
<1> QED BY <1>1, <1>2, <1>3, <1>4, <1>5
  DEF Next, NetBuffers, START_ETH, STOP_ETH, NetBuilds, NetArpWaits, eth_send, eth_send_fails,
      DmaSends, vars, rxVars

(***************************************************************************)
(* The transmit ring.  eth_send leaves one descriptor free, so that equal  *)
(* indices mean an empty ring.                                             *)
(***************************************************************************)
LEMMA TxStep == IInv /\ [Next]_vars => TxInv'
<1> SUFFICES ASSUME IInv, [Next]_vars PROVE TxInv'
  OBVIOUS
<1> USE RingAssumption
<1>t. TypeOK /\ PoolInv /\ TxInv
  BY DEF IInv
<1>b. BufInv
  BY DEF IInv
<1>1. CASE UNCHANGED <<initd, txVars>>
  <2>1. UNCHANGED <<initd, txDone, txFrame, cpuTx, dtx, queued, wired>>
    BY Zenon, <1>1 DEF txVars
  <2> QED BY <2>1, <1>t DEF TxInv
<1>2. CASE rt2880_eth_setup
  <2>1. queued' = 0 /\ wired' = 0
    BY <1>2, <1>t DEF rt2880_eth_setup, TxInv
  <2>2. dtx' = 0 /\ cpuTx' = 0 /\ Steps(dtx', cpuTx', NumTx) = 0
    BY <1>2 DEF rt2880_eth_setup, Steps
  <2>3. ASSUME NEW i \in Tx
        PROVE  txDone'[i] /\ ~(Steps(dtx', i, NumTx) < Steps(dtx', cpuTx', NumTx))
    <3>1. txDone'[i]
      <4>1. txDone' = [j \in Tx |-> TRUE]
        BY Zenon, <1>2 DEF rt2880_eth_setup
      <4>2. txDone'[i] = TRUE
        BY Zenon, <4>1
      <4> QED BY Zenon, <4>2
    <3>2. Steps(0, i, NumTx) \in Nat
      BY DEF Steps, Tx
    <3>3. ~(Steps(0, i, NumTx) < 0)
      BY <3>2
    <3> QED BY Zenon, <3>1, <3>3, <2>2
  <2> QED BY <2>1, <2>2, <2>3 DEF TxInv
<1>3. CASE eth_send
  <2>1. initd /\ initd' = initd /\ queued' = queued + 1 /\ wired' = wired
        /\ dtx' = dtx /\ cpuTx' = After(cpuTx, NumTx) /\ dtx # After(cpuTx, NumTx)
        /\ txFrame' = [txFrame EXCEPT ![cpuTx] = queued]
        /\ txDone' = [txDone EXCEPT ![cpuTx] = FALSE]
    BY <1>3, <1>b DEF eth_send, TxFree, BufInv
  <2>2. cpuTx \in 0 .. NumTx - 1 /\ dtx \in 0 .. NumTx - 1 /\ queued \in Nat /\ wired \in Nat
        /\ txDone \in [Tx -> BOOLEAN] /\ txFrame \in [Tx -> Nat]
    BY <1>t DEF TypeOK, Tx
  <2>3. Steps(dtx', cpuTx', NumTx) = Steps(dtx, cpuTx, NumTx) + 1
    BY <2>1, <2>2, WriterMoves
  <2>4. Steps(dtx, cpuTx, NumTx) \in 0 .. NumTx - 1 /\ queued = wired + Steps(dtx, cpuTx, NumTx)
    BY <2>1, <2>2, <1>t, StepsBound DEF TxInv
  <2>5. ASSUME NEW i \in Tx
        PROVE  /\ ~txDone'[i] <=> Steps(dtx', i, NumTx) < Steps(dtx', cpuTx', NumTx)
               /\ ~txDone'[i] => txFrame'[i] = wired' + Steps(dtx', i, NumTx)
    <3>1. i \in 0 .. NumTx - 1
      BY DEF Tx
    <3>2. Steps(dtx', i, NumTx) = Steps(dtx, i, NumTx) /\ Steps(dtx, i, NumTx) \in 0 .. NumTx - 1
      BY <2>1, <2>2, <3>1, StepsBound
    <3>3. CASE i = cpuTx
      <4>1. txDone'[i] = FALSE /\ txFrame'[i] = queued
        BY <2>1, <2>2, <3>3 DEF Tx
      <4> QED BY <4>1, <3>2, <3>3, <2>1, <2>2, <2>3, <2>4
    <3>4. CASE i # cpuTx
      <4>1. txDone'[i] = txDone[i] /\ txFrame'[i] = txFrame[i]
        BY <2>1, <2>2, <3>4
      <4>2. Steps(dtx, i, NumTx) # Steps(dtx, cpuTx, NumTx)
        BY <2>2, <3>1, <3>4, StepsDistinct
      <4>3. /\ ~txDone[i] <=> Steps(dtx, i, NumTx) < Steps(dtx, cpuTx, NumTx)
            /\ ~txDone[i] => txFrame[i] = wired + Steps(dtx, i, NumTx)
        BY <1>t, <2>1 DEF TxInv
      <4>4. ~txDone'[i] <=> Steps(dtx', i, NumTx) < Steps(dtx', cpuTx', NumTx)
        BY <4>1, <4>2, <4>3, <3>2, <2>3, <2>4
      <4>5. ~txDone'[i] => txFrame'[i] = wired' + Steps(dtx', i, NumTx)
        BY <4>1, <4>3, <3>2, <2>1
      <4> QED BY <4>4, <4>5
    <3> QED BY <3>3, <3>4
  <2> QED BY <2>1, <2>2, <2>3, <2>4, <2>5 DEF TxInv
<1>4. CASE DmaSends
  <2>1. initd /\ initd' = initd /\ queued' = queued /\ wired' = wired + 1
        /\ dtx' = After(dtx, NumTx) /\ cpuTx' = cpuTx /\ dtx # cpuTx
        /\ txFrame' = txFrame /\ txDone' = [txDone EXCEPT ![dtx] = TRUE]
    BY <1>4, <1>t DEF DmaSends, PoolInv
  <2>2. cpuTx \in 0 .. NumTx - 1 /\ dtx \in 0 .. NumTx - 1 /\ queued \in Nat /\ wired \in Nat
        /\ txDone \in [Tx -> BOOLEAN] /\ txFrame \in [Tx -> Nat]
    BY <1>t DEF TypeOK, Tx
  <2>3. Steps(dtx', cpuTx', NumTx) = Steps(dtx, cpuTx, NumTx) - 1
    BY <2>1, <2>2, ReaderMoves
  <2>4. Steps(dtx, cpuTx, NumTx) \in 0 .. NumTx - 1 /\ queued = wired + Steps(dtx, cpuTx, NumTx)
    BY <2>1, <2>2, <1>t, StepsBound DEF TxInv
  <2>5. ASSUME NEW i \in Tx
        PROVE  /\ ~txDone'[i] <=> Steps(dtx', i, NumTx) < Steps(dtx', cpuTx', NumTx)
               /\ ~txDone'[i] => txFrame'[i] = wired' + Steps(dtx', i, NumTx)
    <3>1. i \in 0 .. NumTx - 1
      BY DEF Tx
    <3>2. CASE i = dtx
      <4>1. Steps(dtx', i, NumTx) = NumTx - 1
        BY <2>1, <2>2, <3>2, ReaderIsLast
      <4>2. txDone'[i] = TRUE
        BY <2>1, <2>2, <3>2 DEF Tx
      <4> QED BY <4>1, <4>2, <2>3, <2>4
    <3>3. CASE i # dtx
      <4>1. Steps(dtx', i, NumTx) = Steps(dtx, i, NumTx) - 1
        BY <2>1, <2>2, <3>1, <3>3, ReaderMoves
      <4>2. txDone'[i] = txDone[i] /\ txFrame'[i] = txFrame[i]
        BY <2>1, <2>2, <3>3
      <4>3. Steps(dtx, i, NumTx) \in 0 .. NumTx - 1
        BY <2>2, <3>1, StepsBound
      <4>4. /\ ~txDone[i] <=> Steps(dtx, i, NumTx) < Steps(dtx, cpuTx, NumTx)
            /\ ~txDone[i] => txFrame[i] = wired + Steps(dtx, i, NumTx)
        BY <1>t, <2>1 DEF TxInv
      <4>5. ~txDone'[i] <=> Steps(dtx', i, NumTx) < Steps(dtx', cpuTx', NumTx)
        BY <4>1, <4>2, <4>3, <4>4, <2>3, <2>4
      <4>6. ~txDone'[i] => txFrame'[i] = wired' + Steps(dtx', i, NumTx)
        BY <4>1, <4>2, <4>3, <4>4, <2>1, <2>2
      <4> QED BY <4>5, <4>6
    <3> QED BY <3>2, <3>3
  <2> QED BY <2>1, <2>2, <2>3, <2>4, <2>5 DEF TxInv
<1> QED BY <1>1, <1>2, <1>3, <1>4
  DEF Next, NetBuffers, START_ETH, STOP_ETH, Receive, Release, NetBuilds, NetArpWaits,
      eth_send_fails, DmaReceives, vars, txVars

(***************************************************************************)
(* A frame not sent yet is older than the next one to be queued, so a      *)
(* buffer is only ever overwritten by a younger frame.                     *)
(***************************************************************************)
LEMMA PendingIsOlder ==
  ASSUME IInv, initd, NEW i \in Tx, ~txDone[i]
  PROVE  txFrame[i] \in Nat /\ queued \in Nat /\ txFrame[i] < queued
<1>1. cpuTx \in 0 .. NumTx - 1 /\ dtx \in 0 .. NumTx - 1 /\ i \in 0 .. NumTx - 1
      /\ wired \in Nat /\ queued \in Nat /\ txFrame[i] \in Nat
  BY DEF IInv, TypeOK, Tx
<1>2. Steps(dtx, i, NumTx) \in Nat /\ Steps(dtx, cpuTx, NumTx) \in Nat
  BY <1>1, RingAssumption, StepsBound
<1>3. /\ txFrame[i] = wired + Steps(dtx, i, NumTx)
      /\ Steps(dtx, i, NumTx) < Steps(dtx, cpuTx, NumTx)
      /\ queued = wired + Steps(dtx, cpuTx, NumTx)
  BY DEF IInv, TxInv
<1> QED BY <1>1, <1>2, <1>3

LEMMA BufStep == IInv /\ [Next]_vars => BufInv'
<1> SUFFICES ASSUME IInv, [Next]_vars PROVE BufInv'
  OBVIOUS
<1>t. /\ txDone \in [Tx -> BOOLEAN] /\ txFrame \in [Tx -> Nat] /\ txPtr \in [Tx -> Bufs]
      /\ built \in [Bufs -> Nat \cup {None}] /\ sending \in Bufs \cup {None}
      /\ queued \in Nat /\ cpuTx \in Tx /\ dtx \in Tx /\ drx \in Rx
  BY DEF IInv, TypeOK
<1>b. BufInv /\ PoolInv
  BY DEF IInv
<1>n. None \notin Bufs /\ None \notin Nat /\ (\A i \in Rx : i \in Bufs)
      /\ NetArpWaitTxPacket \in Bufs
  BY RingAssumption DEF None, Bufs, Rx, NetArpWaitTxPacket
<1>1. CASE UNCHANGED <<initd, txVars, bufVars>> /\ (sending = None \/ UNCHANGED <<handling, owner>>)
  <2>1. UNCHANGED <<initd, txDone, txFrame, txPtr, queued, built, sending>>
    BY Zenon, <1>1 DEF txVars, bufVars
  <2>2. CASE sending = None
    BY Zenon, <2>1, <2>2, <1>b DEF BufInv
  <2>3. CASE UNCHANGED <<handling, owner>>
    BY Zenon, <2>1, <2>3, <1>b DEF BufInv
  <2> QED BY <1>1, <2>2, <2>3
<1>2. CASE rt2880_eth_setup
  <2>1. sending' = sending /\ ~initd
    BY <1>2 DEF rt2880_eth_setup, bufVars
  <2>2. ASSUME NEW i \in Tx PROVE txDone'[i]
    <3>1. txDone' = [j \in Tx |-> TRUE]
      BY Zenon, <1>2 DEF rt2880_eth_setup
    <3>2. txDone'[i] = TRUE
      BY Zenon, <3>1
    <3> QED BY Zenon, <3>2
  <2> QED BY <2>1, <2>2, <1>b DEF BufInv
<1>3. CASE eth_send
  <2>1. /\ sending \in Bufs /\ initd /\ initd' = initd /\ sending' = None
        /\ built' = built /\ built[sending] = queued /\ queued' = queued + 1
        /\ txFrame' = [txFrame EXCEPT ![cpuTx] = queued]
        /\ txPtr' = [txPtr EXCEPT ![cpuTx] = sending]
        /\ txDone' = [txDone EXCEPT ![cpuTx] = FALSE]
    BY <1>3, <1>t, <1>b DEF eth_send, BufInv
  <2>2. ASSUME NEW i \in Tx, ~txDone'[i]
        PROVE  built'[txPtr'[i]] \in {None} \cup (txFrame'[i] .. queued')
    <3>1. CASE i = cpuTx
      BY <2>1, <1>t, <3>1
    <3>2. CASE i # cpuTx
      <4>1. ~txDone[i] /\ txPtr'[i] = txPtr[i] /\ txFrame'[i] = txFrame[i]
        BY <2>1, <2>2, <1>t, <3>2
      <4>2. built[txPtr[i]] \in {None} \cup (txFrame[i] .. queued)
        BY <4>1, <2>1, <1>b DEF BufInv
      <4> QED BY <4>1, <4>2, <2>1, <1>t
    <3> QED BY <3>1, <3>2
  <2> QED BY <2>1, <2>2 DEF BufInv
<1>4. ASSUME NEW b \in Bufs, NEW v \in {None, queued}, initd, UNCHANGED <<initd, txVars>>,
             built' = [built EXCEPT ![b] = v],
             sending' # None => /\ built'[sending'] = queued
                                /\ sending' \in Rx => handling' /\ sending' = owner'
      PROVE  BufInv'
  <2>1. UNCHANGED <<initd, txDone, txFrame, txPtr, queued>>
    BY Zenon, <1>4 DEF txVars
  <2>2. ASSUME NEW i \in Tx, ~txDone'[i]
        PROVE  built'[txPtr'[i]] \in {None} \cup (txFrame'[i] .. queued')
    <3>1. txFrame[i] \in Nat /\ txFrame[i] < queued /\ txPtr[i] \in Bufs
      BY <2>1, <2>2, <1>4, <1>t, PendingIsOlder
    <3>2. built[txPtr[i]] \in {None} \cup (txFrame[i] .. queued)
      BY <2>1, <2>2, <1>4, <1>b DEF BufInv
    <3>3. built'[txPtr[i]] \in {v, built[txPtr[i]]}
      BY <1>4, <1>t, <3>1
    <3>4. v \in {None} \cup (txFrame[i] .. queued)
      BY <3>1, <1>t, <1>4
    <3> QED BY <3>2, <3>3, <3>4, <2>1
  <2> QED BY <2>1, <2>2, <1>4 DEF BufInv
<1>5. CASE \E b \in Bufs : NetBuilds(b)
  <2>1. PICK b \in Bufs : NetBuilds(b)
    BY <1>5
  <2>2. initd /\ UNCHANGED <<initd, txVars>> /\ built' = [built EXCEPT ![b] = queued] /\ sending' = b
    BY <2>1 DEF NetBuilds
  <2>3. built'[sending'] = queued
    BY <2>2, <1>t
  <2>4. b \in Rx => handling' /\ b = owner'
    <3>1. UNCHANGED <<handling, owner>>
      BY Zenon, <2>1 DEF NetBuilds, rxVars
    <3> QED BY <2>1, <3>1, RingAssumption DEF NetBuilds, NetTxPacket, NetArpWaitTxPacket, Rx
  <2> QED BY <2>2, <2>3, <2>4, <1>4
<1>6. CASE NetArpWaits
  <2>1. initd /\ UNCHANGED <<initd, txVars>> /\ sending' = None
        /\ built' = [built EXCEPT ![NetArpWaitTxPacket] = None]
    BY <1>6 DEF NetArpWaits
  <2> QED BY <2>1, <1>4, <1>n
<1>7. CASE eth_send_fails
  <2>1. initd /\ UNCHANGED <<initd, txVars>> /\ sending' = None /\ sending \in Bufs
        /\ built' = [built EXCEPT ![sending] = None]
    BY <1>7, <1>t, <1>b DEF eth_send_fails, BufInv
  <2> QED BY <2>1, <1>4
<1>8. CASE DmaReceives
  <2>1. initd /\ UNCHANGED <<initd, txVars>> /\ sending' = sending /\ drx \in Bufs
        /\ built' = [built EXCEPT ![drx] = None]
    BY <1>8, <1>t, <1>b, <1>n DEF DmaReceives, PoolInv
  <2>2. UNCHANGED <<handling, owner>> /\ (handling => owner # drx)
    BY <1>8, <2>1 DEF DmaReceives, IInv, RxInv
  <2>3. sending # None => drx # sending
    BY <2>2, <1>t, <1>b DEF BufInv
  <2>4. sending' # None => /\ built'[sending'] = queued
                           /\ sending' \in Rx => handling' /\ sending' = owner'
    BY <2>1, <2>2, <2>3, <1>t, <1>b DEF BufInv
  <2> QED BY <2>1, <2>4, <1>4
<1>9. CASE DmaSends
  <2>1. initd /\ initd' = initd /\ txDone' = [txDone EXCEPT ![dtx] = TRUE]
        /\ UNCHANGED <<txFrame, txPtr, queued, built, sending, handling, owner>>
    BY <1>9, <1>b DEF DmaSends, PoolInv, bufVars, rxVars
  <2>2. ASSUME NEW i \in Tx, ~txDone'[i] PROVE ~txDone[i]
    BY <2>1, <2>2, <1>t
  <2> QED BY <2>1, <2>2, <1>b DEF BufInv
<1> QED BY <1>1, <1>2, <1>3, <1>5, <1>6, <1>7, <1>8, <1>9
  DEF Next, NetBuffers, START_ETH, STOP_ETH, Receive, Release, vars, rxVars

LEMMA StepIInv == IInv /\ [Next]_vars => IInv'
BY TypeStep, PoolStep, RxStep, TxStep, BufStep DEF IInv

LEMMA InvIsInvariant == Spec => []IInv
BY InitIInv, StepIInv, PTL DEF Spec

-----------------------------------------------------------------------------
(***************************************************************************)
(* The driver and the engine keep the rings' indices in range.             *)
(***************************************************************************)
THEOREM TypeCorrect == Spec => []TypeOK
<1>1. IInv => TypeOK
  BY DEF IInv
<1> QED BY <1>1, InvIsInvariant, PTL

(***************************************************************************)
(* rt2880_eth_recv handles every frame once and in the order of arrival.   *)
(***************************************************************************)
THEOREM ReceivesInOrder == Spec => []RxInOrder
<1>1. IInv => RxInOrder
  <2> SUFFICES ASSUME IInv, arrived # handled
               PROVE  rxDone[owner] /\ rxFrame[owner] = handled
    BY DEF RxInOrder
  <2>1. initd /\ owner \in 0 .. NumRx - 1 /\ drx \in 0 .. NumRx - 1 /\ handled \in Nat
    BY DEF IInv, RxInv, TypeOK, Rx
  <2>2. arrived = handled + Steps(owner, drx, NumRx)
    BY <2>1 DEF IInv, RxInv
  <2>3. Steps(owner, owner, NumRx) = 0 /\ Steps(owner, drx, NumRx) > 0
    BY <2>1, <2>2, RingAssumption, StepsBound
  <2>4. rxDone[owner] /\ rxFrame[owner] = handled + Steps(owner, owner, NumRx)
    BY <2>1, <2>3 DEF IInv, RxInv, Rx
  <2> QED BY <2>1, <2>3, <2>4
<1> QED BY <1>1, InvIsInvariant, PTL

(***************************************************************************)
(* The descriptors eth_send fills go on the wire once and in order, and    *)
(* what is read for one is never a frame built before its own.             *)
(***************************************************************************)
THEOREM SendsInOrder == Spec => []TxInOrder
<1>1. IInv => TxInOrder
  <2> SUFFICES ASSUME IInv, queued # wired
               PROVE  /\ dtx # cpuTx /\ txFrame[dtx] = wired
                      /\ built[txPtr[dtx]] \in {None} \cup (wired .. queued)
    BY DEF TxInOrder
  <2>1. cpuTx \in 0 .. NumTx - 1 /\ dtx \in 0 .. NumTx - 1 /\ queued \in Nat /\ wired \in Nat
    BY DEF IInv, TypeOK, Tx
  <2>2. initd /\ queued = wired + Steps(dtx, cpuTx, NumTx)
    BY DEF IInv, TxInv
  <2>3. Steps(dtx, dtx, NumTx) = 0 /\ Steps(dtx, cpuTx, NumTx) > 0 /\ dtx # cpuTx
    BY <2>1, <2>2, RingAssumption, StepsBound
  <2>4. ~txDone[dtx] /\ txFrame[dtx] = wired + Steps(dtx, dtx, NumTx)
    BY <2>1, <2>2, <2>3 DEF IInv, TxInv, Tx
  <2>5. txFrame[dtx] = wired
    BY <2>1, <2>3, <2>4
  <2>6. built[txPtr[dtx]] \in {None} \cup (txFrame[dtx] .. queued)
    BY <2>1, <2>2, <2>4 DEF IInv, BufInv, Tx
  <2> QED BY <2>3, <2>5, <2>6
<1> QED BY <1>1, InvIsInvariant, PTL

(***************************************************************************)
(* The engine never overwrites a frame that is still to be handled, and    *)
(* waits only for the driver.                                              *)
(***************************************************************************)
THEOREM EngineKnowsRoom == Spec => []RoomIsTrue
<1>1. IInv => RoomIsTrue
  <2> SUFFICES ASSUME IInv, initd
               PROVE  /\ drx # calc => ~rxDone[drx]
                      /\ drx = calc => rxDone[owner]
    BY DEF RoomIsTrue
  <2>1. owner \in Rx /\ drx \in Rx /\ owner \in 0 .. NumRx - 1 /\ drx \in 0 .. NumRx - 1
    BY DEF IInv, TypeOK, Rx
  <2>2. Steps(owner, drx, NumRx) \in 0 .. NumRx - 1
    BY <2>1, RingAssumption, StepsBound
  <2>3. ~rxDone[drx]
    BY <2>1, <2>2 DEF IInv, RxInv
  <2>4. ASSUME drx = calc PROVE rxDone[owner]
    <3>1. owner # drx
      BY <2>1, <2>4, RingAssumption, AfterIsIndex DEF IInv, RxInv
    <3>2. NumRx \in Nat
      BY RingAssumption
    <3>3. Steps(owner, owner, NumRx) = 0
      BY <2>1, <3>2, StepsBound
    <3>4. Steps(owner, drx, NumRx) # 0
      BY <2>1, <3>1, <3>2, StepsBound
    <3> QED BY <2>1, <2>2, <3>3, <3>4 DEF IInv, RxInv
  <2> QED BY <2>3, <2>4
<1> QED BY <1>1, InvIsInvariant, PTL

(***************************************************************************)
(* The pool suffices and its buffers are not shared.                       *)
(***************************************************************************)
THEOREM BuffersAreApart == Spec => []BuffersApart
<1>1. IInv => BuffersApart
  BY RingAssumption, PoolAssumption DEF IInv, TypeOK, PoolInv, BuffersApart, Rx
<1> QED BY <1>1, InvIsInvariant, PTL
==============================================================================
