------------------------------- MODULE EthRings -------------------------------
(***************************************************************************)
(* The Ethernet driver, drivers/rt2880_eth.c, with the DMA engine it       *)
(* shares its two rings of descriptors with.  The driver and the engine    *)
(* run concurrently; nothing but the DDONE bits and the four indices       *)
(* orders them.  Frames are numbered in the order they enter a ring, which *)
(* is how the invariants tell one from another.                            *)
(***************************************************************************)
EXTENDS Integers

CONSTANTS
  NumRx,        \* NUM_RX_DESC
  NumTx,        \* NUM_TX_DESC
  PktBufs,      \* PKTBUFSRX, the buffers of rt2880_free_buf_list
  MaxFrames     \* bound: frames received, and frames sent

ASSUME RingAssumption ==
  /\ NumRx \in Nat \ {0, 1}
  /\ NumTx \in Nat \ {0, 1}
  /\ MaxFrames \in Nat

(***************************************************************************)
(* NetLoop takes a buffer for each receive descriptor and one to send      *)
(* from, then rt2880_eth_setup takes one for each descriptor again, and    *)
(* does not look whether there was one.                                    *)
(***************************************************************************)
ASSUME PoolAssumption == PktBufs \in Nat /\ PktBufs >= 2 * NumRx + 1

VARIABLES
  initd,        \* rt2880_eth_initd
  running,      \* RX_DMA_EN, TX_DMA_EN and TX_WB_DDONE of PDMA_GLO_CFG
  taken,        \* the buffers dequeued from rt2880_free_buf_list, in order
  txbuf,        \* NetTxPacket: the number of its buffer, 0 for NULL
  rxbuf,        \* NetRxPackets and the PDP0 of the descriptors
  rxDone,       \* the DDONE bits of rx_ring
  rxFrame,      \* the frames in the buffers of rx_ring
  owner,        \* rx_dma_owner_idx0
  calc,         \* RX_CALC_IDX0: the descriptor released last
  drx,          \* RX_DRX_IDX0: the descriptor the engine fills next
  handling,     \* NetReceive runs on the frame of descriptor owner
  txDone,       \* the DDONE bits of tx_ring0
  txFrame,      \* the frames the descriptors of tx_ring0 were filled for
  txPtr,        \* the SDP0 of the descriptors: the buffer, not its contents
  cpuTx,        \* tx_cpu_owner_idx0 and TX_CTX_IDX0
  dtx,          \* TX_DTX_IDX0: the descriptor the engine sends next
  arrived,      \* frames the engine has stored
  handled,      \* frames given to NetReceive
  queued,       \* frames eth_send has accepted
  wired,        \* frames the engine has sent
  built,        \* the frame in each buffer that frames are sent from
  sending       \* the buffer rt2880_eth_send is called with

poolVars == <<taken, txbuf, rxbuf>>
rxVars == <<rxDone, rxFrame, owner, calc, drx, handling, arrived, handled>>
txVars == <<txDone, txFrame, txPtr, cpuTx, dtx, queued, wired>>
bufVars == <<built, sending>>
vars == <<initd, running, poolVars, rxVars, txVars, bufVars>>

Rx == 0 .. NumRx - 1
Tx == 0 .. NumTx - 1

(***************************************************************************)
(* The buffers frames are sent from: the receive buffers, by their         *)
(* descriptors, and two that every other frame shares.  A buffer holds     *)
(* None when what is in it is no frame that eth_send accepted.             *)
(***************************************************************************)
NetTxPacket == NumRx
NetArpWaitTxPacket == NumRx + 1
Bufs == 0 .. NumRx + 1
None == -1

(***************************************************************************)
(* Mutant: the index runs one past the ring.                               *)
(***************************************************************************)
AfterTooFar(i, n) == IF i = n THEN 0 ELSE i + 1

(***************************************************************************)
(* (i + 1) % n, for an index of a ring of n descriptors.                   *)
(***************************************************************************)
After(i, n) == IF i = n - 1 THEN 0 ELSE i + 1

(***************************************************************************)
(* As rt2880_eth_initialize leaves it.                                     *)
(***************************************************************************)
Init ==
  /\ initd = FALSE
  /\ running = FALSE
  /\ taken = 0
  /\ txbuf = 0
  /\ rxbuf = [i \in Rx |-> 0]
  /\ rxDone = [i \in Rx |-> FALSE]
  /\ rxFrame = [i \in Rx |-> 0]
  /\ owner = 0
  /\ calc = 0
  /\ drx = 0
  /\ handling = FALSE
  /\ txDone = [i \in Tx |-> FALSE]
  /\ txFrame = [i \in Tx |-> 0]
  /\ txPtr = [i \in Tx |-> NetTxPacket]
  /\ cpuTx = 0
  /\ dtx = 0
  /\ arrived = 0
  /\ handled = 0
  /\ queued = 0
  /\ wired = 0
  /\ built = [b \in Bufs |-> None]
  /\ sending = None

(***************************************************************************)
(* The packet buffers of NetLoop (net.c:327-347): once, before the device  *)
(* is first started.                                                       *)
(***************************************************************************)
NetBuffers ==
  /\ txbuf = 0
  /\ txbuf' = taken + 1
  /\ taken' = taken + 1 + NumRx
  /\ rxbuf' = [i \in Rx |-> taken + 2 + i]
  /\ UNCHANGED <<initd, running, rxVars, txVars, bufVars>>

(***************************************************************************)
(* Mutant: the setup takes NetTxPacket's buffer for the first descriptor.  *)
(***************************************************************************)
rt2880_eth_setup_from_start ==
  /\ txbuf # 0
  /\ ~initd
  /\ initd' = TRUE
  /\ running' = TRUE
  /\ taken' = NumRx
  /\ rxbuf' = [i \in Rx |-> 1 + i]
  /\ rxDone' = [i \in Rx |-> FALSE]
  /\ owner' = 0
  /\ calc' = NumRx - 1
  /\ drx' = 0
  /\ txDone' = [i \in Tx |-> TRUE]
  /\ cpuTx' = 0
  /\ dtx' = 0
  /\ UNCHANGED <<txbuf, rxFrame, handling, txFrame, txPtr, arrived, handled, queued, wired, bufVars>>

(***************************************************************************)
(* rt2880_eth_init, the first time: rt2880_eth_setup builds both rings     *)
(* with buffers of their own, resets the indices and starts the engine.    *)
(***************************************************************************)
rt2880_eth_setup ==
  /\ txbuf # 0
  /\ ~initd
  /\ initd' = TRUE
  /\ running' = TRUE
  /\ taken' = taken + NumRx
  /\ rxbuf' = [i \in Rx |-> taken + 1 + i]
  /\ rxDone' = [i \in Rx |-> FALSE]
  /\ owner' = 0
  /\ calc' = NumRx - 1
  /\ drx' = 0
  /\ txDone' = [i \in Tx |-> TRUE]
  /\ cpuTx' = 0
  /\ dtx' = 0
  /\ UNCHANGED <<txbuf, rxFrame, handling, txFrame, txPtr, arrived, handled, queued, wired, bufVars>>

(***************************************************************************)
(* Mutant: every start sets RX_CALC_IDX0 as the first one does.            *)
(***************************************************************************)
START_ETH_CALC ==
  /\ initd
  /\ sending = None
  /\ running' = TRUE
  /\ calc' = NumRx - 1
  /\ UNCHANGED <<initd, poolVars, rxDone, rxFrame, owner, drx, handling, arrived, handled, txVars, bufVars>>

(***************************************************************************)
(* rt2880_eth_init, any other time, and eth_halt: the engine is started    *)
(* and stopped with the rings as they are.  Both also happen inside a      *)
(* handler, by way of NetStartAgain.                                       *)
(***************************************************************************)
START_ETH ==
  /\ initd
  /\ sending = None
  /\ running' = TRUE
  /\ UNCHANGED <<initd, poolVars, rxVars, txVars, bufVars>>

STOP_ETH ==
  /\ initd
  /\ sending = None
  /\ running' = FALSE
  /\ UNCHANGED <<initd, poolVars, rxVars, txVars, bufVars>>

(***************************************************************************)
(* One turn of the loop of rt2880_eth_recv.  NetReceive runs on the buffer *)
(* of the descriptor; only then is the descriptor given back.              *)
(***************************************************************************)
Receive ==
  /\ initd
  /\ ~handling
  /\ sending = None
  /\ rxDone[owner]
  /\ handling' = TRUE
  /\ UNCHANGED <<initd, running, poolVars, txVars, bufVars, rxDone, rxFrame, owner, calc, drx, arrived, handled>>

(***************************************************************************)
(* Mutant: the DDONE bit is left set.                                      *)
(***************************************************************************)
ReleaseKeepsDone ==
  /\ handling
  /\ sending = None
  /\ handling' = FALSE
  /\ handled' = handled + 1
  /\ calc' = owner
  /\ owner' = After(owner, NumRx)
  /\ UNCHANGED <<initd, running, poolVars, txVars, bufVars, rxDone, rxFrame, drx, arrived>>

Release ==
  /\ handling
  /\ sending = None
  /\ handling' = FALSE
  /\ handled' = handled + 1
  /\ rxDone' = [rxDone EXCEPT ![owner] = FALSE]
  /\ calc' = owner
  /\ owner' = After(owner, NumRx)
  /\ UNCHANGED <<initd, running, poolVars, txVars, bufVars, rxFrame, drx, arrived>>

(***************************************************************************)
(* The network code builds a frame over what is in the buffer: an answer   *)
(* to an ARP request in the receive buffer of the request (net.c:1023),    *)
(* the frame that waited for the address in NetArpWaitTxPacket, any other  *)
(* one in NetTxPacket.  It looks at no descriptor.  Then it calls          *)
(* rt2880_eth_send and runs on only when that returns.                     *)
(***************************************************************************)
NetBuilds(b) ==
  /\ initd
  /\ sending = None
  /\ queued < MaxFrames
  /\ b \in {NetTxPacket, NetArpWaitTxPacket} \/ (handling /\ b = owner)
  /\ built' = [built EXCEPT ![b] = queued]
  /\ sending' = b
  /\ UNCHANGED <<initd, running, poolVars, rxVars, txVars>>

(***************************************************************************)
(* NetSendUDPPacket without the address: the frame is kept for later.      *)
(***************************************************************************)
NetArpWaits ==
  /\ initd
  /\ sending = None
  /\ built' = [built EXCEPT ![NetArpWaitTxPacket] = None]
  /\ UNCHANGED <<initd, running, poolVars, rxVars, txVars, sending>>

(***************************************************************************)
(* Mutant: the last free descriptor of the ring is used, too.              *)
(***************************************************************************)
TxFreeDone == txDone[cpuTx]

(***************************************************************************)
(* rt2880_eth_send: the descriptor must be done with, and the engine must  *)
(* not stand on the one after it.                                          *)
(***************************************************************************)
TxFree == txDone[cpuTx] /\ dtx # After(cpuTx, NumTx)

eth_send ==
  /\ sending # None
  /\ TxFree
  /\ txFrame' = [txFrame EXCEPT ![cpuTx] = queued]
  /\ txPtr' = [txPtr EXCEPT ![cpuTx] = sending]
  /\ txDone' = [txDone EXCEPT ![cpuTx] = FALSE]
  /\ cpuTx' = After(cpuTx, NumTx)
  /\ queued' = queued + 1
  /\ sending' = None
  /\ UNCHANGED <<initd, running, poolVars, rxVars, dtx, wired, built>>

(***************************************************************************)
(* Ten retries found no free descriptor: the frame is dropped, which no    *)
(* caller notices.                                                         *)
(***************************************************************************)
eth_send_fails ==
  /\ sending # None
  /\ ~TxFree
  /\ built' = [built EXCEPT ![sending] = None]
  /\ sending' = None
  /\ UNCHANGED <<initd, running, poolVars, rxVars, txVars>>

(***************************************************************************)
(* The engine: it stores a frame in the next descriptor up to the one      *)
(* released last - without a look at its DDONE bit - and sends the frames  *)
(* up to TX_CTX_IDX0, as they are in their buffers by then.                *)
(***************************************************************************)
DmaReceives ==
  /\ running
  /\ arrived < MaxFrames
  /\ drx # calc
  /\ rxFrame' = [rxFrame EXCEPT ![drx] = arrived]
  /\ rxDone' = [rxDone EXCEPT ![drx] = TRUE]
  /\ drx' = After(drx, NumRx)
  /\ arrived' = arrived + 1
  /\ built' = [built EXCEPT ![drx] = None]
  /\ UNCHANGED <<initd, running, poolVars, txVars, owner, calc, handling, handled, sending>>

DmaSends ==
  /\ running
  /\ dtx # cpuTx
  /\ txDone' = [txDone EXCEPT ![dtx] = TRUE]
  /\ dtx' = After(dtx, NumTx)
  /\ wired' = wired + 1
  /\ UNCHANGED <<initd, running, poolVars, rxVars, txFrame, txPtr, cpuTx, queued, bufVars>>

Next ==
  \/ NetBuffers \/ rt2880_eth_setup \/ START_ETH \/ STOP_ETH
  \/ Receive \/ Release
  \/ \E b \in Bufs : NetBuilds(b)
  \/ NetArpWaits \/ eth_send \/ eth_send_fails
  \/ DmaReceives \/ DmaSends

Spec == Init /\ [][Next]_vars

-----------------------------------------------------------------------------
(***************************************************************************)
(* Indices stay in their rings.                                            *)
(***************************************************************************)
TypeOK ==
  /\ initd \in BOOLEAN /\ running \in BOOLEAN /\ handling \in BOOLEAN
  /\ taken \in Nat /\ txbuf \in Nat /\ rxbuf \in [Rx -> Nat]
  /\ rxDone \in [Rx -> BOOLEAN] /\ rxFrame \in [Rx -> Nat]
  /\ owner \in Rx /\ calc \in Rx /\ drx \in Rx
  /\ txDone \in [Tx -> BOOLEAN] /\ txFrame \in [Tx -> Nat] /\ txPtr \in [Tx -> Bufs]
  /\ cpuTx \in Tx /\ dtx \in Tx
  /\ arrived \in Nat /\ handled \in Nat /\ queued \in Nat /\ wired \in Nat
  /\ built \in [Bufs -> Nat \cup {None}] /\ sending \in Bufs \cup {None}

(***************************************************************************)
(* Every frame is handled once and in the order of arrival, across halts   *)
(* and starts and whatever the engine stores while NetReceive runs: when a *)
(* frame is not handled yet, rt2880_eth_recv finds the oldest one next.    *)
(***************************************************************************)
RxInOrder == arrived # handled => rxDone[owner] /\ rxFrame[owner] = handled

(***************************************************************************)
(* Every descriptor eth_send filled goes on the wire once and in order,    *)
(* also those filled while the engine was stopped: while one is not sent,  *)
(* the engine stands on the oldest.  What it reads there was not built     *)
(* before: it is the frame itself, or a younger one built over it since,   *)
(* or no accepted frame at all.                                            *)
(***************************************************************************)
TxInOrder ==
  queued # wired =>
    /\ dtx # cpuTx
    /\ txFrame[dtx] = wired
    /\ built[txPtr[dtx]] \in {None} \cup (wired .. queued)

(***************************************************************************)
(* NetSendUDPPacket: "return 0; transmitted".  What the engine is about to *)
(* read for a frame is that frame.  It is not, when the next frame is      *)
(* built before the engine has read the last one, and always so when       *)
(* frames are sent while it is stopped: they share NetTxPacket, and the    *)
(* last one goes out for each.                                             *)
(***************************************************************************)
SentIsBuilt ==
  running /\ dtx # cpuTx => built[txPtr[dtx]] = txFrame[dtx]

(***************************************************************************)
(* RX_CALC_IDX0 tells the engine the truth.  Where it may store a frame the *)
(* last one is handled, though it does not look at the bit that says so;   *)
(* and when it may not store one, the driver has one to handle.            *)
(***************************************************************************)
RoomIsTrue ==
  initd => /\ drx # calc => ~rxDone[drx]
           /\ drx = calc => rxDone[owner]

(***************************************************************************)
(* The receive buffers are distinct, none of them is the one packets are   *)
(* sent from, and the pool had one for each.                               *)
(***************************************************************************)
BuffersApart ==
  initd =>
    /\ \A i, j \in Rx : i # j => rxbuf[i] # rxbuf[j]
    /\ \A i \in Rx : rxbuf[i] # txbuf /\ rxbuf[i] \in 1 .. PktBufs
    /\ txbuf \in 1 .. PktBufs
==============================================================================
