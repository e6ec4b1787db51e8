CONSTANTS
  NumRx = 3
  NumTx = 3
  PktBufs = 7
  MaxFrames = 7
SPECIFICATION Spec
INVARIANTS TypeOK RxInOrder TxInOrder RoomIsTrue BuffersApart
