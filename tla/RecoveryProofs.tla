--------------------------- MODULE RecoveryProofs ---------------------------
(* What holds of Recovery for any connections, images, sizes and bounds.       *)
EXTENDS Recovery, FiniteSetTheorems, TLAPS

(* An upload in progress has an image and is not complete: without it TypeOK   *)
(* is not inductive, since UploadMore and UploadLast store the next chunk of   *)
(* hs[c].img.                                                                  *)
UploadInv ==
  \A c \in Conns : hs[c].state = "upload" => hs[c].img \in Images /\ hs[c].got < Chunks

TypeInv == TypeOK /\ UploadInv

(* Helpers keep the types. *)

LEMMA ResetTypes ==
  ASSUME NEW h \in Conn
  PROVE  /\ OwnReset(h) \in Conn /\ OwnReset(h).state = "none"
         /\ Closed(h) \in Conn /\ Closed(h).state = "none"
         /\ Closing(h) \in Conn /\ Closing(h).state = "none"
<1>1. OwnReset(h) \in Conn /\ OwnReset(h).state = "none"
  <2>1. {"none", "file", "upload"} # {} /\ 0 \in 0..PollMax /\ 0 \in 0..Chunks /\ 0 \in 0..PageSegs
    BY BoundsAssumption
  <2> QED
    BY <2>1 DEF OwnReset, Conn, UploadTypes
<1>2. ASSUME NEW t \in TcpStates, NEW o \in BOOLEAN
      PROVE  LET k == [OwnReset(h) EXCEPT !.tcp = t, !.out = o]
             IN  k \in Conn /\ k.state = "none"
  BY <1>1 DEF Conn
<1> QED
  BY <1>1, <1>2 DEF Closed, Closing, TcpStates

LEMMA ServingType ==
  ASSUME NEW h \in Conn, NEW page \in {"doc", "fail", "flashing"}
  PROVE  Serving(h, page) \in Conn /\ Serving(h, page).state = "file"
<1>1. PageSegs \in 0..PageSegs
  BY BoundsAssumption
<1> QED
  BY <1>1 DEF Serving, Conn

LEMMA SharedResetType ==
  ASSUME NEW w \in Web
  PROVE  SharedReset(w) \in Web
BY DEF SharedReset, Web

LEMMA PostDoneType ==
  ASSUME NEW w \in Web, NEW n \in 0..Chunks, NEW f \in BOOLEAN
  PROVE  PostDone(w, n, f) \in Web
BY DEF PostDone, SharedReset, Web

LEMMA StartedType ==
  ASSUME NEW w \in Web, NEW i, NEW name \in UploadTypes
  PROVE  Started(w, i, name) \in Web
BY DEF Started, Web, UpgradeTypes

LEMMA BlankType == Blank \in [Places -> Cells] /\ Junk \in Cells
BY DEF Blank, Cells, Junk

LEMMA FirstStoredType ==
  ASSUME ram \in [Places -> Cells], NEW i \in Images, NEW name
  PROVE  FirstStored(i, name) \in [Places -> Cells]
<1>1. 1 \in Places
  BY BoundsAssumption DEF Places
<1>2. <<i, 1>> \in Cells
  BY <1>1 DEF Cells
<1> QED
  BY <1>1, <1>2, BlankType DEF FirstStored

LEMMA AppendedType ==
  ASSUME TypeInv, NEW c \in Conns, hs[c].state = "upload"
  PROVE  Appended(c) \in [Places -> Cells]
<1>1. hs[c] \in Conn /\ hs[c].img \in Images /\ hs[c].got < Chunks /\ ram \in [Places -> Cells]
  BY DEF TypeInv, TypeOK, UploadInv
<1>2. hs[c].got + 1 \in Places
  BY <1>1, BoundsAssumption DEF Places, Conn
<1>3. <<hs[c].img, hs[c].got + 1>> \in Cells
  BY <1>1, <1>2 DEF Cells
<1> QED
  BY <1>1, <1>3 DEF Appended

LEMMA HeaderType ==
  ASSUME NEW r \in [Places -> Cells], HeaderIn(r) # NoImage
  PROVE  HeaderIn(r).header \in Headers
<1>1. 1 \in Places
  BY BoundsAssumption DEF Places
<1>2. r[1] \in Images \X Places /\ HeaderIn(r) = r[1][1]
  BY <1>1 DEF HeaderIn, Cells, Junk
<1>3. HeaderIn(r) \in Images
  BY <1>2
<1> QED
  BY <1>3, ImagesAssumption DEF ImageRecords

LEMMA CacheAfterType ==
  ASSUME cache \in Headers \cup {NoHeader}, NEW r \in [Places -> Cells], NEW type
  PROVE  CacheAfter(type, r) \in Headers \cup {NoHeader}
<1>1. KernelOk(r) => HeaderIn(r) # NoImage
  BY DEF KernelOk, CacheHit, FullCheck
<1> QED
  BY <1>1, HeaderType DEF CacheAfter

LEMMA PassedType ==
  ASSUME g \in History, NEW r \in [Places -> Cells], NEW type
  PROVE  Passed(type, r) \in Headers \cup {NoHeader}
<1>1. FullCheck(r) => HeaderIn(r) # NoImage
  BY DEF FullCheck
<1> QED
  BY <1>1, HeaderType DEF Passed, History

\* What the end of an upload leaves in the history.
Ended(type, r, ok, x) ==
  [IF ok THEN Granted(type, r) ELSE Disturbed EXCEPT !.passed = x]

LEMMA LastHistory ==
  ASSUME g \in History, NEW type, NEW r, NEW ok \in BOOLEAN, NEW x
  PROVE  LET h == Ended(type, r, ok, x)
         IN  /\ h.starts = g.starts /\ h.grants = g.grants + (IF ok THEN 1 ELSE 0)
             /\ h.passed = x
             /\ ok => h.type = type /\ h.data = r
             /\ ~ok => ~h.clean
<1>1. g.grants \in Nat
  BY DEF History
<1>2. CASE ok
  BY <1>1, <1>2 DEF Ended, Granted, History
<1>3. CASE ~ok
  BY <1>1, <1>3 DEF Ended, Disturbed, History
<1> QED
  BY <1>2, <1>3

LEMMA HistoryTypes ==
  ASSUME g \in History, NEW type \in UpgradeTypes, NEW r \in [Places -> Cells]
  PROVE  Granted(type, r) \in History /\ Disturbed \in History
<1>1. "firmware" \in UpgradeTypes
  BY DEF UpgradeTypes, UploadTypes
<1>2. Disturbed \in History
  BY <1>1, BlankType DEF Disturbed, History
<1>3. g.grants + 1 \in Nat
  BY DEF History
<1>4. Granted(type, r) \in History
  BY <1>3 DEF Granted, History
<1> QED
  BY <1>2, <1>4

LEMMA WrittenType ==
  ASSUME flash \in [Partitions -> [Places -> Cells]], ram \in [Places -> Cells],
         NEW p, NEW n
  PROVE  Written(p, n) \in [Partitions -> [Places -> Cells]]
<1>1. Source \in [Places -> Cells]
  BY BlankType DEF Source
<1> QED
  BY <1>1 DEF Written

-----------------------------------------------------------------------------
(* The type invariant. *)

(* A slot replaced by a well-typed one that is no upload keeps both parts. *)
LEMMA SlotChange ==
  ASSUME TypeInv, NEW c \in Conns, NEW h \in Conn, h.state # "upload",
         Conn1(c, h)
  PROVE  hs' \in [Conns -> Conn] /\ UploadInv'
BY DEF TypeInv, TypeOK, UploadInv, Conn1

LEMMA TypeInit == Init => TypeInv
<1> SUFFICES ASSUME Init PROVE TypeInv
  OBVIOUS
<1>1. Idle \in Conn /\ Idle.state = "none"
  BY BoundsAssumption DEF Idle, Conn, TcpStates, UploadTypes
<1>2. WebInit \in Web
  BY BoundsAssumption DEF WebInit, Web, UpgradeTypes, UploadTypes
<1>3. HistoryInit \in History
  BY BlankType DEF HistoryInit, History, UpgradeTypes, UploadTypes
<1>4. hs \in [Conns -> Conn] /\ UploadInv
  BY <1>1 DEF Init, UploadInv
<1> QED
  BY <1>2, <1>3, <1>4, BlankType DEF Init, TypeInv, TypeOK

LEMMA TypeNext == TypeInv /\ [Next]_vars => TypeInv'
<1> SUFFICES ASSUME TypeInv, [Next]_vars PROVE TypeInv'
  OBVIOUS
<1> USE DEF TypeInv
<1>1. ASSUME NEW c \in Conns, Client(c) PROVE TypeInv'
  <2>h. hs[c] \in Conn /\ web \in Web /\ SharedReset(web) \in Web
    BY SharedResetType DEF TypeOK
  <2>r. /\ OwnReset(hs[c]) \in Conn /\ OwnReset(hs[c]).state = "none"
        /\ Closed(hs[c]) \in Conn /\ Closed(hs[c]).state = "none"
        /\ Closing(hs[c]) \in Conn /\ Closing(hs[c]).state = "none"
    BY <2>h, ResetTypes
  <2>1. CASE Syn(c)
    <3>1. [hs[c] EXCEPT !.tcp = "syn_rcvd", !.out = TRUE] \in Conn
      BY <2>h DEF Conn, TcpStates
    <3> QED
      BY <2>1, <2>h, <3>1 DEF Syn, Conn1, TypeOK, UploadInv, Conn
  <2>2. CASE Connected(c)
    <3>1. [OwnReset(hs[c]) EXCEPT !.tcp = "established", !.out = FALSE] \in Conn
      BY <2>r DEF Conn, TcpStates
    <3>2. [OwnReset(hs[c]) EXCEPT !.tcp = "established", !.out = FALSE].state = "none"
      BY <2>r DEF Conn
    <3>3. hs' \in [Conns -> Conn] /\ UploadInv'
      BY <2>2, <3>1, <3>2, SlotChange DEF Connected
    <3> QED
      BY <2>2, <2>h, <3>3 DEF Connected, TypeOK
  <2>3. CASE Rst(c)
    <3>1. hs' \in [Conns -> Conn] /\ UploadInv'
      BY <2>3, <2>r, SlotChange DEF Rst
    <3> QED
      BY <2>3, <2>h, <3>1 DEF Rst, TypeOK
  <2>4. CASE Fin(c)
    <3>1. /\ [OwnReset(hs[c]) EXCEPT !.tcp = "last_ack", !.out = TRUE] \in Conn
          /\ [OwnReset(hs[c]) EXCEPT !.tcp = "time_wait"] \in Conn
          /\ [OwnReset(hs[c]) EXCEPT !.tcp = "last_ack", !.out = TRUE].state = "none"
          /\ [OwnReset(hs[c]) EXCEPT !.tcp = "time_wait"].state = "none"
      BY <2>r DEF Conn, TcpStates
    <3>2. hs' \in [Conns -> Conn] /\ UploadInv'
      BY <2>4, <3>1, SlotChange DEF Fin
    <3> QED
      BY <2>4, <2>h, <3>2 DEF Fin, TypeOK
  <2>5. CASE FinAcked(c)
    <3>1. [hs[c] EXCEPT !.out = FALSE] \in Conn
      BY <2>h DEF Conn
    <3>2. CASE Conn1(c, Closed(hs[c]))
      BY <2>5, <2>r, <2>h, <3>2, SlotChange DEF FinAcked, TypeOK
    <3>3. CASE Conn1(c, [hs[c] EXCEPT !.out = FALSE])
      BY <2>5, <2>h, <3>1, <3>3 DEF FinAcked, Conn1, TypeOK, UploadInv, Conn
    <3> QED
      BY <2>5, <3>2, <3>3 DEF FinAcked
  <2>6. CASE Get(c)
    <3>1. Serving(hs[c], "doc") \in Conn /\ Serving(hs[c], "doc").state = "file"
      BY <2>h, ServingType
    <3>2. hs' \in [Conns -> Conn] /\ UploadInv'
      BY <2>6, <3>1, SlotChange DEF Get
    <3> QED
      BY <2>6, <2>h, <3>2 DEF Get, TypeOK
  <2>7. CASE BadRequest(c)
    <3>1. hs' \in [Conns -> Conn] /\ UploadInv'
      BY <2>7, <2>r, SlotChange DEF BadRequest
    <3> QED
      BY <2>7, <2>h, <3>1 DEF BadRequest, TypeOK
  <2>8. ASSUME NEW s \in BOOLEAN, PostRootfsReset(c, s) PROVE TypeInv'
    <3> DEFINE page == IF s THEN "flashing" ELSE "fail"
               w == [web EXCEPT !.type = IF s THEN "rootfs" ELSE "invalid"]
    <3>1. Serving(OwnReset(hs[c]), page) \in Conn /\ Serving(OwnReset(hs[c]), page).state = "file"
      BY <2>r, ServingType
    <3>2. hs' \in [Conns -> Conn] /\ UploadInv'
      BY <2>8, <3>1, SlotChange DEF PostRootfsReset
    <3>3. w \in Web
      BY <2>h DEF Web, UpgradeTypes
    <3>4. web' \in Web
      <4>1. 0 \in 0..Chunks /\ (~s) \in BOOLEAN
        BY BoundsAssumption
      <4> QED
        BY <2>8, <3>3, <4>1, PostDoneType DEF PostRootfsReset
    <3>5. g' \in History
      <4>1. "rootfs" \in UpgradeTypes
        BY DEF UpgradeTypes
      <4> QED
        BY <2>8, <4>1, HistoryTypes DEF PostRootfsReset, TypeOK
    <3> QED
      BY <2>8, <3>2, <3>4, <3>5 DEF PostRootfsReset, TypeOK
  <2>9. ASSUME NEW i \in Images, NEW n \in Names, NEW d \in BOOLEAN, PostUpload(c, i, n, d)
        PROVE TypeInv'
    <3> DEFINE h == [hs[c] EXCEPT !.state = "upload", !.img = i, !.name = n]
               w == [web EXCEPT !.boundary = c, !.ptr = 0, !.base = FALSE]
    <3>1. n \in UploadTypes
      BY NamesAssumption
    <3>2. \A k \in 0..1 : /\ [h EXCEPT !.got = k] \in Conn
                         /\ [h EXCEPT !.got = k].img = i
                         /\ [h EXCEPT !.got = k].got = k /\ k < Chunks
      <4>1. h \in Conn /\ h.img = i
        BY <2>h, <3>1 DEF Conn
      <4>2. \A k \in 0..1 : k \in 0..Chunks /\ k < Chunks
        BY BoundsAssumption
      <4> HIDE DEF h
      <4> QED
        BY <4>1, <4>2 DEF Conn
    <3>3. \E k \in 0..1 : Conn1(c, [h EXCEPT !.got = k])
      <4>1. CASE d
        <5>1. Conn1(c, [h EXCEPT !.got = 1])
          BY <2>9, <4>1 DEF PostUpload
        <5> QED
          BY <5>1
      <4>2. CASE ~d
        <5>1. Conn1(c, [h EXCEPT !.got = 0])
          BY <2>9, <4>2 DEF PostUpload
        <5> QED
          BY <5>1
      <4> QED
        BY <4>1, <4>2
    <3>4. hs' \in [Conns -> Conn] /\ UploadInv'
      <4> HIDE DEF h
      <4>1. PICK k \in 0..1 : Conn1(c, [h EXCEPT !.got = k])
        BY <3>3
      <4>2. hs'[c] = [h EXCEPT !.got = k] /\ \A b \in Conns \ {c} : hs'[b] = hs[b]
        BY <4>1 DEF Conn1, TypeOK
      <4> QED
        BY <3>2, <4>1, <4>2 DEF TypeOK, UploadInv, Conn1
    <3>5. w \in Web
      BY <2>h DEF Web
    <3>6. Started(w, i, n) \in Web /\ HeadersOnly(w) \in Web
      <4>1. Started(w, i, n) \in Web
        BY <3>1, <3>5, StartedType
      <4> QED
        BY <4>1, <3>5 DEF HeadersOnly, Web
    <3>7. web' \in Web /\ ram' \in [Places -> Cells]
      BY <2>9, <3>6, FirstStoredType DEF PostUpload, TypeOK
    <3>8. g' \in History
      BY <2>9, HistoryTypes, BlankType DEF PostUpload, TypeOK, Disturbed, History, UpgradeTypes, UploadTypes
    <3> QED
      BY <2>9, <3>4, <3>7, <3>8 DEF PostUpload, TypeOK
  <2>10. CASE UploadFirst(c)
    <3>1. hs[c].img \in Images /\ hs[c].name \in UploadTypes
      BY <2>10, <2>h DEF UploadFirst, Uploading, UploadInv, Conn
    <3>2. /\ [hs[c] EXCEPT !.got = 1] \in Conn
          /\ [hs[c] EXCEPT !.got = 1].img = hs[c].img
          /\ [hs[c] EXCEPT !.got = 1].got = 1 /\ 1 < Chunks
      BY <2>h, BoundsAssumption DEF Conn
    <3>3. hs' \in [Conns -> Conn] /\ UploadInv'
      <4>1. CASE Conn1(c, [hs[c] EXCEPT !.got = 1])
        BY <3>1, <3>2, <4>1 DEF Conn1, TypeOK, UploadInv
      <4>2. CASE Conn1(c, Closed(hs[c]))
        BY <2>r, <4>2, SlotChange
      <4> QED
        BY <2>10, <4>1, <4>2 DEF UploadFirst
    <3>4. web' \in Web /\ ram' \in [Places -> Cells]
      BY <2>10, <2>h, <3>1, StartedType, FirstStoredType DEF UploadFirst, TypeOK
    <3>5. g' \in History
      BY <2>10, HistoryTypes, BlankType DEF UploadFirst, TypeOK, Disturbed, History, UpgradeTypes, UploadTypes
    <3> QED
      BY <2>10, <3>3, <3>4, <3>5 DEF UploadFirst, TypeOK
  <2>11. CASE UploadMore(c)
    <3>1. /\ hs[c].img \in Images
          /\ [hs[c] EXCEPT !.got = @ + 1] \in Conn
          /\ [hs[c] EXCEPT !.got = @ + 1].img = hs[c].img
          /\ [hs[c] EXCEPT !.got = @ + 1].got < Chunks
      BY <2>11, <2>h, BoundsAssumption DEF UploadMore, Uploading, UploadInv, Conn
    <3>2. hs' \in [Conns -> Conn] /\ UploadInv'
      BY <2>11, <3>1 DEF UploadMore, Conn1, TypeOK, UploadInv
    <3>3. PtrAfter \in Nat
      BY <2>h DEF PtrAfter, Web
    <3>4. web' \in Web
      BY <2>11, <2>h, <3>3 DEF UploadMore, Web
    <3>5. ram' \in [Places -> Cells]
      BY <2>11, AppendedType DEF UploadMore, Uploading
    <3>6. g' \in History
      BY <2>11, HistoryTypes, BlankType DEF UploadMore, TypeOK, Disturbed, History, UpgradeTypes, UploadTypes
    <3> QED
      BY <2>11, <3>2, <3>4, <3>5, <3>6 DEF UploadMore, TypeOK
  <2>12. CASE UploadLast(c)
    <3> DEFINE r == Appended(c)
               w == [web EXCEPT !.ptr = PtrAfter]
    <3>1. r \in [Places -> Cells]
      BY <2>12, AppendedType DEF UploadLast, Uploading
    <3>2. PICK ok \in BOOLEAN :
            /\ web' = PostDone(w, Chunks, ~ok)
            /\ Conn1(c, Serving(OwnReset(hs[c]), IF ok THEN "flashing" ELSE "fail"))
            /\ \E x \in {g.passed, Passed(web.type, r)} :
                 g' = [IF ok THEN Granted(web.type, r) ELSE Disturbed EXCEPT !.passed = x]
      <4>1. Granted(web.type, r).passed = g.passed /\ Disturbed.passed = g.passed
        BY DEF TypeOK, Granted, Disturbed, History
      <4> HIDE DEF r
      <4> QED
        BY <2>12, <4>1 DEF UploadLast, r
    <3>3. hs' \in [Conns -> Conn] /\ UploadInv'
      <4> DEFINE page == IF ok THEN "flashing" ELSE "fail"
      <4>1. Serving(OwnReset(hs[c]), page) \in Conn /\ Serving(OwnReset(hs[c]), page).state = "file"
        BY <2>r, ServingType
      <4> QED
        BY <3>2, <4>1, SlotChange
    <3>4. web' \in Web
      <4>1. PtrAfter \in Nat
        BY <2>h DEF PtrAfter, Web
      <4>2. w \in Web
        BY <2>h, <4>1 DEF Web
      <4>3. Chunks \in 0..Chunks /\ (~ok) \in BOOLEAN
        BY BoundsAssumption
      <4> QED
        BY <3>2, <4>2, <4>3, PostDoneType
    <3>5. cache' \in Headers \cup {NoHeader}
      BY <2>12, <3>1, CacheAfterType DEF UploadLast, TypeOK
    <3>6. g' \in History
      <4>1. web.type \in UpgradeTypes
        BY <2>h DEF Web
      <4>2. PICK x \in {g.passed, Passed(web.type, r)} :
              g' = [IF ok THEN Granted(web.type, r) ELSE Disturbed EXCEPT !.passed = x]
        BY <3>2
      <4>3. g \in History /\ x \in Headers \cup {NoHeader}
        BY <3>1, PassedType DEF TypeOK, History
      <4>4. (IF ok THEN Granted(web.type, r) ELSE Disturbed) \in History
        BY <3>1, <4>1, <4>3, HistoryTypes
      <4> QED
        BY <4>2, <4>3, <4>4 DEF History
    <3> QED
      BY <2>12, <3>1, <3>3, <3>4, <3>5, <3>6 DEF UploadLast, TypeOK
  <2>13. CASE PageAcked(c)
    <3>1. CASE hs[c].left > 1
      <4>1. [hs[c] EXCEPT !.left = @ - 1] \in Conn
        BY <2>h, <3>1, BoundsAssumption DEF Conn
      <4> QED
        BY <2>13, <3>1, <2>h, <4>1 DEF PageAcked, Conn1, TypeOK, UploadInv, Conn
    <3>2. CASE ~(hs[c].left > 1)
      <4>1. hs' \in [Conns -> Conn] /\ UploadInv'
        BY <2>13, <3>2, <2>r, SlotChange DEF PageAcked
      <4>2. Settled(web) \in Web
        BY <2>h DEF Settled, Web
      <4>3. web' \in Web
        BY <2>13, <3>2, <4>2, SharedResetType DEF PageAcked
      <4> QED
        BY <2>13, <4>1, <4>3 DEF PageAcked, TypeOK
    <3> QED
      BY <3>1, <3>2
  <2>14. CASE DataDuringPage(c)
    <3>1. [hs[c] EXCEPT !.out = FALSE] \in Conn
      BY <2>h DEF Conn
    <3> QED
      BY <2>14, <2>h, <3>1 DEF DataDuringPage, Conn1, TypeOK, UploadInv, Conn
  <2> QED
    BY <1>1, <2>1, <2>2, <2>3, <2>4, <2>5, <2>6, <2>7, <2>8, <2>9, <2>10, <2>11, <2>12,
       <2>13, <2>14 DEF Client
<1>2. ASSUME NEW e \in SUBSET Conns, NEW f \in SUBSET Conns, HttpdHandler(e, f)
      PROVE TypeInv'
  <2>1. \A c \in Conns :
          /\ hs[c] \in Conn
          /\ Closed(hs[c]) \in Conn /\ Closed(hs[c]).state = "none"
    BY ResetTypes DEF TypeOK
  <2>2. \A c \in Conns : [hs[c] EXCEPT !.tcp = "closed", !.out = FALSE] \in Conn
    BY <2>1, ZenonT(30) DEF Conn, TcpStates
  <2>3. \A c \in Conns : Polled(c) /\ ~PolledOut(c) => [hs[c] EXCEPT !.count = @ + 1] \in Conn
    BY <2>1, BoundsAssumption DEF Conn, PolledOut
  <2>4. \A c \in Conns :
          /\ hs'[c] \in Conn
          /\ hs'[c].state \in {"none", hs[c].state}
          /\ hs'[c].state # "none" => hs'[c].img = hs[c].img /\ hs'[c].got = hs[c].got
    <3> SUFFICES ASSUME NEW c \in Conns
                 PROVE  /\ hs'[c] \in Conn
                        /\ hs'[c].state \in {"none", hs[c].state}
                        /\ hs'[c].state # "none" => hs'[c].img = hs[c].img /\ hs'[c].got = hs[c].got
      OBVIOUS
    <3>1. \/ hs'[c] = Closed(hs[c])
          \/ hs'[c] = [hs[c] EXCEPT !.tcp = "closed", !.out = FALSE]
          \/ Polled(c) /\ ~PolledOut(c) /\ hs'[c] = [hs[c] EXCEPT !.count = @ + 1]
          \/ hs'[c] = hs[c]
      BY <1>2 DEF HttpdHandler
    <3> QED
      BY <2>1, <2>2, <2>3, <3>1, ZenonT(30) DEF Conn
  <2>5. hs' \in [Conns -> Conn] /\ UploadInv'
    BY <1>2, <2>4 DEF HttpdHandler, UploadInv
  <2>6. web' \in Web
    BY <1>2, SharedResetType DEF HttpdHandler, TypeOK
  <2> QED
    BY <1>2, <2>5, <2>6 DEF HttpdHandler, TypeOK
<1>d. Disturbed \in History
  BY BlankType DEF TypeOK, Disturbed, History, UpgradeTypes, UploadTypes
<1>n. NoConns \in [Conns -> Conn] /\ \A c \in Conns :
        NoConns[c].state = hs[c].state /\ NoConns[c].img = hs[c].img /\ NoConns[c].got = hs[c].got
  BY ZenonT(30) DEF TypeOK, NoConns, Conn, TcpStates
<1>3. CASE CtrlC
  BY <1>3, <1>d DEF CtrlC, TypeOK, UploadInv, Web, UpgradeTypes, UploadTypes
<1>4. CASE Relaunch
  BY <1>4, <1>n DEF Relaunch, TypeOK, UploadInv
<1>5. CASE StartUpgrade
  <2>1. [g EXCEPT !.starts = @ + 1] \in History
    BY DEF TypeOK, History
  <2> QED
    BY <1>5, <2>1 DEF StartUpgrade, TypeOK, UploadInv
<1>6. CASE UpgradeDone
  <2>1. flash' = flash \/ \E p \in UploadTypes, n \in {web.xfer, Chunks} : flash' = Written(p, n)
    BY <1>6 DEF UpgradeDone, UploadTypes
  <2>2. flash' \in [Partitions -> [Places -> Cells]]
    BY <2>1, WrittenType DEF TypeOK
  <2> QED
    BY <1>6, <2>2 DEF UpgradeDone, TypeOK, UploadInv
<1>7. ASSUME NEW n \in 0..Chunks, UpgradeFailed(n) PROVE TypeInv'
  <2>1. [web EXCEPT !.ready = FALSE, !.type = "firmware", !.xfer = 0] \in Web
    <3>1. web \in Web /\ 0 \in 0..Chunks /\ "firmware" \in UpgradeTypes
      BY BoundsAssumption DEF TypeOK, UpgradeTypes, UploadTypes
    <3> QED
      BY <3>1 DEF Web
  <2>2. flash' \in [Partitions -> [Places -> Cells]]
    BY <1>7, WrittenType DEF UpgradeFailed, TypeOK
  <2> QED
    BY <1>7, <1>d, <1>n, <2>1, <2>2 DEF UpgradeFailed, TypeOK, UploadInv
<1>8. ASSUME NEW n \in 0..Chunks, PowerCycle(n) PROVE TypeInv'
  <2>1. Idle \in Conn /\ Idle.state = "none"
    BY BoundsAssumption DEF Idle, Conn, TcpStates, UploadTypes
  <2>2. WebInit \in Web
    BY BoundsAssumption DEF WebInit, Web, UpgradeTypes, UploadTypes
  <2>3. HistoryInit \in History
    BY BlankType DEF HistoryInit, History, UpgradeTypes, UploadTypes
  <2>4. flash' \in [Partitions -> [Places -> Cells]]
    BY <1>8, WrittenType DEF PowerCycle, TypeOK
  <2>5. hs' \in [Conns -> Conn] /\ UploadInv'
    BY <1>8, <2>1 DEF PowerCycle, UploadInv
  <2> QED
    BY <1>8, <2>2, <2>3, <2>4, <2>5, BlankType DEF PowerCycle, TypeOK
<1>9. CASE UNCHANGED vars
  BY <1>9 DEF vars, TypeOK, UploadInv
<1> QED
  BY <1>1, <1>2, <1>3, <1>4, <1>5, <1>6, <1>7, <1>8, <1>9 DEF Next, Loop

\* Every variable of the server keeps its type: in particular the poll counter of a
\* slot never passes the limit and no upload stores past its own length.
THEOREM TypeCorrect == Spec => []TypeOK
<1>1. TypeInv => TypeOK
  BY DEF TypeInv
<1> QED
  BY TypeInit, TypeNext, <1>1, PTL DEF Spec

-----------------------------------------------------------------------------
(* Upgrades are granted: ready_for_upgrade is false at the prompt, so that a    *)
(* relaunched server owes nothing an earlier one did not.                       *)

GrantInv == TypeOK /\ UpgradesAreGranted /\ (pc = "prompt" => ~web.ready)

\* What the statics owe, as a function of them.
OwedBy(w, where) ==
  (IF w.ready /\ where = "serve" THEN 1 ELSE 0) + (IF w.post_done /\ ~w.upload_failed THEN 1 ELSE 0)

LEMMA OwedSettled ==
  ASSUME NEW w \in Web, NEW s
  PROVE  /\ OwedBy(w, s) \in Nat
         /\ OwedBy(SharedReset(w), s) = OwedBy(w, s)
         /\ OwedBy(SharedReset(Settled(w)), s) <= OwedBy(w, s)
BY DEF OwedBy, SharedReset, Settled, Web

LEMMA OwedPosted ==
  ASSUME NEW w \in Web, NEW n, NEW f \in BOOLEAN, NEW s
  PROVE  OwedBy(PostDone(w, n, f), s) <= OwedBy(w, s) + (IF f THEN 0 ELSE 1)
BY DEF OwedBy, SharedReset, PostDone, Web

LEMMA StartedOwes ==
  ASSUME NEW w \in Web, NEW i, NEW name, NEW s
  PROVE  OwedBy(Started(w, i, name), s) <= OwedBy(w, s)
BY DEF OwedBy, Started, Web

LEMMA GrantStep == TypeInv /\ TypeInv' /\ GrantInv /\ [Next]_vars => GrantInv'
<1> SUFFICES ASSUME TypeInv, TypeInv', GrantInv, [Next]_vars
             PROVE  UpgradesAreGranted' /\ (pc' = "prompt" => ~web'.ready)
  BY DEF GrantInv, TypeInv
<1>t. web \in Web /\ g \in History /\ web' \in Web /\ g' \in History
  BY DEF TypeOK, TypeInv
<1> DEFINE o == OwedBy(web, pc)
           p == OwedBy(web', pc')
           Goal == g'.starts + p <= g'.grants /\ (pc' = "prompt" => ~web'.ready)
<1>o. /\ UpgradesAreGranted <=> g.starts + o <= g.grants
      /\ UpgradesAreGranted' <=> g'.starts + p <= g'.grants
  BY DEF UpgradesAreGranted, Owed, OwedBy, Serve
<1>n. /\ o \in Nat /\ p \in Nat
      /\ g.grants \in Nat /\ g.starts \in Nat /\ g'.grants \in Nat /\ g'.starts \in Nat
      /\ g.starts + o <= g.grants
  BY <1>t, <1>o, OwedSettled DEF History, GrantInv
<1>k. Disturbed.grants = g.grants /\ Disturbed.starts = g.starts
  BY <1>t DEF Disturbed, History
<1> SUFFICES Goal
  BY <1>o
(* Steps of the serving loop that at most settle what is owed. *)
<1>s. ASSUME pc' = pc, pc = "serve", p <= o, g'.grants = g.grants, g'.starts = g.starts
      PROVE  Goal
  BY <1>s, <1>n DEF OwedBy
(* Steps that grant one more upgrade and owe at most one more. *)
<1>p. ASSUME NEW w \in Web, NEW n, NEW f \in BOOLEAN,
             pc' = pc, pc = "serve", OwedBy(w, "serve") = OwedBy(web, "serve"),
             web' = PostDone(w, n, f), g'.starts = g.starts,
             g'.grants = g.grants + (IF f THEN 0 ELSE 1)
      PROVE  Goal
  <2>1. o = OwedBy(w, "serve") /\ p = OwedBy(PostDone(w, n, f), "serve")
    BY <1>p DEF OwedBy
  <2>2. p <= o + (IF f THEN 0 ELSE 1)
    BY <1>p, <2>1, OwedPosted
  <2> QED
    BY <1>n, <1>p, <2>2
<1>1. ASSUME NEW c \in Conns, Client(c) PROVE Goal
  <2>0. pc = "serve" /\ pc' = pc 
    BY <1>1 DEF Client, Syn, Connected, Rst, Fin, FinAcked, Get, BadRequest, PostRootfsReset,
       PostUpload, UploadFirst, UploadMore, UploadLast, PageAcked, DataDuringPage, Waiting,
       Uploading, Serve
  <2>o. o = OwedBy(web, "serve") /\ p = OwedBy(web', "serve")
    BY <2>0 DEF OwedBy
  <2>1. CASE web' = web /\ g' = g
    <3>1. p <= o
      BY <2>1, <2>o, <1>n
    <3> QED
      BY <2>0, <2>1, <3>1, <1>s
  <2>2. CASE web' = SharedReset(web) /\ g' = g
    <3>1. p <= o
      BY <2>2, <2>o, <1>n, <1>t, OwedSettled
    <3> QED
      BY <2>0, <2>2, <3>1, <1>s
  <2>3. ASSUME NEW s \in BOOLEAN, PostRootfsReset(c, s) PROVE Goal
    <3> DEFINE w == [web EXCEPT !.type = IF s THEN "rootfs" ELSE "invalid"]
    <3>1. w \in Web /\ OwedBy(w, "serve") = OwedBy(web, "serve")
      BY <1>t DEF Web, UpgradeTypes, OwedBy
    <3>2. (~s) \in BOOLEAN
      OBVIOUS
    <3>3. /\ web' = PostDone(w, 0, ~s)
          /\ g'.starts = g.starts /\ g'.grants = g.grants + (IF ~s THEN 0 ELSE 1)
      <4>1. web' = PostDone(w, 0, ~s) /\ g' = IF s THEN Granted("rootfs", ram) ELSE Disturbed
        BY <2>3 DEF PostRootfsReset
      <4> QED
        BY <4>1, <1>t, <1>n, <1>k DEF Granted, History
    <3> HIDE DEF w
    <3> QED
      BY <2>0, <3>1, <3>2, <3>3, <1>p
  <2>4. ASSUME NEW i \in Images, NEW n \in Names, NEW d \in BOOLEAN, PostUpload(c, i, n, d)
        PROVE Goal
    <3> DEFINE w == [web EXCEPT !.boundary = c, !.ptr = 0, !.base = FALSE]
    <3>1. w \in Web /\ OwedBy(w, "serve") = OwedBy(web, "serve")
      BY <1>t DEF Web, OwedBy
    <3>2. OwedBy(HeadersOnly(w), "serve") = OwedBy(w, "serve")
      BY <3>1 DEF HeadersOnly, OwedBy, Web
    <3>3. web' = Started(w, i, n) \/ web' = HeadersOnly(w)
      BY <2>4 DEF PostUpload
    <3>4. g' = Disturbed
      BY <2>4 DEF PostUpload
    <3> HIDE DEF w
    <3>5. p <= o
      BY <2>o, <1>n, <3>1, <3>2, <3>3, StartedOwes
    <3> QED
      BY <2>0, <3>4, <3>5, <1>k, <1>s
  <2>5. CASE UploadFirst(c)
    <3>1. p <= o
      BY <2>5, <2>o, <1>n, <1>t, OwedSettled, StartedOwes DEF UploadFirst
    <3> QED
      BY <2>0, <2>5, <3>1, <1>k, <1>s DEF UploadFirst
  <2>6. CASE UploadMore(c)
    <3>1. p = o
      BY <2>0, <2>6, <1>o, <1>t DEF UploadMore, OwedBy, Web
    <3> QED
      BY <2>0, <2>6, <3>1, <1>n, <1>k, <1>s DEF UploadMore
  <2>7. CASE UploadLast(c)
    <3> DEFINE w == [web EXCEPT !.ptr = PtrAfter]
    <3>0. PICK ok \in BOOLEAN :
            /\ web' = PostDone(w, Chunks, ~ok)
            /\ \E x : g' = Ended(web.type, Appended(c), ok, x)
      BY <2>7 DEF UploadLast, Ended
    <3>1. PICK x :
            /\ web' = PostDone(w, Chunks, ~ok)
            /\ g' = Ended(web.type, Appended(c), ok, x)
      BY <3>0
    <3>2. w \in Web /\ OwedBy(w, "serve") = OwedBy(web, "serve")
      BY <1>t DEF PtrAfter, Web, OwedBy
    <3>3. /\ (~ok) \in BOOLEAN /\ g'.starts = g.starts
          /\ g'.grants = g.grants + (IF ~ok THEN 0 ELSE 1)
      BY <3>1, <1>t, LastHistory
    <3> HIDE DEF w
    <3> QED
      BY <2>0, <3>1, <3>2, <3>3, <1>p
  <2>8. CASE PageAcked(c)
    <3>1. p <= o
      BY <2>8, <2>o, <1>t, <1>n, OwedSettled DEF PageAcked
    <3> QED
      BY <2>0, <2>8, <3>1, <1>s DEF PageAcked
  <2> QED
    BY <1>1, <2>1, <2>2, <2>3, <2>4, <2>5, <2>6, <2>7, <2>8
    DEF Client, Syn, Connected, Rst, Fin, FinAcked, Get, BadRequest, DataDuringPage
<1>2. ASSUME NEW e \in SUBSET Conns, NEW f \in SUBSET Conns, HttpdHandler(e, f) PROVE Goal
  <2>1. pc = "serve" /\ pc' = pc /\ g' = g /\ (web' = web \/ web' = SharedReset(web))
    BY <1>2 DEF HttpdHandler, Serve
  <2>2. p = o
    BY <2>1, <1>t, OwedSettled
  <2> QED
    BY <2>1, <2>2, <1>n, <1>s
<1>3. CASE CtrlC
  <2>1. ~web'.ready /\ pc' = "prompt" /\ p <= o
    BY <1>3, <1>t DEF CtrlC, OwedBy, Web, Serve
  <2> QED
    BY <1>3, <2>1, <1>n, <1>k DEF CtrlC
<1>4. CASE Relaunch
  <2>1. ~web.ready /\ web' = web /\ g' = g /\ pc' = "serve"
    BY <1>4 DEF Relaunch, GrantInv
  <2>2. p = o
    BY <2>1, <1>t DEF OwedBy, Web
  <2> QED
    BY <2>1, <2>2, <1>n
<1>5. CASE StartUpgrade
  <2>1. p + 1 = o
    BY <1>5, <1>t DEF StartUpgrade, OwedBy, Serve, Web
  <2>2. g'.starts = g.starts + 1 /\ g'.grants = g.grants /\ pc' = "upgrade"
    BY <1>5, <1>t DEF StartUpgrade, History
  <2>3. g'.starts + p <= g'.grants
    BY <2>1, <2>2, <1>n
  <2> QED
    BY <2>2, <2>3
<1>6. CASE UpgradeDone
  <2>1. web' = web /\ g' = g /\ pc' = "reset" /\ pc = "upgrade"
    BY <1>6 DEF UpgradeDone
  <2>2. p = o
    BY <2>1 DEF OwedBy
  <2> QED
    BY <2>1, <2>2, <1>n
<1>7. ASSUME NEW n \in 0..Chunks, UpgradeFailed(n) PROVE Goal
  <2>1. ~web'.ready /\ web'.post_done = web.post_done /\ web'.upload_failed = web.upload_failed
    BY <1>7, <1>t DEF UpgradeFailed, Web
  <2>2. pc' = "serve" /\ g' = Disturbed
    BY <1>7 DEF UpgradeFailed
  <2>3. p <= o
    BY <2>1, <1>t DEF OwedBy, Web
  <2> QED
    BY <2>2, <2>3, <1>n, <1>k
<1>8. ASSUME NEW n \in 0..Chunks, PowerCycle(n) PROVE Goal
  BY <1>8 DEF PowerCycle, OwedBy, WebInit, HistoryInit
<1>9. CASE UNCHANGED vars
  BY <1>9, <1>n DEF vars, GrantInv
<1> QED
  BY <1>o, <1>1, <1>2, <1>3, <1>4, <1>5, <1>6, <1>7, <1>8, <1>9 DEF Next, Loop

\* One accepted POST never makes two upgrades, and a refused one makes none.
THEOREM OneUpgradeEach == Spec => []UpgradesAreGranted
<1>1. Init => GrantInv
  <2>1. Init => UpgradesAreGranted /\ (pc = "prompt" => ~web.ready)
    BY DEF Init, UpgradesAreGranted, Owed, WebInit, HistoryInit
  <2> QED
    BY <2>1, TypeInit DEF GrantInv, TypeInv
<1>2. TypeInv /\ GrantInv /\ [Next]_vars => (TypeInv /\ GrantInv)'
  BY TypeNext, GrantStep
<1>3. GrantInv => UpgradesAreGranted
  BY DEF GrantInv
<1> QED
  BY <1>1, <1>2, <1>3, TypeInit, PTL DEF Spec

-----------------------------------------------------------------------------
(* A quiet accepted upload is written as it was accepted: an upgrade runs only  *)
(* from ready_for_upgrade, and once the board resets the partition agrees.      *)

ExactInv ==
  /\ QuietUpgradeIsExact
  /\ pc = "upgrade" => web.ready
  /\ WrittenIsAccepted

LEMMA WrittenWhole ==
  ASSUME flash \in [Partitions -> [Places -> Cells]], ram \in [Places -> Cells], web.base,
         NEW p \in Partitions
  PROVE  Written(p, Chunks)[p] = ram
<1>1. \A k \in Places : k <= Chunks
  BY DEF Places
<1>2. Written(p, Chunks)[p] = [k \in Places |-> ram[k]]
  BY <1>1 DEF Written, Source
<1> QED
  BY <1>2

LEMMA ExactStep == TypeInv /\ TypeInv' /\ ExactInv /\ [Next]_vars => ExactInv'
<1> SUFFICES ASSUME TypeInv, TypeInv', ExactInv, [Next]_vars
             PROVE  ExactInv'
  OBVIOUS
<1>t. /\ web \in Web /\ g \in History /\ web' \in Web
      /\ flash \in [Partitions -> [Places -> Cells]] /\ ram \in [Places -> Cells]
  BY DEF TypeOK, TypeInv
<1>k. Disturbed.clean = FALSE
  BY <1>t DEF Disturbed, History
<1>r. /\ SharedReset(web).ready = web.ready /\ SharedReset(web).post_done = web.post_done
      /\ SharedReset(web).upload_failed = web.upload_failed /\ SharedReset(web).type = web.type
      /\ SharedReset(web).base = web.base /\ SharedReset(web).xfer = web.xfer
  BY <1>t DEF SharedReset, Web
(* Steps of the serving loop that keep the history and the buffer. *)
<1>s. ASSUME pc = "serve", pc' = "serve", g' = g, ram' = ram,
             web' = web \/ web' = SharedReset(web)
      PROVE  ExactInv'
  BY <1>s, <1>r DEF ExactInv, QuietUpgradeIsExact, WrittenIsAccepted, Pending
(* Steps after which the history is not clean. *)
<1>d. ASSUME pc' # "upgrade", g' = Disturbed \/ ~g'.clean
      PROVE  ExactInv'
  BY <1>d, <1>k DEF ExactInv, QuietUpgradeIsExact, WrittenIsAccepted
<1>1. ASSUME NEW c \in Conns, Client(c) PROVE ExactInv'
  <2>0. pc = "serve" /\ pc' = "serve"
    BY <1>1 DEF Client, Syn, Connected, Rst, Fin, FinAcked, Get, BadRequest, PostRootfsReset,
       PostUpload, UploadFirst, UploadMore, UploadLast, PageAcked, DataDuringPage, Waiting,
       Uploading, Serve
  <2>1. CASE Syn(c) \/ Connected(c) \/ Rst(c) \/ Fin(c) \/ FinAcked(c) \/ Get(c)
             \/ BadRequest(c) \/ DataDuringPage(c)
    BY <2>0, <2>1, <1>s
    DEF Syn, Connected, Rst, Fin, FinAcked, Get, BadRequest, DataDuringPage
  <2>2. ASSUME NEW s \in BOOLEAN, PostRootfsReset(c, s) PROVE ExactInv'
    <3>1. CASE ~s
      BY <2>0, <2>2, <3>1, <1>d DEF PostRootfsReset
    <3>2. CASE s
      <4>1. web' = PostDone([web EXCEPT !.type = "rootfs"], 0, FALSE) /\ g' = Granted("rootfs", ram)
        BY <2>2, <3>2 DEF PostRootfsReset
      <4>2. web'.type = "rootfs" /\ g'.type = "rootfs"
        BY <4>1, <1>t DEF PostDone, SharedReset, Web, Granted, History
      <4> QED
        BY <2>0, <4>2 DEF ExactInv, QuietUpgradeIsExact, WrittenIsAccepted
    <3> QED
      BY <3>1, <3>2
  <2>3. CASE \/ \E i \in Images, n \in Names, d \in BOOLEAN : PostUpload(c, i, n, d)
             \/ UploadFirst(c) \/ UploadMore(c)
    BY <2>0, <2>3, <1>d DEF PostUpload, UploadFirst, UploadMore
  <2>4. CASE UploadLast(c)
    <3> DEFINE r == Appended(c)
               w == [web EXCEPT !.ptr = PtrAfter]
    <3>1. ram' = r
      BY <2>4 DEF UploadLast
    <3>0. PICK ok \in BOOLEAN :
            /\ web' = PostDone(w, Chunks, ~ok)
            /\ ok => web.base \/ web.type = "rootfs"
            /\ \E x : g' = Ended(web.type, r, ok, x)
      BY <2>4 DEF UploadLast, Ended
    <3>2. PICK x :
            /\ web' = PostDone(w, Chunks, ~ok)
            /\ ok => web.base \/ web.type = "rootfs"
            /\ g' = Ended(web.type, r, ok, x)
      BY <3>0
    <3>3. CASE ~ok
      BY <2>0, <3>2, <3>3, <1>d, <1>t, LastHistory
    <3>4. CASE ok
      <4>0. web' = PostDone(w, Chunks, ~ok)
        BY <3>2
      <4>1. web'.type = web.type /\ web'.base = web.base /\ web'.xfer = Chunks
        BY <4>0, <1>t DEF PostDone, SharedReset, Web
      <4>2. g'.type = web.type /\ g'.data = r
        <5>1. g' = [Granted(web.type, r) EXCEPT !.passed = x]
          BY <3>2, <3>4 DEF Ended
        <5> HIDE DEF r, w
        <5> QED BY <5>1, <1>t DEF Granted, History
      <4> QED
        BY <2>0, <3>1, <3>2, <3>4, <4>1, <4>2 DEF ExactInv, QuietUpgradeIsExact, WrittenIsAccepted
    <3> QED
      BY <3>3, <3>4
  <2>5. CASE PageAcked(c)
    <3>1. g' = g /\ ram' = ram
      BY <2>5 DEF PageAcked
    <3>2. CASE web' = web
      BY <2>0, <3>1, <3>2, <1>s
    <3>3. CASE web' = SharedReset(Settled(web))
      <4>1. /\ web'.type = web.type /\ web'.base = web.base /\ web'.xfer = web.xfer
            /\ web'.ready \/ (web'.post_done /\ ~web'.upload_failed)
                 => web.ready \/ (web.post_done /\ ~web.upload_failed)
        BY <3>3, <1>t DEF SharedReset, Settled, Web
      <4> QED
        BY <2>0, <3>1, <4>1 DEF ExactInv, QuietUpgradeIsExact, WrittenIsAccepted, Pending
    <3> QED
      BY <2>5, <3>2, <3>3 DEF PageAcked
  <2> QED
    BY <1>1, <2>1, <2>2, <2>3, <2>4, <2>5 DEF Client
<1>2. ASSUME NEW e \in SUBSET Conns, NEW f \in SUBSET Conns, HttpdHandler(e, f)
      PROVE ExactInv'
  BY <1>2, <1>s DEF HttpdHandler, Serve
<1>3. CASE CtrlC
  BY <1>3, <1>d DEF CtrlC
<1>4. CASE Relaunch
  BY <1>4 DEF Relaunch, ExactInv, QuietUpgradeIsExact, WrittenIsAccepted, Pending
<1>5. CASE StartUpgrade
  <2>1. g'.clean = g.clean /\ g'.type = g.type /\ g'.data = g.data
    BY <1>5, <1>t DEF StartUpgrade, History
  <2> QED
    BY <1>5, <2>1 DEF StartUpgrade, ExactInv, QuietUpgradeIsExact, WrittenIsAccepted, Pending
<1>6. CASE UpgradeDone
  <2>1. pc = "upgrade" /\ pc' = "reset" /\ web' = web /\ g' = g /\ ram' = ram
    BY <1>6 DEF UpgradeDone
  <2>2. ASSUME g.clean, g.type \in Partitions PROVE flash'[g.type] = g.data
    <3>1. web.type = g.type /\ web.base /\ ram = g.data /\ web.xfer = Chunks
      BY <2>1, <2>2 DEF ExactInv, QuietUpgradeIsExact, Pending, Partitions
    <3>2. flash' = Written(g.type, Chunks)
      BY <1>6, <2>2, <3>1 DEF UpgradeDone, Partitions
    <3> QED
      BY <2>2, <3>1, <3>2, <1>t, WrittenWhole
  <2> QED
    BY <2>1, <2>2 DEF ExactInv, QuietUpgradeIsExact, WrittenIsAccepted, Pending
<1>7. ASSUME NEW n \in 0..Chunks, UpgradeFailed(n) PROVE ExactInv'
  BY <1>7, <1>d DEF UpgradeFailed
<1>8. ASSUME NEW n \in 0..Chunks, PowerCycle(n) PROVE ExactInv'
  BY <1>8 DEF PowerCycle, HistoryInit, ExactInv, QuietUpgradeIsExact, WrittenIsAccepted
<1>9. CASE UNCHANGED vars
  BY <1>9 DEF vars, ExactInv, QuietUpgradeIsExact, WrittenIsAccepted, Pending
<1> QED
  BY <1>1, <1>2, <1>3, <1>4, <1>5, <1>6, <1>7, <1>8, <1>9 DEF Next, Loop

LEMMA Exact == Spec => []ExactInv
<1>1. Init => ExactInv
  BY DEF Init, HistoryInit, ExactInv, QuietUpgradeIsExact, WrittenIsAccepted
<1> QED
  BY <1>1, TypeInit, TypeNext, ExactStep, PTL DEF Spec

\* While no other POST, restart or CTRL+C comes between, what is about to be written
\* is what was accepted, whatever the other connections do short of that.
THEOREM QuietIsExact == Spec => []QuietUpgradeIsExact
<1>1. ExactInv => QuietUpgradeIsExact
  BY DEF ExactInv
<1> QED
  BY Exact, <1>1, PTL

\* ... and once do_http_upgrade has succeeded the partition holds exactly that.
THEOREM WrittenIsExact == Spec => []WrittenIsAccepted
<1>1. ExactInv => WrittenIsAccepted
  BY DEF ExactInv
<1> QED
  BY Exact, <1>1, PTL

-----------------------------------------------------------------------------
(* The store pointer: what the connections have sent is counted place by place, *)
(* so a chunk more is an element more.                                          *)

BoundInv == web.data_start => web.ptr \in 1..Stored

LEMMA SentIsFinite ==
  ASSUME NEW S \in SUBSET (Conns \X Places)
  PROVE  IsFiniteSet(S) /\ Cardinality(S) \in Nat /\ (S # {} => Cardinality(S) >= 1)
<1>1. IsFiniteSet(Conns) /\ IsFiniteSet(Places)
  BY ConnsAssumption, BoundsAssumption, FS_Interval DEF Places
<1>2. IsFiniteSet(Conns \X Places)
  BY <1>1, FS_Product
<1>3. IsFiniteSet(S) /\ Cardinality(S) \in Nat
  BY <1>2, FS_Subset, FS_CardinalityType
<1> QED
  BY <1>3, FS_EmptySet

\* A first chunk counts.
LEMMA FirstIsSent ==
  ASSUME NEW c \in Conns, hs'[c].got = 1
  PROVE  Stored' \in Nat /\ Stored' >= 1
<1>1. <<c, 1>> \in Sent' /\ Sent' \in SUBSET (Conns \X Places)
  BY BoundsAssumption DEF Sent, Places
<1> QED
  BY <1>1, SentIsFinite DEF Stored

\* So does every one after it.
LEMMA NextIsSent ==
  ASSUME TypeInv, NEW c \in Conns, hs[c].got + 1 <= Chunks,
         Conn1(c, [hs[c] EXCEPT !.got = @ + 1])
  PROVE  Stored \in Nat /\ Stored' = Stored + 1
<1> DEFINE n == hs[c].got
<1>1. /\ hs \in [Conns -> Conn] /\ n \in Nat /\ n + 1 \in Places
      /\ \A d \in Conns : hs[d].got \in Nat
  BY BoundsAssumption DEF TypeInv, TypeOK, Conn, Places
<1>2. /\ hs'[c].got = n + 1
      /\ \A d \in Conns : d # c => hs'[d].got = hs[d].got
  BY <1>1 DEF Conn1, Conn
<1> HIDE DEF n
<1>3. \A s \in Conns \X Places : s[2] <= hs'[s[1]].got <=> s[2] <= hs[s[1]].got \/ s = <<c, n + 1>>
  <2> SUFFICES ASSUME NEW d \in Conns, NEW k \in Places
               PROVE  k <= hs'[d].got <=> k <= hs[d].got \/ <<d, k>> = <<c, n + 1>>
    OBVIOUS
  <2> QED
    BY <1>1, <1>2, BoundsAssumption DEF Places, n
<1>4. Sent' = Sent \cup {<<c, n + 1>>} /\ <<c, n + 1>> \notin Sent /\ Sent \in SUBSET (Conns \X Places)
  BY <1>1, <1>3 DEF Sent, n
<1> QED
  BY <1>4, SentIsFinite, FS_AddElement DEF Stored

\* What does not send does not count.
LEMMA SentStays ==
  ASSUME \A d \in Conns : hs'[d].got = hs[d].got
  PROVE  Stored' = Stored
BY DEF Stored, Sent

LEMMA BoundStep == TypeInv /\ BoundInv /\ [Next]_vars => BoundInv'
<1> SUFFICES ASSUME TypeInv, BoundInv, [Next]_vars PROVE BoundInv'
  OBVIOUS
<1>t. hs \in [Conns -> Conn] /\ web \in Web
  BY DEF TypeInv, TypeOK
<1>r. ~SharedReset(web).data_start
  BY <1>t DEF SharedReset, Web
(* Steps that forget the upload. *)
<1>f. ASSUME ~web'.data_start PROVE BoundInv'
  BY <1>f DEF BoundInv
(* Steps that send nothing. *)
<1>s. ASSUME web'.data_start = web.data_start, web'.ptr = web.ptr,
             \A d \in Conns : hs'[d].got = hs[d].got
      PROVE  BoundInv'
  BY <1>s, SentStays DEF BoundInv
(* Steps that replace one slot by one that has sent as much. *)
<1>c. ASSUME NEW c \in Conns, NEW h, Conn1(c, h), h.got = hs[c].got, web' = web
      PROVE  BoundInv'
  BY <1>c, <1>s, <1>t DEF Conn1
(* A first chunk. *)
<1>b. ASSUME NEW c \in Conns, NEW w \in Web, NEW i, NEW name, NEW h \in Conn,
             web' = Started(w, i, name), Conn1(c, [h EXCEPT !.got = 1])
      PROVE  BoundInv'
  <2>1. web'.ptr = 1
    BY <1>b DEF Started, Web
  <2>2. hs'[c].got = 1
    BY <1>b, <1>t DEF Conn1, Conn
  <2>3. Stored' >= 1 /\ Stored' \in Nat
    BY <2>2, FirstIsSent
  <2> QED
    BY <2>1, <2>3 DEF BoundInv
<1>1. ASSUME NEW c \in Conns, Client(c) PROVE BoundInv'
  <2>h. hs[c] \in Conn
    BY <1>t
  <2>1. CASE Syn(c) \/ Get(c) \/ DataDuringPage(c)
    <3>1. PICK h : Conn1(c, h) /\ h.got = hs[c].got /\ web' = web
      BY <2>1, <2>h DEF Syn, Get, DataDuringPage, Serving, Conn
    <3> QED
      BY <3>1, <1>c
  <2>2. CASE Connected(c) \/ Rst(c) \/ Fin(c) \/ BadRequest(c)
    BY <2>2, <1>f, <1>r DEF Connected, Rst, Fin, BadRequest
  <2>3. CASE FinAcked(c)
    <3>1. CASE web' = SharedReset(web)
      BY <3>1, <1>f, <1>r
    <3>2. CASE Conn1(c, [hs[c] EXCEPT !.out = FALSE]) /\ web' = web
      BY <2>h, <3>2, <1>c DEF Conn
    <3> QED
      BY <2>3, <3>1, <3>2 DEF FinAcked
  <2>4. CASE \E s \in BOOLEAN : PostRootfsReset(c, s)
    <3>1. ~web'.data_start
      BY <2>4, <1>t DEF PostRootfsReset, PostDone, SharedReset, Web
    <3> QED
      BY <3>1, <1>f
  <2>5. ASSUME NEW i \in Images, NEW n \in Names, NEW d \in BOOLEAN, PostUpload(c, i, n, d)
        PROVE  BoundInv'
    <3> DEFINE h == [hs[c] EXCEPT !.state = "upload", !.img = i, !.name = n]
               w == [web EXCEPT !.boundary = c, !.ptr = 0, !.base = FALSE]
    <3>1. h \in Conn /\ w \in Web
      BY <1>t, <2>h, NamesAssumption DEF Conn, Web
    <3>2. CASE d
      <4>1. Conn1(c, [h EXCEPT !.got = 1]) /\ web' = Started(w, i, n)
        BY <2>5, <3>2 DEF PostUpload
      <4> HIDE DEF h, w
      <4> QED
        BY <3>1, <4>1, <1>b
    <3>3. CASE ~d
      <4>1. web' = HeadersOnly(w)
        BY <2>5, <3>3 DEF PostUpload
      <4>2. ~web'.data_start
        BY <3>1, <4>1 DEF HeadersOnly, Web
      <4> QED
        BY <4>2, <1>f
    <3> QED
      BY <3>2, <3>3
  <2>6. CASE UploadFirst(c)
    <3>1. CASE web.boundary = c
      BY <2>6, <2>h, <3>1, <1>b, <1>t DEF UploadFirst
    <3>2. CASE web.boundary # c
      BY <2>6, <3>2, <1>f, <1>r DEF UploadFirst
    <3> QED
      BY <3>1, <3>2
  <2>7. CASE UploadMore(c)
    <3>1. hs[c].got + 1 <= Chunks /\ Conn1(c, [hs[c] EXCEPT !.got = @ + 1]) /\ web.data_start
      BY <2>7, <2>h, BoundsAssumption DEF UploadMore, Conn
    <3>2. Stored \in Nat /\ Stored' = Stored + 1
      BY <3>1, NextIsSent
    <3>3. web'.ptr \in {web.ptr, web.ptr + 1}
      BY <2>7, <1>t DEF UploadMore, PtrAfter, Web
    <3> QED
      BY <3>1, <3>2, <3>3 DEF BoundInv
  <2>8. CASE UploadLast(c)
    <3>1. ~web'.data_start
      BY <2>8, <1>t DEF UploadLast, PostDone, SharedReset, Web
    <3> QED
      BY <3>1, <1>f
  <2>9. CASE PageAcked(c)
    <3>1. CASE Conn1(c, [hs[c] EXCEPT !.left = @ - 1]) /\ web' = web
      BY <2>h, <3>1, <1>c DEF Conn
    <3>2. CASE web' = SharedReset(Settled(web))
      <4>1. ~web'.data_start
        BY <3>2, <1>t DEF SharedReset, Settled, Web
      <4> QED
        BY <4>1, <1>f
    <3> QED
      BY <2>9, <3>1, <3>2 DEF PageAcked
  <2> QED
    BY <1>1, <2>1, <2>2, <2>3, <2>4, <2>5, <2>6, <2>7, <2>8, <2>9 DEF Client
<1>2. ASSUME NEW e \in SUBSET Conns, NEW f \in SUBSET Conns, HttpdHandler(e, f)
      PROVE  BoundInv'
  <2> DEFINE gone == {c \in Conns : PolledOut(c)} \cup e
  <2>1. CASE gone # {}
    BY <1>2, <1>f, <1>r, <2>1 DEF HttpdHandler
  <2>2. CASE gone = {}
    <3>1. web' = web
      BY <1>2, <2>2 DEF HttpdHandler
    <3>2. ASSUME NEW d \in Conns PROVE hs'[d].got = hs[d].got
      <4>1. hs'[d] \in {[hs[d] EXCEPT !.tcp = "closed", !.out = FALSE],
                        [hs[d] EXCEPT !.count = @ + 1], hs[d]}
        BY <1>2, <2>2 DEF HttpdHandler
      <4> QED
        BY <4>1, <1>t DEF Conn
    <3> QED
      BY <3>1, <3>2, <1>s
  <2> QED
    BY <2>1, <2>2
<1>3. CASE CtrlC
  BY <1>3, <1>s, <1>t DEF CtrlC, Web
<1>4. CASE Relaunch
  BY <1>4, <1>s, <1>t DEF Relaunch, NoConns, Conn
<1>5. CASE StartUpgrade \/ UpgradeDone \/ UNCHANGED vars
  BY <1>5, <1>s DEF StartUpgrade, UpgradeDone, vars
<1>6. ASSUME NEW n \in 0..Chunks, UpgradeFailed(n) PROVE BoundInv'
  BY <1>6, <1>s, <1>t DEF UpgradeFailed, NoConns, Conn, Web
<1>7. ASSUME NEW n \in 0..Chunks, PowerCycle(n) PROVE BoundInv'
  BY <1>7, <1>f DEF PowerCycle, WebInit
<1> QED
  BY <1>1, <1>2, <1>3, <1>4, <1>5, <1>6, <1>7 DEF Next, Loop

\* The store pointer of httpd.c never runs past what the uploads in progress have sent:
\* whatever ends one of them also makes the next packet look for the start of its data.
THEOREM StoreIsBounded == Spec => []StoreStaysBounded
<1>1. Init => BoundInv
  BY DEF Init, WebInit, BoundInv
<1>2. BoundInv => StoreStaysBounded
  BY DEF BoundInv, StoreStaysBounded
<1> QED
  BY <1>1, <1>2, TypeInit, TypeNext, BoundStep, PTL DEF Spec

-----------------------------------------------------------------------------
(* The header cache of verify_kernel_image *)

\* The cached header is that of the last kernel whose data CRC matched.
CheckedInv ==
  /\ cache # NoHeader => cache = g.passed
  /\ AcceptedKernelWasChecked

LEMMA CheckedStep ==
  ASSUME TypeInv, CheckedInv, [Next]_vars
  PROVE  CheckedInv'
<1>t. g \in History /\ cache \in Headers \cup {NoHeader}
  BY DEF TypeInv, TypeOK
<1>k. ~Disturbed.clean /\ Disturbed.passed = g.passed
  BY <1>t DEF Disturbed, History
(* Steps that check nothing: what they grant is no kernel. *)
<1>q. ASSUME cache' = cache,
             \/ g' = g \/ g' = Disturbed
             \/ g'.passed = g.passed /\ g'.type \notin KernelKinds
      PROVE  CheckedInv'
  BY <1>q, <1>k DEF CheckedInv, AcceptedKernelWasChecked
<1>1. ASSUME NEW c \in Conns, Client(c) PROVE CheckedInv'
  <2>1. CASE Syn(c) \/ Connected(c) \/ Rst(c) \/ Fin(c) \/ FinAcked(c) \/ Get(c)
             \/ BadRequest(c) \/ PageAcked(c) \/ DataDuringPage(c)
    BY <2>1, <1>q DEF Syn, Connected, Rst, Fin, FinAcked, Get, BadRequest, PageAcked,
                      DataDuringPage
  <2>2. ASSUME NEW s \in BOOLEAN, PostRootfsReset(c, s) PROVE CheckedInv'
    <3>1. g' = Disturbed \/ (g'.type = "rootfs" /\ g'.passed = g.passed)
      BY <2>2, <1>t DEF PostRootfsReset, Granted, History
    <3> QED
      BY <2>2, <3>1, <1>q DEF PostRootfsReset, KernelKinds
  <2>3. ASSUME NEW i \in Images, NEW n \in Names, NEW d \in BOOLEAN, PostUpload(c, i, n, d)
        PROVE  CheckedInv'
    BY <2>3, <1>q DEF PostUpload
  <2>4. CASE UploadFirst(c) \/ UploadMore(c)
    BY <2>4, <1>q DEF UploadFirst, UploadMore
  <2>5. CASE UploadLast(c)
    <3> DEFINE r == Appended(c)
               checked == ~web.upload_failed /\ web.base
               ok == \/ checked /\ DataOk(web.type, r)
                     \/ ~web.upload_failed /\ web.type = "rootfs"
               mark == IF checked THEN Passed(web.type, r) ELSE g.passed
    <3>1. /\ cache' = IF checked THEN CacheAfter(web.type, r) ELSE cache
          /\ g' = [IF ok THEN Granted(web.type, r) ELSE Disturbed
                     EXCEPT !.passed = IF checked THEN Passed(web.type, r) ELSE @]
      BY <2>5 DEF UploadLast
    <3>2. Granted(web.type, r).passed = g.passed
      BY <1>t DEF Granted, History
    <3>3. /\ g'.passed = mark
          /\ ok => g'.type = web.type /\ g'.data = r
          /\ ~ok => ~g'.clean
      <4>1. ok \in BOOLEAN
        OBVIOUS
      <4> HIDE DEF r, ok, checked
      <4>2. g' = Ended(web.type, r, ok, mark)
        BY <3>1, <3>2, <1>k DEF Ended
      <4> QED
        BY <1>t, <4>1, <4>2, LastHistory
    <3> HIDE DEF r
    <3>4. KernelOk(r) <=> FullCheck(r) \/ (HeaderIn(r) # NoImage /\ HeaderIn(r).header = cache)
      BY DEF KernelOk, CacheHit
    <3>5. HeaderIn(r) # NoImage => HeaderIn(r).header # NoHeader
      <4>1. r \in [Places -> Cells]
        BY <2>5, AppendedType DEF UploadLast, Uploading, r
      <4> QED BY <4>1, HeaderType, HeadersAssumption
    <3>6. ASSUME checked, web.type \in KernelKinds, KernelOk(r)
          PROVE  cache' = HeaderIn(r).header /\ mark = HeaderIn(r).header
      <4>1. cache' = HeaderIn(r).header
        BY <3>1, <3>6 DEF CacheAfter
      <4>2. CASE FullCheck(r)
        BY <4>1, <4>2, <3>6 DEF Passed
      <4>3. CASE ~FullCheck(r)
        <5>1. HeaderIn(r) # NoImage /\ HeaderIn(r).header = cache
          BY <3>4, <3>6, <4>3
        <5>2. HeaderIn(r).header = g.passed
          BY <3>5, <5>1 DEF CheckedInv
        <5> QED
          BY <4>1, <5>1, <5>2, <3>6 DEF Passed
      <4> QED BY <4>2, <4>3
    <3>7. cache' # NoHeader => cache' = g'.passed
      <4>1. CASE checked /\ web.type \in KernelKinds
        <5>1. CASE KernelOk(r)
          BY <3>3, <3>6, <4>1, <5>1
        <5>2. CASE ~KernelOk(r)
          BY <3>1, <4>1, <5>2 DEF CacheAfter
        <5> QED BY <5>1, <5>2
      <4>2. CASE ~(checked /\ web.type \in KernelKinds)
        BY <3>1, <3>3, <4>2 DEF CacheAfter, Passed, CheckedInv
      <4> QED BY <4>1, <4>2
    <3>8. AcceptedKernelWasChecked'
      <4>1. ASSUME g'.clean, g'.type \in KernelKinds
            PROVE  FullCheck(r) \/ HeaderIn(r).header = g'.passed
        <5>1. ok /\ web.type \in KernelKinds
          BY <3>3, <4>1
        <5>2. checked /\ KernelOk(r)
          BY <5>1 DEF DataOk, KernelKinds
        <5> QED
          BY <3>3, <3>6, <5>1, <5>2
      <4> QED
        BY <3>3, <4>1 DEF AcceptedKernelWasChecked
    <3> QED
      BY <3>7, <3>8 DEF CheckedInv
  <2> QED
    BY <1>1, <2>1, <2>2, <2>3, <2>4, <2>5 DEF Client
<1>2. ASSUME NEW e \in SUBSET Conns, NEW f \in SUBSET Conns, HttpdHandler(e, f)
      PROVE  CheckedInv'
  BY <1>2, <1>q DEF HttpdHandler
<1>3. CASE CtrlC \/ Relaunch \/ UpgradeDone \/ UNCHANGED vars
  BY <1>3, <1>q DEF CtrlC, Relaunch, UpgradeDone, vars
<1>4. CASE StartUpgrade
  <2>1. g'.clean = g.clean /\ g'.type = g.type /\ g'.data = g.data /\ g'.passed = g.passed
    BY <1>4, <1>t DEF StartUpgrade, History
  <2> QED
    BY <1>4, <2>1 DEF StartUpgrade, CheckedInv, AcceptedKernelWasChecked
<1>5. ASSUME NEW n \in 0..Chunks, UpgradeFailed(n) PROVE CheckedInv'
  BY <1>5, <1>q DEF UpgradeFailed
<1>6. ASSUME NEW n \in 0..Chunks, PowerCycle(n) PROVE CheckedInv'
  BY <1>6 DEF PowerCycle, HistoryInit, CheckedInv, AcceptedKernelWasChecked
<1> QED
  BY <1>1, <1>2, <1>3, <1>4, <1>5, <1>6 DEF Next, Loop

\* Any number of connections that mix their chunks, any damaged files under good headers:
\* verify_kernel_image accepts a kernel without computing its data CRC only under the header
\* of the kernel whose CRC it last found right, with no refused one between.
THEOREM AcceptedWasChecked == Spec => []AcceptedKernelWasChecked
<1>1. Init => CheckedInv
  BY DEF Init, HistoryInit, CheckedInv, AcceptedKernelWasChecked
<1>2. CheckedInv => AcceptedKernelWasChecked
  BY DEF CheckedInv
<1> QED
  BY <1>1, <1>2, TypeInit, TypeNext, CheckedStep, PTL DEF Spec
=============================================================================
