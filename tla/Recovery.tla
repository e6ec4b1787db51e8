------------------------------ MODULE Recovery ------------------------------
(***************************************************************************)
(* Web recovery: the http server application (httpd/httpd.c) running on    *)
(* uIP's application interface, the loop that serves it (NetLoopHttpd in   *)
(* net/net.c), and the upgrade it starts (net/httpd.c).                    *)
(*                                                                         *)
(* Every connection has its own httpd_state, but the upload itself lives   *)
(* in statics that all connections share: the store pointer and its base,  *)
(* data_start_found, boundary_value, the upgrade type, post_done and       *)
(* upload_failed.  The module keeps the former in hs[c] and the latter in  *)
(* web, and takes one call of httpd_appcall, with what uip_process does    *)
(* around it, as one step.  An upload is Chunks segments of an image; the  *)
(* RAM buffer remembers which chunk of which image each place holds.       *)
(***************************************************************************)
EXTENDS Naturals, FiniteSets

CONSTANTS
  Conns,      \* slots of uip_conns[UIP_CONNS]
  Headers,    \* identities of image headers
  Images,     \* files a client may upload (records, see ImageRecords)
  NoImage,    \* tag of a RAM place that holds no uploaded data
  NoHeader,   \* no header was accepted yet
  NoConn,     \* boundary_value = NULL
  Names,      \* input names of the forms clients post
  Chunks,     \* segments of an upload body
  PageSegs,   \* segments of a page sent back
  PollMax,    \* polls after which an idle connection is aborted (100)
  MaxGrants   \* bound on accepted uploads, for model checking

\* radio and tplink images are treated as config is: size only, a partition of fixed length.
UploadTypes == {"firmware", "initramfs", "uboot", "config"}

\* kind: what the file is; header: identity of its image header; fits: the
\* input names whose size limits it meets; sound: its CRCs match its data.
ImageRecords ==
  [id : Nat, kind : UploadTypes, header : Headers, fits : SUBSET UploadTypes,
   sound : BOOLEAN]

ASSUME ImagesAssumption == Images \subseteq ImageRecords /\ NoImage \notin Images
ASSUME ConnsAssumption == IsFiniteSet(Conns) /\ NoConn \notin Conns
ASSUME HeadersAssumption == NoHeader \notin Headers
ASSUME NamesAssumption == Names \subseteq UploadTypes
ASSUME BoundsAssumption ==
  /\ Chunks \in Nat /\ Chunks >= 2
  /\ PageSegs \in Nat /\ PageSegs >= 1
  /\ PollMax \in Nat
  /\ MaxGrants \in Nat

VARIABLES
  hs,      \* connection and httpd_state of each slot
  web,     \* the statics of httpd.c and the webfailsafe_* globals
  ram,     \* the upload buffer at WEBFAILSAFE_UPLOAD_RAM_ADDRESS
  cache,   \* header the last verify_kernel_image accepted, or NoHeader
  flash,   \* the partitions an upgrade writes
  pc,      \* where NetLoopHttpd is
  g        \* history: accepted uploads, upgrades begun, the last accepted one, and
           \* the header of the last kernel whose data CRC was found right

vars == <<hs, web, ram, cache, flash, pc, g>>

Places == 1..Chunks
Junk == <<NoImage, 0>>
Cells == (Images \X Places) \cup {Junk}

Partitions == {"firmware", "uboot", "config"}
UpgradeTypes == UploadTypes \cup {"rootfs", "invalid"}

TcpStates == {"closed", "syn_rcvd", "established", "fin_wait", "last_ack", "time_wait"}

Conn ==
  [tcp : TcpStates, out : BOOLEAN, state : {"none", "file", "upload"},
   count : 0..PollMax, got : 0..Chunks, img : Images \cup {NoImage},
   name : UploadTypes, left : 0..PageSegs, page : {"doc", "fail", "flashing"}]

Idle ==
  [tcp |-> "closed", out |-> FALSE, state |-> "none", count |-> 0, got |-> 0,
   img |-> NoImage, name |-> "firmware", left |-> 0, page |-> "doc"]

Web ==
  [post_done : BOOLEAN, upload_failed : BOOLEAN, data_start : BOOLEAN,
   boundary : Conns \cup {NoConn}, ptr : Nat, base : BOOLEAN,
   type : UpgradeTypes, xfer : 0..Chunks, ready : BOOLEAN]

WebInit ==
  [post_done |-> FALSE, upload_failed |-> FALSE, data_start |-> FALSE,
   boundary |-> NoConn, ptr |-> 0, base |-> FALSE,
   type |-> "firmware", xfer |-> 0, ready |-> FALSE]

History ==
  [grants : Nat, starts : Nat, clean : BOOLEAN,
   type : UpgradeTypes, data : [Places -> Cells], passed : Headers \cup {NoHeader}]

Blank == [k \in Places |-> Junk]

HistoryInit ==
  [grants |-> 0, starts |-> 0, clean |-> FALSE, type |-> "firmware", data |-> Blank,
   passed |-> NoHeader]

Init ==
  /\ hs = [c \in Conns |-> Idle]
  /\ web = WebInit
  /\ ram = Blank
  /\ cache = NoHeader
  /\ flash = [p \in Partitions |-> Blank]
  /\ pc = "serve"
  /\ g = HistoryInit

-----------------------------------------------------------------------------
(* Helpers shared by the handlers. *)

\* Mutant: the reset forgets more than it should.
SharedResetDropsBase(w) == [w EXCEPT !.data_start = FALSE, !.boundary = NoConn, !.base = FALSE]

\* httpd_state_reset, the part of it every connection shares.
SharedReset(w) == [w EXCEPT !.data_start = FALSE, !.boundary = NoConn]

\* httpd_state_reset, the caller's own part.
OwnReset(h) ==
  [h EXCEPT !.state = "none", !.count = 0, !.got = 0, !.left = 0,
            !.img = NoImage, !.name = "firmware", !.page = "doc"]

\* The slot is CLOSED and forgets what it had in flight.
Closed(h) == [OwnReset(h) EXCEPT !.tcp = "closed", !.out = FALSE]

\* The application asked uIP to close: FIN_WAIT_1, one octet (the FIN) in flight.
Closing(h) == [OwnReset(h) EXCEPT !.tcp = "fin_wait", !.out = TRUE]

\* fs_open and uip_send of the first segment of a page.
Serving(h, page) ==
  [h EXCEPT !.state = "file", !.left = PageSegs, !.page = page, !.out = TRUE]

\* Image kinds that start with a U-Boot image header.
KernelKinds == {"firmware", "initramfs"}

\* Places the header's data CRC covers: the kernel, not a firmware's root file system.
Covered(kind) == IF kind = "firmware" THEN 1..(Chunks - 1) ELSE Places

\* The image whose header is at the start of buffer r.
HeaderIn(r) ==
  IF r[1] # Junk /\ r[1][2] = 1 /\ r[1][1].kind \in KernelKinds
  THEN r[1][1] ELSE NoImage

\* verify_kernel_image(base, .., 1): the last accepted header is not checked again.
CacheHit(r) == HeaderIn(r) # NoImage /\ cache = HeaderIn(r).header

FullCheck(r) ==
  LET i == HeaderIn(r) IN
  /\ i # NoImage
  /\ i.sound
  /\ \A k \in Covered(i.kind) : r[k] = <<i, k>>

KernelOk(r) == CacheHit(r) \/ FullCheck(r)

\* verify_uboot_image: the size, and the first vectors of the buffer.
UbootOk(r) == r[1] # Junk /\ r[1][2] = 1 /\ r[1][1].kind = "uboot"

\* validate_uploaded_data, with upload_failed clear and base set.
DataOk(type, r) ==
  CASE type = "uboot" -> UbootOk(r)
    [] type \in KernelKinds -> KernelOk(r) /\ HeaderIn(r).kind = type
    [] OTHER -> TRUE

\* Mutant: a check that fails leaves the header as a good one.
CacheAfterKept(type, r) ==
  IF type \in KernelKinds /\ HeaderIn(r) # NoImage THEN HeaderIn(r).header ELSE cache

\* The header cache after validation of buffer r: kept by a check that is skipped,
\* invalidated by one that fails.
CacheAfter(type, r) ==
  IF type \in KernelKinds
  THEN IF KernelOk(r) THEN HeaderIn(r).header ELSE NoHeader
  ELSE cache

\* Mutant: the end of the POST is not noted.
PostDoneUnnoted(w, n, failed) == [SharedReset(w) EXCEPT !.upload_failed = failed, !.xfer = n]

\* httpd_post_done on the statics.
PostDone(w, n, failed) ==
  [SharedReset(w) EXCEPT !.post_done = TRUE, !.upload_failed = failed, !.xfer = n]

\* The header of the last kernel whose data CRC was computed and matched, unless a
\* buffer with another header was looked at, and refused, since.
Passed(type, r) ==
  IF type \notin KernelKinds THEN g.passed
  ELSE IF FullCheck(r) \/ (HeaderIn(r) # NoImage /\ HeaderIn(r).header = g.passed)
       THEN HeaderIn(r).header ELSE NoHeader

\* History of an accepted request (bounded), and of any other upload activity.
Granted(type, r) ==
  [g EXCEPT !.grants = @ + 1, !.clean = TRUE, !.type = type, !.data = r]
Disturbed == [g EXCEPT !.clean = FALSE, !.type = "firmware", !.data = Blank]

Serve == pc = "serve"
Conn1(c, h) == hs' = [hs EXCEPT ![c] = h]

-----------------------------------------------------------------------------
(* What a client can make of a connection: uip_process(UIP_DATA). *)

\* A SYN takes a CLOSED slot, else one in TIME_WAIT.
Syn(c) ==
  /\ Serve
  /\ \/ hs[c].tcp = "closed"
     \/ hs[c].tcp = "time_wait" /\ ~hs[c].out /\ \A d \in Conns : hs[d].tcp # "closed"
  /\ Conn1(c, [hs[c] EXCEPT !.tcp = "syn_rcvd", !.out = TRUE])
  /\ UNCHANGED <<web, ram, cache, flash, pc, g>>

\* The handshake's ACK: UIP_CONNECTED (data it carries is acknowledged, not read).
Connected(c) ==
  /\ Serve
  /\ hs[c].tcp = "syn_rcvd"
  /\ Conn1(c, [OwnReset(hs[c]) EXCEPT !.tcp = "established", !.out = FALSE])
  /\ web' = SharedReset(web)
  /\ UNCHANGED <<ram, cache, flash, pc, g>>

\* A RST, accepted in any state: UIP_ABORT.
Rst(c) ==
  /\ Serve
  /\ hs[c].tcp # "closed"
  /\ Conn1(c, Closed(hs[c]))
  /\ web' = SharedReset(web)
  /\ UNCHANGED <<ram, cache, flash, pc, g>>

\* A FIN: dropped while data is in flight, else UIP_CLOSE.
Fin(c) ==
  /\ Serve
  /\ \/ /\ hs[c].tcp = "established" /\ ~hs[c].out
        /\ Conn1(c, [OwnReset(hs[c]) EXCEPT !.tcp = "last_ack", !.out = TRUE])
     \/ /\ hs[c].tcp = "fin_wait"
        /\ Conn1(c, [OwnReset(hs[c]) EXCEPT !.tcp = "time_wait"])
  /\ web' = SharedReset(web)
  /\ UNCHANGED <<ram, cache, flash, pc, g>>

\* The ACK of our FIN: only LAST_ACK tells the application (UIP_CLOSE).
FinAcked(c) ==
  /\ Serve
  /\ hs[c].out
  /\ \/ /\ hs[c].tcp = "last_ack"
        /\ Conn1(c, Closed(hs[c]))
        /\ web' = SharedReset(web)
     \/ /\ hs[c].tcp \in {"fin_wait", "time_wait"}
        /\ Conn1(c, [hs[c] EXCEPT !.out = FALSE])
        /\ UNCHANGED web
  /\ UNCHANGED <<ram, cache, flash, pc, g>>

\* A connection in STATE_NONE reads its request.
Waiting(c) == Serve /\ hs[c].tcp = "established" /\ hs[c].state = "none"

Get(c) ==
  /\ Waiting(c)
  /\ Conn1(c, Serving(hs[c], "doc"))
  /\ UNCHANGED <<web, ram, cache, flash, pc, g>>

\* Neither GET nor POST, a header missing, or too small a body: uip_abort.
BadRequest(c) ==
  /\ Waiting(c)
  /\ Conn1(c, Closed(hs[c]))
  /\ web' = SharedReset(web)
  /\ UNCHANGED <<ram, cache, flash, pc, g>>

\* httpd_inline_commands: "rootfs_reset=", supported by the flashed firmware or not.
PostRootfsReset(c, supported) ==
  /\ Waiting(c)
  /\ supported => g.grants < MaxGrants
  /\ Conn1(c, Serving(OwnReset(hs[c]), IF supported THEN "flashing" ELSE "fail"))
  /\ web' = PostDone([web EXCEPT !.type = IF supported THEN "rootfs" ELSE "invalid"],
                     0, ~supported)
  /\ g' = IF supported THEN Granted("rootfs", ram) ELSE Disturbed
  /\ UNCHANGED <<ram, cache, flash, pc>>

\* httpd_findandstore_firstchunk on the statics: type, size limits, pointer.
Started(w, i, name) ==
  LET failed == w.upload_failed \/ name \notin i.fits IN
  [w EXCEPT !.type = name, !.upload_failed = failed, !.data_start = TRUE,
            !.ptr = 1, !.base = ~failed]

\* ... and on the buffer, blanked first for a U-Boot image.
FirstStored(i, name) ==
  [(IF name = "uboot" THEN Blank ELSE ram) EXCEPT ![1] = <<i, 1>>]

\* Mutant: headers without data leave data_start_found as it was.
HeadersOnlyStale(w) == w

\* No data in the packet of the headers.
HeadersOnly(w) == [w EXCEPT !.data_start = FALSE]

\* A POST of image i; the first packet holds the first chunk, or headers only.
PostUpload(c, i, name, withData) ==
  /\ Waiting(c)
  /\ LET h == [hs[c] EXCEPT !.state = "upload", !.img = i, !.name = name]
         w == [web EXCEPT !.boundary = c, !.ptr = 0, !.base = FALSE]
     IN IF withData
        THEN /\ Conn1(c, [h EXCEPT !.got = 1])
             /\ web' = Started(w, i, name)
             /\ ram' = FirstStored(i, name)
        ELSE /\ Conn1(c, [h EXCEPT !.got = 0])
             /\ web' = HeadersOnly(w)
             /\ UNCHANGED ram
  /\ g' = Disturbed
  /\ UNCHANGED <<cache, flash, pc>>

Uploading(c) == Serve /\ hs[c].tcp = "established" /\ hs[c].state = "upload"

\* Start of data not found yet: it is looked for with the boundary of the last POST.
UploadFirst(c) ==
  /\ Uploading(c)
  /\ ~web.data_start
  /\ IF web.boundary = c
     THEN /\ Conn1(c, [hs[c] EXCEPT !.got = 1])
          /\ web' = Started(web, hs[c].img, hs[c].name)
          /\ ram' = FirstStored(hs[c].img, hs[c].name)
     ELSE /\ Conn1(c, Closed(hs[c]))
          /\ web' = SharedReset(web)
          /\ UNCHANGED ram
  /\ g' = Disturbed
  /\ UNCHANGED <<cache, flash, pc>>

\* The chunk is copied to the shared pointer unless the upload has failed.
Appended(c) ==
  LET k == web.ptr + 1 IN
  IF web.upload_failed \/ k \notin Places THEN ram
  ELSE [ram EXCEPT ![k] = <<hs[c].img, hs[c].got + 1>>]

PtrAfter == IF web.upload_failed THEN web.ptr ELSE web.ptr + 1

\* A chunk that does not complete this connection's byte count.
UploadMore(c) ==
  /\ Uploading(c)
  /\ web.data_start
  /\ hs[c].got + 1 < Chunks
  /\ Conn1(c, [hs[c] EXCEPT !.got = @ + 1])
  /\ web' = [web EXCEPT !.ptr = PtrAfter]
  /\ ram' = Appended(c)
  /\ g' = Disturbed
  /\ UNCHANGED <<cache, flash, pc>>

\* The chunk that completes it: validate, answer with a page.
UploadLast(c) ==
  /\ Uploading(c)
  /\ web.data_start
  /\ hs[c].got + 1 >= Chunks
  /\ LET r == Appended(c)
         checked == ~web.upload_failed /\ web.base
         ok == \/ checked /\ DataOk(web.type, r)
               \/ ~web.upload_failed /\ web.type = "rootfs"
     IN /\ ok => g.grants < MaxGrants
        /\ ram' = r
        /\ cache' = IF checked THEN CacheAfter(web.type, r) ELSE cache
        /\ web' = PostDone([web EXCEPT !.ptr = PtrAfter], Chunks, ~ok)
        /\ Conn1(c, Serving(OwnReset(hs[c]), IF ok THEN "flashing" ELSE "fail"))
        /\ g' = [IF ok THEN Granted(web.type, r) ELSE Disturbed
                   EXCEPT !.passed = IF checked THEN Passed(web.type, r) ELSE @]
  /\ UNCHANGED <<flash, pc>>

\* Mutant: webfailsafe_post_done is not cleared.
SettledAgain(w) ==
  IF w.post_done THEN [w EXCEPT !.ready = @ \/ ~w.upload_failed] ELSE w

\* The page of a finished POST was received: webfailsafe_ready_for_upgrade.
Settled(w) ==
  IF w.post_done
  THEN [w EXCEPT !.ready = @ \/ ~w.upload_failed, !.post_done = FALSE, !.upload_failed = FALSE]
  ELSE w

\* The ACK of a page segment; the last one of any page settles a finished POST.
PageAcked(c) ==
  /\ Serve
  /\ hs[c].tcp = "established" /\ hs[c].out /\ hs[c].state = "file"
  /\ IF hs[c].left > 1
     THEN /\ Conn1(c, [hs[c] EXCEPT !.left = @ - 1])
          /\ UNCHANGED web
     ELSE /\ Conn1(c, Closing(hs[c]))
          /\ web' = SharedReset(Settled(web))
  /\ UNCHANGED <<ram, cache, flash, pc, g>>

\* More data while a page is being sent: ignored, but uIP forgets what is in flight.
DataDuringPage(c) ==
  /\ Serve
  /\ hs[c].tcp = "established" /\ hs[c].state = "file" /\ hs[c].out
  /\ Conn1(c, [hs[c] EXCEPT !.out = FALSE])
  /\ UNCHANGED <<web, ram, cache, flash, pc, g>>

-----------------------------------------------------------------------------
(* NetLoopHttpd. *)

\* Slots that uip_periodic polls, and those it may retransmit for or time out.
Polled(c) == hs[c].tcp = "established" /\ ~hs[c].out
InFlight(c) == hs[c].tcp # "closed" /\ hs[c].out

\* Mutant: one poll too many.
PolledOutLate(c) == Polled(c) /\ hs[c].count > PollMax

\* hs->count++ has reached the limit: uip_abort.
PolledOut(c) == Polled(c) /\ hs[c].count >= PollMax

\* HttpdHandler after a packet that produced no answer: uip_periodic on every slot.
HttpdHandler(expired, forgotten) ==
  LET idle == {c \in Conns : PolledOut(c)}
      gone == idle \cup expired
  IN /\ Serve
     /\ expired \subseteq {c \in Conns : InFlight(c)}
     /\ forgotten \subseteq {c \in Conns : hs[c].tcp \in {"time_wait", "fin_wait"}
                                          /\ ~hs[c].out}
     /\ hs' = [c \in Conns |->
                 IF c \in gone THEN Closed(hs[c])
                 ELSE IF c \in forgotten THEN [hs[c] EXCEPT !.tcp = "closed", !.out = FALSE]
                 ELSE IF Polled(c) THEN [hs[c] EXCEPT !.count = @ + 1]
                 ELSE hs[c]]
     /\ web' = IF gone # {} THEN SharedReset(web) ELSE web
     /\ UNCHANGED <<ram, cache, flash, pc, g>>

\* restart2 / a new run of the loop: uip_init forgets every connection, silently.
NoConns == [c \in Conns |-> [hs[c] EXCEPT !.tcp = "closed", !.out = FALSE]]

\* CTRL+C on the console ends the server; some globals are set back.
CtrlC ==
  /\ Serve
  /\ pc' = "prompt"
  /\ web' = [web EXCEPT !.ready = FALSE, !.type = "firmware"]
  /\ g' = Disturbed
  /\ UNCHANGED <<hs, ram, cache, flash>>

Relaunch ==
  /\ pc = "prompt"
  /\ pc' = "serve"
  /\ hs' = NoConns
  /\ UNCHANGED <<web, ram, cache, flash, g>>

\* ready_for_upgrade is seen: eth_halt, do_http_upgrade.
StartUpgrade ==
  /\ Serve
  /\ web.ready
  /\ pc' = "upgrade"
  /\ g' = [g EXCEPT !.starts = @ + 1]
  /\ UNCHANGED <<hs, web, ram, cache, flash>>

\* What is read at webfailsafe_data_pointer_base (address 0 when it is NULL).
Source == IF web.base THEN ram ELSE Blank

\* The first n places of a partition overwritten.
Written(p, n) == [flash EXCEPT ![p] = [k \in Places |-> IF k <= n THEN Source[k] ELSE @[k]]]

\* do_http_upgrade that succeeds: the partition is written, the board resets.
UpgradeDone ==
  /\ pc = "upgrade"
  /\ \/ web.type = "firmware" /\ flash' = Written("firmware", web.xfer)
     \/ web.type \in {"uboot", "config"} /\ flash' = Written(web.type, Chunks)
     \/ web.type = "initramfs" /\ web.base /\ KernelOk(ram) /\ UNCHANGED flash
     \/ web.type = "rootfs" /\ UNCHANGED flash
  /\ pc' = "reset"
  /\ UNCHANGED <<hs, web, ram, cache, g>>

\* do_http_upgrade that fails, after n places at most: everything starts again.
UpgradeFailed(n) ==
  /\ pc = "upgrade"
  /\ flash' = IF web.type \in Partitions /\ n <= (IF web.type = "firmware" THEN web.xfer ELSE Chunks)
              THEN Written(web.type, n) ELSE flash
  /\ pc' = "serve"
  /\ web' = [web EXCEPT !.ready = FALSE, !.type = "firmware", !.xfer = 0]
  /\ hs' = NoConns
  /\ g' = Disturbed
  /\ UNCHANGED <<ram, cache>>

\* A reset or power cycle, during an upgrade too: RAM state is gone.
PowerCycle(n) ==
  /\ pc # "upgrade" => n = 0
  /\ flash' = IF pc = "upgrade" /\ web.type \in Partitions THEN Written(web.type, n) ELSE flash
  /\ hs' = [c \in Conns |-> Idle]
  /\ web' = WebInit
  /\ ram' = Blank
  /\ cache' = NoHeader
  /\ pc' = "serve"
  /\ g' = HistoryInit

Client(c) ==
  \/ Syn(c) \/ Connected(c) \/ Rst(c) \/ Fin(c) \/ FinAcked(c)
  \/ Get(c) \/ BadRequest(c)
  \/ \E s \in BOOLEAN : PostRootfsReset(c, s)
  \/ \E i \in Images, n \in Names, d \in BOOLEAN : PostUpload(c, i, n, d)
  \/ UploadFirst(c) \/ UploadMore(c) \/ UploadLast(c)
  \/ PageAcked(c) \/ DataDuringPage(c)

Loop ==
  \/ \E e, f \in SUBSET Conns : HttpdHandler(e, f)
  \/ CtrlC \/ Relaunch \/ StartUpgrade \/ UpgradeDone
  \/ \E n \in 0..Chunks : UpgradeFailed(n)
  \/ \E n \in 0..Chunks : PowerCycle(n)

Next == (\E c \in Conns : Client(c)) \/ Loop

Spec == Init /\ [][Next]_vars
-----------------------------------------------------------------------------
(* Properties. *)

\* Every variable stays in its type; the counters of the history are naturals.
TypeOK ==
  /\ hs \in [Conns -> Conn]
  /\ web \in Web
  /\ ram \in [Places -> Cells]
  /\ cache \in Headers \cup {NoHeader}
  /\ flash \in [Partitions -> [Places -> Cells]]
  /\ pc \in {"serve", "prompt", "upgrade", "reset"}
  /\ g \in History

\* Upgrades the statics still owe: one that is ready, one waiting for its page's ACK.
Owed ==
  (IF web.ready /\ Serve THEN 1 ELSE 0)
    + (IF web.post_done /\ ~web.upload_failed THEN 1 ELSE 0)

\* No upgrade runs, or is owed, that an accepted POST of its own did not ask for:
\* the one-shot flags post_done, upload_failed and ready_for_upgrade, set and
\* cleared by the packets of any connection, never turn one accepted upload
\* (or a refused one) into a second upgrade.
UpgradesAreGranted == g.starts + Owed <= g.grants

\* An upgrade is owed or running.
Pending == web.ready \/ (web.post_done /\ ~web.upload_failed)

\* As long as no other POST activity, restart or CTRL+C came after an accepted
\* upload, what do_http_upgrade will write is what was accepted: the same type,
\* the same buffer content, a base that is set and the full length, whatever
\* other connections connect, GET, reset, time out or are polled meanwhile.
QuietUpgradeIsExact ==
  g.clean /\ Pending =>
    /\ web.type = g.type
    /\ g.type # "rootfs" => web.base /\ ram = g.data /\ web.xfer = Chunks

\* ... and once the board resets itself after it, the partition holds exactly that.
WrittenIsAccepted ==
  pc = "reset" /\ g.clean /\ g.type \in Partitions => flash[g.type] = g.data

\* What has come of the uploads on all connections: there is one store pointer for
\* them, so it is bounded by their sum.
Sent == {s \in Conns \X Places : s[2] <= hs[s[1]].got}
Stored == Cardinality(Sent)

\* While a connection can append to the buffer, the shared store pointer has not
\* moved past what the uploads in progress have sent (it neither runs on after an
\* upload that ended, nor starts anywhere but at the base).
StoreStaysBounded ==
  web.data_start /\ (\E c \in Conns : Uploading(c)) => web.ptr \in 1..Stored

\* "1 - verify (enforced)" (cmd_bootm.c:138): an upload that is accepted as a kernel
\* image passes its data CRC.
AcceptedKernelIsSound ==
  g.clean /\ g.type \in KernelKinds => FullCheck(g.data)

\* What the header cache of verify_kernel_image leaves of that, whatever two
\* connections mix in the buffer: an accepted kernel image passes its data CRC, or
\* has the header of the kernel that last did, with no refused one between.
AcceptedKernelWasChecked ==
  g.clean /\ g.type \in KernelKinds =>
    FullCheck(g.data) \/ HeaderIn(g.data).header = g.passed
=============================================================================
