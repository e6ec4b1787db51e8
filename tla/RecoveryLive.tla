---------------------------- MODULE RecoveryLive ----------------------------
(* One user, one upload on one connection, on a link that loses nothing; the   *)
(* browser fetches what the answer refers to on another one.  Nobody presses   *)
(* CTRL+C, and the board is reset only by itself.                              *)
EXTENDS RecoveryMC

Quiet == \A c \in Conns : hs[c].state # "upload"

\* The upload of an image under the input name of its kind.
Upload ==
  \E c \in Conns :
    \/ Quiet /\ (Syn(c) \/ Connected(c) \/ Get(c))
    \/ g.grants = 0 /\ Quiet /\ \E i \in Images, d \in BOOLEAN : PostUpload(c, i, i.kind, d)
    \/ UploadFirst(c) \/ UploadMore(c) \/ UploadLast(c)

\* The client acknowledges every page, closes when the server does.
Answer ==
  \E c \in Conns : PageAcked(c) \/ FinAcked(c) \/ (Quiet /\ hs[c].tcp = "fin_wait" /\ Fin(c))

Reset == pc = "reset" /\ PowerCycle(0)

PoliteNext == Upload \/ Answer \/ StartUpgrade \/ UpgradeDone \/ Reset

\* The client answers every segment, and the loop of NetLoopHttpd never ends.
PoliteSpec ==
  /\ Init /\ [][PoliteNext]_vars
  /\ WF_vars(\E c \in Conns : UploadFirst(c) \/ UploadMore(c) \/ UploadLast(c))
  /\ \A c \in Conns : WF_vars(PageAcked(c))
  /\ WF_vars(StartUpgrade) /\ WF_vars(UpgradeDone)

\* The same with the end of the multipart body in a segment of its own.
Trailer == \E c \in Conns : hs[c].page = "flashing" /\ DataDuringPage(c)

TrailerSpec ==
  /\ Init /\ [][PoliteNext \/ Trailer]_vars
  /\ WF_vars(\E c \in Conns : UploadFirst(c) \/ UploadMore(c) \/ UploadLast(c))
  /\ \A c \in Conns : WF_vars(PageAcked(c))
  /\ WF_vars(StartUpgrade) /\ WF_vars(UpgradeDone)

\* The flashing page says "Update is in progress and you should wait for automatic
\* reset of the device": once it is being sent, the board does reset.
FlashingPageIsTrue ==
  (\E c \in Conns : hs[c].page = "flashing") ~> pc = "reset"
=============================================================================
