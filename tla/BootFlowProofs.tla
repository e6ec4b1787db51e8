---------------------------- MODULE BootFlowProofs ----------------------------
(***************************************************************************)
(* Proofs about BootFlow, for any files, keys and times: what is started   *)
(* is whole, a press of the button does what its samples say, a load over  *)
(* the serial line is exact, all counters and images stay in range, and    *)
(* the kernel in flash stays whole.                                        *)
(***************************************************************************)
EXTENDS BootFlow, KermitProofs

-----------------------------------------------------------------------------
(***************************************************************************)
(* What the recovery server does: the board is started again, or the       *)
(* server goes on or starts an initramfs, and nothing else has changed     *)
(* but the flash.                                                          *)
(***************************************************************************)
LEMMA Recovered ==
  ASSUME Recovers
  PROVE  /\ pc = "recovery" /\ DOMAIN nor' = DOMAIN nor
         /\ \/ \E flash : StartFrom(flash) /\ nor' = flash
            \/ pc' \in {"recovery", "initramfs"} /\ UNCHANGED <<key, size, checked, buttonVars, kermitVars>>
<1>1. CASE RecoveryWrites
  BY <1>1 DEF RecoveryWrites, StartFrom
<1>2. CASE RecoveryFails
  BY <1>2 DEF RecoveryFails, StartFrom
<1>3. CASE RecoveryErases
  BY <1>3 DEF RecoveryErases, StartFrom
<1>4. CASE RecoveryStarts
  BY <1>4 DEF RecoveryStarts
<1> QED BY <1>1, <1>2, <1>3, <1>4 DEF Recovers

-----------------------------------------------------------------------------
(***************************************************************************)
(* What verify_kernel_image remembers.  The header of the kernel in flash  *)
(* is only remembered on the way to Linux, so no check of it is skipped;   *)
(* and until a load is started by choice 1, nothing was checked at all.    *)
(***************************************************************************)
CheckInv ==
  /\ pc \in {"delay", "press", "again", "chosen", "boot"} => checked = NoCheck
  /\ pc = "tftp" /\ key = "1" => checked = NoCheck
  /\ pc # "linux" => checked[1] # "flash"
  /\ BootsWhole

LEMMA StartForgets ==
  ASSUME NEW flash, StartFrom(flash)
  PROVE  CheckInv'
BY DEF StartFrom, CheckInv, BootsWhole, NoCheck

LEMMA ResetForgets ==
  ASSUME perform_system_reset
  PROVE  CheckInv'
BY StartForgets DEF perform_system_reset

LEMMA RememberedPlace ==
  ASSUME NEW at, NEW mem
  PROVE  /\ Remembered(at, mem)[1] \in {at, "none"}
         /\ at = "ram" => Remembered(at, mem)[1] # "flash"
BY DEF Remembered, NoCheck

LEMMA UnseenIsWhole ==
  ASSUME NEW at, NEW mem, verify_kernel_image(at, mem), checked[1] # at
  PROVE  IsWhole(mem, Kernels)
BY DEF verify_kernel_image

LEMMA CheckInit == Init => CheckInv
BY DEF Init, CheckInv, BootsWhole, NoCheck

LEMMA CheckStep == CheckInv /\ [Next]_vars => CheckInv'
<1> SUFFICES ASSUME CheckInv, [Next]_vars PROVE CheckInv'
  OBVIOUS
<1> USE DEF CheckInv, BootsWhole
<1>1. CASE ButtonUp
  BY <1>1 DEF ButtonUp, bootVars
<1>2. CASE DelayOver
  BY <1>2 DEF DelayOver, Goto
<1>3. CASE Sample
  BY <1>3 DEF Sample, NextSample
<1>4. CASE CountEnds
  BY <1>4 DEF CountEnds, StartCount
<1>5. CASE SampleAgain
  BY <1>5 DEF SampleAgain, Goto, NextSample
<1>6. CASE ButtonRecovery
  BY <1>6 DEF ButtonRecovery, NoCheck
<1>7. CASE ButtonReset
  BY <1>7, StartForgets DEF ButtonReset
<1>8. CASE BootFlash
  <2>1. IsWhole(nor.kernel, Kernels)
    BY <1>8, UnseenIsWhole DEF BootFlash, NoButton
  <2> QED BY <1>8, <2>1 DEF BootFlash, Start
<1>9. CASE RecoverWhenBad
  BY <1>9 DEF RecoverWhenBad, NoCheck
<1>10. CASE Choose
  BY <1>10, ResetForgets DEF Choose, NoButton, NoCheck
<1>11. CASE TftpEnds
  BY <1>11 DEF TftpEnds, Arrives, FlashNext
<1>12. CASE TftpForBoot
  BY <1>12 DEF TftpForBoot, Arrives
<1>13. CASE TftpGivesUp
  BY <1>13, ResetForgets DEF TftpGivesUp
<1>14. CASE BootRam
  <2>1. CASE verify_kernel_image("ram", ram)
    <3>1. IsWhole(ram, Kernels)
      BY <1>14, <2>1, UnseenIsWhole DEF BootRam, NoCheck
    <3> QED BY <1>14, <2>1, <3>1 DEF BootRam, Start
  <2> QED BY <1>14, <2>1, ResetForgets DEF BootRam
<1>15. CASE SerialEnds
  BY <1>15 DEF SerialEnds, FlashNext
<1>16. CASE UsbLoads
  BY <1>16 DEF UsbLoads, Arrives
<1>17. CASE UsbFails
  BY <1>17, ResetForgets DEF UsbFails, FlashFails
<1>18. CASE CheckBoot
  BY <1>18 DEF CheckBoot, Goto
<1>19. CASE CheckKernel
  <2>1. CASE ~AcceptKernel /\ ResetInstead
    BY <1>19, <2>1, ResetForgets DEF CheckKernel
  <2>2. CASE ~(~AcceptKernel /\ ResetInstead)
    <3>1. checked'[1] # "flash"
      BY <1>19, <2>2, RememberedPlace DEF CheckKernel
    <3>2. pc' \in {"write", "recovery", "confirm"}
      BY <1>19, <2>2 DEF CheckKernel, FlashFails
    <3> QED BY <3>1, <3>2
  <2> QED BY <2>1, <2>2
<1>20. CASE WriteSucceeds
  BY <1>20, StartForgets DEF WriteSucceeds
<1>21. CASE WriteFails
  BY <1>21, StartForgets DEF WriteFails, FlashFails
<1>22. CASE BootNew
  <2>1. CASE verify_kernel_image("flash", nor.kernel)
    <3>1. IsWhole(nor.kernel, Kernels)
      BY <1>22, <2>1, UnseenIsWhole DEF BootNew
    <3> QED BY <1>22, <2>1, <3>1 DEF BootNew, Start
  <2> QED BY <1>22, <2>1, ResetForgets DEF BootNew
<1>23. CASE KeyPressed
  BY <1>23 DEF KeyPressed
<1>24. CASE ButtonDown
  BY <1>24 DEF ButtonDown, StartCount
<1>25. CASE Confirm
  BY <1>25 DEF Confirm, Goto
<1>26. CASE Decline
  BY <1>26, ResetForgets DEF Decline
<1>27. CASE SerialStep
  BY <1>27 DEF SerialStep, bootVars
<1>28. CASE Recovers
  BY <1>28, Recovered, StartForgets
<1>29. CASE LinuxRuns
  BY <1>29 DEF LinuxRuns
<1>30. CASE PowerCycle
  BY <1>30, ResetForgets DEF PowerCycle
<1>31. CASE UNCHANGED vars
  BY <1>31 DEF vars, bootVars
<1> QED
  BY <1>1, <1>2, <1>3, <1>4, <1>5, <1>6, <1>7, <1>8, <1>9, <1>10, <1>11, <1>12, <1>13, <1>14, <1>15,
     <1>16, <1>17, <1>18, <1>19, <1>20, <1>21, <1>22, <1>23, <1>24, <1>25, <1>26, <1>27, <1>28, <1>29,
     <1>30, <1>31 DEF Next, Program, TftpReturns

(***************************************************************************)
(* do_bootm only starts a whole kernel: the check it skips for a header it *)
(* remembers was of memory, where the kernel of choice 1 is loaded before  *)
(* anything was checked, or led to Linux.                                  *)
(***************************************************************************)
THEOREM StartsWhole == Spec => []BootsWhole
<1>1. CheckInv => BootsWhole
  BY DEF CheckInv
<1> QED BY <1>1, CheckInit, CheckStep, PTL DEF Spec

-----------------------------------------------------------------------------
(***************************************************************************)
(* The first count.  Before the sample taken last is counted, t1 stands    *)
(* for the samples up to the last one that was down, t0 for the u of them  *)
(* after it; u is at most two, or the count would be over.                 *)
(***************************************************************************)
Counting(p, s, u) ==
  /\ p.turn = Len(s) /\ p.t0 = u * INT_DIV /\ p.t1 = (Len(s) - u) * INT_DIV
  /\ Len(s) = 0 => u = 0
  /\ Len(s) > 0 => u < Len(s) /\ s[1] /\ s[Len(s) - u]
  /\ \A j \in 1 .. Len(s) : j > Len(s) - u => ~s[j]
  /\ \A i \in 1 .. Len(s) - 2 : \E j \in i .. i + 2 : s[j]

(***************************************************************************)
(* What the first count comes to, once it is over.                         *)
(***************************************************************************)
CountIsTrue ==
  /\ wps \in 0 .. Long
  /\ wps = 0 <=> ~Lasted
  /\ wps = Long <=> HeldThroughout

PressInv ==
  /\ seen.counts \in {0, 1, 2} /\ {"counts", "samples"} \subseteq DOMAIN seen
  /\ seen.samples \in Seq(BOOLEAN)
  /\ press \in [t0 : Nat, t1 : Nat, turn : Nat, down : BOOLEAN]
  /\ "settings" \in DOMAIN nor
  /\ seen.counts = 0 => seen = Unseen /\ wps = 0 /\ pc \notin {"press", "again"}
  /\ seen.counts = 1 /\ pc = "press" =>
       /\ wps = 0 /\ press.turn < Long \div INT_DIV
       /\ \E u \in 0 .. 2 : Counting(press, seen.samples, u)
  /\ seen.counts = 1 /\ pc # "press" => CountIsTrue

-----------------------------------------------------------------------------
(***************************************************************************)
(* Multiples of INT_DIV.                                                   *)
(***************************************************************************)
LEMMA Rest ==
  /\ Long \div INT_DIV \in Nat /\ Long \div INT_DIV >= 2
  /\ Long % INT_DIV \in 0 .. INT_DIV - 1
  /\ Long = (Long \div INT_DIV) * INT_DIV + (Long % INT_DIV)
<1>1. /\ Long \div INT_DIV \in Nat /\ Long % INT_DIV \in 0 .. INT_DIV - 1
      /\ Long = INT_DIV * (Long \div INT_DIV) + (Long % INT_DIV)
  BY ButtonAssumption, Z3
<1> DEFINE q == Long \div INT_DIV
           r == Long % INT_DIV
<1>2. q \in Nat /\ r \in Nat /\ r < INT_DIV /\ Long = INT_DIV * q + r
  BY <1>1, ButtonAssumption
<1> HIDE DEF q, r
<1>3. q >= 2
  <2> SUFFICES ASSUME q <= 1 PROVE FALSE
    BY <1>2
  <2>1. q = 0 \/ q = 1
    BY <1>2
  <2> QED BY <1>2, <2>1, ButtonAssumption
<1>4. INT_DIV * q = q * INT_DIV
  BY <1>2, ButtonAssumption
<1> QED BY <1>1, <1>2, <1>3, <1>4 DEF q, r

LEMMA Times ==
  ASSUME NEW a \in Nat, NEW b \in Nat
  PROVE  /\ a * INT_DIV \in Nat
         /\ (a + 1) * INT_DIV = a * INT_DIV + INT_DIV
         /\ a < b => a * INT_DIV + INT_DIV <= b * INT_DIV
         /\ a * INT_DIV < 2 * INT_DIV <=> a < 2
<1>1. a * INT_DIV \in Nat /\ b * INT_DIV \in Nat /\ (a + 1) * INT_DIV = a * INT_DIV + INT_DIV
  BY ButtonAssumption
<1>2. ASSUME NEW x \in Nat, NEW y \in Nat, x < y PROVE x * INT_DIV + INT_DIV <= y * INT_DIV
  <2> DEFINE d == y - (x + 1)
  <2>1. d \in Nat /\ y = (x + 1) + d
    BY <1>2
  <2> HIDE DEF d
  <2>2. d * INT_DIV \in Nat
    BY <2>1, ButtonAssumption
  <2>3. y * INT_DIV = x * INT_DIV + INT_DIV + d * INT_DIV
    BY <1>2, <2>1, ButtonAssumption
  <2> QED BY <1>2, <2>2, <2>3, ButtonAssumption
<1>3. a < 2 => a * INT_DIV < 2 * INT_DIV
  BY <1>2, ButtonAssumption
<1>4. ~(a < 2) => ~(a * INT_DIV < 2 * INT_DIV)
  BY <1>2, ButtonAssumption
<1> QED BY <1>1, <1>2, <1>3, <1>4

-----------------------------------------------------------------------------
(***************************************************************************)
(* One turn of count_button_press.                                         *)
(***************************************************************************)
IsPress(p) == p \in [t0 : Nat, t1 : Nat, turn : Nat, down : BOOLEAN]

LEMMA TurnedIs ==
  ASSUME IsPress(press), NEW s \in Seq(BOOLEAN), NEW u \in 0 .. 2, Counting(press, s, u)
  PROVE  /\ Len(s) - u \in Nat
         /\ press.down =>
              Turned = [t0 |-> 0, t1 |-> (Len(s) + 1) * INT_DIV, turn |-> Len(s) + 1, down |-> TRUE]
         /\ ~press.down =>
              Turned = [t0 |-> (u + 1) * INT_DIV, t1 |-> (Len(s) - u) * INT_DIV,
                        turn |-> Len(s) + 1, down |-> FALSE]
<1> DEFINE m == Len(s) - u
<1>1. Len(s) \in Nat /\ m \in Nat /\ Len(s) = m + u
  BY DEF Counting
<1>2. /\ press.turn = Len(s) /\ press.t0 = u * INT_DIV /\ press.t1 = m * INT_DIV
      /\ press = [t0 |-> press.t0, t1 |-> press.t1, turn |-> press.turn, down |-> press.down]
      /\ press.down \in BOOLEAN
  BY DEF Counting, IsPress
<1> HIDE DEF m
<1>3. u * INT_DIV \in Nat /\ m * INT_DIV \in Nat /\ u * INT_DIV <= jitter
  <2>1. u = 0 \/ u = 1 \/ u = 2
    OBVIOUS
  <2> QED BY <1>1, <2>1, Times, ButtonAssumption DEF jitter
<1>4. /\ (Len(s) + 1) * INT_DIV = m * INT_DIV + u * INT_DIV + INT_DIV
      /\ (u + 1) * INT_DIV = u * INT_DIV + INT_DIV
  BY <1>1, ButtonAssumption
<1>5. ASSUME press.down
      PROVE  Turned = [t0 |-> 0, t1 |-> (Len(s) + 1) * INT_DIV, turn |-> Len(s) + 1, down |-> TRUE]
  <2> DEFINE U == u * INT_DIV
             M == m * INT_DIV
             W == (Len(s) + 1) * INT_DIV
  <2>0. /\ U \in Nat /\ M \in Nat /\ INT_DIV \in Nat /\ U <= jitter /\ W = M + U + INT_DIV
        /\ press.t0 = U /\ press.t1 = M
    BY <1>2, <1>3, <1>4, ButtonAssumption
  <2> HIDE DEF U, M, W
  <2>1. press.t0 + 0 <= jitter /\ press.t1 + INT_DIV + (press.t0 + 0) = W
    BY <2>0 DEF jitter
  <2>2. press.down = TRUE
    BY <1>2, <1>5
  <2>3. Turned = [press EXCEPT !.t0 = 0, !.t1 = press.t1 + INT_DIV + (press.t0 + 0), !.turn = @ + 1]
    BY <2>1, <2>2 DEF Turned
  <2> QED BY <1>2, <2>1, <2>2, <2>3 DEF W
<1>6. ASSUME ~press.down
      PROVE  Turned = [t0 |-> (u + 1) * INT_DIV, t1 |-> m * INT_DIV, turn |-> Len(s) + 1, down |-> FALSE]
  <2>1. press.t1 + 0 = m * INT_DIV /\ press.t0 + INT_DIV = (u + 1) * INT_DIV
    BY <1>1, <1>2, <1>3, <1>4, ButtonAssumption
  <2>2. press.down = FALSE
    BY <1>2, <1>6
  <2>3. Turned = [press EXCEPT !.t0 = press.t0 + INT_DIV, !.t1 = press.t1 + 0, !.turn = @ + 1]
    BY <2>2 DEF Turned
  <2> QED BY <1>2, <2>1, <2>2, <2>3
<1> QED BY <1>1, <1>5, <1>6 DEF m

(***************************************************************************)
(* A sample more: down, it ends the samples that were up; up, it is one of *)
(* them.                                                                   *)
(***************************************************************************)
LEMMA DownCounts ==
  ASSUME NEW s \in Seq(BOOLEAN), NEW p, NEW u \in 0 .. 2, Counting(p, s, u), NEW q,
         q.turn = Len(s) + 1, q.t0 = 0, q.t1 = (Len(s) + 1) * INT_DIV
  PROVE  Counting(q, Append(s, TRUE), 0)
<1> DEFINE t == Append(s, TRUE)
           c == Len(s)
<1>1. /\ t \in Seq(BOOLEAN) /\ Len(t) = c + 1 /\ c \in Nat /\ t[c + 1] = TRUE
      /\ \A i \in 1 .. c : t[i] = s[i]
  OBVIOUS
<1> HIDE DEF t
<1>2. t[1] /\ t[Len(t) - 0]
  BY <1>1 DEF Counting
<1>3. \A i \in 1 .. Len(t) - 2 : \E j \in i .. i + 2 : t[j]
  <2> SUFFICES ASSUME NEW i \in 1 .. c - 1 PROVE \E j \in i .. i + 2 : t[j]
    BY <1>1
  <2>1. CASE i = c - 1
    BY <1>1, <2>1
  <2>2. CASE i # c - 1
    <3>0. i \in 1 .. Len(s) - 2
      BY <1>1, <2>2
    <3>1. PICK j \in i .. i + 2 : s[j]
      BY <3>0 DEF Counting
    <3>2. j \in 1 .. c
      BY <1>1, <2>2
    <3> QED BY <1>1, <3>1, <3>2
  <2> QED BY <2>1, <2>2
<1>4. (Len(t) - 0) * INT_DIV = (c + 1) * INT_DIV /\ 0 * INT_DIV = 0
  BY <1>1, ButtonAssumption
<1> QED BY <1>1, <1>2, <1>3, <1>4 DEF Counting, t

LEMMA UpCounts ==
  ASSUME NEW s \in Seq(BOOLEAN), NEW p, NEW u \in 0 .. 1, Counting(p, s, u), Len(s) > 0, NEW q,
         q.turn = Len(s) + 1, q.t0 = (u + 1) * INT_DIV, q.t1 = (Len(s) - u) * INT_DIV
  PROVE  Counting(q, Append(s, FALSE), u + 1)
<1> DEFINE t == Append(s, FALSE)
           c == Len(s)
           v == u + 1
<1>1. /\ t \in Seq(BOOLEAN) /\ Len(t) = c + 1 /\ c \in Nat /\ t[c + 1] = FALSE
      /\ \A i \in 1 .. c : t[i] = s[i]
  OBVIOUS
<1> HIDE DEF t
<1>2. v < Len(t) /\ t[1] /\ t[Len(t) - v] /\ Len(t) - v = c - u
  BY <1>1 DEF Counting
<1>3. \A i \in 1 .. Len(t) - 2 : \E j \in i .. i + 2 : t[j]
  <2> SUFFICES ASSUME NEW i \in 1 .. c - 1 PROVE \E j \in i .. i + 2 : t[j]
    BY <1>1
  <2>1. CASE i = c - 1
    <3>1. c - u \in i .. i + 2 /\ c - u \in 1 .. c /\ s[c - u]
      BY <1>1, <2>1 DEF Counting
    <3> QED BY <1>1, <3>1
  <2>2. CASE i # c - 1
    <3>0. i \in 1 .. Len(s) - 2
      BY <1>1, <2>2
    <3>1. PICK j \in i .. i + 2 : s[j]
      BY <3>0 DEF Counting
    <3>2. j \in 1 .. c
      BY <1>1, <2>2
    <3> QED BY <1>1, <3>1, <3>2
  <2> QED BY <2>1, <2>2
<1>4. \A j \in 1 .. Len(t) : j > Len(t) - v => ~t[j]
  BY <1>1, <1>2 DEF Counting
<1>5. (Len(t) - v) * INT_DIV = (c - u) * INT_DIV
  BY <1>2
<1> QED BY <1>1, <1>2, <1>3, <1>4, <1>5 DEF Counting, t

-----------------------------------------------------------------------------
(***************************************************************************)
(* The count goes on.                                                      *)
(***************************************************************************)
LEMMA CountGoesOn ==
  ASSUME PressInv, seen.counts = 1, pc = "press", Sample
  PROVE  PressInv'
<1> DEFINE s == seen.samples
           L == Long \div INT_DIV
<1>1. PICK u \in 0 .. 2 : Counting(press, s, u)
  BY DEF PressInv
<1>2. PICK d \in BOOLEAN : press' = [Turned EXCEPT !.down = d]
  BY DEF Sample, NextSample
<1>3. /\ IsPress(press) /\ s \in Seq(BOOLEAN) /\ Len(s) \in Nat /\ L \in Nat
      /\ press.turn = Len(s) /\ Len(s) < L /\ press.down \in BOOLEAN
  BY <1>1, Rest DEF PressInv, IsPress, Counting
<1>4. /\ seen' = [seen EXCEPT !.samples = Append(s, press.down)]
      /\ pc' = "press" /\ wps' = 0 /\ nor' = nor
      /\ ~Released(Turned) /\ Turned.turn # L
  BY DEF Sample, NextSample, Look, CountOver, PressInv
<1>5. /\ seen'.counts = 1 /\ {"counts", "samples"} \subseteq DOMAIN seen'
      /\ seen'.samples = Append(s, press.down) /\ seen'.samples \in Seq(BOOLEAN)
  BY <1>3, <1>4 DEF PressInv
<1> HIDE DEF s, L
<1>6. CASE press.down
  <2>1. Turned = [t0 |-> 0, t1 |-> (Len(s) + 1) * INT_DIV, turn |-> Len(s) + 1, down |-> TRUE]
    BY <1>1, <1>3, <1>6, TurnedIs
  <2>2. (Len(s) + 1) * INT_DIV \in Nat
    BY <1>3, ButtonAssumption
  <2>3. /\ press'.t0 = 0 /\ press'.t1 = (Len(s) + 1) * INT_DIV /\ press'.turn = Len(s) + 1
        /\ IsPress(press')
    BY <1>2, <1>3, <2>1, <2>2 DEF IsPress
  <2>4. press.down = TRUE
    BY <1>3, <1>6
  <2>5. Counting(press', Append(s, TRUE), 0)
    BY <1>1, <1>3, <2>3, DownCounts
  <2>6. press'.turn < L
    BY <1>3, <1>4, <2>1, <2>3
  <2>7. seen'.samples = Append(s, TRUE)
    BY <1>5, <2>4
  <2>8. 0 \in 0 .. 2
    OBVIOUS
  <2>9. \E v \in 0 .. 2 : Counting(press', seen'.samples, v)
    BY <2>5, <2>7, <2>8, Zenon
  <2> QED BY <1>4, <1>5, <2>3, <2>6, <2>9 DEF PressInv, IsPress, L
<1>7. CASE ~press.down
  <2>1. /\ Turned = [t0 |-> (u + 1) * INT_DIV, t1 |-> (Len(s) - u) * INT_DIV,
                     turn |-> Len(s) + 1, down |-> FALSE]
        /\ Len(s) - u \in Nat
    BY <1>1, <1>3, <1>7, TurnedIs
  <2>2. (Len(s) - u) * INT_DIV \in Nat /\ (u + 1) * INT_DIV \in Nat
    BY <2>1, ButtonAssumption
  <2>3. /\ press'.t0 = (u + 1) * INT_DIV /\ press'.t1 = (Len(s) - u) * INT_DIV
        /\ press'.turn = Len(s) + 1 /\ IsPress(press')
    BY <1>2, <1>3, <2>1, <2>2 DEF IsPress
  <2>4. (u + 1) * INT_DIV <= jitter /\ (Len(s) - u) * INT_DIV # 0
    BY <1>4, <2>1, <2>2, ButtonAssumption DEF Released, jitter
  <2>5. u \in 0 .. 1
    <3>1. u # 2
      BY <2>4, ButtonAssumption DEF jitter
    <3> QED BY <3>1
  <2>6. Len(s) > 0
    <3>1. Len(s) = 0 => (Len(s) - u) * INT_DIV = 0
      BY <1>1, ButtonAssumption DEF Counting
    <3> QED BY <1>3, <2>4, <3>1
  <2>7. press.down = FALSE
    BY <1>3, <1>7
  <2>8. Counting(press', Append(s, FALSE), u + 1)
    BY <1>1, <1>3, <2>3, <2>5, <2>6, UpCounts
  <2>9. press'.turn < L
    BY <1>3, <1>4, <2>1, <2>3
  <2>10. u + 1 \in 0 .. 2
    BY <2>5
  <2>11. \E v \in 0 .. 2 : Counting(press', seen'.samples, v)
    BY <1>5, <2>7, <2>8, <2>10
  <2> QED BY <1>4, <1>5, <2>3, <2>9, <2>11 DEF PressInv, IsPress, L
<1> QED BY <1>3, <1>6, <1>7

(***************************************************************************)
(* The count is over at a sample that was down: it was held throughout.    *)
(***************************************************************************)
LEMMA HeldIsLong ==
  ASSUME NEW s \in Seq(BOOLEAN), NEW p, NEW u \in 0 .. 2, Counting(p, s, u),
         Len(s) + 1 = Long \div INT_DIV,
         wps' = Long, seen'.samples = Append(s, TRUE)
  PROVE  CountIsTrue'
<1> DEFINE t == Append(s, TRUE)
           c == Len(s)
           q == [turn |-> c + 1, t0 |-> 0, t1 |-> (c + 1) * INT_DIV]
<1>1. /\ t \in Seq(BOOLEAN) /\ Len(t) = c + 1 /\ c \in Nat /\ t[c + 1] = TRUE
      /\ c >= 1
  BY Rest
<1>2. Counting(q, t, 0)
  BY DownCounts
<1> HIDE DEF t
<1>3. /\ t[1] /\ t[Len(t)]
      /\ \A i \in 1 .. Len(t) - 2 : \E j \in i .. i + 2 : t[j]
  BY <1>1, <1>2 DEF Counting
<1>4. seen'.samples = t /\ DOMAIN t = 1 .. c + 1
  BY <1>1 DEF t
<1>5. Lasted'
  BY <1>1, <1>3, <1>4 DEF Lasted
<1>6. HeldThroughout'
  BY <1>1, <1>3, <1>4 DEF HeldThroughout
<1>7. wps' \in 0 .. Long /\ wps' # 0
  BY ButtonAssumption
<1> QED BY <1>5, <1>6, <1>7 DEF CountIsTrue

LEMMA ShortSum ==
  ASSUME NEW a \in Nat, NEW b \in Nat, NEW r \in Nat, NEW d \in Nat \ {0},
         Long = b + r, a + d <= b, ~(a < 2 * d)
  PROVE  a + r \in 0 .. Long /\ a + r # 0 /\ a + r # Long
OBVIOUS

(***************************************************************************)
(* It is over at a sample that was up: it was held for as long as t1 says, *)
(* and not throughout.                                                     *)
(***************************************************************************)
LEMMA LetGoIsShort ==
  ASSUME NEW s \in Seq(BOOLEAN), NEW p, NEW u \in 0 .. 2, Counting(p, s, u),
         Len(s) < Long \div INT_DIV, seen'.samples = Append(s, FALSE),
         wps' = IF (Len(s) - u) * INT_DIV < 2 * INT_DIV THEN 0
                ELSE (Len(s) - u) * INT_DIV + (Long % INT_DIV)
  PROVE  CountIsTrue'
<1> DEFINE t == Append(s, FALSE)
           c == Len(s)
           m == c - u
           M == m * INT_DIV
           L == Long \div INT_DIV
           P == L * INT_DIV
           r == Long % INT_DIV
<1>1. /\ t \in Seq(BOOLEAN) /\ Len(t) = c + 1 /\ c \in Nat /\ t[c + 1] = FALSE
      /\ \A i \in 1 .. c : t[i] = s[i]
  OBVIOUS
<1>2. m \in Nat /\ m <= c
  BY DEF Counting
<1>3. seen'.samples = t /\ DOMAIN t = 1 .. c + 1
  BY <1>1
<1> HIDE DEF t
<1>4. ~HeldThroughout'
  BY <1>1, <1>3 DEF HeldThroughout
<1>5. CASE m < 2
  <2>1. wps' = 0
    BY <1>2, <1>5, Times
  <2>2. \A i \in 1 .. c + 1 : t[i] => i = 1
    <3> SUFFICES ASSUME NEW i \in 1 .. c + 1, i # 1 PROVE ~t[i]
      OBVIOUS
    <3>1. CASE i = c + 1
      BY <1>1, <3>1
    <3>2. CASE i # c + 1
      <4>1. i \in 1 .. Len(s) /\ i > Len(s) - u
        BY <1>1, <1>2, <1>5, <3>2
      <4> QED BY <1>1, <4>1 DEF Counting
    <3> QED BY <3>1, <3>2
  <2>3. ~Lasted'
    BY <1>3, <2>2 DEF Lasted
  <2> QED BY <1>4, <2>1, <2>3, ButtonAssumption DEF CountIsTrue
<1>6. CASE ~(m < 2)
  <2>1. m # 1 /\ 1 \in 1 .. c + 1 /\ m \in 1 .. c + 1 /\ s[1] /\ s[m] /\ 1 \in 1 .. c /\ m \in 1 .. c
    BY <1>1, <1>2, <1>6 DEF Counting
  <2>2. Lasted'
    BY <1>1, <1>3, <2>1 DEF Lasted
  <2>3. L \in Nat /\ r \in Nat /\ Long = P + r /\ m < L
    BY <1>1, <1>2, Rest
  <2>4. M \in Nat /\ M + INT_DIV <= P /\ ~(M < 2 * INT_DIV)
    BY <1>2, <1>6, <2>3, Times
  <2>5. P \in Nat
    BY <2>3, ButtonAssumption
  <2>6. wps' = M + r
    BY <2>4
  <2> HIDE DEF M, P, r, m, L
  <2>7. wps' \in 0 .. Long /\ wps' # 0 /\ wps' # Long
    BY <2>3, <2>4, <2>5, <2>6, ButtonAssumption, ShortSum
  <2> QED BY <1>4, <2>2, <2>7 DEF CountIsTrue
<1> QED BY <1>5, <1>6

LEMMA CountIsOver ==
  ASSUME PressInv, seen.counts = 1, pc = "press", CountEnds
  PROVE  CountIsTrue'
<1> DEFINE s == seen.samples
           L == Long \div INT_DIV
           r == Long % INT_DIV
<1>1. PICK u \in 0 .. 2 : Counting(press, s, u)
  BY DEF PressInv
<1>2. /\ IsPress(press) /\ s \in Seq(BOOLEAN) /\ Len(s) \in Nat /\ L \in Nat /\ r \in Nat
      /\ press.turn = Len(s) /\ Len(s) < L /\ press.down \in BOOLEAN /\ Long = L * INT_DIV + r
      /\ L >= 2
  BY <1>1, Rest DEF PressInv, IsPress, Counting
<1>3. /\ wps' = wps + PressTime(Long) /\ wps = 0
      /\ seen'.samples = Append(s, press.down)
      /\ Released(Turned) \/ Turned.turn = L
  BY DEF CountEnds, Look, CountOver, PressInv
<1> HIDE DEF s, L, r
<1>4. CASE press.down
  <2>1. Turned = [t0 |-> 0, t1 |-> (Len(s) + 1) * INT_DIV, turn |-> Len(s) + 1, down |-> TRUE]
    BY <1>1, <1>2, <1>4, TurnedIs
  <2>2. Len(s) + 1 = L
    BY <1>2, <1>3, <2>1 DEF Released
  <2>3. ~(L * INT_DIV < 2 * INT_DIV) /\ L * INT_DIV \in Nat
    BY <1>2, Times
  <2>4. PressTime(Long) = L * INT_DIV + r
    BY <2>1, <2>2, <2>3 DEF PressTime, jitter, r
  <2>5. wps' = Long
    BY <1>2, <1>3, <2>4, ButtonAssumption
  <2>6. press.down = TRUE
    BY <1>2, <1>4
  <2>7. seen'.samples = Append(s, TRUE)
    BY <1>3, <2>6
  <2> QED BY <1>1, <1>2, <2>2, <2>5, <2>7, HeldIsLong DEF L
<1>5. CASE ~press.down
  <2> DEFINE M == (Len(s) - u) * INT_DIV
  <2>1. /\ Turned = [t0 |-> (u + 1) * INT_DIV, t1 |-> M, turn |-> Len(s) + 1, down |-> FALSE]
        /\ Len(s) - u \in Nat
    BY <1>1, <1>2, <1>5, TurnedIs
  <2>2. M \in Nat
    BY <2>1, ButtonAssumption
  <2> HIDE DEF M
  <2>3. PressTime(Long) = IF M < 2 * INT_DIV THEN 0 ELSE M + r
    BY <2>1, <2>2 DEF PressTime, jitter, r
  <2>4. wps' = IF M < 2 * INT_DIV THEN 0 ELSE M + r
    BY <1>2, <1>3, <2>2, <2>3
  <2>5. press.down = FALSE
    BY <1>2, <1>5
  <2>6. seen'.samples = Append(s, FALSE)
    BY <1>3, <2>5
  <2> QED BY <1>1, <1>2, <2>4, <2>6, LetGoIsShort DEF L, M, r
<1> QED BY <1>2, <1>4, <1>5

-----------------------------------------------------------------------------
(***************************************************************************)
(* The invariant.                                                          *)
(***************************************************************************)
LEMMA FreshPress ==
  /\ NoPress \in [t0 : Nat, t1 : Nat, turn : Nat, down : BOOLEAN]
  /\ \A d \in BOOLEAN :
       LET p == [NoPress EXCEPT !.down = d]
       IN  p \in [t0 : Nat, t1 : Nat, turn : Nat, down : BOOLEAN] /\ Counting(p, <<>>, 0)
<1>1. 0 * INT_DIV = 0 /\ (Len(<<>>) - 0) * INT_DIV = 0
  BY ButtonAssumption
<1> QED BY <1>1 DEF NoPress, Counting

LEMMA ForgottenIsFine ==
  ASSUME ButtonForgotten, "settings" \in DOMAIN nor', pc' \notin {"press", "again"}
  PROVE  PressInv'
BY FreshPress DEF ButtonForgotten, PressInv, Unseen

LEMMA StartIsFine ==
  ASSUME NEW flash, StartFrom(flash), "settings" \in DOMAIN flash
  PROVE  PressInv'
<1>1. ButtonForgotten /\ nor' = flash /\ pc' \notin {"press", "again"}
  BY DEF StartFrom, ButtonForgotten
<1> QED BY <1>1, ForgottenIsFine

(***************************************************************************)
(* A step that leaves the button alone keeps what was counted.             *)
(***************************************************************************)
LEMMA OthersAreFine ==
  ASSUME PressInv, UNCHANGED <<wps, press, seen>>, "settings" \in DOMAIN nor',
         pc # "press", pc' \notin {"press", "again"}
  PROVE  PressInv'
<1>1. wps' = wps /\ press' = press /\ seen' = seen
  OBVIOUS
<1>2. CountIsTrue => CountIsTrue'
  BY <1>1 DEF CountIsTrue, Lasted, HeldThroughout
<1> QED BY <1>1, <1>2 DEF PressInv

LEMMA PressInit == Init => PressInv
<1> SUFFICES ASSUME Init PROVE PressInv
  OBVIOUS
<1> QED BY FreshPress DEF Init, PressInv, Unseen

LEMMA TurnedIsPress ==
  ASSUME IsPress(press), NEW d \in BOOLEAN
  PROVE  IsPress([Turned EXCEPT !.down = d])
<1>1. /\ INT_DIV \in Nat /\ press.t0 \in Nat /\ press.t1 \in Nat /\ press.turn \in Nat
      /\ press = [t0 |-> press.t0, t1 |-> press.t1, turn |-> press.turn, down |-> press.down]
  BY ButtonAssumption DEF IsPress
<1>2. PICK a \in Nat, b \in Nat : Turned = [press EXCEPT !.t0 = a, !.t1 = b, !.turn = @ + 1]
  <2> DEFINE t0 == press.t0 + (IF press.down THEN 0 ELSE INT_DIV)
             t1 == press.t1 + (IF press.down THEN INT_DIV ELSE 0)
  <2>1. t0 \in Nat /\ t1 \in Nat /\ t1 + t0 \in Nat
    BY <1>1
  <2>2. Turned = IF press.down /\ t0 <= jitter THEN [press EXCEPT !.t0 = 0, !.t1 = t1 + t0, !.turn = @ + 1]
                                               ELSE [press EXCEPT !.t0 = t0, !.t1 = t1, !.turn = @ + 1]
    BY DEF Turned
  <2> HIDE DEF t0, t1
  <2> QED BY <2>1, <2>2
<1>3. IsPress(Turned)
  <2>1. press.turn + 1 \in Nat
    BY <1>1
  <2> QED BY <1>2, <2>1 DEF IsPress
<1> QED BY <1>3 DEF IsPress

(***************************************************************************)
(* Everything between the end of the delay and the next start.             *)
(***************************************************************************)
Forgetting ==
  \/ ButtonRecovery \/ BootFlash \/ RecoverWhenBad
  \/ Choose /\ ~perform_system_reset

Later ==
  \/ TftpEnds \/ TftpForBoot \/ SerialEnds \/ UsbLoads \/ CheckBoot
  \/ Confirm \/ SerialStep \/ LinuxRuns

LEMMA ResetIsFine ==
  ASSUME PressInv, perform_system_reset
  PROVE  PressInv'
BY StartIsFine DEF perform_system_reset, PressInv

LEMMA ForgettingIsFine ==
  ASSUME PressInv, Forgetting
  PROVE  PressInv'
<1>1. ButtonForgotten /\ nor' = nor /\ pc' \notin {"press", "again"}
  BY DEF Forgetting, ButtonRecovery, BootFlash, RecoverWhenBad, Choose, NoButton, Start
<1> QED BY <1>1, ForgottenIsFine DEF PressInv

LEMMA LaterIsFine ==
  ASSUME PressInv, Later
  PROVE  PressInv'
<1>1. UNCHANGED <<wps, press, seen>> /\ pc # "press" /\ pc' \notin {"press", "again"}
  BY DEF Later, TftpEnds, TftpForBoot, SerialEnds, UsbLoads, CheckBoot, Confirm, SerialStep, LinuxRuns,
         Arrives, Goto, FlashNext, buttonVars, bootVars
<1>2. "settings" \in DOMAIN nor'
  BY DEF PressInv, Later, TftpEnds, TftpForBoot, SerialEnds, UsbLoads, CheckBoot, Confirm, SerialStep,
         LinuxRuns, Arrives, Goto, buttonVars, bootVars
<1> QED BY <1>1, <1>2, OthersAreFine

LEMMA PressStep == PressInv /\ [Next]_vars => PressInv'
<1> SUFFICES ASSUME PressInv, [Next]_vars PROVE PressInv'
  OBVIOUS
<1>1. CASE ButtonUp
  BY <1>1, OthersAreFine DEF ButtonUp, bootVars, PressInv
<1>2. CASE DelayOver
  BY <1>2, OthersAreFine DEF DelayOver, Goto, buttonVars, PressInv
<1>3. CASE KeyPressed
  BY <1>3, OthersAreFine DEF KeyPressed, buttonVars, PressInv
<1>4. CASE ButtonDown
  <2>1. PICK d \in BOOLEAN : press' = [NoPress EXCEPT !.down = d]
    BY <1>4 DEF ButtonDown, StartCount
  <2>2. /\ IsPress(press') /\ Counting(press', <<>>, 0) /\ press'.turn = 0
    BY <2>1, FreshPress DEF IsPress, NoPress
  <2>3. /\ pc' = "press" /\ wps' = wps /\ nor' = nor /\ pc = "delay"
        /\ seen' = [seen EXCEPT !.counts = IF @ < 2 THEN @ + 1 ELSE @]
    BY <1>4 DEF ButtonDown, StartCount
  <2>4. /\ seen'.counts = (IF seen.counts < 2 THEN seen.counts + 1 ELSE seen.counts)
        /\ seen'.samples = seen.samples /\ {"counts", "samples"} \subseteq DOMAIN seen'
    BY <2>3 DEF PressInv
  <2>5. CASE seen.counts = 0
    <3>1. seen'.counts = 1 /\ seen'.samples = <<>> /\ wps' = 0
      BY <2>3, <2>4, <2>5 DEF PressInv, Unseen
    <3>2. Counting(press', seen'.samples, 0)
      BY <2>2, <3>1
    <3>3. 0 \in 0 .. 2 /\ press'.turn < Long \div INT_DIV
      BY <2>2, Rest
    <3>4. \E u \in 0 .. 2 : Counting(press', seen'.samples, u)
      BY <3>2, <3>3, Zenon
    <3>5. seen'.samples \in Seq(BOOLEAN)
      BY <3>1
    <3> QED BY <2>2, <2>3, <2>4, <3>1, <3>3, <3>4, <3>5 DEF PressInv, IsPress
  <2>6. CASE seen.counts # 0
    <3>1. seen'.counts = 2 /\ seen'.samples \in Seq(BOOLEAN)
      BY <2>4, <2>6 DEF PressInv
    <3> QED BY <2>2, <2>3, <2>4, <3>1 DEF PressInv, IsPress
  <2> QED BY <2>5, <2>6
<1>5. CASE Sample
  <2>1. CASE seen.counts = 1
    BY <1>5, <2>1, CountGoesOn DEF Sample
  <2>2. CASE seen.counts # 1
    <3>1. seen.counts = 2 /\ pc = "press"
      BY <1>5, <2>2 DEF PressInv, Sample
    <3>2. seen' = seen /\ pc' = "press" /\ wps' = wps /\ nor' = nor
      BY <1>5, <3>1 DEF Sample, Look, NextSample
    <3>3. IsPress(press')
      BY <1>5, TurnedIsPress DEF Sample, NextSample, PressInv, IsPress
    <3> QED BY <3>1, <3>2, <3>3 DEF PressInv, IsPress
  <2> QED BY <2>1, <2>2
<1>6. CASE CountEnds
  <2>1. /\ IsPress(press') /\ nor' = nor /\ pc' \in {"again", "chosen", "delay"} /\ pc = "press"
    BY <1>6, FreshPress DEF CountEnds, StartCount, IsPress
  <2>2. seen.counts \in {1, 2}
    BY <2>1 DEF PressInv
  <2>3. /\ seen'.counts = seen.counts /\ {"counts", "samples"} \subseteq DOMAIN seen'
        /\ seen'.samples \in Seq(BOOLEAN)
    <3>1. press.down \in BOOLEAN
      BY DEF PressInv
    <3>2. seen' = IF seen.counts > 1 THEN seen ELSE [seen EXCEPT !.samples = Append(@, press.down)]
      BY <1>6 DEF CountEnds, Look
    <3>3. CASE seen.counts = 2
      BY <3>2, <3>3 DEF PressInv
    <3>4. CASE seen.counts = 1
      BY <3>1, <3>2, <3>4 DEF PressInv
    <3> QED BY <2>2, <3>3, <3>4
  <2>4. seen.counts = 1 => CountIsTrue'
    BY <1>6, <2>1, CountIsOver
  <2> QED BY <2>1, <2>2, <2>3, <2>4 DEF PressInv, IsPress
<1>7. CASE SampleAgain
  <2>1. /\ wps' = wps /\ seen' = seen /\ nor' = nor /\ pc = "again" /\ pc' \in {"again", "chosen"}
    BY <1>7 DEF SampleAgain, Goto, NextSample, buttonVars
  <2>2. IsPress(press')
    BY <1>7, TurnedIsPress DEF SampleAgain, Goto, NextSample, buttonVars, PressInv, IsPress
  <2>3. CountIsTrue => CountIsTrue'
    BY <2>1 DEF CountIsTrue, Lasted, HeldThroughout
  <2> QED BY <2>1, <2>2, <2>3 DEF PressInv, IsPress
<1>8. CASE ButtonReset
  BY <1>8, StartIsFine DEF ButtonReset, PressInv
<1>9. CASE Forgetting
  BY <1>9, ForgettingIsFine
<1>10. CASE Later
  BY <1>10, LaterIsFine
<1>11. CASE perform_system_reset
  BY <1>11, ResetIsFine
<1>12. CASE TftpGivesUp \/ Decline \/ PowerCycle
  BY <1>12, ResetIsFine DEF TftpGivesUp, Decline, PowerCycle
<1>13. CASE BootRam
  BY <1>13, ResetIsFine, OthersAreFine DEF BootRam, Start, buttonVars, PressInv
<1>14. CASE UsbFails
  BY <1>14, ResetIsFine, OthersAreFine DEF UsbFails, FlashFails, buttonVars, PressInv
<1>15. CASE CheckKernel
  <2>1. CASE ~AcceptKernel /\ ResetInstead
    BY <1>15, <2>1, ResetIsFine DEF CheckKernel
  <2>2. CASE ~(~AcceptKernel /\ ResetInstead)
    <3>1. UNCHANGED <<wps, press, seen>> /\ nor' = nor /\ pc = "flashKernel"
          /\ pc' \in {"write", "recovery", "confirm"}
      BY <1>15, <2>2 DEF CheckKernel, FlashFails, buttonVars
    <3> QED BY <3>1, OthersAreFine DEF PressInv
  <2> QED BY <2>1, <2>2
<1>16. CASE WriteSucceeds
  <2>1. \A i, gap : "settings" \in DOMAIN FlashAfter(i, gap)
    BY DEF FlashAfter, PressInv
  <2>2. CASE key = "2"
    BY <1>16, <2>1, <2>2, OthersAreFine DEF WriteSucceeds, buttonVars
  <2>3. CASE key # "2"
    BY <1>16, <2>1, <2>3, StartIsFine DEF WriteSucceeds
  <2> QED BY <2>2, <2>3
<1>17. CASE WriteFails
  <2>1. \A i, gap : "settings" \in DOMAIN FlashAfter(i, gap)
    BY DEF FlashAfter, PressInv
  <2>2. PICK i \in 0 .. size : \E gap \in {i < size} :
          \/ nor' = FlashAfter(i, gap) /\ FlashFails
          \/ StartFrom(FlashAfter(i, gap))
    BY <1>17 DEF WriteFails
  <2>3. PICK gap \in {i < size} :
          \/ nor' = FlashAfter(i, gap) /\ FlashFails
          \/ StartFrom(FlashAfter(i, gap))
    BY <2>2
  <2>4. ASSUME nor' = FlashAfter(i, gap), FlashFails PROVE PressInv'
    BY <1>17, <2>1, <2>4, OthersAreFine DEF WriteFails, FlashFails, buttonVars
  <2> QED BY <2>1, <2>3, <2>4, StartIsFine
<1>18. CASE BootNew
  BY <1>18, ResetIsFine, OthersAreFine DEF BootNew, Start, buttonVars, PressInv
<1>19. CASE Recovers
  <2>1. pc = "recovery" /\ "settings" \in DOMAIN nor'
    BY <1>19, Recovered DEF PressInv
  <2>2. ASSUME NEW flash, StartFrom(flash), nor' = flash PROVE PressInv'
    BY <2>1, <2>2, StartIsFine
  <2>3. ASSUME pc' \in {"recovery", "initramfs"}, UNCHANGED buttonVars PROVE PressInv'
    BY <2>1, <2>3, OthersAreFine DEF buttonVars
  <2> QED BY <1>19, <2>2, <2>3, Recovered
<1>20. CASE UNCHANGED vars
  BY <1>20 DEF vars, buttonVars, bootVars, PressInv, CountIsTrue, Lasted, HeldThroughout
<1> QED
  BY <1>1, <1>2, <1>3, <1>4, <1>5, <1>6, <1>7, <1>8, <1>9, <1>10, <1>11, <1>12, <1>13, <1>14, <1>15,
     <1>16, <1>17, <1>18, <1>19, <1>20 DEF Next, Program, TftpReturns, Forgetting, Later

-----------------------------------------------------------------------------
(***************************************************************************)
(* One press of the button does what its samples say: down in two of them, *)
(* and nothing is booted and no question asked; held to the end of the     *)
(* count, but for releases of up to two samples, and the settings are      *)
(* erased; else not.                                                       *)
(***************************************************************************)
AsPressed ==
  seen.counts = 1 /\ pc = "chosen" =>
    /\ pc' \in {"linux", "recovery", "confirm", "tftp", "prompt"} => ~Lasted
    /\ pc' = "usb" => Lasted
    /\ rootfs_func = 0 => (nor'.settings <=> ~HeldThroughout)

LEMMA ObeysPress == PressInv /\ [Next]_vars => [AsPressed]_vars
<1> SUFFICES ASSUME PressInv, Next, seen.counts = 1, pc = "chosen"
             PROVE  /\ pc' \in {"linux", "recovery", "confirm", "tftp", "prompt"} => ~Lasted
                    /\ pc' = "usb" => Lasted
                    /\ rootfs_func = 0 => (nor'.settings <=> ~HeldThroughout)
  BY DEF AsPressed
<1>1. CountIsTrue /\ "settings" \in DOMAIN nor /\ (rootfs_func = 0 => nor.settings)
  BY DEF PressInv, rootfs_func
<1>2. CASE ButtonReset
  <2>1. wps = Long
    BY <1>1, <1>2, ButtonAssumption DEF ButtonReset, CountIsTrue
  <2>2. HeldThroughout /\ pc' \in {"delay", "bricked"}
    BY <1>1, <1>2, <2>1 DEF CountIsTrue, ButtonReset, StartFrom
  <2>3. rootfs_func = 0 => ~nor'.settings
    BY <1>1, <1>2 DEF ButtonReset, StartFrom
  <2> QED BY <2>2, <2>3
<1>3. CASE ButtonRecovery
  <2>1. wps # 0 /\ wps # Long /\ pc' = "usb" /\ nor' = nor
    BY <1>3, ButtonAssumption DEF ButtonReset, ButtonRecovery
  <2> QED BY <1>1, <2>1 DEF CountIsTrue
<1>4. CASE BootFlash \/ RecoverWhenBad \/ Choose
  <2>1. NoButton
    BY <1>4 DEF BootFlash, RecoverWhenBad, Choose
  <2>2. wps = 0
    BY <1>1, <2>1, ButtonAssumption DEF NoButton, CountIsTrue
  <2>3. nor' = nor /\ pc' # "usb"
    BY <1>4 DEF BootFlash, RecoverWhenBad, Choose, Start, perform_system_reset, StartFrom
  <2>4. Long # 0
    BY ButtonAssumption
  <2> QED BY <1>1, <2>2, <2>3, <2>4 DEF CountIsTrue
<1>5. CASE ~(ButtonReset \/ ButtonRecovery \/ BootFlash \/ RecoverWhenBad \/ Choose)
  BY <1>5, Recovered DEF Next, Program, ButtonUp, DelayOver, Sample, CountEnds, SampleAgain, TftpReturns,
       TftpEnds, TftpForBoot, TftpGivesUp, BootRam, SerialEnds, UsbLoads, UsbFails, CheckBoot, CheckKernel, WriteSucceeds,
       WriteFails, BootNew, KeyPressed, ButtonDown, Confirm, Decline, SerialStep,
       LinuxRuns, PowerCycle
<1> QED BY <1>2, <1>3, <1>4, <1>5

(***************************************************************************)
(* count_button_press and what board_init_r does with the seconds it       *)
(* returns do what the samples of the button say, for a count of any       *)
(* length (ButtonIsObeyed).                                                *)
(***************************************************************************)
THEOREM PressIsObeyed == Spec => ButtonIsObeyed
<1>1. Spec => [][AsPressed]_vars
  BY PressInit, PressStep, ObeysPress, PTL DEF Spec
<1>2. [][AsPressed]_vars => ButtonIsObeyed
  BY DEF AsPressed, ButtonIsObeyed
<1> QED BY <1>1, <1>2

-----------------------------------------------------------------------------
(***************************************************************************)
(* Memory, and the load over the serial line.                              *)
(***************************************************************************)
SerialInv ==
  /\ ram \in Images
  /\ data.addr \in 0 .. MemSize /\ saved.addr \in 0 .. data.addr
  /\ pc = "serial" => LoadInv

LEMMA FilesAreLoadable ==
  ASSUME NEW f \in Files
  PROVE  /\ Loadable(f) /\ Len(Content(f)) \in Nat /\ Len(Content(f)) <= MemSize
         /\ \A i \in 1 .. Len(Content(f)) : Content(f)[i] \in Int
<1>1. Loadable(f)
  BY BootAssumption, CharAssumption DEF Loadable, Char
<1>2. Content(f) \in Seq(Char) /\ Len(Content(f)) <= MemSize
  <2>1. Content(f) = Plain(f, Len(Pieces[f])) /\ Len(Pieces[f]) \in 0 .. Len(Pieces[f])
    BY <1>1, PlainGrows
  <2> QED BY <1>1, <2>1, PlainGrows DEF Loadable
<1> QED BY <1>1, <1>2, CharAssumption DEF Char

LEMMA ArrivesIsTyped ==
  ASSUME NEW f \in Files, NEW i \in 0 .. Len(Content(f)), NEW mem \in Images
  PROVE  InMemory(f, i, mem) \in Images /\ i \in 0 .. MemSize
<1>1. \A j \in Memory : j <= i => Content(f)[j] \in Int
  BY FilesAreLoadable, KermitAssumption DEF Memory
<1>2. i \in 0 .. MemSize
  BY FilesAreLoadable, KermitAssumption
<1> QED BY <1>1, <1>2 DEF InMemory, Images

AddressesFit == data.addr \in 0 .. MemSize /\ saved.addr \in 0 .. data.addr

LEMMA AddressesAre == LoadInv /\ loading \in {"receiving", "done"} => AddressesFit
<1> SUFFICES ASSUME LoadInv, loading \in {"receiving", "done"}
             PROVE  data.addr \in 0 .. MemSize /\ saved.addr \in 0 .. data.addr
  BY DEF AddressesFit
<1> DEFINE f == remote.file
<1>1. Loadable(f)
  BY DEF LoadInv, RemoteInv, DoneInv
<1>2. ASSUME NEW k \in 0 .. Len(Pieces[f])
      PROVE  /\ Base(f, k).addr \in 0 .. MemSize
             /\ k > 0 => Base(f, k - 1).addr \in 0 .. Base(f, k).addr
             /\ k < Len(Pieces[f]) => Base(f, k).addr \in 0 .. Base(f, k + 1).addr
  <2> DEFINE l(i) == Len(Plain(f, i))
             z == Len(Pieces[f])
  <2>1. z \in Nat /\ \A i \in 0 .. z : l(i) \in 0 .. MemSize
    BY <1>1, PlainGrows, PlainFits, KermitAssumption
  <2>2. ASSUME NEW i \in 0 .. z - 1 PROVE l(i) <= l(i + 1)
    <3>1. i \in 0 .. z
      BY <2>1
    <3>2. Plain(f, i) \in Seq(Char) /\ Pieces[f][i + 1] \in Seq(Char)
          /\ Plain(f, i + 1) = Plain(f, i) \o Pieces[f][i + 1]
      BY <1>1, <3>1, PlainGrows
    <3> DEFINE a == Plain(f, i)
               b == Pieces[f][i + 1]
    <3>3. a \in Seq(Char) /\ b \in Seq(Char) /\ Plain(f, i + 1) = a \o b
      BY <3>2
    <3>4. Len(Plain(f, i)) = Len(a)
      OBVIOUS
    <3> HIDE DEF a, b
    <3>5. Len(a) \in Nat /\ Len(b) \in Nat /\ Len(a \o b) = Len(a) + Len(b)
      BY <3>3, Joined
    <3>6. Len(a) <= Len(a \o b)
      BY <3>5
    <3> QED BY <3>3, <3>4, <3>6
  <2>3. \A i : Base(f, i).addr = l(i)
    BY DEF Base
  <2> HIDE DEF l, f
  <2>4. k > 0 => k - 1 \in 0 .. z - 1 /\ k - 1 \in 0 .. z /\ (k - 1) + 1 = k
    BY <2>1
  <2>5. k < z => k \in 0 .. z - 1 /\ k + 1 \in 0 .. z
    BY <2>1
  <2>6. k > 0 => l(k - 1) <= l(k)
    BY <2>2, <2>4
  <2>7. k < z => l(k) <= l(k + 1)
    BY <2>2, <2>5
  <2>8. l(k) \in 0 .. MemSize
    BY <2>1
  <2>9. k > 0 => l(k - 1) \in 0 .. l(k)
    BY <2>1, <2>4, <2>6, <2>8, KermitAssumption
  <2>10. k < z => l(k) \in 0 .. l(k + 1)
    BY <2>1, <2>5, <2>7, <2>8, KermitAssumption
  <2> QED BY <2>3, <2>8, <2>9, <2>10
<1>3. CASE loading = "done"
  <2>1. PICK k \in 0 .. Whole : data = Base(f, k) /\ saved = Base(f, k)
    BY <1>3 DEF LoadInv, DoneInv
  <2>2. Base(f, k).addr \in 0 .. MemSize
    BY <1>2, <2>1 DEF Whole
  <2> HIDE DEF f
  <2> QED BY <2>1, <2>2, KermitAssumption
<1>4. CASE loading = "receiving"
  <2>1. RemoteInv
    BY <1>4 DEF LoadInv
  <2>2. PICK k \in 0 .. Whole : PieceInv(k)
    BY <1>4 DEF LoadInv
  <2>3. PICK j : j = Reached(k)
    OBVIOUS
  <2>4. k \in 0 .. Len(Pieces[f]) /\ j \in 0 .. Len(Pieces[f])
        /\ (j = k \/ (j = k + 1 /\ k < Len(Pieces[f])))
    BY <2>1, <2>2, <2>3, CurrentIs DEF PieceInv, Reached, Whole
  <2>5. \/ data = Base(f, k) /\ (saved = Base(f, k) \/ (k > 0 /\ saved = Base(f, k - 1)))
        \/ data = Base(f, j) /\ saved = Base(f, k)
    BY <2>2, <2>3 DEF PieceInv, Behind, Level, Kept, Refused
  <2>6. Base(f, k).addr \in 0 .. MemSize /\ Base(f, j).addr \in 0 .. MemSize
    BY <1>2, <2>4
  <2>7. /\ k > 0 => Base(f, k - 1).addr \in 0 .. Base(f, k).addr
        /\ j = k + 1 => Base(f, k).addr \in 0 .. Base(f, j).addr
    BY <1>2, <2>4
  <2> HIDE DEF f
  <2> QED BY <2>4, <2>5, <2>6, <2>7, KermitAssumption
<1> QED BY <1>3, <1>4

LEMMA StartIsIdle ==
  ASSUME NEW flash, StartFrom(flash)
  PROVE  /\ ram' \in Images /\ data'.addr = 0 /\ saved'.addr = 0 /\ pc' \in {"delay", "bricked"}
         /\ size' = 0 /\ os' \in Images /\ nor' = flash
         /\ ticks' = 0 /\ key' = "3" /\ wps' = 0 /\ press' = NoPress
BY BootAssumption DEF StartFrom, ForgetLoad, Images, Nothing

LEMMA StartIsSerial ==
  ASSUME NEW flash, StartFrom(flash)
  PROVE  SerialInv'
BY StartIsIdle, KermitAssumption DEF SerialInv

LEMMA ResetIsSerial ==
  ASSUME perform_system_reset
  PROVE  SerialInv'
BY StartIsSerial DEF perform_system_reset

LEMMA LoadIsSerial ==
  ASSUME SerialInv, NEW f \in Files, NEW i \in 0 .. Len(Content(f)), NEW where, where # "serial",
         Arrives(f, i, where)
  PROVE  SerialInv'
<1>1. ram' \in Images
  BY ArrivesIsTyped DEF Arrives, SerialInv
<1> QED BY <1>1 DEF Arrives, SerialInv

LEMMA NoLoadIsSerial ==
  ASSUME SerialInv, UNCHANGED kermitVars, pc' # "serial"
  PROVE  SerialInv'
BY DEF SerialInv, kermitVars

LEMMA SerialInit == Init => SerialInv
BY BootAssumption, KermitAssumption DEF Init, SerialInv, Idle, Images

LEMMA SerialNext ==
  ASSUME LinesAreGood, SerialInv, [Next]_vars
  PROVE  SerialInv'
<1>1. CASE ButtonUp
  BY <1>1, NoLoadIsSerial DEF ButtonUp, bootVars
<1>2. CASE DelayOver
  BY <1>2, NoLoadIsSerial DEF DelayOver, Goto
<1>3. CASE Sample
  BY <1>3, NoLoadIsSerial DEF Sample, NextSample
<1>4. CASE CountEnds
  BY <1>4, NoLoadIsSerial DEF CountEnds, StartCount
<1>5. CASE SampleAgain
  BY <1>5, NoLoadIsSerial DEF SampleAgain, Goto, NextSample
<1>6. CASE ButtonRecovery
  BY <1>6, NoLoadIsSerial DEF ButtonRecovery
<1>7. CASE ButtonReset
  BY <1>7, StartIsSerial DEF ButtonReset
<1>8. CASE BootFlash
  BY <1>8, NoLoadIsSerial DEF BootFlash, Start
<1>9. CASE RecoverWhenBad
  BY <1>9, NoLoadIsSerial DEF RecoverWhenBad
<1>10. CASE Choose
  BY <1>10, ResetIsSerial, NoLoadIsSerial DEF Choose
<1>11. CASE TftpEnds
  BY <1>11, LoadIsSerial DEF TftpEnds, FlashNext
<1>12. CASE TftpForBoot
  <2>1. PICK f \in Files : Arrives(f, Len(Content(f)), "boot")
    BY <1>12 DEF TftpForBoot
  <2>2. Len(Content(f)) \in 0 .. Len(Content(f))
    BY FilesAreLoadable
  <2> QED BY <2>1, <2>2, LoadIsSerial
<1>13. CASE TftpGivesUp
  BY <1>13, ResetIsSerial DEF TftpGivesUp
<1>14. CASE BootRam
  BY <1>14, ResetIsSerial, NoLoadIsSerial DEF BootRam, Start
<1>15. CASE SerialEnds
  BY <1>15, KermitAssumption DEF SerialEnds, FlashNext, ForgetLoad, SerialInv
<1>16. CASE UsbLoads
  <2>1. PICK f \in Files : Arrives(f, Len(Content(f)), "flashKernel")
    BY <1>16 DEF UsbLoads
  <2>2. Len(Content(f)) \in 0 .. Len(Content(f))
    BY FilesAreLoadable
  <2> QED BY <2>1, <2>2, LoadIsSerial
<1>17. CASE UsbFails
  BY <1>17, ResetIsSerial, NoLoadIsSerial DEF UsbFails, FlashFails
<1>18. CASE CheckBoot
  BY <1>18, NoLoadIsSerial DEF CheckBoot, Goto
<1>19. CASE CheckKernel
  BY <1>19, ResetIsSerial, NoLoadIsSerial DEF CheckKernel, FlashFails
<1>20. CASE WriteSucceeds
  BY <1>20, StartIsSerial, NoLoadIsSerial DEF WriteSucceeds
<1>21. CASE WriteFails
  BY <1>21, StartIsSerial, NoLoadIsSerial DEF WriteFails, FlashFails
<1>22. CASE BootNew
  BY <1>22, ResetIsSerial, NoLoadIsSerial DEF BootNew, Start
<1>23. CASE KeyPressed
  BY <1>23, NoLoadIsSerial DEF KeyPressed
<1>24. CASE ButtonDown
  BY <1>24, NoLoadIsSerial DEF ButtonDown, StartCount
<1>25. CASE Confirm
  <2>1. CASE Goto("tftp") \/ Goto("usb")
    BY <2>1, NoLoadIsSerial DEF Goto
  <2>2. ASSUME NEW f \in SerialFiles, NEW line \in Lines, StartLoad(f, line) PROVE SerialInv'
    <3>1. f \in Files /\ Loadable(f) /\ ram \in [Memory -> Int]
      BY BootAssumption, FilesAreLoadable DEF SerialInv, Images
    <3>2. LoadInv'
      BY <2>2, <3>1, Starts
    <3> QED BY <2>2, <3>1, <3>2, KermitAssumption DEF StartLoad, SerialInv, Images
  <2> QED BY <1>25, <2>1, <2>2 DEF Confirm
<1>26. CASE Decline
  BY <1>26, ResetIsSerial DEF Decline
<1>27. CASE SerialStep
  <2>1. LoadInv /\ LineStep /\ pc' = pc
    BY <1>27 DEF SerialStep, SerialInv, bootVars
  <2>2. LoadInv'
    BY <2>1, LoadStep
  <2>3. CASE Receive
    <3>1. (loading \in {"receiving", "done"})'
      BY <2>3 DEF Receive, ReceiveBadStart, ReceiveBadBody, ReceiveGood
    <3>2. AddressesFit'
      BY <2>2, <3>1, AddressesAre, PTL
    <3> QED BY <2>1, <2>2, <3>2 DEF SerialInv, LoadInv, Images, AddressesFit
  <2>4. CASE ~Receive
    <3>1. UNCHANGED <<ram, data, saved>>
      BY <2>1, <2>4
      DEF LineStep, RemoteSends, RemoteHears, RemoteCancels, LineDamages, LineLosesAnswer, Interrupt
    <3> QED BY <2>1, <2>2, <3>1 DEF SerialInv
  <2> QED BY <2>3, <2>4
<1>28. CASE Recovers
  BY <1>28, Recovered, StartIsSerial, NoLoadIsSerial
<1>29. CASE LinuxRuns
  BY <1>29, NoLoadIsSerial DEF LinuxRuns
<1>30. CASE PowerCycle
  BY <1>30, ResetIsSerial DEF PowerCycle
<1>31. CASE UNCHANGED vars
  <2>1. UNCHANGED kermitVars /\ pc' = pc
    BY <1>31 DEF vars, bootVars
  <2>2. LoadInv => LoadInv'
    BY <2>1 DEF kermitVars, LoadInv, DoneInv, RemoteInv, QueueInv, PieceInv, Whole, Current, Acknowledged,
         Behind, Level, Kept, Refused, Reached, Fresh, Stale, Grouped
  <2> QED BY <2>1, <2>2 DEF SerialInv, kermitVars
<1> QED
  BY <1>1, <1>2, <1>3, <1>4, <1>5, <1>6, <1>7, <1>8, <1>9, <1>10, <1>11, <1>12, <1>13, <1>14, <1>15,
     <1>16, <1>17, <1>18, <1>19, <1>20, <1>21, <1>22, <1>23, <1>24, <1>25, <1>26, <1>27, <1>28, <1>29,
     <1>30, <1>31 DEF Next, Program, TftpReturns

(***************************************************************************)
(* Whatever file is sent over the serial line, in packets of whatever      *)
(* size: what the sender has an acknowledgment for is in memory, and a     *)
(* finished load is the file (k_recv, over a line that is good).           *)
(***************************************************************************)
THEOREM SerialLoadIsExact ==
  ASSUME LinesAreGood
  PROVE  Spec => []SerialLoadIsSent
<1>1. SerialInv => SerialLoadIsSent
  BY HeldIsSent DEF SerialInv, SerialLoadIsSent
<1>2. SerialInv /\ [Next]_vars => SerialInv'
  BY SerialNext
<1> QED BY <1>1, <1>2, SerialInit, PTL DEF Spec

-----------------------------------------------------------------------------
(***************************************************************************)
(* The times of the button.  While it is counted t0 and t1 add up to the   *)
(* turns, and the turns end with the interval; so no count is longer than  *)
(* 5000, and their sum than 5000 for each turn of the delay loop.          *)
(***************************************************************************)
Summed(p, interval) == p.t0 + p.t1 = p.turn * INT_DIV /\ p.turn < interval \div INT_DIV

TimesInv ==
  /\ IsPress(press) /\ press.t0 <= Long /\ press.t1 <= Long
  /\ pc = "press" => Summed(press, Long) /\ ticks < DelayTicks
  /\ pc = "again" => Summed(press, Reset)
  /\ pc \in {"delay", "press"} => wps <= ticks * Long
  /\ ticks \in 0 .. DelayTicks /\ wps \in 0 .. DelayTicks * Long

LEMMA Interval ==
  ASSUME NEW interval \in {Long, Reset}
  PROVE  /\ interval \div INT_DIV \in Nat /\ interval \div INT_DIV > 0
         /\ (interval \div INT_DIV) * INT_DIV \in Nat
         /\ (interval \div INT_DIV) * INT_DIV + (interval % INT_DIV) = interval
         /\ interval % INT_DIV \in Nat
         /\ interval <= Long /\ interval \in Nat
<1>1. interval \in Nat /\ interval >= INT_DIV /\ interval <= Long /\ INT_DIV \in Nat \ {0}
  BY ButtonAssumption
<1>2. /\ interval \div INT_DIV \in Nat /\ interval % INT_DIV \in 0 .. INT_DIV - 1
      /\ interval = INT_DIV * (interval \div INT_DIV) + (interval % INT_DIV)
  BY <1>1, Z3
<1> DEFINE q == interval \div INT_DIV
           r == interval % INT_DIV
<1>3. q \in Nat /\ r \in Nat /\ r < INT_DIV /\ interval = INT_DIV * q + r
  BY <1>1, <1>2
<1> HIDE DEF q, r
<1>4. q # 0
  BY <1>1, <1>3
<1>5. q * INT_DIV \in Nat /\ INT_DIV * q = q * INT_DIV
  BY <1>1, <1>3
<1> QED BY <1>1, <1>3, <1>4, <1>5 DEF q, r

LEMMA Sums ==
  ASSUME NEW t \in Nat, NEW d \in Nat
  PROVE  /\ t * Long \in Nat /\ d * Long \in Nat /\ (t + 1) * Long = t * Long + Long
         /\ t <= d => t * Long <= d * Long
<1>1. t * Long \in Nat /\ d * Long \in Nat /\ (t + 1) * Long = t * Long + Long
  BY ButtonAssumption
<1>2. ASSUME t <= d PROVE t * Long <= d * Long
  <2> DEFINE e == d - t
  <2>1. e \in Nat /\ d = t + e
    BY <1>2
  <2> HIDE DEF e
  <2>2. e * Long \in Nat /\ d * Long = t * Long + e * Long
    BY <2>1, ButtonAssumption
  <2> QED BY <1>1, <2>2
<1> QED BY <1>1, <1>2

(***************************************************************************)
(* A turn adds INT_DIV to the sum.                                         *)
(***************************************************************************)
LEMMA TurnAdds ==
  ASSUME IsPress(press), NEW interval \in {Long, Reset}, Summed(press, interval)
  PROVE  /\ IsPress(Turned) /\ Turned.t0 + Turned.t1 = Turned.turn * INT_DIV
         /\ Turned.turn <= interval \div INT_DIV
         /\ Turned.t0 + Turned.t1 <= (interval \div INT_DIV) * INT_DIV
<1>1. /\ press.t0 \in Nat /\ press.t1 \in Nat /\ press.turn \in Nat /\ INT_DIV \in Nat
      /\ press = [t0 |-> press.t0, t1 |-> press.t1, turn |-> press.turn, down |-> press.down]
      /\ press.down \in BOOLEAN /\ press.turn + 1 \in Nat
  BY ButtonAssumption DEF IsPress
<1>2. PICK a \in Nat, b \in Nat : /\ Turned = [press EXCEPT !.t0 = a, !.t1 = b, !.turn = @ + 1]
                                  /\ a + b = press.t0 + press.t1 + INT_DIV
  <2> DEFINE t0 == press.t0 + (IF press.down THEN 0 ELSE INT_DIV)
             t1 == press.t1 + (IF press.down THEN INT_DIV ELSE 0)
  <2>1. t0 \in Nat /\ t1 \in Nat /\ t1 + t0 \in Nat /\ t0 + t1 = press.t0 + press.t1 + INT_DIV
        /\ 0 + (t1 + t0) = press.t0 + press.t1 + INT_DIV
    BY <1>1
  <2>2. Turned = IF press.down /\ t0 <= jitter THEN [press EXCEPT !.t0 = 0, !.t1 = t1 + t0, !.turn = @ + 1]
                                               ELSE [press EXCEPT !.t0 = t0, !.t1 = t1, !.turn = @ + 1]
    BY DEF Turned
  <2> HIDE DEF t0, t1
  <2> QED BY <2>1, <2>2
<1>3. Turned = [t0 |-> a, t1 |-> b, turn |-> press.turn + 1, down |-> press.down]
  BY <1>1, <1>2
<1>4. IsPress(Turned) /\ Turned.t0 = a /\ Turned.t1 = b /\ Turned.turn = press.turn + 1
  BY <1>1, <1>3 DEF IsPress
<1>5. /\ press.turn * INT_DIV \in Nat /\ (press.turn + 1) * INT_DIV = press.turn * INT_DIV + INT_DIV
      /\ press.turn * INT_DIV + INT_DIV <= (interval \div INT_DIV) * INT_DIV
      /\ press.turn < interval \div INT_DIV /\ interval \div INT_DIV \in Nat
  BY <1>1, Interval, Times DEF Summed
<1>6. a + b = (press.turn + 1) * INT_DIV
  BY <1>1, <1>2, <1>5 DEF Summed
<1> QED BY <1>1, <1>4, <1>5, <1>6

LEMMA CountIsShort ==
  ASSUME IsPress(press), Summed(press, Long)
  PROVE  PressTime(Long) \in 0 .. Long
<1>1. /\ Turned.t1 \in Nat /\ Turned.t1 <= (Long \div INT_DIV) * INT_DIV
      /\ (Long \div INT_DIV) * INT_DIV \in Nat
  BY TurnAdds, Interval DEF IsPress
<1>2. /\ (Long \div INT_DIV) * INT_DIV + (Long % INT_DIV) = Long /\ Long % INT_DIV \in Nat /\ Long \in Nat
  BY Interval
<1> QED BY <1>1, <1>2 DEF PressTime

LEMMA NextIsSummed ==
  ASSUME IsPress(press), NEW interval \in {Long, Reset}, Summed(press, interval),
         NextSample, ~CountOver(interval)
  PROVE  IsPress(press') /\ Summed(press', interval) /\ press'.t0 <= Long /\ press'.t1 <= Long
<1>1. PICK d \in BOOLEAN : press' = [Turned EXCEPT !.down = d]
  BY DEF NextSample
<1>2. /\ IsPress(Turned) /\ Turned.t0 + Turned.t1 = Turned.turn * INT_DIV
      /\ Turned.turn <= interval \div INT_DIV /\ Turned.turn # interval \div INT_DIV
      /\ Turned.t0 + Turned.t1 <= (interval \div INT_DIV) * INT_DIV
  BY TurnAdds DEF CountOver
<1>3. /\ IsPress(press') /\ press'.t0 = Turned.t0 /\ press'.t1 = Turned.t1 /\ press'.turn = Turned.turn
  BY <1>1, <1>2 DEF IsPress
<1>4. /\ Turned.t0 \in Nat /\ Turned.t1 \in Nat /\ Turned.turn \in Nat
  BY <1>2 DEF IsPress
<1>5. /\ (interval \div INT_DIV) * INT_DIV <= Long /\ interval \div INT_DIV \in Nat
      /\ (interval \div INT_DIV) * INT_DIV \in Nat /\ Long \in Nat
  BY Interval, ButtonAssumption
<1> QED BY <1>2, <1>3, <1>4, <1>5 DEF Summed

LEMMA FreshIsSummed ==
  ASSUME NEW interval \in {Long, Reset}, NEW d \in BOOLEAN
  PROVE  LET p == [NoPress EXCEPT !.down = d]
         IN  IsPress(p) /\ Summed(p, interval) /\ p.t0 <= Long /\ p.t1 <= Long
<1>1. 0 * INT_DIV = 0 /\ interval \div INT_DIV > 0 /\ 0 <= Long
  BY Interval, ButtonAssumption
<1> QED BY <1>1 DEF NoPress, IsPress, Summed

LEMMA NoPressIsShort == IsPress(NoPress) /\ NoPress.t0 <= Long /\ NoPress.t1 <= Long
BY ButtonAssumption DEF NoPress, IsPress

LEMMA ForgottenTimes ==
  ASSUME ButtonForgotten, pc' \notin {"press", "again"}
  PROVE  TimesInv'
<1>1. 0 \in 0 .. DelayTicks /\ 0 * Long = 0 /\ 0 \in 0 .. DelayTicks * Long
  <2>1. DelayTicks * Long \in Nat
    BY Sums, ButtonAssumption
  <2> QED BY <2>1, ButtonAssumption
<1> QED BY <1>1, NoPressIsShort DEF ButtonForgotten, TimesInv

LEMMA StartTimes ==
  ASSUME NEW flash, StartFrom(flash)
  PROVE  TimesInv'
<1>1. ButtonForgotten /\ pc' \notin {"press", "again"}
  BY DEF StartFrom, ButtonForgotten
<1> QED BY <1>1, ForgottenTimes

LEMMA ResetTimes ==
  ASSUME perform_system_reset
  PROVE  TimesInv'
BY StartTimes DEF perform_system_reset

LEMMA OtherTimes ==
  ASSUME TimesInv, UNCHANGED <<ticks, wps, press>>, pc' \notin {"delay", "press", "again"}
  PROVE  TimesInv'
BY DEF TimesInv, IsPress

LEMMA ForgettingTimes ==
  ASSUME Forgetting
  PROVE  TimesInv'
<1>1. ButtonForgotten /\ pc' \notin {"press", "again"}
  BY DEF Forgetting, ButtonRecovery, BootFlash, RecoverWhenBad, Choose, NoButton, Start
<1> QED BY <1>1, ForgottenTimes

LEMMA LaterTimes ==
  ASSUME TimesInv, Later
  PROVE  TimesInv'
<1>1. UNCHANGED <<ticks, wps, press>> /\ pc' \notin {"delay", "press", "again"}
  BY DEF Later, TftpEnds, TftpForBoot, SerialEnds, UsbLoads, CheckBoot, Confirm, SerialStep, LinuxRuns,
         Arrives, Goto, FlashNext, buttonVars, bootVars
<1> QED BY <1>1, OtherTimes

LEMMA TimesInit == Init => TimesInv
<1>1. 0 \in 0 .. DelayTicks /\ 0 * Long = 0 /\ 0 \in 0 .. DelayTicks * Long
  <2>1. DelayTicks * Long \in Nat
    BY Sums, ButtonAssumption
  <2> QED BY <2>1, ButtonAssumption
<1> QED BY <1>1, NoPressIsShort DEF Init, TimesInv

LEMMA TimesStep == TimesInv /\ [Next]_vars => TimesInv'
<1> SUFFICES ASSUME TimesInv, [Next]_vars PROVE TimesInv'
  OBVIOUS
<1>0. /\ ticks \in Nat /\ wps \in Nat /\ DelayTicks \in Nat /\ Long \in Nat
      /\ ticks * Long \in Nat /\ DelayTicks * Long \in Nat /\ (ticks + 1) * Long = ticks * Long + Long
      /\ ticks < DelayTicks => (ticks + 1) * Long <= DelayTicks * Long
  <2>1. ticks \in Nat /\ ticks + 1 \in Nat /\ DelayTicks \in Nat /\ Long \in Nat
    BY ButtonAssumption DEF TimesInv
  <2>2. DelayTicks * Long \in Nat /\ ticks * Long \in Nat /\ (ticks + 1) * Long = ticks * Long + Long
    BY <2>1, Sums
  <2>3. ticks < DelayTicks => (ticks + 1) * Long <= DelayTicks * Long
    BY <2>1, Sums
  <2> QED BY <2>1, <2>2, <2>3 DEF TimesInv
<1>1. CASE ButtonUp
  <2>1. /\ ticks' = ticks + 1 /\ wps' = wps /\ press' = press /\ pc' = "delay" /\ pc = "delay"
        /\ ticks < DelayTicks
    BY <1>1 DEF ButtonUp, bootVars
  <2> QED BY <1>0, <2>1 DEF TimesInv, IsPress
<1>2. CASE DelayOver
  BY <1>2, OtherTimes DEF DelayOver, Goto, buttonVars
<1>3. CASE KeyPressed
  BY <1>3, OtherTimes DEF KeyPressed, buttonVars
<1>4. CASE ButtonDown
  <2>1. PICK d \in BOOLEAN : press' = [NoPress EXCEPT !.down = d]
    BY <1>4 DEF ButtonDown, StartCount
  <2>2. IsPress(press') /\ Summed(press', Long) /\ press'.t0 <= Long /\ press'.t1 <= Long
    BY <2>1, FreshIsSummed
  <2>3. /\ pc = "delay" /\ ticks < DelayTicks /\ pc' = "press" /\ ticks' = ticks /\ wps' = wps
    BY <1>4 DEF ButtonDown, StartCount
  <2> QED BY <2>2, <2>3 DEF TimesInv
<1>5. CASE Sample
  <2>1. IsPress(press') /\ Summed(press', Long) /\ press'.t0 <= Long /\ press'.t1 <= Long
    BY <1>5, NextIsSummed DEF Sample, TimesInv
  <2>2. pc = "press" /\ pc' = "press" /\ ticks' = ticks /\ wps' = wps
    BY <1>5 DEF Sample, NextSample
  <2> QED BY <2>1, <2>2 DEF TimesInv
<1>6. CASE CountEnds
  <2>1. /\ PressTime(Long) \in 0 .. Long /\ wps' = wps + PressTime(Long) /\ pc = "press"
        /\ ticks < DelayTicks /\ wps <= ticks * Long
    BY <1>6, CountIsShort DEF CountEnds, TimesInv
  <2>2. wps' \in Nat /\ wps' <= (ticks + 1) * Long /\ wps' \in 0 .. DelayTicks * Long
    BY <1>0, <2>1
  <2>3. \/ pc' = "again" /\ ticks' = ticks /\ \E d \in BOOLEAN : press' = [NoPress EXCEPT !.down = d]
        \/ pc' = "chosen" /\ ticks' = ticks /\ press' = NoPress
        \/ pc' = "delay" /\ ticks' = ticks + 1 /\ press' = NoPress
    BY <1>6 DEF CountEnds, StartCount
  <2>4. CASE pc' = "again"
    <3>1. IsPress(press') /\ Summed(press', Reset) /\ press'.t0 <= Long /\ press'.t1 <= Long
      BY <2>3, <2>4, FreshIsSummed
    <3> QED BY <2>2, <2>3, <2>4, <3>1 DEF TimesInv
  <2>5. CASE pc' = "chosen"
    BY <2>2, <2>3, <2>5, NoPressIsShort DEF TimesInv
  <2>6. CASE pc' = "delay"
    <3>1. ticks + 1 \in 0 .. DelayTicks
      BY <1>0, <2>1
    <3> QED BY <2>2, <2>3, <2>6, <3>1, NoPressIsShort DEF TimesInv
  <2> QED BY <2>3, <2>4, <2>5, <2>6
<1>7. CASE SampleAgain
  <2>1. CASE CountOver(Reset)
    BY <1>7, <2>1, OtherTimes DEF SampleAgain, Goto, buttonVars
  <2>2. CASE ~CountOver(Reset)
    <3>1. IsPress(press') /\ Summed(press', Reset) /\ press'.t0 <= Long /\ press'.t1 <= Long
      BY <1>7, <2>2, NextIsSummed DEF SampleAgain, TimesInv
    <3>2. pc' = "again" /\ ticks' = ticks /\ wps' = wps
      BY <1>7, <2>2 DEF SampleAgain, NextSample
    <3> QED BY <3>1, <3>2 DEF TimesInv
  <2> QED BY <2>1, <2>2
<1>8. CASE ButtonReset
  BY <1>8, StartTimes DEF ButtonReset
<1>9. CASE Forgetting
  BY <1>9, ForgettingTimes
<1>10. CASE Later
  BY <1>10, LaterTimes
<1>11. CASE perform_system_reset
  BY <1>11, ResetTimes
<1>12. CASE TftpGivesUp \/ Decline \/ PowerCycle
  BY <1>11, <1>12 DEF TftpGivesUp, Decline, PowerCycle
<1>13. CASE BootRam
  BY <1>13, ResetTimes, OtherTimes DEF BootRam, Start, buttonVars
<1>14. CASE UsbFails
  BY <1>14, ResetTimes, OtherTimes DEF UsbFails, FlashFails, buttonVars
<1>15. CASE CheckKernel
  BY <1>15, ResetTimes, OtherTimes DEF CheckKernel, FlashFails, buttonVars
<1>16. CASE WriteSucceeds
  BY <1>16, StartTimes, OtherTimes DEF WriteSucceeds, buttonVars
<1>17. CASE WriteFails
  BY <1>17, StartTimes, OtherTimes DEF WriteFails, FlashFails, buttonVars
<1>18. CASE BootNew
  BY <1>18, ResetTimes, OtherTimes DEF BootNew, Start, buttonVars
<1>19. CASE Recovers
  BY <1>19, Recovered, StartTimes, OtherTimes DEF buttonVars
<1>20. CASE UNCHANGED vars
  BY <1>20 DEF vars, bootVars, buttonVars, TimesInv, IsPress, Summed
<1> QED
  BY <1>1, <1>2, <1>3, <1>4, <1>5, <1>6, <1>7, <1>8, <1>9, <1>10, <1>11, <1>12, <1>13, <1>14, <1>15,
     <1>16, <1>17, <1>18, <1>19, <1>20 DEF Next, Program, TftpReturns, Forgetting, Later

-----------------------------------------------------------------------------
(***************************************************************************)
(* The rest of the state: the flash, and what is started and written.      *)
(***************************************************************************)
Flash == [boot : Images, kernel : Images, settings : BOOLEAN]

Places == {"delay", "press", "again", "chosen", "usb", "tftp", "serial", "confirm", "prompt", "boot",
           "bootNew", "flashKernel", "flashBoot", "write", "recovery", "initramfs", "linux", "bricked"}

FlashInv ==
  /\ nor \in Flash /\ os \in Images /\ size \in 0 .. MemSize /\ writes \in 0 .. MaxWrites
  /\ pc \in Places /\ key \in Keys \cup {"3", "button"}

LEMMA NothingIsTyped == Nothing \in Images
BY BootAssumption DEF Nothing, Images

LEMMA WrittenIsTyped ==
  ASSUME ram \in Images, nor \in Flash, NEW i, NEW gap
  PROVE  FlashAfter(i, gap) \in Flash
<1>1. ASSUME NEW old \in Images PROVE Written(ram, old, i, gap) \in Images
  BY BootAssumption DEF Written, Images
<1> QED BY <1>1 DEF FlashAfter, Flash

LEMMA StartIsTyped ==
  ASSUME FlashInv, NEW flash \in Flash, StartFrom(flash), writes' \in 0 .. MaxWrites
  PROVE  FlashInv'
<1>1. os' = Nothing /\ nor' = flash /\ size' = 0 /\ key' = "3" /\ pc' \in {"delay", "bricked"}
  BY DEF StartFrom
<1>2. 0 \in 0 .. MemSize
  BY KermitAssumption
<1> QED BY <1>1, <1>2, NothingIsTyped DEF FlashInv, Places

LEMMA ResetIsTyped ==
  ASSUME FlashInv, perform_system_reset
  PROVE  FlashInv'
BY StartIsTyped DEF perform_system_reset, FlashInv

LEMMA ArrivalIsTyped ==
  ASSUME FlashInv, SerialInv, NEW f \in Files, NEW i \in 0 .. Len(Content(f)), NEW where \in Places,
         Arrives(f, i, where)
  PROVE  FlashInv'
<1>1. i \in 0 .. MemSize
  BY ArrivesIsTyped DEF SerialInv
<1> QED BY <1>1 DEF Arrives, FlashInv

(***************************************************************************)
(* A step that changes nothing of it but the place.                        *)
(***************************************************************************)
LEMMA MoveIsTyped ==
  ASSUME FlashInv, UNCHANGED <<key, size, nor, os, writes>>, pc' \in Places
  PROVE  FlashInv'
BY DEF FlashInv

LEMMA StartsLinux ==
  ASSUME FlashInv, NEW mem \in Images, Start(mem)
  PROVE  FlashInv'
BY DEF FlashInv, Start, Places

LEMMA ImageIsTyped ==
  ASSUME NEW f \in Files, NEW mem \in Images
  PROVE  InMemory(f, Len(Content(f)), mem) \in Images
<1>1. Len(Content(f)) \in 0 .. Len(Content(f))
  BY FilesAreLoadable
<1> QED BY <1>1, ArrivesIsTyped

LEMMA RecoveredIsTyped ==
  ASSUME FlashInv, Recovers
  PROVE  FlashInv'
<1>1. \A u \in Uploads : u.image \in Images
  BY BootAssumption DEF Images
<1>2. ASSUME NEW image \in Images, NEW old \in Images, NEW i, NEW gap PROVE Written(image, old, i, gap) \in Images
  BY BootAssumption DEF Written, Images
<1>3. nor \in Flash /\ nor.kernel \in Images /\ nor.boot \in Images
  BY DEF FlashInv, Flash
<1>4. nor' \in Flash /\ writes' \in 0 .. MaxWrites
  <2>1. CASE RecoveryWrites
    <3>1. writes' = writes
      BY <2>1 DEF RecoveryWrites
    <3>2. PICK u \in Uploads : \/ StartFrom([nor EXCEPT !.kernel = Written(u.image, nor.kernel, u.size, FALSE)])
                              \/ StartFrom([nor EXCEPT !.boot = u.image])
      BY <2>1 DEF RecoveryWrites
    <3>3. Written(u.image, nor.kernel, u.size, FALSE) \in Images
      BY <1>1, <1>2, <1>3
    <3>4. nor' \in Flash
      BY <1>1, <1>3, <3>2, <3>3 DEF StartFrom, Flash
    <3> QED BY <3>1, <3>4 DEF FlashInv
  <2>2. CASE RecoveryFails
    <3>1. writes' \in 0 .. MaxWrites
      BY <2>2, BootAssumption DEF RecoveryFails, FlashInv
    <3>2. PICK u \in Uploads, i \in 0 .. MemSize, gap \in BOOLEAN :
            \/ nor' = [nor EXCEPT !.kernel = Written(u.image, @, i, gap)]
            \/ nor' = [nor EXCEPT !.boot = Written(u.image, @, i, gap)]
      BY <2>2 DEF RecoveryFails, StartFrom
    <3>3. Written(u.image, nor.kernel, i, gap) \in Images /\ Written(u.image, nor.boot, i, gap) \in Images
      BY <1>1, <1>2, <1>3
    <3>4. nor' \in Flash
      BY <1>3, <3>2, <3>3 DEF Flash
    <3> QED BY <3>1, <3>4 DEF FlashInv
  <2>3. CASE RecoveryErases
    BY <2>3, <1>3 DEF RecoveryErases, StartFrom, FlashInv, Flash
  <2>4. CASE RecoveryStarts
    BY <2>4 DEF RecoveryStarts, FlashInv
  <2> QED BY <2>1, <2>2, <2>3, <2>4 DEF Recovers
<1>5. ASSUME NEW flash, StartFrom(flash), nor' = flash PROVE FlashInv'
  BY <1>4, <1>5, StartIsTyped
<1>6. ASSUME pc' \in {"recovery", "initramfs"}, UNCHANGED <<key, size>> PROVE FlashInv'
  <2>1. ASSUME NEW flash, StartFrom(flash) PROVE os' = Nothing
    BY <2>1 DEF StartFrom
  <2>2. ASSUME RecoveryWrites \/ RecoveryFails \/ RecoveryErases PROVE os' \in Images
    <3>1. os' = os \/ os' = Nothing
      BY <2>1, <2>2 DEF RecoveryWrites, RecoveryFails, RecoveryErases
    <3> QED BY <3>1, NothingIsTyped DEF FlashInv
  <2>3. ASSUME RecoveryStarts PROVE os' \in Images
    BY <1>1, <2>3 DEF RecoveryStarts
  <2>4. os' \in Images
    BY <2>2, <2>3 DEF Recovers
  <2>5. pc' \in Places /\ key' \in Keys \cup {"3", "button"} /\ size' \in 0 .. MemSize
    BY <1>6 DEF FlashInv, Places
  <2> QED BY <1>4, <2>4, <2>5 DEF FlashInv
<1> QED BY <1>5, <1>6, Recovered

LEMMA FlashInit == Init => FlashInv
<1> SUFFICES ASSUME Init PROVE FlashInv
  OBVIOUS
<1>1. Factory.kernel \in Files /\ Factory.boot \in Files /\ 0 \in 0 .. MemSize /\ 0 \in 0 .. MaxWrites
  BY BootAssumption, KermitAssumption
<1>2. nor \in Flash
  BY <1>1, ImageIsTyped, NothingIsTyped DEF Init, Flash
<1> QED BY <1>1, <1>2, NothingIsTyped DEF Init, FlashInv, Places

LEMMA FlashStep == FlashInv /\ SerialInv /\ [Next]_vars => FlashInv'
<1> SUFFICES ASSUME FlashInv, SerialInv, [Next]_vars PROVE FlashInv'
  OBVIOUS
<1>1. CASE ButtonUp \/ DelayOver \/ Sample \/ CountEnds \/ SampleAgain \/ ButtonDown
  <2>1. UNCHANGED <<key, size, nor, os, writes>>
    BY <1>1 DEF ButtonUp, DelayOver, Sample, CountEnds, SampleAgain, ButtonDown, Goto, NextSample, StartCount,
         bootVars
  <2>2. pc' \in Places
    BY <1>1 DEF ButtonUp, DelayOver, Sample, CountEnds, SampleAgain, ButtonDown, Goto, NextSample, StartCount,
         bootVars, Places
  <2> QED BY <2>1, <2>2, MoveIsTyped
<1>2. CASE KeyPressed
  BY <1>2 DEF KeyPressed, FlashInv, Places
<1>3. CASE ButtonRecovery
  BY <1>3 DEF ButtonRecovery, FlashInv, Places
<1>4. CASE ButtonReset
  <2> DEFINE flash == IF rootfs_func = -1 THEN nor ELSE [nor EXCEPT !.settings = FALSE]
  <2>1. flash \in Flash
    BY DEF FlashInv, Flash
  <2>2. StartFrom(flash) /\ writes' = writes
    BY <1>4 DEF ButtonReset
  <2> HIDE DEF flash
  <2> QED BY <2>1, <2>2, StartIsTyped DEF FlashInv
<1>5. CASE BootFlash
  BY <1>5, StartsLinux DEF BootFlash, FlashInv, Flash
<1>6. CASE RecoverWhenBad
  BY <1>6, MoveIsTyped DEF RecoverWhenBad, Places
<1>7. CASE Choose
  BY <1>7, ResetIsTyped, MoveIsTyped DEF Choose, Places
<1>8. CASE TftpEnds
  BY <1>8, ArrivalIsTyped DEF TftpEnds, FlashNext, Places
<1>9. CASE TftpForBoot
  <2>1. PICK f \in Files : Arrives(f, Len(Content(f)), "boot")
    BY <1>9 DEF TftpForBoot
  <2>2. Len(Content(f)) \in 0 .. Len(Content(f))
    BY FilesAreLoadable
  <2> QED BY <2>1, <2>2, ArrivalIsTyped DEF Places
<1>10. CASE UsbLoads
  <2>1. PICK f \in Files : Arrives(f, Len(Content(f)), "flashKernel")
    BY <1>10 DEF UsbLoads
  <2>2. Len(Content(f)) \in 0 .. Len(Content(f))
    BY FilesAreLoadable
  <2> QED BY <2>1, <2>2, ArrivalIsTyped DEF Places
<1>11. CASE TftpGivesUp \/ Decline \/ PowerCycle
  BY <1>11, ResetIsTyped DEF TftpGivesUp, Decline, PowerCycle
<1>12. CASE BootRam
  BY <1>12, ResetIsTyped, StartsLinux DEF BootRam, SerialInv
<1>13. CASE SerialEnds
  <2>1. LoadSize \in 0 .. MemSize
    BY KermitAssumption DEF LoadSize, SerialInv
  <2> QED BY <1>13, <2>1 DEF SerialEnds, FlashNext, FlashInv, Places
<1>14. CASE UsbFails
  BY <1>14, ResetIsTyped, MoveIsTyped DEF UsbFails, FlashFails, Places
<1>15. CASE CheckBoot
  BY <1>15, MoveIsTyped DEF CheckBoot, Goto, Places
<1>16. CASE CheckKernel
  BY <1>16, ResetIsTyped, MoveIsTyped DEF CheckKernel, FlashFails, Places
<1>17. CASE WriteSucceeds
  <2>1. FlashAfter(size, FALSE) \in Flash
    BY WrittenIsTyped DEF FlashInv, SerialInv
  <2> QED BY <1>17, <2>1, StartIsTyped DEF WriteSucceeds, FlashInv, Places
<1>18. CASE WriteFails
  <2>1. PICK i \in 0 .. size, gap \in BOOLEAN :
          \/ nor' = FlashAfter(i, gap) /\ FlashFails
          \/ StartFrom(FlashAfter(i, gap))
    <3>1. PICK i \in 0 .. size : \E gap \in {i < size} :
            \/ nor' = FlashAfter(i, gap) /\ FlashFails
            \/ StartFrom(FlashAfter(i, gap))
      BY <1>18 DEF WriteFails
    <3>2. (i < size) \in BOOLEAN
      OBVIOUS
    <3> QED BY <3>1, <3>2
  <2>2. FlashAfter(i, gap) \in Flash
    BY WrittenIsTyped DEF FlashInv, SerialInv
  <2>3. writes' \in 0 .. MaxWrites
    BY <1>18, BootAssumption DEF WriteFails, FlashInv
  <2>4. ASSUME nor' = FlashAfter(i, gap), FlashFails PROVE FlashInv'
    BY <2>2, <2>3, <2>4 DEF FlashFails, FlashInv, Places
  <2> QED BY <2>1, <2>2, <2>3, <2>4, StartIsTyped
<1>19. CASE BootNew
  BY <1>19, ResetIsTyped, StartsLinux DEF BootNew, FlashInv, Flash
<1>20. CASE Confirm
  BY <1>20, MoveIsTyped DEF Confirm, Goto, Places
<1>21. CASE SerialStep
  BY <1>21 DEF SerialStep, bootVars, FlashInv
<1>22. CASE Recovers
  BY <1>22, RecoveredIsTyped
<1>23. CASE LinuxRuns
  BY <1>23 DEF LinuxRuns, FlashInv, Flash
<1>24. CASE UNCHANGED vars
  BY <1>24 DEF vars, bootVars, FlashInv
<1> QED
  BY <1>1, <1>2, <1>3, <1>4, <1>5, <1>6, <1>7, <1>8, <1>9, <1>10, <1>11, <1>12, <1>13, <1>14, <1>15,
     <1>16, <1>17, <1>18, <1>19, <1>20, <1>21, <1>22, <1>23, <1>24 DEF Next, Program, TftpReturns

LEMMA DoubtStep ==
  ASSUME doubts \subseteq {"end", "server"}, [Next]_vars
  PROVE  doubts' \subseteq {"end", "server"}
<1>1. CASE Recovers
  BY <1>1 DEF Recovers, RecoveryWrites, RecoveryFails, RecoveryErases, RecoveryStarts, DoubtServer
<1>2. CASE TftpReturns \/ UsbLoads \/ Confirm
  BY <1>2 DEF TftpReturns, TftpEnds, TftpForBoot, TftpGivesUp, UsbLoads, Confirm, Arrives, DoubtLoad, Goto,
     perform_system_reset
<1>3. CASE ~(Recovers \/ TftpReturns \/ UsbLoads \/ Confirm)
  <2>1. doubts' = doubts
    BY <1>3 DEF Next, Program, vars, bootVars, perform_system_reset, Goto, ButtonUp, DelayOver, Sample, CountEnds,
       SampleAgain, NextSample, StartCount, ButtonRecovery, ButtonReset, BootFlash, RecoverWhenBad, Start, Choose,
       BootRam, SerialEnds, UsbFails, CheckBoot, CheckKernel, WriteSucceeds, WriteFails, BootNew, KeyPressed,
       ButtonDown, Decline, SerialStep, LinuxRuns, PowerCycle
  <2> QED BY <2>1
<1> QED BY <1>1, <1>2, <1>3

(***************************************************************************)
(* Every counter and every image of board_init_r stays in its range: no    *)
(* count of the button is longer than 5000, nothing is loaded past the end *)
(* of memory, and what is written to flash is what memory holds.           *)
(***************************************************************************)
THEOREM BootTypeCorrect ==
  ASSUME LinesAreGood
  PROVE  Spec => []TypeOK
<1>1. SerialInv /\ TimesInv /\ FlashInv /\ doubts \subseteq {"end", "server"} => TypeOK
  <2> SUFFICES ASSUME SerialInv, TimesInv, FlashInv, doubts \subseteq {"end", "server"} PROVE TypeOK
    OBVIOUS
  <2>1. press.t0 \in 0 .. Long /\ press.t1 \in 0 .. Long
    BY ButtonAssumption DEF TimesInv, IsPress
  <2> QED BY <2>1 DEF SerialInv, TimesInv, FlashInv, TypeOK, Flash, Places
<1>2. Init => SerialInv /\ TimesInv /\ FlashInv /\ doubts \subseteq {"end", "server"}
  BY SerialInit, TimesInit, FlashInit DEF Init
<1>3. /\ SerialInv /\ TimesInv /\ FlashInv /\ doubts \subseteq {"end", "server"} /\ [Next]_vars
      => (SerialInv /\ TimesInv /\ FlashInv /\ doubts \subseteq {"end", "server"})'
  BY SerialNext, TimesStep, FlashStep, DoubtStep
<1> QED BY <1>1, <1>2, <1>3, PTL DEF Spec

-----------------------------------------------------------------------------
(***************************************************************************)
(* The kernel in flash.  While no write has failed, nothing is remembered  *)
(* when a check before a write begins, so it is made in full; and what is  *)
(* in memory of a kernel that is whole there was covered by the load,      *)
(* whose size is that of the write, as its end was not there before.       *)
(***************************************************************************)
End(f) == Content(f)[Len(Content(f))]
WholeIn(f, mem) == \A i \in 1 .. Len(Content(f)) : mem[i] = Content(f)[i]
LoadCovers == \A f \in Kernels : WholeIn(f, ram) => size = 0 \/ Len(Content(f)) <= size
Frames == \A f \in Kernels : FrameInv(Len(Content(f)), End(f))

KeepInv ==
  /\ KernelStaysWhole
  /\ writes = 0 /\ pc \notin {"write", "bootNew", "linux"} => checked = NoCheck
  /\ "end" \notin doubts /\ pc \in {"flashKernel", "flashBoot", "write"} => LoadCovers
  /\ writes = 0 /\ pc = "write" /\ Target = "kernel" => IsWhole(ram, Kernels) /\ size >= MinKernel
  /\ "end" \notin doubts /\ pc = "serial" => Frames
  /\ pc = "flashBoot" => Target = "boot"

LEMMA KernelIs ==
  ASSUME NEW f \in Kernels
  PROVE  /\ f \in Files /\ Len(Content(f)) \in Memory /\ Len(Content(f)) \in Nat /\ Len(Content(f)) > 1
         /\ Len(Content(f)) \in 1 .. Len(Content(f))
<1>1. f \in Files /\ Len(Content(f)) > 1
  BY BootAssumption
<1>2. Len(Content(f)) \in Nat /\ Len(Content(f)) <= MemSize
  BY <1>1, FilesAreLoadable
<1>3. MemSize \in Nat
  BY KermitAssumption
<1> QED BY <1>1, <1>2, <1>3 DEF Memory

LEMMA WholeIs ==
  ASSUME NEW mem
  PROVE  IsWhole(mem, Kernels) <=> \E f \in Kernels : WholeIn(f, mem)
<1>1. ASSUME NEW f \in Kernels, WholeIn(f, mem) PROVE f \in HeaderOf(mem, Kernels)
  <2>1. 1 \in 1 .. Len(Content(f))
    BY KernelIs
  <2> QED BY <1>1, <2>1 DEF WholeIn, HeaderOf
<1>2. \A f \in HeaderOf(mem, Kernels) : f \in Kernels
  BY DEF HeaderOf
<1> QED BY <1>1, <1>2 DEF IsWhole, WholeIn

LEMMA LoadedIsWholeIn ==
  ASSUME NEW f \in Kernels, NEW mem
  PROVE  IsWhole(InMemory(f, Len(Content(f)), mem), Kernels)
<1>1. Len(Content(f)) \in Nat /\ Len(Content(f)) <= MemSize /\ MemSize \in Nat
  BY KernelIs, FilesAreLoadable, KermitAssumption
<1>2. \A i \in 1 .. Len(Content(f)) : i \in Memory /\ i <= Len(Content(f))
  BY <1>1 DEF Memory
<1>3. WholeIn(f, InMemory(f, Len(Content(f)), mem))
  BY <1>2 DEF WholeIn, InMemory
<1> QED BY <1>3, WholeIs

(***************************************************************************)
(* A step that writes nothing to flash and goes where nothing is being     *)
(* written.                                                                *)
(***************************************************************************)
LEMMA KeepMoves ==
  ASSUME KeepInv, UNCHANGED <<nor, doubts>>, writes' = 0 => writes = 0,
         pc' \notin {"flashKernel", "flashBoot", "write", "serial"},
         writes' = 0 /\ pc' \notin {"bootNew", "linux"} => checked' = NoCheck
  PROVE  KeepInv'
BY DEF KeepInv, KernelStaysWhole

LEMMA KeepStarts ==
  ASSUME NEW flash, StartFrom(flash), writes' = 0 /\ doubts' = {} => IsWhole(flash.kernel, Kernels)
  PROVE  KeepInv'
<1>1. nor' = flash /\ pc' \in {"delay", "bricked"} /\ checked' = NoCheck
  BY DEF StartFrom
<1> QED BY <1>1 DEF KeepInv, KernelStaysWhole

LEMMA KeepReset ==
  ASSUME KeepInv, perform_system_reset
  PROVE  KeepInv'
BY KeepStarts DEF perform_system_reset, KeepInv, KernelStaysWhole

\* the end of a kernel that was not there before was loaded
LEMMA KeepArrives ==
  ASSUME KeepInv, NEW f \in Files, NEW i \in 0 .. Len(Content(f)),
         NEW where \in {"boot", "flashKernel", "flashBoot"}, pc \in {"tftp", "usb"},
         where = "flashBoot" => Target = "boot", Arrives(f, i, where)
  PROVE  KeepInv'
<1>1. /\ ram' = InMemory(f, i, ram) /\ size' = i /\ pc' = where /\ DoubtLoad
      /\ UNCHANGED <<key, checked, nor, writes>>
  BY DEF Arrives
<1>2. ASSUME "end" \notin doubts' PROVE LoadCovers'
  <2> SUFFICES ASSUME NEW g \in Kernels, WholeIn(g, ram') PROVE Len(Content(g)) <= i
    BY <1>1 DEF LoadCovers
  <2>1. Len(Content(g)) \in Memory /\ Len(Content(g)) \in Nat /\ Len(Content(g)) \in 1 .. Len(Content(g))
    BY KernelIs
  <2>2. ram[Len(Content(g))] # End(g)
    BY <1>1, <1>2 DEF DoubtLoad, EndsKernel, End
  <2>3. ram'[Len(Content(g))] = End(g)
    BY <2>1 DEF WholeIn, End
  <2>4. ~(Len(Content(g)) <= i) => ram'[Len(Content(g))] = ram[Len(Content(g))]
    BY <1>1, <2>1 DEF InMemory
  <2> QED BY <2>2, <2>3, <2>4
<1>3. doubts' = {} => doubts = {}
  BY <1>1 DEF DoubtLoad
<1> QED BY <1>1, <1>2, <1>3 DEF KeepInv, KernelStaysWhole, Target

LEMMA KeepSerialStarts ==
  ASSUME SerialInv, KeepInv, Confirm
  PROVE  KeepInv'
<1>1. CASE Goto("tftp") \/ Goto("usb")
  BY <1>1, KeepMoves DEF Goto, Confirm, KeepInv
<1>2. ASSUME NEW f \in SerialFiles, NEW line \in Lines, StartLoad(f, line), pc' = "serial",
             DoubtLoad, UNCHANGED <<checked, nor, writes>>
      PROVE  KeepInv'
  <2>1. f \in Files
    BY BootAssumption
  <2>2. ASSUME "end" \notin doubts' PROVE Frames'
    <3>1. ASSUME NEW g \in Kernels PROVE FrameInv(Len(Content(g)), End(g))'
      <4>1. ram[Len(Content(g))] # End(g) /\ Len(Content(g)) \in Memory
        BY <1>2, <2>2, KernelIs DEF DoubtLoad, EndsKernel, End
      <4>2. PICK e \in Memory : e = Len(Content(g))
        BY <4>1
      <4>3. PICK v : v = End(g)
        OBVIOUS
      <4>4. FrameInv(e, v)'
        BY <1>2, <2>1, <4>1, <4>2, <4>3, FrameStarts
      <4> QED BY <4>2, <4>3, <4>4 DEF FrameInv
    <3> QED BY <3>1 DEF Frames
  <2>3. doubts' = {} => doubts = {}
    BY <1>2 DEF DoubtLoad
  <2>4. pc = "confirm"
    BY DEF Confirm
  <2> QED BY <1>2, <2>2, <2>3, <2>4 DEF KeepInv, KernelStaysWhole
<1> QED BY <1>1, <1>2 DEF Confirm

LEMMA KeepSerialGoes ==
  ASSUME LinesAreGood, SerialInv, KeepInv, SerialStep
  PROVE  KeepInv'
<1>1. LoadInv /\ LineStep /\ UNCHANGED bootVars /\ pc = "serial"
  BY DEF SerialStep, SerialInv
<1>2. ASSUME NEW g \in Kernels, FrameInv(Len(Content(g)), End(g))
      PROVE  FrameInv(Len(Content(g)), End(g))'
  <2>1. PICK e \in Memory : e = Len(Content(g)) /\ e > 1
    BY KernelIs
  <2>2. PICK v : v = End(g)
    OBVIOUS
  <2>3. FrameInv(e, v)
    BY <1>2, <2>1, <2>2
  <2>4. FrameInv(e, v)'
    BY <1>1, <2>1, <2>3, FrameStep
  <2> QED BY <2>1, <2>2, <2>4 DEF FrameInv
<1>3. Frames => Frames'
  BY <1>2 DEF Frames
<1> QED BY <1>1, <1>3 DEF KeepInv, KernelStaysWhole, bootVars

LEMMA KeepSerialEnds ==
  ASSUME KeepInv, SerialEnds
  PROVE  KeepInv'
<1>1. /\ pc = "serial" /\ loading \in {"done", "interrupted"} /\ size' = LoadSize
      /\ pc' \in {"flashKernel", "flashBoot"} /\ UNCHANGED <<ram, checked, nor, writes, doubts>>
      /\ pc' = "flashBoot" => Target' = "boot"
  BY DEF SerialEnds, FlashNext, Target
<1>2. ASSUME "end" \notin doubts PROVE LoadCovers'
  <2> SUFFICES ASSUME NEW g \in Kernels, WholeIn(g, ram) PROVE LoadSize = 0 \/ Len(Content(g)) <= LoadSize
    BY <1>1 DEF LoadCovers
  <2>1. ram[Len(Content(g))] = End(g)
    BY KernelIs DEF WholeIn, End
  <2>2. FrameInv(Len(Content(g)), End(g))
    BY <1>1, <1>2 DEF KeepInv, Frames
  <2> QED BY <1>1, <2>1, <2>2 DEF FrameInv, LoadSize
<1> QED BY <1>1, <1>2 DEF KeepInv, KernelStaysWhole

LEMMA KeepChecked ==
  ASSUME KeepInv, CheckKernel
  PROVE  KeepInv'
<1>1. CASE ~AcceptKernel /\ ResetInstead
  BY <1>1, KeepReset DEF CheckKernel
<1>2. CASE ~(~AcceptKernel /\ ResetInstead)
  <2>1. /\ pc = "flashKernel" /\ UNCHANGED <<nor, writes, doubts>>
        /\ checked' = IF size >= MinKernel THEN Remembered("ram", ram) ELSE checked
    BY <1>2 DEF CheckKernel
  <2>2. CASE ~AcceptKernel
    <3>1. pc' \in {"recovery", "confirm"}
      BY <1>2, <2>2 DEF CheckKernel, FlashFails
    <3>2. writes' = 0 => checked' = NoCheck
      BY <2>1, <2>2 DEF AcceptKernel, Remembered, KeepInv
    <3> QED BY <2>1, <3>1, <3>2, KeepMoves
  <2>3. CASE AcceptKernel
    <3>1. pc' = "write" /\ UNCHANGED <<key, size, ram>>
      BY <1>2, <2>3 DEF CheckKernel, kermitVars
    <3>2. writes = 0 => IsWhole(ram, Kernels) /\ size >= MinKernel
      <4>1. writes = 0 => checked[1] # "ram"
        BY <2>1 DEF KeepInv, NoCheck
      <4> QED BY <2>3, <4>1, UnseenIsWhole DEF AcceptKernel
    <3>3. LoadCovers => LoadCovers'
      BY <3>1 DEF LoadCovers
    <3>4. IsWhole(ram, Kernels) => IsWhole(ram', Kernels)
      BY <3>1
    <3> QED BY <2>1, <3>1, <3>2, <3>3, <3>4 DEF KeepInv, KernelStaysWhole
  <2> QED BY <2>2, <2>3
<1> QED BY <1>1, <1>2

\* a kernel that was checked is written whole
LEMMA KeepWrites ==
  ASSUME SerialInv, FlashInv, KeepInv, WriteSucceeds
  PROVE  KeepInv'
<1> DEFINE flash == FlashAfter(size, FALSE)
<1>1. ASSUME writes = 0, doubts = {} PROVE IsWhole(flash.kernel, Kernels)
  <2>1. IsWhole(nor.kernel, Kernels) /\ nor \in Flash
    BY <1>1 DEF KeepInv, KernelStaysWhole, FlashInv
  <2>2. CASE Target = "boot"
    <3>1. flash.kernel = nor.kernel
      BY <2>1, <2>2 DEF FlashAfter, Flash
    <3> QED BY <2>1, <3>1
  <2>3. CASE Target # "boot"
    <3>1. IsWhole(ram, Kernels) /\ size >= MinKernel /\ LoadCovers
      BY <1>1, <2>3 DEF KeepInv, WriteSucceeds, Target
    <3>2. PICK f \in Kernels : WholeIn(f, ram)
      BY <3>1, WholeIs
    <3>3. size \in Nat /\ Len(Content(f)) <= size
      BY <3>1, <3>2, BootAssumption, KermitAssumption DEF LoadCovers, FlashInv
    <3>4. flash.kernel = Written(ram, nor.kernel, size, FALSE)
      BY <2>1, <2>3 DEF FlashAfter, Flash
    <3>5. \A i \in 1 .. Len(Content(f)) : i \in Memory /\ i <= size
      <4>1. Len(Content(f)) \in Nat /\ Len(Content(f)) <= MemSize /\ MemSize \in Nat
        BY KernelIs, FilesAreLoadable, KermitAssumption
      <4> QED BY <3>3, <4>1 DEF Memory
    <3>6. WholeIn(f, Written(ram, nor.kernel, size, FALSE))
      BY <3>2, <3>5 DEF WholeIn, Written
    <3> QED BY <3>4, <3>6, WholeIs
  <2> QED BY <2>2, <2>3
<1>2. CASE key = "2"
  <2>1. pc' = "bootNew" /\ nor' = flash /\ UNCHANGED <<writes, doubts>>
    BY <1>2 DEF WriteSucceeds
  <2> HIDE DEF flash
  <2> QED BY <1>1, <2>1 DEF KeepInv, KernelStaysWhole
<1>3. CASE key # "2"
  <2>1. StartFrom(flash) /\ UNCHANGED <<writes, doubts>>
    BY <1>3 DEF WriteSucceeds
  <2> HIDE DEF flash
  <2> QED BY <1>1, <2>1, KeepStarts
<1> QED BY <1>2, <1>3

\* what the recovery server wrote is whole, or doubted
LEMMA KeepRecovers ==
  ASSUME FlashInv, KeepInv, Recovers
  PROVE  KeepInv'
<1>0. nor \in Flash
  BY DEF FlashInv
<1>1. CASE RecoveryWrites
  <2>1. PICK u \in Uploads :
          \/ /\ StartFrom([nor EXCEPT !.kernel = Written(u.image, nor.kernel, u.size, FALSE)])
             /\ DoubtServer(Written(u.image, nor.kernel, u.size, FALSE))
          \/ StartFrom([nor EXCEPT !.boot = u.image]) /\ UNCHANGED doubts
    BY <1>1 DEF RecoveryWrites
  <2>2. PICK kernel : kernel = Written(u.image, nor.kernel, u.size, FALSE)
    OBVIOUS
  <2>3. CASE StartFrom([nor EXCEPT !.kernel = kernel]) /\ DoubtServer(kernel)
    <3>1. [nor EXCEPT !.kernel = kernel].kernel = kernel
      BY <1>0 DEF Flash
    <3>2. doubts' = {} => IsWhole(kernel, Kernels)
      BY <2>3 DEF DoubtServer
    <3> QED BY <2>3, <3>1, <3>2, KeepStarts
  <2>4. CASE StartFrom([nor EXCEPT !.boot = u.image]) /\ UNCHANGED doubts
    <3>1. [nor EXCEPT !.boot = u.image].kernel = nor.kernel /\ writes' = writes
      BY <1>0, <1>1 DEF Flash, RecoveryWrites
    <3> QED BY <2>4, <3>1, KeepStarts DEF KeepInv, KernelStaysWhole
  <2> QED BY <2>1, <2>2, <2>3, <2>4
<1>2. CASE RecoveryFails
  <2>1. writes' # 0
    BY <1>2, BootAssumption DEF RecoveryFails, FlashInv
  <2>2. pc' \in {"delay", "bricked", "recovery"}
    BY <1>2 DEF RecoveryFails, StartFrom
  <2> QED BY <2>1, <2>2 DEF KeepInv, KernelStaysWhole
<1>3. CASE RecoveryErases
  <2>1. StartFrom([nor EXCEPT !.settings = FALSE]) /\ UNCHANGED <<writes, doubts>>
    BY <1>3 DEF RecoveryErases
  <2>2. [nor EXCEPT !.settings = FALSE].kernel = nor.kernel
    BY <1>0 DEF Flash
  <2> QED BY <2>1, <2>2, KeepStarts DEF KeepInv, KernelStaysWhole
<1>4. CASE RecoveryStarts
  <2>1. /\ UNCHANGED <<nor, doubts, writes, checked>> /\ pc = "recovery" /\ pc' = "initramfs"
    BY <1>4 DEF RecoveryStarts
  <2> QED BY <2>1, KeepMoves DEF KeepInv
<1> QED BY <1>1, <1>2, <1>3, <1>4 DEF Recovers

LEMMA KeepInit == Init => KeepInv
<1> SUFFICES ASSUME Init PROVE KeepInv
  OBVIOUS
<1>1. IsWhole(nor.kernel, Kernels)
  BY BootAssumption, LoadedIsWholeIn DEF Init
<1> QED BY <1>1 DEF Init, KeepInv, KernelStaysWhole

LEMMA KeepNext ==
  ASSUME LinesAreGood, SerialInv, FlashInv, KeepInv, [Next]_vars
  PROVE  KeepInv'
<1>1. CASE ButtonUp \/ DelayOver \/ Sample \/ CountEnds \/ SampleAgain \/ ButtonDown \/ KeyPressed \/ ButtonRecovery
  <2>1. UNCHANGED <<nor, doubts, writes, checked>> /\ pc \notin {"write", "bootNew", "linux"}
    BY <1>1 DEF ButtonUp, DelayOver, Sample, CountEnds, SampleAgain, ButtonDown, KeyPressed, ButtonRecovery, Goto,
         NextSample, StartCount, bootVars
  <2>2. pc' \in {"delay", "press", "again", "chosen", "usb"}
    BY <1>1 DEF ButtonUp, DelayOver, Sample, CountEnds, SampleAgain, ButtonDown, KeyPressed, ButtonRecovery, Goto,
         NextSample, StartCount, bootVars
  <2> QED BY <2>1, <2>2, KeepMoves DEF KeepInv
<1>2. CASE ButtonReset
  <2> DEFINE flash == IF rootfs_func = -1 THEN nor ELSE [nor EXCEPT !.settings = FALSE]
  <2>1. flash.kernel = nor.kernel
    BY DEF FlashInv, Flash
  <2>2. StartFrom(flash) /\ UNCHANGED <<writes, doubts>>
    BY <1>2 DEF ButtonReset
  <2> HIDE DEF flash
  <2> QED BY <2>1, <2>2, KeepStarts DEF KeepInv, KernelStaysWhole
<1>3. CASE BootFlash
  BY <1>3, KeepMoves DEF BootFlash, Start
<1>4. CASE RecoverWhenBad
  BY <1>4, KeepMoves DEF RecoverWhenBad
<1>5. CASE Choose
  <2>1. CASE perform_system_reset
    BY <2>1, KeepReset
  <2>2. CASE ~perform_system_reset
    <3>1. UNCHANGED <<nor, doubts, writes, checked>> /\ pc = "chosen" /\ pc' \in {"tftp", "prompt", "confirm"}
      BY <1>5, <2>2 DEF Choose, NoButton
    <3> QED BY <3>1, KeepMoves DEF KeepInv
  <2> QED BY <2>1, <2>2
<1>6. CASE TftpEnds
  BY <1>6, KeepArrives DEF TftpEnds, FlashNext, Target
<1>7. CASE TftpForBoot
  <2>1. PICK f \in Files : Arrives(f, Len(Content(f)), "boot")
    BY <1>7 DEF TftpForBoot
  <2>2. Len(Content(f)) \in 0 .. Len(Content(f)) /\ pc = "tftp"
    BY <1>7, FilesAreLoadable DEF TftpForBoot
  <2> QED BY <2>1, <2>2, KeepArrives
<1>8. CASE UsbLoads
  <2>1. PICK f \in Files : Arrives(f, Len(Content(f)), "flashKernel")
    BY <1>8 DEF UsbLoads
  <2>2. Len(Content(f)) \in 0 .. Len(Content(f)) /\ pc = "usb"
    BY <1>8, FilesAreLoadable DEF UsbLoads
  <2> QED BY <2>1, <2>2, KeepArrives
<1>9. CASE TftpGivesUp \/ Decline \/ PowerCycle
  BY <1>9, KeepReset DEF TftpGivesUp, Decline, PowerCycle
<1>10. CASE BootRam
  <2>1. CASE perform_system_reset
    BY <2>1, KeepReset
  <2>2. CASE ~perform_system_reset
    BY <1>10, <2>2, KeepMoves DEF BootRam, Start
  <2> QED BY <2>1, <2>2
<1>11. CASE SerialEnds
  BY <1>11, KeepSerialEnds
<1>12. CASE UsbFails
  <2>1. CASE perform_system_reset
    BY <2>1, KeepReset
  <2>2. CASE ~perform_system_reset
    <3>1. UNCHANGED <<nor, doubts, writes, checked>> /\ pc = "usb" /\ pc' \in {"recovery", "confirm"}
      BY <1>12, <2>2 DEF UsbFails, FlashFails
    <3> QED BY <3>1, KeepMoves DEF KeepInv
  <2> QED BY <2>1, <2>2
<1>13. CASE CheckBoot
  <2>1. /\ UNCHANGED <<nor, doubts, writes, checked, key, size, ram>> /\ pc = "flashBoot"
        /\ pc' \in {"write", "confirm"}
    BY <1>13 DEF CheckBoot, Goto, kermitVars
  <2>2. Target = "boot" /\ Target' = "boot"
    BY <2>1 DEF KeepInv, Target
  <2>3. LoadCovers => LoadCovers'
    BY <2>1 DEF LoadCovers
  <2>4. CASE pc' = "confirm"
    BY <2>1, <2>4, KeepMoves DEF KeepInv
  <2>5. CASE pc' = "write"
    BY <2>1, <2>2, <2>3, <2>5 DEF KeepInv, KernelStaysWhole
  <2> QED BY <2>1, <2>4, <2>5
<1>14. CASE CheckKernel
  BY <1>14, KeepChecked
<1>15. CASE WriteSucceeds
  BY <1>15, KeepWrites
<1>16. CASE WriteFails
  <2>1. writes' # 0 /\ pc' \in {"recovery", "confirm", "delay", "bricked"}
    BY <1>16, BootAssumption DEF WriteFails, FlashFails, StartFrom, FlashInv
  <2> QED BY <2>1 DEF KeepInv, KernelStaysWhole
<1>17. CASE BootNew
  <2>1. CASE perform_system_reset
    BY <2>1, KeepReset
  <2>2. CASE ~perform_system_reset
    BY <1>17, <2>2, KeepMoves DEF BootNew, Start
  <2> QED BY <2>1, <2>2
<1>18. CASE Confirm
  BY <1>18, KeepSerialStarts
<1>19. CASE SerialStep
  BY <1>19, KeepSerialGoes
<1>20. CASE Recovers
  BY <1>20, KeepRecovers
<1>21. CASE LinuxRuns
  BY <1>21 DEF LinuxRuns, KeepInv, KernelStaysWhole, FlashInv, Flash
<1>22. CASE UNCHANGED vars
  BY <1>22 DEF vars, bootVars, kermitVars, KeepInv, KernelStaysWhole, LoadCovers, Target, Frames, FrameInv,
     Truncated, Current, Top, Whole
<1> QED
  BY <1>1, <1>2, <1>3, <1>4, <1>5, <1>6, <1>7, <1>8, <1>9, <1>10, <1>11, <1>12, <1>13, <1>14, <1>15,
     <1>16, <1>17, <1>18, <1>19, <1>20, <1>21, <1>22 DEF Next, Program, TftpReturns

(***************************************************************************)
(* While no write fails, the kernel in flash is a whole one, whatever was  *)
(* loaded, broken off, cancelled, damaged on the line and chosen: a part   *)
(* of one passes the check only over the end of an old one, and what the   *)
(* check passes is written to its end (flash_kernel_image).  What the      *)
(* recovery server writes is doubted unless it is whole.                   *)
(***************************************************************************)
THEOREM KernelIsKept ==
  ASSUME LinesAreGood
  PROVE  Spec => []KernelStaysWhole
<1>1. KeepInv => KernelStaysWhole
  BY DEF KeepInv
<1>2. Init => SerialInv /\ FlashInv /\ KeepInv
  BY SerialInit, FlashInit, KeepInit
<1>3. (SerialInv /\ FlashInv /\ KeepInv) /\ [Next]_vars => (SerialInv /\ FlashInv /\ KeepInv)'
  BY SerialNext, FlashStep, KeepNext
<1> QED BY <1>1, <1>2, <1>3, PTL DEF Spec
===============================================================================
