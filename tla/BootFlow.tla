------------------------------- MODULE BootFlow -------------------------------
(***************************************************************************)
(* From power-on to Linux or the recovery server: the end of board_init_r  *)
(* in lib_mips/board.c with its button, its menu, and the loads, checks    *)
(* and flash writes it calls.  A file loaded over the serial line comes    *)
(* through Kermit; what the network, the USB storage, the recovery server  *)
(* and the flash driver do is summed up in their results.                  *)
(*                                                                         *)
(* Times are in units of which INT_DIV is a sample of the button.          *)
(***************************************************************************)
EXTENDS Kermit

CONSTANTS
  Kernels,      \* the kernel images, files all
  Boots,        \* the boot loader images, files all
  OpenWrt,      \* the kernels rootfs_func knows
  SerialFiles,  \* bound: the files sent over the serial line
  Factory,      \* the kernel and the boot loader the board starts with
  Keys,         \* keys of the menu
  DelayTicks,   \* turns of the delay loop: bootdelay * 100
  INT_DIV,      \* time between two samples of the button
  Long,         \* 5000: the first count
  Reset,        \* 3000: the second count
  MinKernel,    \* LINUX_FILE_SIZE_MIN
  MinBoot,      \* UBOOT_FILE_SIZE_MIN
  Uploads,      \* bound: memory and size of what the recovery server is given, whole images and others
  MaxWrites,    \* bound: flash writes that fail
  ERASED, JUNK  \* what a flash write leaves behind, and memory after a reset

ASSUME BootAssumption ==
  /\ Kernels \cap Boots = {} /\ Kernels \cup Boots \subseteq Files /\ OpenWrt \subseteq Kernels
  /\ SerialFiles \subseteq Files /\ Factory \in [kernel : Kernels, boot : Boots]
  /\ Uploads \subseteq [image : [Memory -> Int], size : 0 .. MemSize]
  /\ MemSize >= 1 /\ \A f \in Files : Len(Content(f)) <= MemSize
  /\ \A f \in Kernels : Len(Content(f)) > 1    \* header and data
  /\ MinKernel \in Nat \ {0}
  /\ ERASED \in Int /\ JUNK \in Int /\ MaxWrites \in Nat

\* board.c: INT_DIV is 32, and the counts are 5000 and 3000
ASSUME ButtonAssumption ==
  /\ DelayTicks \in Nat /\ INT_DIV \in Nat \ {0}
  /\ Long \in Nat /\ Long >= 2 * INT_DIV
  /\ Reset \in INT_DIV .. Long

VARIABLES
  pc,           \* where board_init_r is
  ticks,        \* i of the delay loop
  key,          \* BootType
  wps,          \* wps_button_time
  press,        \* count_button_press: its state_time, turns and sample
  seen,         \* what the button did so far: the counts, and the samples of the first one
  size,         \* NetBootFileXferSize
  checked,      \* lastAddr and header of verify_kernel_image
  nor,          \* the flash: boot loader, kernel, and the settings of OpenWrt
  os,           \* what do_bootm started
  writes,       \* flash writes that failed or were cut off
  doubts        \* "end": a load began with the end of a kernel in memory,
                \* "server": what the recovery server last wrote is no whole kernel

buttonVars == <<ticks, wps, press, seen>>
bootVars == <<pc, key, size, checked, nor, os, writes, doubts>>
vars == <<kermitVars, buttonVars, bootVars>>

-----------------------------------------------------------------------------
(***************************************************************************)
(* Images in memory and in flash.  The first character stands for header   *)
(* or vectors, and the data CRC tells whether all the others are there.    *)
(***************************************************************************)
HeaderOf(mem, fs) == {f \in fs : Content(f)[1] = mem[1]}

IsWhole(mem, fs) ==
  \E f \in HeaderOf(mem, fs) : \A i \in 1 .. Len(Content(f)) : mem[i] = Content(f)[i]

\* a load that ends before it does not show that the rest is an old one's
EndsKernel(mem) == \E f \in Kernels : mem[Len(Content(f))] = Content(f)[Len(Content(f))]

DoubtLoad == doubts' = doubts \cup (IF EndsKernel(ram) THEN {"end"} ELSE {})

Nothing == [i \in Memory |-> ERASED]
InMemory(f, i, mem) == [j \in Memory |-> IF j <= i THEN Content(f)[j] ELSE mem[j]]

NoCheck == <<"none", 0>>
NoPress == [t0 |-> 0, t1 |-> 0, turn |-> 0, down |-> FALSE]
Unseen == [counts |-> 0, samples |-> <<>>]

(***************************************************************************)
(* Mutant: the header alone tells whether the image was checked.           *)
(***************************************************************************)
verify_kernel_header(at, mem) ==
  \/ HeaderOf(mem, Kernels) # {} /\ checked[2] = mem[1]
  \/ IsWhole(mem, Kernels)

(***************************************************************************)
(* verify_kernel_image: the same header at the address checked last is not *)
(* checked again.                                                          *)
(***************************************************************************)
verify_kernel_image(at, mem) ==
  \/ HeaderOf(mem, Kernels) # {} /\ checked = <<at, mem[1]>>
  \/ IsWhole(mem, Kernels)

Remembered(at, mem) == IF verify_kernel_image(at, mem) THEN <<at, mem[1]>> ELSE NoCheck

(***************************************************************************)
(* verify_uboot_image looks at the size and the first two vectors.         *)
(***************************************************************************)
verify_uboot_image == size >= MinBoot /\ HeaderOf(ram, Boots) # {}

(***************************************************************************)
(* rootfs_func(check): -1 for firmware it does not know, 0 when there are  *)
(* settings to erase, 1 when they are erased already.                      *)
(***************************************************************************)
rootfs_func ==
  IF HeaderOf(nor.kernel, OpenWrt) = {} THEN -1 ELSE IF nor.settings THEN 0 ELSE 1

(***************************************************************************)
(* A start, warm or cold.  Without a whole boot loader there is none.      *)
(***************************************************************************)
StartFrom(flash) ==
  /\ pc' = IF IsWhole(flash.boot, Boots) THEN "delay" ELSE "bricked"
  /\ ticks' = 0 /\ key' = "3" /\ wps' = 0 /\ press' = NoPress /\ seen' = Unseen
  /\ size' = 0 /\ checked' = NoCheck /\ os' = Nothing
  /\ nor' = flash
  /\ ram' = [i \in Memory |-> JUNK]
  /\ ForgetLoad

perform_system_reset == StartFrom(nor) /\ UNCHANGED <<writes, doubts>>

(***************************************************************************)
(* The power is cut.  Before the delay is over that changes nothing but    *)
(* the time that is left.                                                  *)
(***************************************************************************)
PowerCycle == pc \notin {"delay", "press", "again", "chosen"} /\ perform_system_reset

Goto(where) == pc' = where /\ UNCHANGED <<key, size, checked, nor, os, writes, doubts, buttonVars, kermitVars>>

-----------------------------------------------------------------------------
(***************************************************************************)
(* The delay loop (board.c:1048-1075): a key ends it; else the button is   *)
(* looked at, and counted while it is held.                                *)
(***************************************************************************)
KeyPressed ==
  /\ pc = "delay" /\ ticks < DelayTicks
  /\ key' \in Keys
  /\ pc' = "chosen"
  /\ UNCHANGED <<size, checked, nor, os, writes, doubts, buttonVars, kermitVars>>

ButtonUp ==
  /\ pc = "delay" /\ ticks < DelayTicks
  /\ ticks' = ticks + 1
  /\ UNCHANGED <<wps, press, seen, bootVars, kermitVars>>

(***************************************************************************)
(* count_button_press samples the button again before its first turn.      *)
(***************************************************************************)
StartCount(where) ==
  /\ pc' = where
  /\ \E d \in BOOLEAN : press' = [NoPress EXCEPT !.down = d]
  /\ UNCHANGED <<key, size, checked, nor, os, writes, doubts, kermitVars>>

ButtonDown ==
  /\ pc = "delay" /\ ticks < DelayTicks
  /\ StartCount("press")
  /\ seen' = [seen EXCEPT !.counts = IF @ < 2 THEN @ + 1 ELSE @]
  /\ UNCHANGED <<ticks, wps>>

DelayOver ==
  /\ pc = "delay" /\ ticks = DelayTicks
  /\ Goto("chosen")

jitter == 2 * INT_DIV

(***************************************************************************)
(* One turn of count_button_press: the sample is counted; a release of up  *)
(* to jitter is taken for part of the press it interrupts.                 *)
(***************************************************************************)
Turned ==
  LET t0 == press.t0 + (IF press.down THEN 0 ELSE INT_DIV)
      t1 == press.t1 + (IF press.down THEN INT_DIV ELSE 0)
  IN IF press.down /\ t0 <= jitter
     THEN [press EXCEPT !.t0 = 0, !.t1 = t1 + t0, !.turn = @ + 1]
     ELSE [press EXCEPT !.t0 = t0, !.t1 = t1, !.turn = @ + 1]

Released(p) == ~p.down /\ (p.t0 > jitter \/ p.t1 = 0)

CountOver(interval) == Released(Turned) \/ Turned.turn = interval \div INT_DIV

(***************************************************************************)
(* Mutant: a press shorter than the jitter counts, too.                    *)
(***************************************************************************)
PressTimeUnfiltered(interval) == Turned.t1 + (interval % INT_DIV)

PressTime(interval) == IF Turned.t1 < jitter THEN 0 ELSE Turned.t1 + (interval % INT_DIV)

NextSample ==
  /\ \E d \in BOOLEAN : press' = [Turned EXCEPT !.down = d]
  /\ UNCHANGED <<pc, key, size, checked, nor, os, writes, doubts, ticks, wps, kermitVars>>

(***************************************************************************)
(* The samples of the first count, for ButtonIsObeyed.                     *)
(***************************************************************************)
Look == seen' = IF seen.counts > 1 THEN seen ELSE [seen EXCEPT !.samples = Append(@, press.down)]

Sample ==
  /\ pc = "press" /\ ~CountOver(Long)
  /\ NextSample
  /\ Look

(***************************************************************************)
(* The counts of several presses add up.  A sum of exactly 5000 ends the   *)
(* loop; if there are settings to erase, the button is counted once more,  *)
(* into a variable nothing reads.                                          *)
(***************************************************************************)
CountEnds ==
  /\ pc = "press" /\ CountOver(Long)
  /\ wps' = wps + PressTime(Long)
  /\ Look
  /\ IF wps' = Long /\ rootfs_func = 0 THEN StartCount("again") /\ UNCHANGED ticks
     ELSE /\ IF wps' = Long THEN pc' = "chosen" /\ UNCHANGED ticks
             ELSE pc' = "delay" /\ ticks' = ticks + 1
          /\ press' = NoPress
          /\ UNCHANGED <<key, size, checked, nor, os, writes, doubts, kermitVars>>

SampleAgain ==
  /\ pc = "again"
  /\ IF CountOver(Reset) THEN Goto("chosen") ELSE NextSample /\ UNCHANGED seen

-----------------------------------------------------------------------------
(***************************************************************************)
(* What the button asks for: less than 5000, firmware from a USB storage   *)
(* or the recovery server; less than 8000, the settings erased.            *)
(***************************************************************************)
ButtonForgotten == ticks' = 0 /\ wps' = 0 /\ press' = NoPress /\ seen' = Unseen

ButtonRecovery ==
  /\ pc = "chosen" /\ wps \in 1 .. Long - 1
  /\ pc' = "usb" /\ key' = "button"
  /\ ButtonForgotten
  /\ UNCHANGED <<size, checked, nor, os, writes, doubts, kermitVars>>

ButtonReset ==
  /\ pc = "chosen" /\ wps \in Long .. Long + Reset - 1
  /\ StartFrom(IF rootfs_func = -1 THEN nor ELSE [nor EXCEPT !.settings = FALSE])
  /\ UNCHANGED <<writes, doubts>>

NoButton ==
  /\ pc = "chosen" /\ wps \notin 1 .. Long + Reset - 1
  /\ ButtonForgotten

(***************************************************************************)
(* do_bootm of the kernel in flash, by default and at the end of choice 2. *)
(* By default its failure starts the recovery server.                      *)
(***************************************************************************)
Start(mem) ==
  /\ pc' = "linux" /\ os' = mem
  /\ UNCHANGED <<key, size, nor, writes, doubts, kermitVars>>

BootFlash ==
  /\ NoButton /\ key = "3"
  /\ verify_kernel_image("flash", nor.kernel)
  /\ checked' = Remembered("flash", nor.kernel)
  /\ Start(nor.kernel)

(***************************************************************************)
(* Mutant: a kernel that fails its check leads to a reset.                 *)
(***************************************************************************)
ResetWhenBad ==
  /\ NoButton /\ key = "3"
  /\ ~verify_kernel_image("flash", nor.kernel)
  /\ perform_system_reset

RecoverWhenBad ==
  /\ NoButton /\ key = "3"
  /\ ~verify_kernel_image("flash", nor.kernel)
  /\ pc' = "recovery" /\ checked' = NoCheck
  /\ UNCHANGED <<key, size, nor, os, writes, doubts, kermitVars>>

(***************************************************************************)
(* The menu.  8 falls through to do_bootm of nothing loaded.               *)
(***************************************************************************)
Choose ==
  /\ NoButton
  /\ \/ /\ \/ key = "1" /\ pc' = "tftp"
           \/ key = "4" /\ pc' = "prompt"
           \/ key \in {"0", "2", "5", "7", "9"} /\ pc' = "confirm"
        /\ UNCHANGED <<key, size, checked, nor, os, writes, doubts, kermitVars>>
     \/ key = "8" /\ perform_system_reset

Confirm ==
  /\ pc = "confirm"
  /\ \/ key \in {"2", "9"} /\ Goto("tftp")
     \/ key = "5" /\ Goto("usb")
     \/ /\ key \in {"0", "7"}
        /\ pc' = "serial"
        /\ \E f \in SerialFiles, line \in Lines : StartLoad(f, line)
        /\ DoubtLoad
        /\ UNCHANGED <<key, size, checked, nor, os, writes, buttonVars>>

Decline == pc \in {"confirm", "prompt"} /\ perform_system_reset

-----------------------------------------------------------------------------
(***************************************************************************)
(* The loads.  do_tftpb returns with the whole file, or with CTRL+C when   *)
(* some of it is in memory; the menu does not look which, and              *)
(* NetBootFileXferSize is what was stored.                                 *)
(***************************************************************************)
FlashNext == IF key \in {"7", "9"} THEN "flashBoot" ELSE "flashKernel"

Arrives(f, i, where) ==
  /\ ram' = InMemory(f, i, ram)
  /\ size' = i
  /\ pc' = where
  /\ DoubtLoad
  /\ UNCHANGED <<key, checked, nor, os, writes, buttonVars>>
  /\ UNCHANGED <<loading, data, saved, n, last_n, remote, toBoard, toRemote, faults>>

TftpEnds ==
  /\ pc = "tftp" /\ key # "1"
  /\ \E f \in Files : \E i \in 0 .. Len(Content(f)) : Arrives(f, i, FlashNext)

(***************************************************************************)
(* Choice 1: autostart boots what was loaded whole.                        *)
(***************************************************************************)
TftpForBoot ==
  /\ pc = "tftp" /\ key = "1"
  /\ \E f \in Files : Arrives(f, Len(Content(f)), "boot")

TftpGivesUp == pc = "tftp" /\ key = "1" /\ perform_system_reset

BootRam ==
  /\ pc = "boot"
  /\ IF verify_kernel_image("ram", ram)
     THEN checked' = Remembered("ram", ram) /\ Start(ram) /\ UNCHANGED buttonVars
     ELSE perform_system_reset

SerialStep ==
  /\ pc = "serial"
  /\ LineStep
  /\ UNCHANGED <<buttonVars, bootVars>>

SerialEnds ==
  /\ pc = "serial" /\ loading \in {"done", "interrupted"}
  /\ size' = LoadSize
  /\ pc' = FlashNext
  /\ ForgetLoad
  /\ UNCHANGED <<ram, key, checked, nor, os, writes, doubts, buttonVars>>

UsbLoads ==
  /\ pc = "usb"
  /\ \E f \in Files : Arrives(f, Len(Content(f)), "flashKernel")

(***************************************************************************)
(* flash_kernel_image failed, or there was nothing to flash: the question  *)
(* is asked again, the recovery server started, or the board reset.        *)
(***************************************************************************)
FromButton == key = "button"

FlashFails ==
  IF FromButton THEN pc' = "recovery" /\ UNCHANGED <<key, size, os, buttonVars, kermitVars>>
  ELSE pc' = "confirm" /\ UNCHANGED <<key, size, os, buttonVars, kermitVars>>

ResetInstead == key = "5"

UsbFails ==
  /\ pc = "usb"
  /\ IF ResetInstead THEN perform_system_reset ELSE FlashFails /\ UNCHANGED <<checked, nor, writes, doubts>>

-----------------------------------------------------------------------------
(***************************************************************************)
(* The checks before a write.                                              *)
(***************************************************************************)
CheckBoot ==
  /\ pc = "flashBoot"
  /\ Goto(IF verify_uboot_image THEN "write" ELSE "confirm")

(***************************************************************************)
(* Mutant: only the size of the kernel is looked at.                       *)
(***************************************************************************)
AcceptBySize == size >= MinKernel

AcceptKernel == size >= MinKernel /\ verify_kernel_image("ram", ram)

CheckKernel ==
  /\ pc = "flashKernel"
  /\ IF ~AcceptKernel /\ ResetInstead THEN perform_system_reset
     ELSE /\ checked' = IF size >= MinKernel THEN Remembered("ram", ram) ELSE checked
          /\ UNCHANGED <<nor, writes, doubts>>
          /\ IF AcceptKernel THEN pc' = "write" /\ UNCHANGED <<key, size, os, buttonVars, kermitVars>>
                             ELSE FlashFails

(***************************************************************************)
(* raspi_erase_write: size characters are exact when it succeeds; when it  *)
(* fails, or the power does, some are and one sector may be erased.        *)
(***************************************************************************)
Target == IF key \in {"7", "9"} THEN "boot" ELSE "kernel"

Written(image, old, i, gap) ==
  [j \in Memory |-> IF j <= i THEN image[j] ELSE IF j = i + 1 /\ gap THEN ERASED ELSE old[j]]

FlashAfter(i, gap) ==
  IF Target = "boot" THEN [nor EXCEPT !.boot = Written(ram, @, i, gap)]
                     ELSE [nor EXCEPT !.kernel = Written(ram, @, i, gap)]

WriteSucceeds ==
  /\ pc = "write"
  /\ IF key = "2"
     THEN /\ pc' = "bootNew" /\ nor' = FlashAfter(size, FALSE)
          /\ UNCHANGED <<key, size, checked, os, writes, doubts, buttonVars, kermitVars>>
     ELSE StartFrom(FlashAfter(size, FALSE)) /\ UNCHANGED <<writes, doubts>>

BootNew ==
  /\ pc = "bootNew"
  /\ IF verify_kernel_image("flash", nor.kernel)
     THEN checked' = Remembered("flash", nor.kernel) /\ Start(nor.kernel) /\ UNCHANGED buttonVars
     ELSE perform_system_reset

WriteFails ==
  /\ pc = "write" /\ writes < MaxWrites
  /\ writes' = writes + 1
  /\ \E i \in 0 .. size : \E gap \in {i < size} :
       \/ /\ ~ResetInstead
          /\ nor' = FlashAfter(i, gap)
          /\ FlashFails
          /\ UNCHANGED checked
       \/ StartFrom(FlashAfter(i, gap))
  /\ UNCHANGED doubts

-----------------------------------------------------------------------------
(***************************************************************************)
(* The recovery server (httpd.c: do_http_upgrade).  What was uploaded is   *)
(* written over the kernel, or over the whole boot loader, whole or not:   *)
(* the file it checked may be damaged, or not be what is in memory now     *)
(* (see Recovery).                                                         *)
(***************************************************************************)
DoubtServer(kernel) ==
  doubts' = (doubts \ {"server"}) \cup (IF IsWhole(kernel, Kernels) THEN {} ELSE {"server"})

RecoveryWrites ==
  /\ pc = "recovery"
  /\ \E u \in Uploads :
       \/ LET kernel == Written(u.image, nor.kernel, u.size, FALSE)
          IN StartFrom([nor EXCEPT !.kernel = kernel]) /\ DoubtServer(kernel)
       \/ StartFrom([nor EXCEPT !.boot = u.image]) /\ UNCHANGED doubts
  /\ UNCHANGED writes

(***************************************************************************)
(* The write fails, and the server waits for the next file; or the power   *)
(* does.                                                                   *)
(***************************************************************************)
RecoveryFails ==
  /\ pc = "recovery" /\ writes < MaxWrites
  /\ writes' = writes + 1
  /\ \E u \in Uploads, i \in 0 .. MemSize, gap \in BOOLEAN :
     \E flash \in {[nor EXCEPT !.kernel = Written(u.image, @, i, gap)],
                   [nor EXCEPT !.boot = Written(u.image, @, i, gap)]} :
       \/ StartFrom(flash)
       \/ nor' = flash /\ UNCHANGED <<pc, key, size, checked, os, buttonVars, kermitVars>>
  /\ UNCHANGED doubts

(***************************************************************************)
(* The settings are erased, or an initramfs started from memory.           *)
(***************************************************************************)
RecoveryErases ==
  /\ pc = "recovery" /\ rootfs_func # -1
  /\ StartFrom([nor EXCEPT !.settings = FALSE])
  /\ UNCHANGED <<writes, doubts>>

RecoveryStarts ==
  /\ pc = "recovery"
  /\ pc' = "initramfs" /\ os' \in {u.image : u \in Uploads}
  /\ UNCHANGED <<key, size, checked, nor, writes, doubts, buttonVars, kermitVars>>

Recovers == RecoveryWrites \/ RecoveryFails \/ RecoveryErases \/ RecoveryStarts

(***************************************************************************)
(* Linux makes new settings.                                               *)
(***************************************************************************)
LinuxRuns ==
  /\ pc = "linux" /\ ~nor.settings
  /\ nor' = [nor EXCEPT !.settings = TRUE]
  /\ UNCHANGED <<pc, key, size, checked, os, writes, doubts, buttonVars, kermitVars>>

Program ==
  \/ ButtonUp \/ DelayOver \/ Sample \/ CountEnds \/ SampleAgain
  \/ ButtonRecovery \/ ButtonReset \/ BootFlash \/ RecoverWhenBad \/ Choose
  \/ BootRam \/ SerialEnds \/ UsbLoads \/ UsbFails
  \/ CheckBoot \/ CheckKernel \/ WriteSucceeds \/ WriteFails \/ BootNew

(***************************************************************************)
(* The end of a transfer is up to the server and CTRL+C: without them it   *)
(* is tried for ever, unless netretry says otherwise (NetStartAgain).      *)
(***************************************************************************)
TftpReturns == TftpEnds \/ TftpForBoot \/ TftpGivesUp

Next ==
  \/ Program \/ TftpReturns \/ KeyPressed \/ ButtonDown \/ Confirm \/ Decline \/ SerialStep
  \/ Recovers \/ LinuxRuns \/ PowerCycle

(***************************************************************************)
(* The program goes on, but for a transfer over the network; so do the     *)
(* sender and the line of a serial load.                                   *)
(***************************************************************************)
Fairness ==
  /\ WF_vars(Program)
  /\ WF_vars(pc = "serial" /\ RemoteSends /\ UNCHANGED <<buttonVars, bootVars>>)
  /\ WF_vars(pc = "serial" /\ RemoteHears /\ UNCHANGED <<buttonVars, bootVars>>)
  /\ WF_vars(pc = "serial" /\ Receive /\ UNCHANGED <<buttonVars, bootVars>>)

Init ==
  /\ pc = "delay" /\ ticks = 0 /\ key = "3" /\ wps = 0 /\ press = NoPress /\ seen = Unseen
  /\ size = 0 /\ checked = NoCheck /\ os = Nothing /\ writes = 0 /\ doubts = {}
  /\ nor = [boot |-> InMemory(Factory.boot, Len(Content(Factory.boot)), Nothing),
            kernel |-> InMemory(Factory.kernel, Len(Content(Factory.kernel)), Nothing),
            settings |-> TRUE]
  /\ ram = [i \in Memory |-> JUNK]
  /\ Idle

Spec == Init /\ [][Next]_vars /\ Fairness

-----------------------------------------------------------------------------
Images == [Memory -> Int]

(***************************************************************************)
(* board_init_r is at a known place, and its counters stay in range.       *)
(***************************************************************************)
TypeOK ==
  /\ pc \in {"delay", "press", "again", "chosen", "usb", "tftp", "serial", "confirm", "prompt", "boot",
             "bootNew", "flashKernel", "flashBoot", "write", "recovery", "initramfs", "linux", "bricked"}
  /\ ticks \in 0 .. DelayTicks /\ key \in Keys \cup {"3", "button"} /\ wps \in 0 .. DelayTicks * Long
  /\ press.t0 \in 0 .. Long /\ press.t1 \in 0 .. Long
  /\ size \in 0 .. MemSize /\ ram \in Images /\ os \in Images
  /\ nor \in [boot : Images, kernel : Images, settings : BOOLEAN]
  /\ data.addr \in 0 .. MemSize /\ saved.addr \in 0 .. data.addr
  /\ writes \in 0 .. MaxWrites /\ doubts \subseteq {"end", "server"}

(***************************************************************************)
(* A load over the serial line puts what was sent into memory (see         *)
(* LoadedIsSent).                                                          *)
(***************************************************************************)
SerialLoadIsSent == pc = "serial" => LoadedIsSent

(***************************************************************************)
(* do_bootm of the menu and of the delay only starts a whole image,        *)
(* whatever was loaded or written before, by the recovery server too, and  *)
(* although a header seen before skips the check.  (For what the recovery  *)
(* server itself starts, see Recovery: AcceptedKernelWasChecked.)          *)
(***************************************************************************)
BootsWhole == pc = "linux" => IsWhole(os, Kernels)

(***************************************************************************)
(* As long as no write fails, the flash holds a whole kernel: no choice of *)
(* the menu and no interrupted load writes part of one - unless the end of *)
(* it was in memory before the load (see MenuWritesWhole), or the recovery *)
(* server left something else there.                                       *)
(***************************************************************************)
KernelStaysWhole == writes = 0 /\ doubts = {} => IsWhole(nor.kernel, Kernels)

(***************************************************************************)
(* What the menu checked is good (verify_kernel_image: "firmware good.     *)
(* length of firmware") and is written whole.  It is not: the check goes   *)
(* as far as the header says, over the end of an older image in memory,    *)
(* and flash_kernel_image writes what the last load stored.                *)
(***************************************************************************)
MenuWritesWhole == writes = 0 /\ "server" \notin doubts => IsWhole(nor.kernel, Kernels)

(***************************************************************************)
(* One press of the button does what its samples say.  Down in two of      *)
(* them, it is a press: nothing is booted and no question asked; in fewer, *)
(* it is none.  It erases the settings when it was held to the end of the  *)
(* count, "try to ignore short releases" of one or two samples, and only   *)
(* then.                                                                   *)
(***************************************************************************)
Lasted == \E i, j \in DOMAIN seen.samples : i # j /\ seen.samples[i] /\ seen.samples[j]

HeldThroughout ==
  /\ Len(seen.samples) = Long \div INT_DIV
  /\ seen.samples[1] /\ seen.samples[Len(seen.samples)]
  /\ \A i \in 1 .. Len(seen.samples) - 2 : \E j \in i .. i + 2 : seen.samples[j]

ButtonIsObeyed ==
  [][ seen.counts = 1 /\ pc = "chosen" =>
        /\ pc' \in {"linux", "recovery", "confirm", "tftp", "prompt"} => ~Lasted
        /\ pc' = "usb" => Lasted
        /\ rootfs_func = 0 => (nor'.settings <=> ~HeldThroughout) ]_vars

(***************************************************************************)
(* Left alone, without a key or the button, the board always comes to      *)
(* Linux, the recovery server or a question - or had its boot loader       *)
(* damaged: whatever is in the flash, it does not reset for ever, and no   *)
(* load over the serial line goes on for ever.  A transfer over the        *)
(* network that somebody chose before may: it is not left alone.           *)
(***************************************************************************)
LeftAlone == pc = "delay" => pc' # "press" /\ (pc' = "chosen" => ticks = DelayTicks)

BootSettles ==
  <>[][LeftAlone]_vars => []<>(pc \in {"linux", "recovery", "initramfs", "tftp", "confirm", "prompt", "bricked"})
===============================================================================
