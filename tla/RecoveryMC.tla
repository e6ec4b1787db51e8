----------------------------- MODULE RecoveryMC -----------------------------
(* Small instances of Recovery for TLC. *)
EXTENDS Recovery, TLC

CONSTANTS c1, c2

\* A firmware and a U-Boot image.
Firmware == [id |-> 1, kind |-> "firmware", header |-> "h1", fits |-> {"firmware"}, sound |-> TRUE]
Uboot    == [id |-> 3, kind |-> "uboot", header |-> "h3", fits |-> {"uboot"}, sound |-> TRUE]

Initramfs == [id |-> 4, kind |-> "initramfs", header |-> "h4", fits |-> {"firmware", "initramfs"}, sound |-> TRUE]
Config   == [id |-> 5, kind |-> "config", header |-> "h3", fits |-> {"config"}, sound |-> TRUE]

TwoImages == {Firmware, Uboot}

\* No action reads the partitions: states that differ only there, before the reset
\* that WrittenIsAccepted looks at, are merged.
NoFlash == <<hs, web, ram, cache, pc, g, IF pc = "reset" THEN flash ELSE <<>> >>
AllImages == {Firmware, Uboot, Initramfs, Config}
\* A damaged copy of the firmware, under its header.
Damaged == [id |-> 6, kind |-> "firmware", header |-> "h1", fits |-> {"firmware"}, sound |-> FALSE]
ThreeImages == {Firmware, Damaged, Initramfs}
GoodAndBad == {Firmware, Damaged}
ConnSymmetry == Permutations({c1, c2})
=============================================================================
