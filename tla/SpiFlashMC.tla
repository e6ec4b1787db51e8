----------------------------- MODULE SpiFlashMC -----------------------------
(* A chip of six sectors of four cells: boot loader, environment, three for   *)
(* the kernel, calibration data.                                              *)
EXTENDS SpiFlash

Call(op, offs, len) == [op |-> op, offs |-> offs, len |-> len]

\* Kernels of whole and broken sectors, one that is too long, a boot loader, and
\* a write that begins inside a sector.
Images ==
  {Call("erase_write", 8, 12), Call("erase_write", 8, 7), Call("erase_write", 8, 14),
   Call("erase_write", 0, 5), Call("erase_write", 9, 10)}

\* saveenv, the spi and erase commands.
Commands ==
  {Call("save", 4, 2), Call("save", 5, 3), Call("write", 9, 5), Call("write", 21, 4), Call("erase", 8, 8)}

AllCalls == Images \cup Commands
=============================================================================
