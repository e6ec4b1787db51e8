------------------------------ MODULE BootFlowMC ------------------------------
(***************************************************************************)
(* An instance of BootFlow: a kernel of three characters that is OpenWrt,  *)
(* one of two that is not, and a boot loader.                              *)
(***************************************************************************)
EXTENDS BootFlow

\* the header, the quote and a control character, in two packets
ThePieces ==
  [A |-> << <<11, 0>>, <<1>> >>, B |-> << <<21, 22>> >>,
   V |-> << <<41, 42>> >>]

\* a patient sender over a line that damages packets, or an impatient one over a line that loses them
GoodLines == {[patient |-> TRUE, damages |-> {"lost", "body"}], [patient |-> FALSE, damages |-> {"lost"}]}

\* the recovery server is given a kernel and what lies behind it, and the other one damaged
TheUploads ==
  {[image |-> <<21, 22, 99>>, size |-> 3], [image |-> <<11, 22, 1>>, size |-> 3]}

New == [kernel |-> "A", boot |-> "V"]
===============================================================================
