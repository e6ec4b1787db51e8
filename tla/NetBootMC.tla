------------------------------ MODULE NetBootMC ------------------------------
(***************************************************************************)
(* NetBoot for TLC.                                                        *)
(***************************************************************************)
EXTENDS NetBoot, TLC

Blocks == ("A" :> 1) @@ ("C" :> 2) @@ ("B" :> 3) @@ ("W" :> 4)
Puts == (70 :> "A") @@ (71 :> "C")
Copies == (70 :> 1) @@ (71 :> 1)
Tried == [cli |-> {"no", "once", "yes"}, rescue |-> {"yes"}]
Spellings == {<<<<"B", 2>>, "host">>}
==============================================================================
