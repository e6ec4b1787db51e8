------------------------------- MODULE KermitMC -------------------------------
(***************************************************************************)
(* One load over the serial line, as the command loadb starts it.          *)
(***************************************************************************)
EXTENDS Kermit

\* three packets: a plain character and the quote, a control character, a plain one
OneFile == [A |-> << <<11, 0>>, <<1>>, <<12>> >>]

\* a patient sender over a line that damages the length of packets
LengthLine == {[patient |-> TRUE, damages |-> {"length"}]}

Blank == [i \in Memory |-> 99]

Init == Idle /\ ram = Blank

Next == \/ loading = "off" /\ \E line \in Lines : StartLoad("A", line)
        \/ LineStep

Spec == Init /\ [][Next]_kermitVars
===============================================================================
