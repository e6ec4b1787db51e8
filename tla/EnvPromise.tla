----------------------------- MODULE EnvPromise -----------------------------
(***************************************************************************)
(* What setenv and saveenv promise (usage texts in common/cmd_nvedit.c): a  *)
(* working copy of the variables, and a stored one that the next start      *)
(* works on.  While a save is under way there may be no stored copy, and    *)
(* then the next start works on the defaults.                               *)
(***************************************************************************)
CONSTANTS Names, Values, Absent, None, Default, BootSet

Envs == [Names -> Values \cup {Absent}]

VARIABLES mem, disk

vars == <<mem, disk>>

Init == mem = None /\ disk \in Envs \cup {None}

\* Power on: the stored copy, with the variables in BootSet chosen anew.
Boot ==
  /\ mem = None
  /\ mem' \in Envs
  /\ \A n \in Names \ BootSet : mem'[n] = (IF disk = None THEN Default ELSE disk)[n]
  /\ UNCHANGED disk

Set(n, v) ==
  /\ mem # None
  /\ mem' = [mem EXCEPT ![n] = v]
  /\ UNCHANGED disk

SaveBegin == mem # None /\ disk' = None /\ UNCHANGED mem
SaveEnd == mem # None /\ disk' = mem /\ UNCHANGED mem
Off == mem # None /\ mem' = None /\ UNCHANGED disk

Next ==
  \/ Boot \/ SaveBegin \/ SaveEnd \/ Off
  \/ \E n \in Names, v \in Values \cup {Absent} : Set(n, v)

Spec == Init /\ [][Next]_vars
=============================================================================
