----------------------------- MODULE EnvStoreMC -----------------------------
(* A write-once variable and a copied one beside the console variables; short *)
(* and long values, and environments limited by what their values add up to.  *)
EXTENDS EnvStore, FiniteSetsExt, Naturals

CONSTANT Capacity

Size(v) == IF v = Absent THEN 0 ELSE IF v = "nc" THEN 3 ELSE 2

SizeOf(e) == MapThenSumSet(LAMBDA n : Size(e[n]), Names)

Fits == {e \in Envs : SizeOf(e) <= Capacity}

AllEnvs == Envs

Builtin == [n \in Names |-> IF n = "loadaddr" THEN "serial" ELSE Absent]
=============================================================================
