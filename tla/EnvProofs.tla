------------------------------ MODULE EnvProofs ------------------------------
(* Theorems about the environment, for every set of variables, values and     *)
(* fitting environments.                                                      *)
EXTENDS EnvStore, TLAPS

USE DEF Names, ConsoleVars

History == [kept : Envs \cup {NoEnv}, over : BOOLEAN, spoilt : BOOLEAN,
            loose : SUBSET Names]

\* What _do_setenv leaves of the data fits again, whether it set or dropped n.
LEMMA PutType ==
  ASSUME NEW e \in Stored, e.vars \in Fitting, NEW n \in Names, NEW v \in Values
  PROVE  Put(e, n, v) \in Stored /\ Put(e, n, v).vars \in Fitting
<1> DEFINE new == [e.vars EXCEPT ![n] = v]
<1>1. e.vars \in Envs /\ e.crc \in BOOLEAN
  BY DEF Stored
<1>2. Without(e.vars, n) \in Fitting
  BY FittingAssumption
<1>3. CASE new \in Fitting
  <2>1. Put(e, n, v) = [vars |-> new, crc |-> TRUE]
    BY <1>3 DEF Put
  <2>2. new \in Envs
    BY <1>3, FittingAssumption
  <2> QED
    BY <1>3, <2>1, <2>2 DEF Stored
<1>4. CASE new \notin Fitting
  <2>1. Put(e, n, v) =
          [vars |-> Without(e.vars, n), crc |-> e.crc /\ ~Defined(e.vars, n)]
    BY <1>4 DEF Put
  <2>2. Without(e.vars, n) \in Envs
    BY <1>2, FittingAssumption
  <2>3. (e.crc /\ ~Defined(e.vars, n)) \in BOOLEAN
    OBVIOUS
  <2> HIDE DEF new
  <2> QED
    BY <1>2, <2>1, <2>2, <2>3 DEF Stored
<1> QED
  BY <1>3, <1>4

\* It touches no other variable.
LEMMA PutOthers ==
  ASSUME NEW e \in Stored, NEW n \in Names, NEW v, NEW m \in Names, m # n
  PROVE  Put(e, n, v).vars[m] = e.vars[m]
<1>1. e.vars \in Envs
  BY DEF Stored
<1> QED
  BY <1>1 DEF Put, Without, Envs

\* Nor does the console, at a start, touch a variable that is not its own.
LEMMA ConsoleSetType ==
  ASSUME NEW e \in Stored, e.vars \in Fitting
  PROVE  /\ ConsoleSet(e) \in Stored /\ ConsoleSet(e).vars \in Fitting
         /\ \A n \in Others : ConsoleSet(e).vars[n] = e.vars[n]
<1> DEFINE e1 == Put(e, "stdin", FirstInput)
           e2 == Put(e1, "stdout", FirstOutput)
           e3 == Put(e2, "stderr", FirstOutput)
<1>0. FirstInput \in Values /\ FirstOutput \in Values
  BY ValuesAssumption
<1>1. e1 \in Stored /\ e1.vars \in Fitting
  BY <1>0, PutType
<1>2. e2 \in Stored /\ e2.vars \in Fitting
  <2> HIDE DEF e1
  <2> QED BY <1>0, <1>1, PutType
<1>3. e3 \in Stored /\ e3.vars \in Fitting
  <2> HIDE DEF e2
  <2> QED BY <1>0, <1>2, PutType
<1>4. ASSUME NEW n \in Others PROVE e3.vars[n] = e.vars[n]
  <2>1. n \in Names /\ n # "stdin" /\ n # "stdout" /\ n # "stderr"
    BY NamesAssumption
  <2>2. e1.vars[n] = e.vars[n]
    BY <2>1, PutOthers
  <2>3. e2.vars[n] = e1.vars[n]
    <3> HIDE DEF e1
    <3> QED BY <2>1, <1>1, PutOthers
  <2>4. e3.vars[n] = e2.vars[n]
    <3> HIDE DEF e2
    <3> QED BY <2>1, <1>2, PutOthers
  <2> QED
    BY <2>2, <2>3, <2>4
<1>5. ConsoleSet(e) = e3
  BY DEF ConsoleSet
<1> QED
  BY <1>3, <1>4, <1>5

LEMMA RelocatedType ==
  ASSUME TypeOK
  PROVE  Relocated \in Stored /\ Relocated.vars \in Fitting
  BY FittingAssumption DEF TypeOK, Relocated, Stored

LEMMA DeletedType ==
  ASSUME NEW e \in Stored, e.vars \in Fitting, NEW n \in Names
  PROVE  Deleted(e, n) \in Stored /\ Deleted(e, n).vars \in Fitting
<1>1. Without(e.vars, n) \in Fitting
  BY FittingAssumption
<1> QED
  BY <1>1, FittingAssumption DEF Deleted, Stored

LEMMA TornType == Torn \in Stored /\ Torn.vars \in Fitting
  BY FittingAssumption DEF Torn, Empty, Stored, Envs

\* TypeOK is inductive: every command, save step, power cycle and start keeps it.
LEMMA TypeStep ==
  ASSUME TypeOK, [Next]_vars
  PROVE  TypeOK'
<1> USE DEF TypeOK, History
<1>1. CASE Boot
  <2>1. Relocated \in Stored /\ Relocated.vars \in Fitting
    BY RelocatedType
  <2>2. ram' \in Stored /\ ram'.vars \in Fitting
    BY <1>1, <2>1, ConsoleSetType DEF Boot
  <2>3. copy' \in [Copied -> Values \cup {Absent}]
    <3>1. Relocated.vars \in [Names -> Values \cup {Absent}]
      BY <2>1 DEF Stored, Envs
    <3> QED
      BY <1>1, <3>1, NamesAssumption DEF Boot
  <2>4. dev' \in [ConsoleVars -> Inputs \cup Outputs]
    BY <1>1, ValuesAssumption DEF Boot
  <2>5. g' \in History
    <3>1. Spilled(Relocated) \in BOOLEAN
      BY DEF Spilled
    <3> QED BY <1>1, <3>1 DEF Boot
  <2>6. UNCHANGED disk /\ pc' = "prompt" /\ ret' = 0
    BY <1>1 DEF Boot
  <2> QED
    BY <2>2, <2>3, <2>4, <2>5, <2>6
<1>2. CASE PowerLoss
  BY <1>2, TornType DEF PowerLoss
<1>3. ASSUME NEW n \in Names, Unset(n) PROVE TypeOK'
  <2>1. CASE CannotDelete(ram.vars, n)
    BY <1>3, <2>1 DEF Unset
  <2>2. CASE ~CannotDelete(ram.vars, n)
    <3>1. ram' = Deleted(ram, n) /\ g' = [g EXCEPT !.over = FALSE] /\ ret' = 0
      BY <1>3, <2>2 DEF Unset
    <3>2. ram' \in Stored /\ ram'.vars \in Fitting
      BY <3>1, DeletedType
    <3> QED
      BY <1>3, <3>1, <3>2 DEF Unset
  <2> QED BY <2>1, <2>2
<1>4. ASSUME NEW n \in Names, NEW v \in Values, SetRefused(n, v) PROVE TypeOK'
  BY <1>4 DEF SetRefused
<1>5. ASSUME NEW n \in Names, NEW v \in Values, ~Refused(ram.vars, n, v),
             dev' = Assigned(n, v)
      PROVE  dev' \in [ConsoleVars -> Inputs \cup Outputs]
  BY <1>5 DEF Assigned, Refused, CanAssign, Defined
<1>6. ASSUME NEW n \in Names, NEW v \in Values, SetFits(n, v) PROVE TypeOK'
  <2>1. ram' \in Stored /\ ram'.vars \in Fitting
    BY <1>6, PutType DEF SetFits
  <2>2. dev' \in [ConsoleVars -> Inputs \cup Outputs]
    BY <1>5, <1>6 DEF SetFits
  <2>3. copy' \in [Copied -> Values \cup {Absent}]
    BY <1>6 DEF SetFits, Follow
  <2> QED
    BY <1>6, <2>1, <2>2, <2>3 DEF SetFits
<1>7. ASSUME NEW n \in Names, NEW v \in Values, SetOverflows(n, v) PROVE TypeOK'
  <2>1. ram' \in Stored /\ ram'.vars \in Fitting
    BY <1>7, PutType DEF SetOverflows
  <2>2. dev' \in [ConsoleVars -> Inputs \cup Outputs]
    BY <1>5, <1>7 DEF SetOverflows
  <2>3. g' \in History
    <3>1. (g.over \/ Defined(ram.vars, n)) \in BOOLEAN
      OBVIOUS
    <3>2. g' = [g EXCEPT !.over = g.over \/ Defined(ram.vars, n)]
      BY <1>7 DEF SetOverflows
    <3> QED BY <3>1, <3>2
  <2> QED
    BY <1>7, <2>1, <2>2, <2>3 DEF SetOverflows
<1>14. ASSUME NEW n \in Names, UnsetPair(n) PROVE TypeOK'
  <2>1. ram' \in Stored /\ ram'.vars \in Fitting
    BY <1>14, DeletedType DEF UnsetPair
  <2> QED
    BY <1>14, <2>1 DEF UnsetPair
<1>15. ASSUME NEW n \in Names, NEW v \in Values, SetPair(n, v) PROVE TypeOK'
  <2>1. ram' \in Stored /\ ram'.vars \in Fitting
    BY <1>15, PutType DEF SetPair
  <2>2. \E x \in BOOLEAN : g' = [g EXCEPT !.over = x, !.loose = @ \cup {n}]
    <3>1. CASE Overflows(ram.vars, n, v)
      <4>1. g' = [g EXCEPT !.over = g.over \/ Defined(ram.vars, n), !.loose = @ \cup {n}]
        BY <1>15, <3>1 DEF SetPair
      <4>2. (g.over \/ Defined(ram.vars, n)) \in BOOLEAN
        OBVIOUS
      <4> QED BY <4>1, <4>2
    <3>2. CASE ~Overflows(ram.vars, n, v)
      BY <1>15, <3>2 DEF SetPair
    <3> QED BY <3>1, <3>2
  <2>3. ret' \in {0, 1} /\ UNCHANGED <<disk, copy, dev, pc>>
    BY <1>15 DEF SetPair
  <2>4. g' \in History
    <3>1. PICK x \in BOOLEAN : g' = [g EXCEPT !.over = x, !.loose = @ \cup {n}]
      BY <2>2
    <3>2. g \in History
      OBVIOUS
    <3>3. g.loose \cup {n} \in SUBSET Names
      BY <3>2
    <3> QED BY <3>1, <3>2, <3>3
  <2> QED
    BY <2>1, <2>3, <2>4
<1>16. ASSUME NEW n \in Overridden, NEW v \in Values, Load(n, v) PROVE TypeOK'
  <2>1. n \in Names
    BY NamesAssumption
  <2> QED
    BY <1>16, <2>1 DEF Load, Follow
<1>8. CASE SaveFails
  BY <1>8 DEF SaveFails
<1>9. CASE SaveErase
  BY <1>9, TornType DEF SaveErase
<1>10. CASE SaveWrite
  BY <1>10 DEF SaveWrite
<1>11. CASE SaveWriteFails
  BY <1>11 DEF SaveWriteFails
<1>12. CASE SaveDone
  <2>1. ram.vars \in Envs
    BY DEF Stored
  <2> QED BY <1>12, <2>1 DEF SaveDone
<1>13. CASE UNCHANGED vars
  BY <1>13 DEF vars
<1> QED
  BY <1>1, <1>2, <1>3, <1>4, <1>6, <1>7, <1>8, <1>9, <1>10, <1>11, <1>12, <1>13,
     <1>14, <1>15, <1>16, NamesAssumption
     DEF Next, Setenv

LEMMA TypeInit == Init => TypeOK
<1> SUFFICES ASSUME Init PROVE TypeOK
  OBVIOUS
<1>1. disk \in Stored /\ disk.vars \in Fitting
  <2>1. CASE disk = Torn
    BY <2>1, TornType
  <2>2. CASE disk = [vars |-> Default, crc |-> TRUE]
    BY <2>2, FittingAssumption DEF Stored
  <2> QED
    BY <2>1, <2>2 DEF Init
<1>2. ram \in Stored /\ ram.vars \in Fitting
  BY TornType DEF Init
<1>3. dev \in [ConsoleVars -> Inputs \cup Outputs]
  BY ValuesAssumption DEF Init
<1> QED
  BY <1>1, <1>2, <1>3 DEF Init, TypeOK

\* The environment in RAM and the one in flash always fit, and every setting has
\* its type (TypeOK, for _do_setenv, saveenv and the start).
THEOREM TypeCorrect == Spec => []TypeOK
  BY TypeInit, TypeStep, PTL DEF Spec

-----------------------------------------------------------------------------
(* What each command leaves alone *)

LEMMA UnsetOthers ==
  ASSUME TypeOK, NEW n \in Names, Unset(n), NEW m \in Names, m # n
  PROVE  ram'.vars[m] = ram.vars[m]
<1>1. ram.vars \in Envs
  BY DEF TypeOK, Stored
<1>2. CASE CannotDelete(ram.vars, n)
  BY <1>2 DEF Unset
<1>3. CASE ~CannotDelete(ram.vars, n)
  BY <1>1, <1>3 DEF Unset, Deleted, Without, Envs
<1> QED
  BY <1>2, <1>3

\* A definition that fits is there; one that does not is gone.
LEMMA PutItself ==
  ASSUME TypeOK, NEW n \in Names, NEW v \in Values
  PROVE  /\ ~Overflows(ram.vars, n, v) => Put(ram, n, v).vars[n] = v
         /\ Overflows(ram.vars, n, v) => Put(ram, n, v).vars[n] = Absent
<1>1. ram.vars \in Envs
  BY DEF TypeOK, Stored
<1>2. CASE Overflows(ram.vars, n, v)
  BY <1>1, <1>2 DEF Overflows, Put, Without, Envs
<1>3. CASE ~Overflows(ram.vars, n, v)
  BY <1>1, <1>3 DEF Overflows, Put, Envs
<1> QED
  BY <1>2, <1>3

LEMMA BootKeeps ==
  ASSUME TypeOK, Boot, NEW n \in Others
  PROVE  ram'.vars[n] = Relocated.vars[n]
  BY RelocatedType, ConsoleSetType DEF Boot

-----------------------------------------------------------------------------
(* The board's settings *)

LEMMA CopiesStep ==
  ASSUME TypeOK, CopiesFollow, [Next]_vars
  PROVE  CopiesFollow'
<1> SUFFICES ASSUME pc' # "off", NEW m \in Copied, m \notin g'.loose,
                    Defined(ram.vars, m)'
             PROVE  copy'[m] = ram'.vars[m]
  BY DEF CopiesFollow
<1>0. m \in Others /\ m \in Names /\ g \in History
  BY NamesAssumption DEF TypeOK, History
<1>1. CASE Boot
  BY <1>0, <1>1, BootKeeps DEF Boot
<1>2. CASE PowerLoss
  BY <1>2 DEF PowerLoss
<1>3. ASSUME NEW n \in Names, Unset(n) PROVE copy'[m] = ram'.vars[m]
  <2>1. CASE m = n
    <3>1. ram.vars \in Envs
      BY DEF TypeOK, Stored
    <3>2. CASE CannotDelete(ram.vars, n)
      BY <1>3, <3>2 DEF Unset, CopiesFollow, Defined
    <3>3. CASE ~CannotDelete(ram.vars, n)
      BY <1>0, <1>3, <2>1, <3>1, <3>3 DEF Unset, Deleted, Without, Envs, Defined
    <3> QED BY <3>2, <3>3
  <2>2. CASE m # n
    <3>1. g'.loose = g.loose
      BY <1>0, <1>3 DEF Unset, History
    <3> QED
      BY <1>0, <1>3, <2>2, <3>1, UnsetOthers DEF Unset, CopiesFollow, Defined
  <2> QED BY <2>1, <2>2
<1>4. ASSUME NEW n \in Names, NEW v \in Values, SetRefused(n, v)
      PROVE  copy'[m] = ram'.vars[m]
  BY <1>4 DEF SetRefused, CopiesFollow, Defined
<1>5. ASSUME NEW n \in Names, NEW v \in Values, SetFits(n, v)
      PROVE  copy'[m] = ram'.vars[m]
  <2>1. CASE m = n
    BY <1>5, <2>1, PutItself DEF SetFits, Follow
  <2>2. CASE m # n
    <3>1. ram'.vars[m] = ram.vars[m]
      BY <1>0, <1>5, <2>2, PutOthers DEF SetFits, TypeOK
    <3>2. m \notin g.loose
      BY <1>0, <1>5, <2>2 DEF SetFits, History
    <3> QED
      BY <1>5, <2>2, <3>1, <3>2 DEF SetFits, Follow, CopiesFollow, Defined
  <2> QED BY <2>1, <2>2
<1>6. ASSUME NEW n \in Names, NEW v \in Values, SetOverflows(n, v)
      PROVE  copy'[m] = ram'.vars[m]
  <2>1. m # n
    BY <1>6, PutItself DEF SetOverflows, Defined
  <2>2. ram'.vars[m] = ram.vars[m]
    BY <1>0, <1>6, <2>1, PutOthers DEF SetOverflows, TypeOK
  <2>3. m \notin g.loose
    BY <1>0, <1>6 DEF SetOverflows, History
  <2> QED
    BY <1>6, <2>2, <2>3 DEF SetOverflows, CopiesFollow, Defined
<1>7. CASE SaveFails
  BY <1>7 DEF SaveFails, CopiesFollow, Defined
<1>8. CASE SaveErase
  BY <1>0, <1>8 DEF SaveErase, History, CopiesFollow, Defined
<1>9. CASE SaveWrite
  BY <1>9 DEF SaveWrite, CopiesFollow, Defined
<1>10. CASE SaveWriteFails
  BY <1>10 DEF SaveWriteFails, CopiesFollow, Defined
<1>11. CASE SaveDone
  BY <1>0, <1>11 DEF SaveDone, History, CopiesFollow, Defined
<1>12. CASE UNCHANGED vars
  BY <1>12 DEF vars, CopiesFollow, Defined
<1>13. ASSUME NEW n \in Names, UnsetPair(n) \/ \E v \in Values : SetPair(n, v)
      PROVE  copy'[m] = ram'.vars[m]
  <2>1. m # n /\ m \notin g.loose
    BY <1>0, <1>13 DEF UnsetPair, SetPair, History
  <2>2. ram'.vars[m] = ram.vars[m]
    <3>1. CASE UnsetPair(n)
      BY <1>0, <2>1, <3>1 DEF UnsetPair, Deleted, Without, TypeOK, Stored, Envs
    <3>2. CASE \E v \in Values : SetPair(n, v)
      BY <1>0, <2>1, <3>2, PutOthers DEF SetPair, TypeOK
    <3> QED BY <1>13, <3>1, <3>2
  <2> QED
    BY <1>13, <2>1, <2>2 DEF UnsetPair, SetPair, CopiesFollow, Defined
<1>14. ASSUME NEW n \in Overridden, NEW v \in Values, Load(n, v)
      PROVE  copy'[m] = ram'.vars[m]
  <2>1. m # n /\ m \notin g.loose
    BY <1>0, <1>14, NamesAssumption DEF Load, History
  <2> QED
    BY <1>14, <2>1 DEF Load, Follow, CopiesFollow, Defined
<1> QED
  BY <1>1, <1>2, <1>3, <1>4, <1>5, <1>6, <1>7, <1>8, <1>9, <1>10, <1>11, <1>12,
     <1>13, <1>14, NamesAssumption
     DEF Next, Setenv

\* bi_ip_addr, load_addr and BootFile hold what the defined variables say (the end
\* of _do_setenv, and board_init_r), overflows and starts included, for every
\* variable that no load command overrode and no name=value form touched since.
THEOREM CopiesAgree == Spec => []CopiesFollow
<1>1. Init => CopiesFollow
  BY DEF Init, CopiesFollow
<1> QED
  BY <1>1, TypeInit, TypeStep, CopiesStep, PTL DEF Spec

-----------------------------------------------------------------------------
(* Write-once variables *)

LEMMA OnceStep ==
  ASSUME TypeOK, [Next]_vars, pc # "off", pc' # "off",
         NEW m \in WriteOnce, Defined(ram.vars, m), ram'.vars[m] # ram.vars[m]
  PROVE  UnsetPair(m) \/ \E v \in Values : SetPair(m, v)
<1>0. m \in Names /\ m \notin ConsoleVars
  BY NamesAssumption
<1>1. ASSUME NEW n \in Names, Unset(n) PROVE FALSE
  <2>1. CASE m = n
    BY <1>1, <2>1 DEF Unset, CannotDelete, Protected
  <2> QED BY <1>0, <1>1, <2>1, UnsetOthers
<1>2. ASSUME NEW n \in Names, NEW v \in Values, Setenv(n, v) PROVE FALSE
  <2>1. CASE SetRefused(n, v)
    BY <2>1 DEF SetRefused
  <2>2. CASE SetFits(n, v) \/ SetOverflows(n, v)
    <3>1. m # n
      BY <2>2 DEF SetFits, SetOverflows, Refused, Protected
    <3> QED
      BY <1>0, <2>2, <3>1, PutOthers DEF SetFits, SetOverflows, TypeOK
  <2> QED BY <1>2, <2>1, <2>2 DEF Setenv
<1>3. CASE Boot \/ PowerLoss
  BY <1>3 DEF Boot, PowerLoss
<1>4. CASE SaveFails \/ SaveErase \/ SaveWrite \/ SaveWriteFails \/ SaveDone \/ UNCHANGED vars
  BY <1>4 DEF SaveFails, SaveErase, SaveWrite, SaveWriteFails, SaveDone, vars
<1>5. ASSUME NEW n \in Names, UnsetPair(n) PROVE n = m
  BY <1>0, <1>5 DEF UnsetPair, Deleted, Without, TypeOK, Stored, Envs
<1>6. ASSUME NEW n \in Names, NEW v \in Values, SetPair(n, v) PROVE n = m
  BY <1>0, <1>6, PutOthers DEF SetPair, TypeOK
<1>7. ASSUME NEW n \in Overridden, NEW v \in Values, Load(n, v) PROVE FALSE
  BY <1>7 DEF Load
<1> QED
  BY <1>1, <1>2, <1>3, <1>4, <1>5, <1>6, <1>7, NamesAssumption DEF Next

\* No setenv by name, with a value or without, no overflow and no save touches
\* serial# or ethaddr once defined: the one way around the check of _do_setenv is
\* the form name=value.
THEOREM OnceIsOnce == Spec => OnceByName
<1>1. TypeOK /\ [Next]_vars =>
        [pc # "off" /\ pc' # "off" =>
           \A n \in WriteOnce :
             Defined(ram.vars, n) /\ ram'.vars[n] # ram.vars[n] =>
               UnsetPair(n) \/ \E v \in Values : SetPair(n, v)]_vars
  BY OnceStep
<1> QED
  BY <1>1, TypeCorrect, PTL DEF Spec, OnceByName

-----------------------------------------------------------------------------
(* What a save stores is what the next start finds *)

\* Inside saveenv nothing counts as kept; the CRC in RAM is right unless an
\* overflow was the last change; and what is kept is in the flash.
SaveInv ==
  /\ pc = "rest" => disk = ram
  /\ pc \in {"write", "rest"} => g.kept = NoEnv
  /\ pc # "off" /\ ~g.over => ram.crc
  /\ g.kept # NoEnv => disk.vars = g.kept
  /\ g.kept # NoEnv /\ ~g.spoilt => disk.crc

LEMMA PutCrc ==
  ASSUME TypeOK, NEW n \in Names, NEW v \in Values
  PROVE  /\ ~Overflows(ram.vars, n, v) => Put(ram, n, v).crc
         /\ Overflows(ram.vars, n, v) /\ ram.crc /\ ~Defined(ram.vars, n)
              => Put(ram, n, v).crc
<1>1. CASE Overflows(ram.vars, n, v)
  <2>1. Put(ram, n, v).crc = (ram.crc /\ ~Defined(ram.vars, n))
    BY <1>1 DEF Overflows, Put
  <2> QED BY <1>1, <2>1
<1>2. CASE ~Overflows(ram.vars, n, v)
  BY <1>2 DEF Overflows, Put
<1> QED
  BY <1>1, <1>2

LEMMA SaveStep ==
  ASSUME TypeOK, SaveInv, [Next]_vars
  PROVE  SaveInv'
<1> USE DEF SaveInv, History
<1>0. /\ g \in History
      /\ ram.vars \in Envs
  BY DEF TypeOK, Stored, History
<1>1. CASE Boot
  <2>1. /\ pc' = "prompt" /\ ram' = ConsoleSet(Relocated) /\ disk' = disk
        /\ g' = [g EXCEPT !.over = Spilled(Relocated), !.loose = {}]
    BY <1>1 DEF Boot
  <2>2. g'.kept = g.kept /\ g'.spoilt = g.spoilt
    BY <1>0, <2>1
  <2>3. g'.over = Spilled(Relocated)
    BY <1>0, <2>1
  <2>4. ~g'.over => ram'.crc
    BY <2>1, <2>3 DEF Spilled
  <2> QED
    BY <2>1, <2>2, <2>4
<1>2. CASE PowerLoss
  BY <1>2 DEF PowerLoss
<1>3. ASSUME NEW n \in Names, Unset(n) PROVE SaveInv'
  <2>1. CASE CannotDelete(ram.vars, n)
    BY <1>3, <2>1 DEF Unset
  <2>2. CASE ~CannotDelete(ram.vars, n)
    BY <1>0, <1>3, <2>2 DEF Unset, Deleted
  <2> QED BY <2>1, <2>2
<1>4. ASSUME NEW n \in Names, NEW v \in Values, SetRefused(n, v) PROVE SaveInv'
  BY <1>4 DEF SetRefused
<1>5. ASSUME NEW n \in Names, NEW v \in Values, SetFits(n, v) PROVE SaveInv'
  <2>1. ram'.crc
    BY <1>5, PutCrc DEF SetFits
  <2> QED
    BY <1>0, <1>5, <2>1 DEF SetFits
<1>6. ASSUME NEW n \in Names, NEW v \in Values, SetOverflows(n, v) PROVE SaveInv'
  <2>1. /\ pc = "prompt" /\ pc' = pc /\ disk' = disk
        /\ g'.kept = g.kept /\ g'.spoilt = g.spoilt
    BY <1>0, <1>6 DEF SetOverflows
  <2>2. ~g'.over => ~g.over /\ ~Defined(ram.vars, n)
    <3>1. g' = [g EXCEPT !.over = g.over \/ Defined(ram.vars, n)]
      BY <1>6 DEF SetOverflows
    <3>2. g'.over = (g.over \/ Defined(ram.vars, n))
      BY <1>0, <3>1
    <3> QED BY <3>2
  <2>3. ~g'.over => ram'.crc
    BY <1>6, <2>1, <2>2, PutCrc DEF SetOverflows
  <2> QED
    BY <2>1, <2>3
<1>13. ASSUME NEW n \in Names, UnsetPair(n) PROVE SaveInv'
  BY <1>0, <1>13 DEF UnsetPair, Deleted
<1>14. ASSUME NEW n \in Names, NEW v \in Values, SetPair(n, v) PROVE SaveInv'
  <2>1. /\ pc = "prompt" /\ pc' = pc /\ disk' = disk
        /\ g'.kept = g.kept /\ g'.spoilt = g.spoilt
    BY <1>0, <1>14 DEF SetPair
  <2>2. CASE ~Overflows(ram.vars, n, v)
    BY <1>14, <2>1, <2>2, PutCrc DEF SetPair
  <2>3. CASE Overflows(ram.vars, n, v)
    <3>1. g' = [g EXCEPT !.over = g.over \/ Defined(ram.vars, n), !.loose = @ \cup {n}]
      BY <1>14, <2>3 DEF SetPair
    <3>2. g'.over = (g.over \/ Defined(ram.vars, n))
      BY <1>0, <3>1
    <3>3. ~g'.over => ram'.crc
      BY <1>14, <2>1, <2>3, <3>2, PutCrc DEF SetPair
    <3> QED BY <2>1, <3>3
  <2> QED BY <2>2, <2>3
<1>15. ASSUME NEW n \in Overridden, NEW v \in Values, Load(n, v) PROVE SaveInv'
  BY <1>0, <1>15 DEF Load
<1>7. CASE SaveFails
  BY <1>7 DEF SaveFails
<1>8. CASE SaveErase
  BY <1>0, <1>8 DEF SaveErase
<1>9. CASE SaveWrite
  BY <1>9 DEF SaveWrite
<1>10. CASE SaveWriteFails
  BY <1>10 DEF SaveWriteFails
<1>11. CASE SaveDone
  BY <1>0, <1>11 DEF SaveDone
<1>12. CASE UNCHANGED vars
  BY <1>12 DEF vars
<1> QED
  BY <1>1, <1>2, <1>3, <1>4, <1>5, <1>6, <1>7, <1>8, <1>9, <1>10, <1>11, <1>12,
     <1>13, <1>14, <1>15, NamesAssumption
     DEF Next, Setenv

LEMMA RestoreStep ==
  ASSUME TypeOK, SaveInv, [Next]_vars,
         pc = "off", pc' = "prompt", g.kept # NoEnv, ~g.spoilt, NEW n \in Others
  PROVE  ram'.vars[n] = g.kept[n]
<1>1. Boot
  BY DEF Next, Setenv, SetRefused, SetFits, SetOverflows, Unset, UnsetPair, SetPair,
         Load, PowerLoss,
         SaveFails, SaveErase, SaveWrite, SaveWriteFails, SaveDone, vars
<1>2. Relocated.vars = g.kept
  BY DEF SaveInv, Relocated
<1> QED
  BY <1>1, <1>2, BootKeeps

\* After a power failure at any point, the start finds what the last complete
\* saveenv stored, as long as no overflow came between setenv and saveenv.
THEOREM SaveLasts == Spec => SavedIsRestored
<1>1. Init => SaveInv
  BY DEF Init, SaveInv
<1>2. TypeOK /\ SaveInv /\ [Next]_vars =>
        [pc = "off" /\ pc' = "prompt" /\ g.kept # NoEnv /\ ~g.spoilt =>
           \A n \in Others : ram'.vars[n] = g.kept[n]]_vars
  BY RestoreStep
<1> QED
  BY <1>1, <1>2, TypeInit, TypeStep, SaveStep, PTL DEF Spec, SavedIsRestored

-----------------------------------------------------------------------------
(* The environment implements EnvPromise while everything fits *)

MemOf == IF pc = "off" THEN NoEnv ELSE ram.vars
DiskOf == IF disk.crc THEN disk.vars ELSE NoEnv

\* Without overflow the CRC in RAM is always right.
CrcInv == pc # "off" => ram.crc

LEMMA PutRoomy ==
  ASSUME TypeOK, Fitting = Envs, NEW n \in Names, NEW v \in Values
  PROVE  Put(ram, n, v) = [vars |-> [ram.vars EXCEPT ![n] = v], crc |-> TRUE]
  BY DEF TypeOK, Stored, Envs, Put

LEMMA ConsoleCrc ==
  ASSUME TypeOK, Fitting = Envs
  PROVE  ConsoleSet(Relocated).crc
<1> DEFINE e2 == Put(Put(Relocated, "stdin", FirstInput), "stdout", FirstOutput)
<1>1. e2 \in Stored
  <2>0. FirstInput \in Values /\ FirstOutput \in Values
    BY ValuesAssumption
  <2>1. Relocated \in Stored /\ Relocated.vars \in Fitting
    BY RelocatedType
  <2> DEFINE e1 == Put(Relocated, "stdin", FirstInput)
  <2>2. e1 \in Stored /\ e1.vars \in Fitting
    BY <2>0, <2>1, PutType
  <2> HIDE DEF e1
  <2>3. Put(e1, "stdout", FirstOutput) \in Stored
    BY <2>0, <2>2, PutType
  <2> QED BY <2>3 DEF e1
<1> HIDE DEF e2
<1>2. [e2.vars EXCEPT !["stderr"] = FirstOutput] \in Fitting
  BY <1>1, ValuesAssumption DEF Stored, Envs
<1>3. Put(e2, "stderr", FirstOutput).crc
  BY <1>2 DEF Put
<1> QED
  BY <1>3 DEF e2, ConsoleSet

LEMMA CrcStep ==
  ASSUME TypeOK, CrcInv, Fitting = Envs, [Next]_vars
  PROVE  CrcInv'
<1> USE DEF CrcInv
<1>1. CASE Boot
  BY <1>1, ConsoleCrc DEF Boot
<1>2. ASSUME NEW n \in Names, Unset(n) PROVE CrcInv'
  BY <1>2 DEF Unset, Deleted
<1>3. ASSUME NEW n \in Names, NEW v \in Values, Setenv(n, v) PROVE CrcInv'
  BY <1>3, PutRoomy DEF Setenv, SetRefused, SetFits, SetOverflows
<1>5. ASSUME NEW n \in Names, UnsetPair(n) \/ \E v \in Values : SetPair(n, v) PROVE CrcInv'
  BY <1>5, PutRoomy DEF UnsetPair, SetPair, Deleted
<1>6. ASSUME NEW n \in Overridden, NEW v \in Values, Load(n, v) PROVE CrcInv'
  BY <1>6 DEF Load
<1>4. CASE PowerLoss \/ SaveFails \/ SaveErase \/ SaveWrite \/ SaveWriteFails
           \/ SaveDone \/ UNCHANGED vars
  BY <1>4 DEF PowerLoss, SaveFails, SaveErase, SaveWrite, SaveWriteFails, SaveDone, vars
<1> QED
  BY <1>1, <1>2, <1>3, <1>4, <1>5, <1>6, NamesAssumption DEF Next

LEMMA PromiseStep ==
  ASSUME TypeOK, CrcInv, Fitting = Envs, [Next]_vars
  PROVE  [Promise!Next]_<<MemOf, DiskOf>>
<1> USE DEF MemOf, DiskOf
<1>0. ram.vars \in Envs /\ disk.vars \in Envs /\ Promise!Envs = Envs
  BY DEF TypeOK, Stored, Envs, Promise!Envs
<1>1. CASE Boot
  <2>1. ram'.vars \in Envs
    BY <1>1, TypeStep DEF TypeOK, Stored
  <2>2. ASSUME NEW n \in Names \ ConsoleVars
        PROVE  ram'.vars[n] = (IF DiskOf = NoEnv THEN Default ELSE DiskOf)[n]
    <3>1. n \in Others
      OBVIOUS
    <3>2. ram'.vars[n] = Relocated.vars[n]
      BY <1>1, <3>1, BootKeeps
    <3> QED
      BY <1>0, <3>2, ValuesAssumption DEF Relocated
  <2>3. Promise!Boot
    BY <1>0, <1>1, <2>1, <2>2 DEF Boot, Promise!Boot
  <2> QED BY <2>3 DEF Promise!Next
<1>2. CASE PowerLoss
  <2>1. Promise!Off
    BY <1>0, <1>2, ValuesAssumption DEF PowerLoss, Promise!Off
  <2> QED BY <2>1 DEF Promise!Next
<1>3. ASSUME NEW n \in Names, Unset(n)
      PROVE  [Promise!Next]_<<MemOf, DiskOf>>
  <2>1. CASE CannotDelete(ram.vars, n)
    BY <1>3, <2>1 DEF Unset
  <2>2. CASE ~CannotDelete(ram.vars, n)
    <3>1. Promise!Set(n, Absent)
      BY <1>0, <1>3, <2>2, ValuesAssumption
         DEF Unset, Deleted, Without, Promise!Set
    <3> QED BY <3>1 DEF Promise!Next
  <2> QED BY <2>1, <2>2
<1>4. ASSUME NEW n \in Names, NEW v \in Values, Setenv(n, v)
      PROVE  [Promise!Next]_<<MemOf, DiskOf>>
  <2>1. CASE SetRefused(n, v)
    BY <2>1 DEF SetRefused
  <2>2. CASE SetFits(n, v) \/ SetOverflows(n, v)
    <3>1. Promise!Set(n, v)
      BY <1>0, <2>2, PutRoomy, ValuesAssumption
         DEF SetFits, SetOverflows, Promise!Set
    <3> QED BY <3>1 DEF Promise!Next
  <2> QED BY <1>4, <2>1, <2>2 DEF Setenv
<1>8. ASSUME NEW n \in Names, UnsetPair(n)
      PROVE  [Promise!Next]_<<MemOf, DiskOf>>
  <2>1. Promise!Set(n, Absent)
    BY <1>0, <1>8, ValuesAssumption DEF UnsetPair, Deleted, Without, Promise!Set
  <2> QED BY <2>1 DEF Promise!Next
<1>9. ASSUME NEW n \in Names, NEW v \in Values, SetPair(n, v)
      PROVE  [Promise!Next]_<<MemOf, DiskOf>>
  <2>1. Promise!Set(n, v)
    BY <1>0, <1>9, PutRoomy, ValuesAssumption DEF SetPair, Promise!Set
  <2> QED BY <2>1 DEF Promise!Next
<1>10. ASSUME NEW n \in Overridden, NEW v \in Values, Load(n, v)
      PROVE  [Promise!Next]_<<MemOf, DiskOf>>
  BY <1>10 DEF Load
<1>5. CASE SaveErase
  <2>1. Promise!SaveBegin
    BY <1>0, <1>5, ValuesAssumption DEF SaveErase, Torn, Promise!SaveBegin
  <2> QED BY <2>1 DEF Promise!Next
<1>6. CASE SaveWrite
  <2>1. Promise!SaveEnd
    BY <1>0, <1>6, ValuesAssumption DEF SaveWrite, CrcInv, Promise!SaveEnd
  <2> QED BY <2>1 DEF Promise!Next
<1>7. CASE SaveFails \/ SaveWriteFails \/ SaveDone \/ UNCHANGED vars
  BY <1>7 DEF SaveFails, SaveWriteFails, SaveDone, vars
<1> QED
  BY <1>1, <1>2, <1>3, <1>4, <1>5, <1>6, <1>7, <1>8, <1>9, <1>10, NamesAssumption DEF Next

LEMMA PromiseInit ==
  ASSUME Init PROVE Promise!Init
<1>1. Promise!Envs = Envs
  BY DEF Envs, Promise!Envs
<1>2. TypeOK
  BY TypeInit
<1> QED
  BY <1>1, <1>2 DEF Init, TypeOK, Stored, Promise!Init

\* As long as nothing overflows, setenv, saveenv and the start are a working copy
\* and a stored one, whatever the power does.
THEOREM KeepsPromise ==
  ASSUME Fitting = Envs
  PROVE  Spec => PromiseKept
<1>1. Init => CrcInv
  BY DEF Init, CrcInv
<1>2. TypeOK /\ CrcInv /\ [Next]_vars => CrcInv'
  BY CrcStep
<1>3. TypeOK /\ CrcInv /\ [Next]_vars => [Promise!Next]_Promise!vars
  BY PromiseStep DEF MemOf, DiskOf, Promise!vars
<1> QED
  BY <1>1, <1>2, <1>3, TypeInit, TypeStep, PromiseInit, PTL
     DEF Spec, PromiseKept, Promise!Spec

-----------------------------------------------------------------------------
(* The console files, while everything fits *)

\* From the start on every console variable that no name=value form touched is
\* defined, so that no setenv finds it undefined and leaves its file alone, and it
\* names the file's device.
ConsoleInv ==
  pc # "off" =>
    \A f \in ConsoleVars \ g.loose : ram.vars[f] # Absent /\ dev[f] = ram.vars[f]

LEMMA PutFits ==
  ASSUME Fitting = Envs, NEW e \in Stored, NEW n \in Names, NEW v \in Values
  PROVE  Put(e, n, v).vars = [e.vars EXCEPT ![n] = v]
  BY DEF Stored, Envs, Put

\* The start defines the three variables by the devices it assigns.
LEMMA ConsoleDefined ==
  ASSUME TypeOK, Fitting = Envs
  PROVE  LET e == ConsoleSet(Relocated)
         IN  /\ e.vars["stdin"] = FirstInput
             /\ e.vars["stdout"] = FirstOutput
             /\ e.vars["stderr"] = FirstOutput
<1> DEFINE e1 == Put(Relocated, "stdin", FirstInput)
           e2 == Put(e1, "stdout", FirstOutput)
           e3 == Put(e2, "stderr", FirstOutput)
<1>0. FirstInput \in Values /\ FirstOutput \in Values
  BY ValuesAssumption
<1>1. Relocated \in Stored /\ Relocated.vars \in Fitting
  BY RelocatedType
<1>2. e1 \in Stored /\ e1.vars \in Fitting /\ e1.vars["stdin"] = FirstInput
  <2>1. e1.vars = [Relocated.vars EXCEPT !["stdin"] = FirstInput]
    BY <1>0, <1>1, PutFits
  <2> QED BY <1>0, <1>1, <2>1, PutType DEF Stored, Envs
<1>3. /\ e2 \in Stored /\ e2.vars \in Fitting
      /\ e2.vars["stdin"] = FirstInput /\ e2.vars["stdout"] = FirstOutput
  <2> HIDE DEF e1
  <2>1. e2.vars = [e1.vars EXCEPT !["stdout"] = FirstOutput]
    BY <1>0, <1>2, PutFits
  <2> QED BY <1>0, <1>2, <2>1, PutType DEF Stored, Envs
<1>4. /\ e3.vars["stdin"] = FirstInput /\ e3.vars["stdout"] = FirstOutput
      /\ e3.vars["stderr"] = FirstOutput
  <2> HIDE DEF e2
  <2>1. e3.vars = [e2.vars EXCEPT !["stderr"] = FirstOutput]
    BY <1>0, <1>3, PutFits
  <2> QED BY <1>3, <2>1 DEF Stored, Envs
<1>5. ConsoleSet(Relocated) = e3
  BY DEF ConsoleSet
<1> QED
  BY <1>4, <1>5

LEMMA ConsoleStep ==
  ASSUME TypeOK, ConsoleInv, Fitting = Envs, [Next]_vars
  PROVE  ConsoleInv'
<1> USE DEF ConsoleInv
<1>0. /\ ram.vars \in Envs /\ dev \in [ConsoleVars -> Inputs \cup Outputs]
      /\ g \in History
  BY DEF TypeOK, Stored, History
<1>1. CASE Boot
  <2>1. FirstInput # Absent /\ FirstOutput # Absent
    BY ValuesAssumption
  <2> QED
    BY <1>1, <2>1, ConsoleDefined DEF Boot
<1>2. CASE PowerLoss
  BY <1>2 DEF PowerLoss
<1>3. ASSUME NEW n \in Names, Unset(n) PROVE ConsoleInv'
  <2>1. CASE CannotDelete(ram.vars, n)
    BY <1>3, <2>1 DEF Unset
  <2>2. CASE ~CannotDelete(ram.vars, n)
    <3>1. n \notin ConsoleVars \ g.loose
      BY <1>3, <2>2 DEF Unset, CannotDelete, Defined
    <3>2. \A f \in ConsoleVars \ g.loose : ram'.vars[f] = ram.vars[f]
      BY <1>3, <3>1, UnsetOthers
    <3>3. g'.loose = g.loose
      BY <1>0, <1>3 DEF Unset, History
    <3> QED
      BY <1>3, <3>2, <3>3 DEF Unset
  <2> QED BY <2>1, <2>2
<1>4. ASSUME NEW n \in Names, NEW v \in Values, Setenv(n, v) PROVE ConsoleInv'
  <2>1. CASE SetRefused(n, v)
    BY <2>1 DEF SetRefused
  <2>2. CASE SetFits(n, v) \/ SetOverflows(n, v)
    <3>1. /\ ram' = Put(ram, n, v) /\ dev' = Assigned(n, v)
          /\ pc = "prompt" /\ pc' = pc
      BY <2>2 DEF SetFits, SetOverflows
    <3>2. ram'.vars = [ram.vars EXCEPT ![n] = v]
      BY <3>1, PutFits DEF TypeOK
    <3>3. v # Absent
      BY ValuesAssumption
    <3>4. n \in ConsoleVars \ g.loose => dev' = [dev EXCEPT ![n] = v]
      BY <3>1 DEF Assigned, Defined
    <3>5. \A f \in ConsoleVars : f # n => dev'[f] = dev[f]
      BY <1>0, <3>1 DEF Assigned
    <3>6. ConsoleVars \ g'.loose = ConsoleVars \ g.loose
      BY <1>0, <2>2, NamesAssumption DEF SetFits, SetOverflows, History
    <3> QED
      BY <1>0, <3>1, <3>2, <3>3, <3>4, <3>5, <3>6 DEF Envs
  <2> QED BY <1>4, <2>1, <2>2 DEF Setenv
<1>6. ASSUME NEW n \in Names, UnsetPair(n) \/ \E v \in Values : SetPair(n, v)
      PROVE  ConsoleInv'
  <2>1. g'.loose = g.loose \cup {n} /\ dev' = dev /\ pc' = pc
    BY <1>0, <1>6 DEF UnsetPair, SetPair, History
  <2>2. \A f \in ConsoleVars : f # n => ram'.vars[f] = ram.vars[f]
    <3>1. CASE UnsetPair(n)
      BY <1>0, <3>1 DEF UnsetPair, Deleted, Without, Envs
    <3>2. CASE \E v \in Values : SetPair(n, v)
      BY <1>0, <3>2, PutOthers DEF SetPair, TypeOK
    <3> QED BY <1>6, <3>1, <3>2
  <2> QED
    BY <2>1, <2>2
<1>7. ASSUME NEW n \in Overridden, NEW v \in Values, Load(n, v) PROVE ConsoleInv'
  BY <1>0, <1>7 DEF Load, History
<1>5. CASE SaveFails \/ SaveErase \/ SaveWrite \/ SaveWriteFails \/ SaveDone
           \/ UNCHANGED vars
  BY <1>0, <1>5 DEF History, SaveFails, SaveErase, SaveWrite, SaveWriteFails, SaveDone, vars
<1> QED
  BY <1>1, <1>2, <1>3, <1>4, <1>5, <1>6, <1>7, NamesAssumption DEF Next

\* As long as nothing overflows, every console variable names the device its file
\* is assigned to: the start (console_init_r) and every setenv by name keep them
\* together, as long as the variable was not given as name=value.
THEOREM ConsoleAgrees ==
  ASSUME Fitting = Envs
  PROVE  Spec => []ConsoleFollows
<1>1. Init => ConsoleInv
  BY DEF Init, ConsoleInv
<1>2. TypeOK /\ ConsoleInv /\ [Next]_vars => ConsoleInv'
  BY ConsoleStep
<1>3. ConsoleInv => ConsoleFollows
  BY DEF ConsoleInv, ConsoleFollows
<1> QED
  BY <1>1, <1>2, <1>3, TypeInit, TypeStep, PTL DEF Spec
=============================================================================
