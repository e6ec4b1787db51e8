------------------------------ MODULE EnvStore ------------------------------
(***************************************************************************)
(* The environment: its working copy in RAM with a CRC (env_common.c,      *)
(* cmd_nvedit.c), its copy in a flash sector (env_spi.c), the settings of  *)
(* the board that follow it (bd->bi_ip_addr, load_addr, BootFile), and the *)
(* console files that setenv assigns devices to (console.c).               *)
(*                                                                         *)
(* Which environments fit in ENV_SIZE is the constant Fitting, so the      *)
(* module does not count bytes.  A sector that was erased or written half  *)
(* way is assumed not to have a matching CRC.                              *)
(***************************************************************************)
CONSTANTS
  Others,      \* names of variables that are no console files
  Values,      \* values of variables
  Absent,      \* the variable is not defined
  NoEnv,       \* nothing was saved, or not completely
  WriteOnce,   \* serial#, ethaddr
  Copied,      \* ipaddr, loadaddr, bootfile: kept a second time elsewhere
  Overridden,  \* loadaddr, bootfile: load commands set that second place too
  Paired,      \* names that are also given in the form name=value
  Inputs, Outputs,         \* names of devices, by what they can be used for
  FirstInput, FirstOutput, \* the devices console_init_r comes upon first
  Default,     \* default_environment
  Fitting      \* environments that fit in ENV_SIZE

ConsoleVars == {"stdin", "stdout", "stderr"}
Names == Others \cup ConsoleVars
Envs == [Names -> Values \cup {Absent}]

\* e without the variable n.
Without(e, n) == [e EXCEPT ![n] = Absent]

ASSUME NamesAssumption ==
  /\ Others \cap ConsoleVars = {} /\ WriteOnce \subseteq Others
  /\ Copied \subseteq Others /\ Overridden \subseteq Copied
  /\ Paired \subseteq Names
ASSUME ValuesAssumption ==
  /\ Absent \notin Values /\ NoEnv \notin Envs
  /\ Inputs \subseteq Values /\ Outputs \subseteq Values
  /\ FirstInput \in Inputs /\ FirstOutput \in Outputs
ASSUME FittingAssumption ==
  /\ Fitting \subseteq Envs /\ Default \in Fitting
  /\ [n \in Names |-> Absent] \in Fitting
  /\ \A e \in Fitting, n \in Names : Without(e, n) \in Fitting

VARIABLES
  ram,    \* env_ptr: the variables, and whether the CRC is that of the data
  disk,   \* the same for the environment's place in flash
  copy,   \* what else the values of Copied are kept in
  dev,    \* stdio_devices
  pc,     \* "off", at the "prompt", or inside saveenv
  ret,    \* result of the last command
  g       \* history: what the last complete saveenv stored, whether an overflow
          \* had deleted a variable since the CRC was last updated, and which
          \* names were given as name=value, or have their setting from a load

vars == <<ram, disk, copy, dev, pc, ret, g>>

Stored == [vars : Envs, crc : BOOLEAN]
Empty == [n \in Names |-> Absent]
Torn == [vars |-> Empty, crc |-> FALSE]

Init ==
  /\ ram = Torn /\ pc = "off" /\ ret = 0
  /\ disk \in {Torn, [vars |-> Default, crc |-> TRUE]}
  /\ copy = [n \in Copied |-> Absent]
  /\ dev = [f \in ConsoleVars |-> IF f = "stdin" THEN FirstInput ELSE FirstOutput]
  /\ g = [kept |-> NoEnv, over |-> FALSE, spoilt |-> FALSE, loose |-> {}]

-----------------------------------------------------------------------------
(* _do_setenv *)

Defined(e, n) == e[n] # Absent
Protected(n) == n \in WriteOnce

\* An existing console variable takes only the name of a device of its direction.
CanAssign(f, v) == v \in (IF f = "stdin" THEN Inputs ELSE Outputs)

Refused(e, n, v) ==
  Defined(e, n) /\ (Protected(n) \/ (n \in ConsoleVars /\ ~CanAssign(n, v)))

PutAnyway(e, n, v) == [vars |-> [e.vars EXCEPT ![n] = v], crc |-> TRUE]

\* The old definition goes first.  When the new one does not fit, the function
\* returns before env_crc_update.
Put(e, n, v) ==
  LET new == [e.vars EXCEPT ![n] = v]
  IN  IF new \in Fitting THEN [vars |-> new, crc |-> TRUE]
      ELSE [vars |-> Without(e.vars, n), crc |-> e.crc /\ ~Defined(e.vars, n)]

Overflows(e, n, v) == [e EXCEPT ![n] = v] \notin Fitting

\* The settings after a definition of n that fits.
FollowKnown(n, v) == [m \in Copied |-> IF m = n /\ copy[m] # Absent THEN v ELSE copy[m]]
Follow(n, v) == [m \in Copied |-> IF m = n THEN v ELSE copy[m]]

SetRefused(n, v) ==
  /\ pc = "prompt" /\ Refused(ram.vars, n, v)
  /\ ret' = 1
  /\ UNCHANGED <<ram, disk, copy, dev, pc, g>>

\* The console file is switched before it is known whether the value fits.
AssignedNew(n, v) ==
  IF n \in ConsoleVars /\ ~Defined(ram.vars, n) THEN [dev EXCEPT ![n] = v] ELSE dev
Assigned(n, v) ==
  IF n \in ConsoleVars /\ Defined(ram.vars, n) THEN [dev EXCEPT ![n] = v] ELSE dev

SetFits(n, v) ==
  /\ pc = "prompt" /\ ~Refused(ram.vars, n, v) /\ ~Overflows(ram.vars, n, v)
  /\ ram' = Put(ram, n, v)
  /\ dev' = Assigned(n, v)
  /\ copy' = Follow(n, v)
  /\ ret' = 0 /\ g' = [g EXCEPT !.over = FALSE, !.loose = @ \ (Copied \cap {n})]
  /\ UNCHANGED <<disk, pc>>

SetOverflows(n, v) ==
  /\ pc = "prompt" /\ ~Refused(ram.vars, n, v) /\ Overflows(ram.vars, n, v)
  /\ ram' = Put(ram, n, v)
  /\ dev' = Assigned(n, v)
  /\ ret' = 1 /\ g' = [g EXCEPT !.over = @ \/ Defined(ram.vars, n)]
  /\ UNCHANGED <<disk, copy, pc>>

\* setenv name: a console variable cannot be deleted; the settings are not reset.
CannotDeleteConsole(e, n) == Defined(e, n) /\ n \in ConsoleVars
CannotDelete(e, n) == Defined(e, n) /\ (Protected(n) \/ n \in ConsoleVars)
DeletedOnly(e, n) == [vars |-> Without(e.vars, n), crc |-> ~Defined(e.vars, n)]
Deleted(e, n) == [vars |-> Without(e.vars, n), crc |-> TRUE]

Unset(n) ==
  /\ pc = "prompt"
  /\ \/ /\ CannotDelete(ram.vars, n) /\ ret' = 1
        /\ UNCHANGED <<ram, g>>
     \/ /\ ~CannotDelete(ram.vars, n) /\ ret' = 0
        /\ ram' = Deleted(ram, n) /\ g' = [g EXCEPT !.over = FALSE]
  /\ UNCHANGED <<disk, copy, dev, pc>>

\* setenv name=value [more]: envmatch stops at the '=' and finds the definition of
\* the name, while every check and whatever follows the variable compares the
\* whole word.  With more arguments the name is defined again, as v.
UnsetPair(n) ==
  /\ pc = "prompt"
  /\ ram' = Deleted(ram, n) /\ ret' = 0
  /\ g' = [g EXCEPT !.over = FALSE, !.loose = @ \cup {n}]
  /\ UNCHANGED <<disk, copy, dev, pc>>

SetPair(n, v) ==
  /\ pc = "prompt"
  /\ ram' = Put(ram, n, v)
  /\ \/ /\ ~Overflows(ram.vars, n, v) /\ ret' = 0
        /\ g' = [g EXCEPT !.over = FALSE, !.loose = @ \cup {n}]
     \/ /\ Overflows(ram.vars, n, v) /\ ret' = 1
        /\ g' = [g EXCEPT !.over = @ \/ Defined(ram.vars, n), !.loose = @ \cup {n}]
  /\ UNCHANGED <<disk, copy, dev, pc>>

\* The argument of a load command, the end of a serial load, or the choice of the
\* command line in the menu (board.c, case '4') set load_addr or BootFile and
\* leave the variable alone.  The preset from $loadaddr is one of the values.
Load(n, v) ==
  /\ pc = "prompt"
  /\ copy' = Follow(n, v)
  /\ g' = [g EXCEPT !.loose = @ \cup {n}]
  /\ UNCHANGED <<ram, disk, dev, pc, ret>>

-----------------------------------------------------------------------------
(* saveenv: erase the sector, write the environment, write the rest of it *)

SaveFails ==
  /\ pc = "prompt" /\ ret' = 1
  /\ UNCHANGED <<ram, disk, copy, dev, pc, g>>

SaveErase ==
  /\ pc = "prompt"
  /\ disk' = Torn /\ pc' = "write"
  /\ g' = [g EXCEPT !.kept = NoEnv]
  /\ UNCHANGED <<ram, copy, dev, ret>>

\* The CRC is stored as it is in RAM.
SaveWrite ==
  /\ pc = "write"
  /\ disk' = ram /\ pc' = "rest"
  /\ UNCHANGED <<ram, copy, dev, ret, g>>

\* raspi_write gives up at once when the erase is still going on.
SaveWriteFails ==
  /\ pc = "write"
  /\ pc' = "prompt" /\ ret' = 1
  /\ UNCHANGED <<ram, disk, copy, dev, g>>

SaveDone ==
  /\ pc = "rest"
  /\ pc' = "prompt" /\ ret' = 0
  /\ g' = [g EXCEPT !.kept = ram.vars, !.spoilt = g.over]
  /\ UNCHANGED <<ram, disk, copy, dev>>

-----------------------------------------------------------------------------
(* Power and start *)

PowerLoss ==
  /\ pc # "off"
  /\ pc' = "off" /\ ram' = Torn
  /\ UNCHANGED <<disk, copy, dev, ret, g>>

\* spi_env_init and env_relocate: a stored environment with a matching CRC, or
\* the default one with a CRC made for it.
RelocatedUnchecked == [disk EXCEPT !.crc = TRUE]
Relocated == IF disk.crc THEN disk ELSE [vars |-> Default, crc |-> TRUE]

\* console_init_r sets the three console variables to the devices it assigned.
ConsoleSet(e) ==
  Put(Put(Put(e, "stdin", FirstInput), "stdout", FirstOutput), "stderr", FirstOutput)

Spilled(e) == ~ConsoleSet(e).crc

Boot ==
  /\ pc = "off" /\ pc' = "prompt" /\ ret' = 0
  /\ ram' = ConsoleSet(Relocated)
  /\ dev' = [f \in ConsoleVars |-> IF f = "stdin" THEN FirstInput ELSE FirstOutput]
  /\ copy' = [n \in Copied |-> Relocated.vars[n]]
  /\ g' = [g EXCEPT !.over = Spilled(Relocated), !.loose = {}]
  /\ UNCHANGED disk

Setenv(n, v) == SetRefused(n, v) \/ SetFits(n, v) \/ SetOverflows(n, v)

Next ==
  \/ Boot \/ PowerLoss
  \/ \E n \in Names : Unset(n)
  \/ \E n \in Names, v \in Values : Setenv(n, v)
  \/ \E n \in Paired : UnsetPair(n)
  \/ \E n \in Paired, v \in Values : SetPair(n, v)
  \/ \E n \in Overridden, v \in Values : Load(n, v)
  \/ SaveFails \/ SaveErase \/ SaveWrite \/ SaveWriteFails \/ SaveDone

Spec == Init /\ [][Next]_vars

-----------------------------------------------------------------------------
(* Properties *)

TypeOK ==
  /\ ram \in Stored /\ disk \in Stored
  /\ ram.vars \in Fitting
  /\ disk.vars \in Fitting
  /\ copy \in [Copied -> Values \cup {Absent}]
  /\ dev \in [ConsoleVars -> Inputs \cup Outputs]
  /\ pc \in {"off", "prompt", "write", "rest"}
  /\ ret \in {0, 1}
  /\ g \in [kept : Envs \cup {NoEnv}, over : BOOLEAN, spoilt : BOOLEAN,
            loose : SUBSET Names]

\* The next start finds what the last complete saveenv stored: all of it but the
\* console variables, unless an overflow had left the CRC behind.
SavedIsRestored ==
  [][pc = "off" /\ pc' = "prompt" /\ g.kept # NoEnv /\ ~g.spoilt =>
       \A n \in Others : ram'.vars[n] = g.kept[n]]_vars

\* "saveenv - save environment variables to persistent storage".
SaveenvSaves ==
  [][pc = "off" /\ pc' = "prompt" /\ g.kept # NoEnv =>
       \A n \in Others : ram'.vars[n] = g.kept[n]]_vars

\* A console variable names the device its file is assigned to, as long as it was
\* never given as name=value, which neither checks nor assigns the device.
ConsoleFollows ==
  pc # "off" =>
    \A f \in ConsoleVars \ g.loose : Defined(ram.vars, f) => dev[f] = ram.vars[f]

\* bi_ip_addr, load_addr and BootFile are what their variables say, for every
\* variable defined, from the start or the last setenv by name on, until a load
\* command or a setenv name=value comes between.
CopiesFollow ==
  pc # "off" =>
    \A n \in Copied \ g.loose : Defined(ram.vars, n) => copy[n] = ram.vars[n]

\* "Once set, these variables are read-only, and write or delete attempts are
\* rejected" (README, Vendor Parameter Protection): until the power is cycled no
\* command changes or deletes serial# or ethaddr.
SetOnlyOnce ==
  [][pc # "off" /\ pc' # "off" =>
       \A n \in WriteOnce : Defined(ram.vars, n) => ram'.vars[n] = ram.vars[n]]_vars

\* What the checks of _do_setenv do achieve: an overflow, a save or a setenv of any
\* other form leaves a defined serial# or ethaddr alone; only name=value does not.
OnceByName ==
  [][pc # "off" /\ pc' # "off" =>
       \A n \in WriteOnce :
         Defined(ram.vars, n) /\ ram'.vars[n] # ram.vars[n] =>
           UnsetPair(n) \/ \E v \in Values : SetPair(n, v)]_vars

\* Where every environment fits, all of this is a working and a stored copy.
Promise == INSTANCE EnvPromise WITH
  None <- NoEnv, BootSet <- ConsoleVars,
  mem <- IF pc = "off" THEN NoEnv ELSE ram.vars,
  disk <- IF disk.crc THEN disk.vars ELSE NoEnv
PromiseKept == Promise!Spec
=============================================================================
