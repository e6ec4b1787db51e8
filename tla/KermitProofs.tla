----------------------------- MODULE KermitProofs -----------------------------
(***************************************************************************)
(* Proofs about Kermit, for files of any length and packets of any size:   *)
(* what k_data_char makes of quoted characters, that a load over a good    *)
(* line leaves in memory what was sent, and that it touches nothing beyond *)
(* that.  BootFlowProofs draws the conclusions for the program.            *)
(*                                                                         *)
(* Induction is over sets of numbers or of sequences.                      *)
(***************************************************************************)
EXTENDS Kermit, TLAPS, WellFoundedInduction

(***************************************************************************)
(* Induction, as a fact about sets of numbers.                             *)
(***************************************************************************)
LEMMA Least ==
  ASSUME NEW T \in SUBSET Nat, T # {}
  PROVE  \E x \in T : \A y \in T : x <= y
<1> DEFINE R == OpToRel(<, Nat)
<1>1. IsWellFoundedOn(R, Nat)
  BY NatLessThanWellFounded
<1>2. \A x, y \in Nat : x < y => <<x, y>> \in R
  BY DEF OpToRel
<1> HIDE DEF R
<1>3. PICK x \in T : \A y \in T : ~(<<y, x>> \in R)
  BY <1>1, WFMin
<1>4. \A y \in T : ~(y < x)
  BY <1>2, <1>3
<1> QED
  BY <1>4

LEMMA Induction ==
  ASSUME NEW S, 0 \in S, \A z \in Nat : z \in S => z + 1 \in S
  PROVE  Nat \subseteq S
<1> DEFINE T == Nat \ S
<1> SUFFICES ASSUME T # {} PROVE FALSE
  OBVIOUS
<1>1. PICK x \in T : \A y \in T : x <= y
  BY Least
<1>2. x - 1 \in Nat /\ x - 1 \notin T
  BY <1>1
<1> QED
  BY <1>1, <1>2

(***************************************************************************)
(* The characters of a packet are stored one after the other.              *)
(***************************************************************************)
After(m, cs, z, f) == f = [i \in 0 .. z |-> IF i = 0 THEN m ELSE k_data_char(f[i - 1], cs[i])]

LEMMA AfterExists ==
  ASSUME NEW m, NEW cs, NEW z \in Nat
  PROVE  \E f : After(m, cs, z, f)
<1> DEFINE S == {k \in Nat : \E f : After(m, cs, k, f)}
<1>1. 0 \in S
  <2> DEFINE f == [i \in 0 .. 0 |-> m]
  <2>1. After(m, cs, 0, f)
    BY DEF After
  <2> QED
    BY <2>1
<1>2. ASSUME NEW k \in Nat, k \in S PROVE k + 1 \in S
  <2>1. PICK f : After(m, cs, k, f)
    BY <1>2
  <2> DEFINE h == [i \in 0 .. k + 1 |-> IF i = k + 1 THEN k_data_char(f[k], cs[k + 1]) ELSE f[i]]
  <2>2. /\ h[k + 1] = k_data_char(f[k], cs[k + 1])
        /\ \A i \in 0 .. k : h[i] = f[i]
    OBVIOUS
  <2>3. \A i \in 0 .. k : f[i] = IF i = 0 THEN m ELSE k_data_char(f[i - 1], cs[i])
    BY <2>1 DEF After
  <2>4. \A i \in 0 .. k + 1 : h[i] = IF i = 0 THEN m ELSE k_data_char(h[i - 1], cs[i])
    <3> SUFFICES ASSUME NEW i \in 0 .. k + 1
                 PROVE  h[i] = IF i = 0 THEN m ELSE k_data_char(h[i - 1], cs[i])
      OBVIOUS
    <3>1. CASE i = k + 1
      <4>1. h[i - 1] = f[k]
        BY <2>2, <3>1
      <4> QED
        BY <2>2, <3>1, <4>1
    <3>2. CASE i = 0
      BY <2>2, <2>3, <3>2
    <3>3. CASE i # 0 /\ i # k + 1
      <4>1. i \in 0 .. k /\ i - 1 \in 0 .. k
        BY <3>3
      <4>2. h[i] = f[i] /\ h[i - 1] = f[i - 1]
        BY <2>2, <4>1
      <4> QED
        BY <2>3, <3>3, <4>1, <4>2
    <3> QED
      BY <3>1, <3>2, <3>3
  <2>5. After(m, cs, k + 1, h)
    BY <2>4 DEF After
  <2> QED
    BY <2>5
<1> HIDE DEF S
<1>3. Nat \subseteq S
  BY <1>1, <1>2, Induction
<1> QED
  BY <1>3 DEF S

LEMMA CharsAfter ==
  ASSUME NEW m, NEW cs, Len(cs) \in Nat
  PROVE  \E f : After(m, cs, Len(cs), f) /\ k_data_chars(m, cs) = f[Len(cs)]
<1> DEFINE f == CHOOSE f : After(m, cs, Len(cs), f)
<1>1. After(m, cs, Len(cs), f)
  BY AfterExists
<1>2. k_data_chars(m, cs) = f[Len(cs)]
  BY DEF k_data_chars, After
<1> QED
  BY <1>1, <1>2

LEMMA NoChars ==
  ASSUME NEW m
  PROVE  k_data_chars(m, <<>>) = m
<1>1. Len(<<>>) = 0
  OBVIOUS
<1>2. PICK f : After(m, <<>>, 0, f) /\ k_data_chars(m, <<>>) = f[0]
  BY <1>1, CharsAfter
<1>3. f[0] = m
  BY <1>2 DEF After
<1> QED
  BY <1>2, <1>3

LEMMA CharAfter ==
  ASSUME NEW m, NEW T, NEW cs \in Seq(T), NEW c \in T
  PROVE  k_data_chars(m, Append(cs, c)) = k_data_char(k_data_chars(m, cs), c)
<1> DEFINE ds == Append(cs, c)
           z == Len(cs)
<1>1. z \in Nat /\ Len(ds) = z + 1 /\ ds[z + 1] = c /\ \A i \in 1 .. z : cs[i] = ds[i]
  OBVIOUS
<1> HIDE DEF ds, z
<1>2. PICK f : After(m, cs, z, f) /\ k_data_chars(m, cs) = f[z]
  BY <1>1, CharsAfter DEF z
<1>3. PICK h : After(m, ds, z + 1, h) /\ k_data_chars(m, ds) = h[z + 1]
  <2>1. Len(ds) \in Nat
    BY <1>1
  <2>2. \E h : After(m, ds, Len(ds), h) /\ k_data_chars(m, ds) = h[Len(ds)]
    BY <2>1, CharsAfter
  <2> QED
    BY <1>1, <2>2
<1> DEFINE S == {i \in Nat : i <= z => f[i] = h[i]}
<1>a. /\ \A i \in 0 .. z : f[i] = IF i = 0 THEN m ELSE k_data_char(f[i - 1], cs[i])
      /\ \A i \in 0 .. z + 1 : h[i] = IF i = 0 THEN m ELSE k_data_char(h[i - 1], ds[i])
  BY <1>1, <1>2, <1>3 DEF After
<1>b. 0 \in S
  BY <1>1, <1>a
<1>c. ASSUME NEW i \in Nat, i \in S PROVE i + 1 \in S
  <2> SUFFICES ASSUME i + 1 <= z PROVE f[i + 1] = h[i + 1]
    OBVIOUS
  <2>1. f[i] = h[i] /\ cs[i + 1] = ds[i + 1] /\ i + 1 \in 0 .. z /\ (i + 1) - 1 = i /\ i + 1 # 0
    BY <1>1, <1>c
  <2>2. i + 1 \in 0 .. z + 1
    BY <1>1, <2>1
  <2> QED
    BY <1>a, <2>1, <2>2
<1> HIDE DEF S
<1>d. Nat \subseteq S
  BY <1>b, <1>c, Induction
<1>4. f[z] = h[z]
  BY <1>1, <1>d DEF S
<1>5. h[z + 1] = k_data_char(h[z], c)
  BY <1>1, <1>3 DEF After
<1> QED
  BY <1>2, <1>3, <1>4, <1>5 DEF ds

-----------------------------------------------------------------------------
(***************************************************************************)
(* Sequences joined to one.                                                *)
(***************************************************************************)
Joins(seqs, z, f) == f = [i \in 1 .. z |-> IF i = 1 THEN seqs[i] ELSE f[i - 1] \o seqs[i]]

LEMMA JoinsExists ==
  ASSUME NEW seqs, NEW z \in Nat
  PROVE  \E f : Joins(seqs, z, f)
<1> DEFINE S == {k \in Nat : \E f : Joins(seqs, k, f)}
<1>1. 0 \in S
  <2> DEFINE f == [i \in 1 .. 0 |-> seqs]
  <2>1. Joins(seqs, 0, f)
    BY DEF Joins
  <2> QED
    BY <2>1
<1>2. ASSUME NEW k \in Nat, k \in S PROVE k + 1 \in S
  <2>1. PICK f : Joins(seqs, k, f)
    BY <1>2
  <2> DEFINE last == IF k = 0 THEN seqs[1] ELSE f[k] \o seqs[k + 1]
             h == [i \in 1 .. k + 1 |-> IF i = k + 1 THEN last ELSE f[i]]
  <2>2. /\ h[k + 1] = last
        /\ \A i \in 1 .. k : h[i] = f[i]
    <3> HIDE DEF last
    <3>1. h[k + 1] = last
      OBVIOUS
    <3>2. ASSUME NEW i \in 1 .. k PROVE h[i] = f[i]
      OBVIOUS
    <3> QED
      BY <3>1, <3>2
  <2>3. \A i \in 1 .. k : f[i] = IF i = 1 THEN seqs[i] ELSE f[i - 1] \o seqs[i]
    BY <2>1 DEF Joins
  <2>4. \A i \in 1 .. k + 1 : h[i] = IF i = 1 THEN seqs[i] ELSE h[i - 1] \o seqs[i]
    <3> SUFFICES ASSUME NEW i \in 1 .. k + 1
                 PROVE  h[i] = IF i = 1 THEN seqs[i] ELSE h[i - 1] \o seqs[i]
      OBVIOUS
    <3>1. CASE i = k + 1
      <4>1. i # 1 => h[i - 1] = f[k]
        BY <2>2, <3>1
      <4> QED
        BY <2>2, <3>1, <4>1
    <3>2. CASE i # k + 1
      <4>1. i \in 1 .. k /\ (i # 1 => i - 1 \in 1 .. k)
        BY <3>2
      <4>2. h[i] = f[i] /\ (i # 1 => h[i - 1] = f[i - 1])
        BY <2>2, <4>1
      <4> QED
        BY <2>3, <4>1, <4>2
    <3> QED
      BY <3>1, <3>2
  <2>5. Joins(seqs, k + 1, h)
    BY <2>4 DEF Joins
  <2> QED
    BY <2>5
<1> HIDE DEF S
<1>3. Nat \subseteq S
  BY <1>1, <1>2, Induction
<1> QED
  BY <1>3 DEF S

LEMMA FlattenJoins ==
  ASSUME NEW seqs, Len(seqs) \in Nat \ {0}
  PROVE  \E f : Joins(seqs, Len(seqs), f) /\ FlattenSeq(seqs) = f[Len(seqs)]
<1> DEFINE f == CHOOSE f : Joins(seqs, Len(seqs), f)
<1>1. Joins(seqs, Len(seqs), f)
  BY JoinsExists
<1>2. FlattenSeq(seqs) = f[Len(seqs)]
  BY DEF FlattenSeq, Joins
<1> QED
  BY <1>1, <1>2

LEMMA FlattenEmpty == FlattenSeq(<<>>) = <<>>
  BY DEF FlattenSeq

LEMMA FlattenAppend ==
  ASSUME NEW T, NEW seqs \in Seq(Seq(T)), NEW x \in Seq(T)
  PROVE  FlattenSeq(Append(seqs, x)) = FlattenSeq(seqs) \o x
<1> DEFINE ds == Append(seqs, x)
           z == Len(seqs)
<1>1. z \in Nat /\ Len(ds) = z + 1 /\ ds[z + 1] = x /\ \A i \in 1 .. z : seqs[i] = ds[i]
  OBVIOUS
<1>0. z = 0 => seqs = <<>>
  OBVIOUS
<1> HIDE DEF ds, z
<1>3. PICK h : Joins(ds, z + 1, h) /\ FlattenSeq(ds) = h[z + 1]
  BY <1>1, FlattenJoins
<1>4. \A i \in 1 .. z + 1 : h[i] = IF i = 1 THEN ds[i] ELSE h[i - 1] \o ds[i]
  BY <1>3 DEF Joins
<1>5. CASE z = 0
  <2>1. FlattenSeq(ds) = x
    BY <1>1, <1>3, <1>4, <1>5
  <2>2. FlattenSeq(seqs) \o x = x
    BY <1>0, <1>5, FlattenEmpty
  <2> QED
    BY <2>1, <2>2 DEF ds
<1>6. CASE z # 0
  <2>1. PICK f : Joins(seqs, z, f) /\ FlattenSeq(seqs) = f[z]
    BY <1>1, <1>6, FlattenJoins DEF z
  <2>2. \A i \in 1 .. z : f[i] = IF i = 1 THEN seqs[i] ELSE f[i - 1] \o seqs[i]
    BY <2>1 DEF Joins
  <2> DEFINE S == {i \in Nat : i \in 1 .. z => f[i] = h[i]}
  <2>3. 0 \in S
    OBVIOUS
  <2>4. ASSUME NEW i \in Nat, i \in S PROVE i + 1 \in S
    <3> SUFFICES ASSUME i + 1 <= z PROVE f[i + 1] = h[i + 1]
      OBVIOUS
    <3>1. seqs[i + 1] = ds[i + 1] /\ i + 1 \in 1 .. z /\ (i + 1) - 1 = i /\ (i # 0 => f[i] = h[i])
      BY <1>1, <2>4
    <3>2. i + 1 \in 1 .. z + 1 /\ (i + 1 = 1 <=> i = 0)
      BY <1>1, <3>1
    <3> QED
      BY <1>4, <2>2, <3>1, <3>2
  <2> HIDE DEF S
  <2>5. Nat \subseteq S
    BY <2>3, <2>4, Induction
  <2>6. f[z] = h[z]
    BY <1>1, <1>6, <2>5 DEF S
  <2>7. h[z + 1] = h[z] \o x
    <3>1. z + 1 \in 1 .. z + 1 /\ z + 1 # 1 /\ (z + 1) - 1 = z
      BY <1>1, <1>6
    <3>2. h[z + 1] = h[(z + 1) - 1] \o ds[z + 1]
      BY <1>4, <3>1
    <3> QED
      BY <1>1, <3>1, <3>2
  <2> QED
    BY <1>3, <2>1, <2>6, <2>7 DEF ds
<1> QED
  BY <1>5, <1>6

(***************************************************************************)
(* The first elements of a sequence, one by one.                           *)
(***************************************************************************)
LEMMA FirstOnes ==
  ASSUME NEW T, NEW s \in Seq(T)
  PROVE  /\ SubSeq(s, 1, 0) = <<>> /\ SubSeq(s, 1, Len(s)) = s
         /\ \A i \in 0 .. Len(s) : SubSeq(s, 1, i) \in Seq(T) /\ Len(SubSeq(s, 1, i)) = i
         /\ \A i \in 0 .. Len(s) - 1 :
              s[i + 1] \in T /\ SubSeq(s, 1, i + 1) = Append(SubSeq(s, 1, i), s[i + 1])
<1>1. SubSeq(s, 1, 0) = <<>> /\ SubSeq(s, 1, Len(s)) = s
  OBVIOUS
<1>2. \A i \in 0 .. Len(s) : SubSeq(s, 1, i) \in Seq(T) /\ Len(SubSeq(s, 1, i)) = i
  OBVIOUS
<1>3. ASSUME NEW i \in 0 .. Len(s) - 1
      PROVE  s[i + 1] \in T /\ SubSeq(s, 1, i + 1) = Append(SubSeq(s, 1, i), s[i + 1])
  OBVIOUS
<1> QED
  BY <1>1, <1>2, <1>3

LEMMA SequenceInduction ==
  ASSUME NEW T, NEW S, <<>> \in S, \A u \in Seq(T), x \in T : u \in S => Append(u, x) \in S
  PROVE  Seq(T) \subseteq S
<1> SUFFICES ASSUME NEW s \in Seq(T) PROVE s \in S
  OBVIOUS
<1> DEFINE P == {i \in Nat : i <= Len(s) => SubSeq(s, 1, i) \in S}
<1>1. 0 \in P
  BY FirstOnes
<1>2. ASSUME NEW i \in Nat, i \in P PROVE i + 1 \in P
  <2> SUFFICES ASSUME i + 1 <= Len(s) PROVE SubSeq(s, 1, i + 1) \in S
    OBVIOUS
  <2>1. Len(s) \in Nat /\ i \in 0 .. Len(s) - 1 /\ i \in 0 .. Len(s) /\ SubSeq(s, 1, i) \in S
    BY <1>2
  <2>2. s[i + 1] \in T /\ SubSeq(s, 1, i + 1) = Append(SubSeq(s, 1, i), s[i + 1])
        /\ SubSeq(s, 1, i) \in Seq(T)
    BY <2>1, FirstOnes
  <2> QED BY <2>1, <2>2
<1> HIDE DEF P
<1>3. Nat \subseteq P
  BY <1>1, <1>2, Induction
<1>4. Len(s) \in Nat /\ SubSeq(s, 1, Len(s)) = s
  BY FirstOnes
<1>5. Len(s) \in P
  BY <1>3, <1>4
<1>6. SubSeq(s, 1, Len(s)) \in S
  BY <1>4, <1>5 DEF P
<1> QED BY <1>4, <1>6

LEMMA FlattenType ==
  ASSUME NEW T, NEW seqs \in Seq(Seq(T))
  PROVE  FlattenSeq(seqs) \in Seq(T)
<1> DEFINE S == {u \in Seq(Seq(T)) : FlattenSeq(u) \in Seq(T)}
<1>1. <<>> \in S
  <2>1. <<>> \in Seq(T) /\ <<>> \in Seq(Seq(T))
    OBVIOUS
  <2> QED BY <2>1, FlattenEmpty
<1>2. ASSUME NEW u \in Seq(Seq(T)), NEW x \in Seq(T), u \in S PROVE Append(u, x) \in S
  <2>1. FlattenSeq(Append(u, x)) = FlattenSeq(u) \o x
    BY FlattenAppend
  <2> DEFINE v == FlattenSeq(u)
  <2>2. v \in Seq(T)
    BY <1>2
  <2> HIDE DEF v
  <2>3. v \o x \in Seq(T) /\ Append(u, x) \in Seq(Seq(T))
    BY <1>2, <2>2
  <2>4. FlattenSeq(Append(u, x)) \in Seq(T)
    BY <2>1, <2>3 DEF v
  <2> QED BY <2>3, <2>4
<1> HIDE DEF S
<1>3. Seq(Seq(T)) \subseteq S
  BY <1>1, <1>2, SequenceInduction
<1> QED BY <1>3 DEF S

-----------------------------------------------------------------------------
(***************************************************************************)
(* Memory with the address and the quoting state.                          *)
(***************************************************************************)
Storage == [ram : [Memory -> Int], addr : Nat, escape : BOOLEAN]

Above(m, r) == r.addr >= m.addr /\ \A i \in Memory : i <= m.addr => r.ram[i] = m.ram[i]

LEMMA CharStored ==
  ASSUME NEW m \in Storage, NEW c \in Int
  PROVE  /\ k_data_char(m, c) \in Storage /\ Above(m, k_data_char(m, c))
         /\ ~m.escape /\ c = QUOTE => k_data_char(m, c) = [m EXCEPT !.escape = TRUE]
         /\ ~m.escape /\ c # QUOTE =>
              k_data_char(m, c) = [ram |-> [m.ram EXCEPT ![m.addr + 1] = c], addr |-> m.addr + 1, escape |-> FALSE]
         /\ m.escape =>
              k_data_char(m, c) =
                [ram |-> [m.ram EXCEPT ![m.addr + 1] = ktrans(c)], addr |-> m.addr + 1, escape |-> FALSE]
<1> DEFINE put(x) == [ram |-> [m.ram EXCEPT ![m.addr + 1] = x], addr |-> m.addr + 1, escape |-> FALSE]
<1>1. ASSUME NEW x \in Int PROVE put(x) \in Storage /\ Above(m, put(x))
  <2> DEFINE w == [m.ram EXCEPT ![m.addr + 1] = x]
  <2>1. m.addr \in Nat /\ m.ram \in [Memory -> Int] /\ DOMAIN m.ram = Memory
    BY DEF Storage
  <2>2. w \in [Memory -> Int] /\ DOMAIN w = Memory
    BY <2>1
  <2>3. \A i \in Memory : i <= m.addr => w[i] = m.ram[i]
    BY <2>1 DEF Memory
  <2> HIDE DEF w
  <2>4. put(x) = [ram |-> w, addr |-> m.addr + 1, escape |-> FALSE]
    BY DEF w
  <2> HIDE DEF put
  <2>5. put(x) \in Storage
    BY <2>1, <2>2, <2>4 DEF Storage
  <2>6. put(x).addr = m.addr + 1 /\ put(x).ram = w
    BY <2>4
  <2>7. Above(m, put(x))
    BY <2>1, <2>3, <2>6 DEF Above
  <2> QED BY <2>5, <2>7
<1>2. ktrans(c) \in Int
  BY CharAssumption DEF ktrans
<1>3. CASE m.escape
  BY <1>1, <1>2, <1>3 DEF k_data_char
<1>4. CASE ~m.escape /\ c = QUOTE
  <2>1. k_data_char(m, c) = [m EXCEPT !.escape = TRUE]
    BY <1>4 DEF k_data_char
  <2>2. [m EXCEPT !.escape = TRUE] \in Storage
    BY DEF Storage
  <2>3. m.addr \in Nat /\ [m EXCEPT !.escape = TRUE].addr = m.addr /\ [m EXCEPT !.escape = TRUE].ram = m.ram
    BY DEF Storage
  <2>4. Above(m, [m EXCEPT !.escape = TRUE])
    BY <2>3 DEF Above
  <2> QED BY <1>4, <2>1, <2>2, <2>4
<1>5. CASE ~m.escape /\ c # QUOTE
  <2>1. k_data_char(m, c) = [m EXCEPT !.ram[m.addr + 1] = c, !.addr = @ + 1]
    BY <1>5 DEF k_data_char
  <2>2. k_data_char(m, c) = put(c)
    BY <1>5, <2>1 DEF Storage
  <2> QED BY <1>1, <1>5, <2>2
<1> QED BY <1>3, <1>4, <1>5

LEMMA CharsStored ==
  ASSUME NEW m \in Storage, NEW cs \in Seq(Int)
  PROVE  k_data_chars(m, cs) \in Storage /\ Above(m, k_data_chars(m, cs))
<1> DEFINE S == {u \in Seq(Int) : k_data_chars(m, u) \in Storage /\ Above(m, k_data_chars(m, u))}
<1>1. <<>> \in S
  <2>1. Above(m, m)
    BY DEF Above, Storage
  <2> QED BY <2>1, NoChars
<1>2. ASSUME NEW u \in Seq(Int), NEW x \in Int, u \in S PROVE Append(u, x) \in S
  <2> DEFINE r == k_data_chars(m, u)
             w == k_data_char(r, x)
  <2>1. k_data_chars(m, Append(u, x)) = w
    BY CharAfter
  <2>2. r \in Storage /\ Above(m, r)
    BY <1>2
  <2> HIDE DEF r
  <2>3. w \in Storage /\ Above(r, w)
    BY <2>2, CharStored
  <2> HIDE DEF w
  <2>4. Above(m, w)
    <3>1. m.addr \in Nat /\ r.addr \in Nat /\ w.addr \in Nat
      BY <2>2, <2>3 DEF Storage
    <3>2. \A i \in Memory : i \in Nat
      BY KermitAssumption DEF Memory
    <3> QED BY <2>2, <2>3, <3>1, <3>2 DEF Above
  <2>5. k_data_chars(m, Append(u, x)) \in Storage /\ Above(m, k_data_chars(m, Append(u, x)))
    BY <2>1, <2>3, <2>4
  <2> QED BY <2>5
<1> HIDE DEF S
<1>3. Seq(Int) \subseteq S
  BY <1>1, <1>2, SequenceInduction
<1> QED BY <1>3 DEF S

-----------------------------------------------------------------------------
(***************************************************************************)
(* What a quoted character comes to.                                       *)
(***************************************************************************)
Char == 0 .. CTRL

LEMMA EncodedType ==
  ASSUME NEW c \in Char
  PROVE  /\ Encoded(c) \in Seq(Int)
         /\ \/ c # QUOTE /\ Encoded(c) = <<c>>
            \/ \E x \in Int : Encoded(c) = <<QUOTE, x>> /\ ktrans(x) = c
BY CharAssumption DEF Char, Encoded, ktrans

LEMMA EncodedAppend ==
  ASSUME NEW cs \in Seq(Char), NEW c \in Char
  PROVE  /\ EncodedPiece(<<>>) = <<>>
         /\ EncodedPiece(cs) \in Seq(Int)
         /\ EncodedPiece(Append(cs, c)) = EncodedPiece(cs) \o Encoded(c)
<1> DEFINE all(u) == [i \in 1 .. Len(u) |-> Encoded(u[i])]
<1>1. all(<<>>) = <<>>
  OBVIOUS
<1>2. \A u \in Seq(Char) : all(u) \in Seq(Seq(Int))
  <2> TAKE u \in Seq(Char)
  <2>1. \A i \in 1 .. Len(u) : Encoded(u[i]) \in Seq(Int)
    BY EncodedType
  <2> QED BY <2>1
<1>3. all(Append(cs, c)) = Append(all(cs), Encoded(c))
  <2> DEFINE ds == Append(cs, c)
             z == Len(cs)
  <2>1. z \in Nat /\ Len(ds) = z + 1 /\ ds[z + 1] = c /\ \A i \in 1 .. z : cs[i] = ds[i]
    OBVIOUS
  <2> HIDE DEF ds, z
  <2> DEFINE a == [i \in 1 .. z |-> Encoded(cs[i])]
             b == [i \in 1 .. z + 1 |-> Encoded(ds[i])]
  <2>2. a = all(cs) /\ b = all(ds)
    BY <2>1 DEF z
  <2>3. a \in Seq(Seq(Int)) /\ Encoded(c) \in Seq(Int)
    BY <1>2, <2>2, EncodedType
  <2>4. Len(a) = z
    BY <2>1
  <2> HIDE DEF a
  <2> DEFINE w == Append(a, Encoded(c))
  <2>5. /\ w \in Seq(Seq(Int)) /\ Len(w) = z + 1 /\ w[z + 1] = Encoded(c)
        /\ \A i \in 1 .. z : w[i] = a[i]
    BY <2>1, <2>3, <2>4
  <2> HIDE DEF w
  <2>6. DOMAIN w = 1 .. z + 1 /\ w = [i \in 1 .. z + 1 |-> w[i]]
    BY <2>5
  <2>7. \A i \in 1 .. z + 1 : w[i] = Encoded(ds[i])
    <3> TAKE i \in 1 .. z + 1
    <3>1. CASE i = z + 1
      BY <2>1, <2>5, <3>1
    <3>2. CASE i # z + 1
      <4>1. i \in 1 .. z
        BY <2>1, <3>2
      <4> QED BY <2>1, <2>5, <4>1 DEF a
    <3> QED BY <3>1, <3>2
  <2>8. w = b
    BY <2>6, <2>7
  <2> QED BY <2>2, <2>8 DEF w, ds, a
<1>4. all(cs) \in Seq(Seq(Int)) /\ Encoded(c) \in Seq(Int)
  BY <1>2, EncodedType
<1>5. \A u : EncodedPiece(u) = FlattenSeq(all(u))
  BY DEF EncodedPiece
<1> HIDE DEF all
<1>6. FlattenSeq(Append(all(cs), Encoded(c))) = FlattenSeq(all(cs)) \o Encoded(c)
  BY <1>4, FlattenAppend
<1>7. FlattenSeq(all(cs)) \in Seq(Int)
  BY <1>4, FlattenType
<1> QED BY <1>1, <1>3, <1>5, <1>6, <1>7, FlattenEmpty

(***************************************************************************)
(* An encoded character is stored as itself, one place further.            *)
(***************************************************************************)
LEMMA EncodedStored ==
  ASSUME NEW m \in Storage, NEW us \in Seq(Int), NEW r \in Storage, r = k_data_chars(m, us), ~r.escape,
         NEW c \in Char
  PROVE  k_data_chars(m, us \o Encoded(c)) =
           [ram |-> [r.ram EXCEPT ![r.addr + 1] = c], addr |-> r.addr + 1, escape |-> FALSE]
<1>0. c \in Int /\ QUOTE \in Int
  BY CharAssumption DEF Char
<1>1. CASE c # QUOTE /\ Encoded(c) = <<c>>
  <2>1. us \o <<c>> = Append(us, c)
    BY <1>0
  <2>2. k_data_chars(m, Append(us, c)) = k_data_char(r, c)
    BY <1>0, CharAfter
  <2> QED BY <1>0, <1>1, <2>1, <2>2, CharStored
<1>2. ASSUME NEW x \in Int, Encoded(c) = <<QUOTE, x>>, ktrans(x) = c
      PROVE  k_data_chars(m, us \o Encoded(c)) =
               [ram |-> [r.ram EXCEPT ![r.addr + 1] = c], addr |-> r.addr + 1, escape |-> FALSE]
  <2> DEFINE v == Append(us, QUOTE)
             w == [r EXCEPT !.escape = TRUE]
  <2>1. us \o <<QUOTE, x>> = Append(v, x) /\ v \in Seq(Int)
    BY <1>0
  <2>2. k_data_chars(m, v) = w
    <3>1. k_data_chars(m, v) = k_data_char(r, QUOTE)
      BY <1>0, CharAfter
    <3> QED BY <1>0, <3>1, CharStored
  <2>3. w \in Storage /\ w.escape /\ w.ram = r.ram /\ w.addr = r.addr
    BY DEF Storage
  <2> HIDE DEF v, w
  <2>4. k_data_chars(m, Append(v, x)) = k_data_char(w, x)
    BY <2>1, <2>2, CharAfter
  <2>5. k_data_char(w, x) = [ram |-> [r.ram EXCEPT ![r.addr + 1] = c], addr |-> r.addr + 1, escape |-> FALSE]
    BY <1>2, <2>3, CharStored
  <2> QED BY <1>2, <2>1, <2>4, <2>5
<1> QED BY <1>1, <1>2, EncodedType

(***************************************************************************)
(* A good packet stores its piece, and nothing before it changes.          *)
(***************************************************************************)
Puts(m, cs, r) ==
  /\ r \in Storage /\ Above(m, r)
  /\ ~r.escape /\ r.addr = m.addr + Len(cs)
  /\ \A i \in 1 .. Len(cs) : r.ram[m.addr + i] = cs[i]

LEMMA PieceStored ==
  ASSUME NEW m \in Storage, ~m.escape, NEW cs \in Seq(Char), m.addr + Len(cs) <= MemSize
  PROVE  Puts(m, cs, k_data_chars(m, EncodedPiece(cs)))
<1> DEFINE S == {u \in Seq(Char) : m.addr + Len(u) <= MemSize => Puts(m, u, k_data_chars(m, EncodedPiece(u)))}
<1>0. m.addr \in Nat
  BY DEF Storage
<1>1. <<>> \in S
  <2>1. k_data_chars(m, EncodedPiece(<<>>)) = m
    <3>1. QUOTE \in Char
      BY CharAssumption DEF Char
    <3>2. EncodedPiece(<<>>) = <<>>
      BY <3>1, EncodedAppend
    <3> QED BY <3>2, NoChars
  <2>2. Puts(m, <<>>, m)
    BY <1>0 DEF Puts, Above
  <2> QED BY <2>1, <2>2
<1>2. ASSUME NEW u \in Seq(Char), NEW c \in Char, u \in S PROVE Append(u, c) \in S
  <2> DEFINE v == Append(u, c)
             us == EncodedPiece(u)
             r == k_data_chars(m, us)
             w == [ram |-> [r.ram EXCEPT ![r.addr + 1] = c], addr |-> r.addr + 1, escape |-> FALSE]
  <2>1. /\ v \in Seq(Char) /\ Len(u) \in Nat /\ Len(v) = Len(u) + 1 /\ v[Len(u) + 1] = c
        /\ \A i \in 1 .. Len(u) : v[i] = u[i]
    OBVIOUS
  <2> SUFFICES ASSUME m.addr + Len(v) <= MemSize PROVE Puts(m, v, k_data_chars(m, EncodedPiece(v)))
    BY <2>1
  <2>2. Puts(m, u, r)
    BY <1>0, <1>2, <2>1, KermitAssumption
  <2>3. us \in Seq(Int) /\ EncodedPiece(v) = us \o Encoded(c)
    BY EncodedAppend
  <2>4. r \in Storage /\ ~r.escape
    BY <2>2 DEF Puts
  <2>5. k_data_chars(m, us \o Encoded(c)) = w
    <3> HIDE DEF us
    <3> QED BY <2>3, <2>4, EncodedStored
  <2>6. w \in Storage /\ Above(m, w)
    <3>1. k_data_chars(m, EncodedPiece(v)) \in Storage /\ Above(m, k_data_chars(m, EncodedPiece(v)))
      BY <2>1, EncodedAppend, CharsStored
    <3> QED BY <2>3, <2>5, <3>1
  <2> HIDE DEF v, r
  <2> DEFINE a == m.addr
             b == r.addr
             z == Len(u)
  <2>a. a \in Nat /\ z \in Nat /\ b = a + z /\ a + Len(v) <= MemSize /\ Len(v) = z + 1
    BY <1>0, <2>1, <2>2 DEF Puts
  <2>b. r.ram \in [Memory -> Int] /\ \A i \in 1 .. z : r.ram[a + i] = u[i]
    BY <2>2, <2>4 DEF Puts, Storage
  <2> HIDE DEF a, b, z
  <2>7. /\ b + 1 \in Memory
        /\ \A i \in 1 .. z : a + i \in Memory /\ a + i # b + 1
    BY <2>a, KermitAssumption DEF Memory
  <2>8. w.ram[b + 1] = c /\ \A i \in Memory : i # b + 1 => w.ram[i] = r.ram[i]
    BY <2>b, <2>7 DEF b
  <2>9. ~w.escape /\ w.addr = b + 1
    BY DEF b
  <2> HIDE DEF w
  <2>10. w.addr = a + Len(v)
    BY <2>a, <2>9
  <2>11. \A i \in 1 .. Len(v) : w.ram[a + i] = v[i]
    <3> TAKE i \in 1 .. Len(v)
    <3>0. v[z + 1] = c /\ \A j \in 1 .. z : v[j] = u[j]
      BY <2>1 DEF z
    <3>1. CASE i = z + 1
      <4>1. a + i = b + 1
        BY <2>a, <3>1
      <4> QED BY <3>0, <2>8, <3>1, <4>1
    <3>2. CASE i # z + 1
      <4>1. i \in 1 .. z
        BY <2>a, <3>2
      <4> QED BY <2>b, <2>7, <2>8, <3>0, <4>1
    <3> QED BY <3>1, <3>2
  <2>12. Puts(m, v, w)
    BY <2>6, <2>9, <2>10, <2>11 DEF Puts, a
  <2> QED BY <2>3, <2>5, <2>12
<1> HIDE DEF S
<1>3. Seq(Char) \subseteq S
  BY <1>1, <1>2, SequenceInduction
<1> QED BY <1>3 DEF S

-----------------------------------------------------------------------------
(***************************************************************************)
(* The pieces of a file, one by one.                                       *)
(***************************************************************************)
Loadable(f) == Pieces[f] \in Seq(Seq(Char)) /\ Len(Content(f)) <= MemSize

Base(f, k) == [addr |-> Len(Plain(f, k)), escape |-> FALSE]

Holding(mem, cs) == \A i \in 1 .. Len(cs) : mem[i] = cs[i]

LEMMA PlainGrows ==
  ASSUME NEW f, Loadable(f)
  PROVE  /\ Len(Pieces[f]) \in Nat
         /\ Plain(f, 0) = <<>> /\ Plain(f, Len(Pieces[f])) = Content(f)
         /\ \A k \in 0 .. Len(Pieces[f]) : Plain(f, k) \in Seq(Char)
         /\ \A k \in 0 .. Len(Pieces[f]) - 1 :
              Pieces[f][k + 1] \in Seq(Char) /\ Plain(f, k + 1) = Plain(f, k) \o Pieces[f][k + 1]
<1> DEFINE s == Pieces[f]
<1>1. s \in Seq(Seq(Char)) /\ Len(s) \in Nat
  BY DEF Loadable
<1> HIDE DEF s
<1>2. \A k : Plain(f, k) = FlattenSeq(SubSeq(s, 1, k))
  BY DEF Plain, s
<1>3. Plain(f, 0) = <<>> /\ Plain(f, Len(s)) = FlattenSeq(s)
  BY <1>1, <1>2, FirstOnes, FlattenEmpty
<1>4. \A k \in 0 .. Len(s) : Plain(f, k) \in Seq(Char)
  <2> TAKE k \in 0 .. Len(s)
  <2>1. SubSeq(s, 1, k) \in Seq(Seq(Char))
    BY <1>1, FirstOnes
  <2> QED BY <1>2, <2>1, FlattenType
<1>5. ASSUME NEW k \in 0 .. Len(s) - 1
      PROVE  s[k + 1] \in Seq(Char) /\ Plain(f, k + 1) = Plain(f, k) \o s[k + 1]
  <2>1. k \in 0 .. Len(s)
    BY <1>1
  <2>2. /\ SubSeq(s, 1, k) \in Seq(Seq(Char)) /\ s[k + 1] \in Seq(Char)
        /\ SubSeq(s, 1, k + 1) = Append(SubSeq(s, 1, k), s[k + 1])
    BY <1>1, <2>1, FirstOnes
  <2>3. FlattenSeq(Append(SubSeq(s, 1, k), s[k + 1])) = FlattenSeq(SubSeq(s, 1, k)) \o s[k + 1]
    BY <2>2, FlattenAppend
  <2> QED BY <1>2, <2>2, <2>3
<1>6. Content(f) = FlattenSeq(s)
  BY DEF Content, s
<1> QED BY <1>1, <1>3, <1>4, <1>5, <1>6 DEF s

LEMMA Joined ==
  ASSUME NEW T, NEW a \in Seq(T), NEW b \in Seq(T)
  PROVE  /\ Len(a) \in Nat /\ Len(b) \in Nat /\ a \o b \in Seq(T) /\ Len(a \o b) = Len(a) + Len(b)
         /\ \A i \in 1 .. Len(a) : (a \o b)[i] = a[i]
         /\ \A i \in 1 .. Len(b) : (a \o b)[Len(a) + i] = b[i]
OBVIOUS

LEMMA PlainFits ==
  ASSUME NEW f, Loadable(f), NEW k \in 0 .. Len(Pieces[f])
  PROVE  Len(Plain(f, k)) \in Nat /\ Len(Plain(f, k)) <= MemSize
<1> DEFINE z == Len(Pieces[f])
           l(i) == Len(Plain(f, i))
           S == {j \in Nat : k + j <= z => l(k) <= l(k + j)}
<1>1. z \in Nat /\ \A i \in 0 .. z : l(i) \in Nat
  BY PlainGrows
<1>2. \A i \in 0 .. z - 1 : l(i) <= l(i + 1)
  <2> TAKE i \in 0 .. z - 1
  <2>1. i \in 0 .. z
    BY <1>1
  <2>2. Plain(f, i) \in Seq(Char) /\ Pieces[f][i + 1] \in Seq(Char)
        /\ Plain(f, i + 1) = Plain(f, i) \o Pieces[f][i + 1]
    BY <2>1, PlainGrows
  <2> QED BY <2>2, Joined
<1>3. l(z) <= MemSize
  BY PlainGrows DEF Loadable
<1> HIDE DEF z, l
<1>4. 0 \in S
  BY <1>1 DEF z
<1>5. ASSUME NEW j \in Nat, j \in S PROVE j + 1 \in S
  <2> SUFFICES ASSUME k + (j + 1) <= z PROVE l(k) <= l(k + (j + 1))
    OBVIOUS
  <2>1. k \in 0 .. z /\ k + j \in 0 .. z - 1 /\ k + j \in 0 .. z /\ k + (j + 1) = (k + j) + 1
        /\ (k + j) + 1 \in 0 .. z
    BY <1>1 DEF z
  <2>2. l(k) <= l(k + j) /\ l(k + j) <= l((k + j) + 1)
    BY <1>1, <1>2, <1>5, <2>1
  <2> QED BY <1>1, <2>1, <2>2
<1> HIDE DEF S
<1>6. Nat \subseteq S
  BY <1>4, <1>5, Induction
<1>7. l(k) <= l(z)
  <2>1. z - k \in Nat /\ k + (z - k) = z /\ k \in 0 .. z
    BY <1>1 DEF z
  <2>2. z - k \in S
    BY <1>6, <2>1
  <2> QED BY <1>1, <2>1, <2>2 DEF S
<1>8. k \in 0 .. z /\ z \in 0 .. z
  BY <1>1 DEF z
<1> QED BY <1>1, <1>3, <1>7, <1>8, KermitAssumption DEF l

LEMMA PieceHeld ==
  ASSUME NEW f, Loadable(f), NEW k \in 0 .. Len(Pieces[f]) - 1, NEW mem \in [Memory -> Int],
         Holding(mem, Plain(f, k)), NEW r,
         r = k_data_chars([ram |-> mem, addr |-> Base(f, k).addr, escape |-> Base(f, k).escape],
                          EncodedPiece(Pieces[f][k + 1]))
  PROVE  r.ram \in [Memory -> Int] /\ DataOf(r) = Base(f, k + 1) /\ Holding(r.ram, Plain(f, k + 1))
<1> DEFINE a == Plain(f, k)
           b == Pieces[f][k + 1]
           m == [ram |-> mem, addr |-> Len(a), escape |-> FALSE]
<1>1. k \in 0 .. Len(Pieces[f]) /\ k + 1 \in 0 .. Len(Pieces[f])
  BY PlainGrows
<1>2. a \in Seq(Char) /\ b \in Seq(Char) /\ Plain(f, k + 1) = a \o b
  BY <1>1, PlainGrows
<1>3. Len(a) + Len(b) = Len(Plain(f, k + 1)) /\ Len(a) + Len(b) <= MemSize /\ Len(a) \in Nat /\ Len(b) \in Nat
  <2>1. Len(Plain(f, k + 1)) <= MemSize
    BY <1>1, PlainFits
  <2> HIDE DEF a, b
  <2>2. Len(a) \in Nat /\ Len(b) \in Nat /\ Len(a \o b) = Len(a) + Len(b)
    BY <1>2, Joined
  <2> QED BY <1>2, <2>1, <2>2
<1>4. r = k_data_chars(m, EncodedPiece(b))
  BY DEF Base
<1>5. Holding(mem, a)
  OBVIOUS
<1> HIDE DEF a, b
<1>6. m \in Storage /\ ~m.escape /\ m.addr = Len(a) /\ m.ram = mem
  BY <1>3 DEF Storage
<1> HIDE DEF m
<1>7. Puts(m, b, r)
  BY <1>2, <1>3, <1>4, <1>6, PieceStored
<1>8. r \in Storage /\ r.addr = Len(a) + Len(b) /\ ~r.escape
  BY <1>6, <1>7 DEF Puts
<1>9. r.ram \in [Memory -> Int] /\ r.escape = FALSE
  BY <1>8 DEF Storage
<1>10. DataOf(r) = Base(f, k + 1)
  BY <1>3, <1>8, <1>9 DEF DataOf, Base
<1>11. Holding(r.ram, a \o b)
  <2>1. /\ Len(a \o b) = Len(a) + Len(b)
        /\ \A i \in 1 .. Len(a) : (a \o b)[i] = a[i]
        /\ \A i \in 1 .. Len(b) : (a \o b)[Len(a) + i] = b[i]
    BY <1>2, Joined
  <2>2. \A i \in 1 .. Len(a) : r.ram[i] = a[i]
    <3> TAKE i \in 1 .. Len(a)
    <3>1. i \in Memory /\ i <= m.addr
      BY <1>3, <1>6, KermitAssumption DEF Memory
    <3> QED BY <1>5, <1>6, <1>7, <3>1 DEF Puts, Above, Holding
  <2>3. \A i \in 1 .. Len(b) : r.ram[Len(a) + i] = b[i]
    BY <1>6, <1>7 DEF Puts
  <2> SUFFICES ASSUME NEW i \in 1 .. Len(a) + Len(b) PROVE r.ram[i] = (a \o b)[i]
    BY <2>1 DEF Holding
  <2>4. CASE i <= Len(a)
    <3>1. i \in 1 .. Len(a)
      BY <1>3, <2>4
    <3> QED BY <2>1, <2>2, <3>1
  <2>5. CASE i > Len(a)
    <3>1. i - Len(a) \in 1 .. Len(b) /\ Len(a) + (i - Len(a)) = i
      BY <1>3, <2>5
    <3>2. r.ram[Len(a) + (i - Len(a))] = b[i - Len(a)] /\ (a \o b)[Len(a) + (i - Len(a))] = b[i - Len(a)]
      BY <2>1, <2>3, <3>1
    <3> QED BY <3>1, <3>2
  <2> QED BY <1>3, <2>4, <2>5
<1> QED BY <1>2, <1>9, <1>10, <1>11

(***************************************************************************)
(* Whatever comes in: what is held below the address stays.                *)
(***************************************************************************)
LEMMA HeldStays ==
  ASSUME NEW f, Loadable(f), NEW k \in 0 .. Len(Pieces[f]), NEW mem \in [Memory -> Int],
         Holding(mem, Plain(f, k)), NEW cs \in Seq(Int), NEW r,
         r = k_data_chars([ram |-> mem, addr |-> Base(f, k).addr, escape |-> Base(f, k).escape], cs)
  PROVE  r.ram \in [Memory -> Int] /\ Holding(r.ram, Plain(f, k))
<1> DEFINE a == Plain(f, k)
           m == [ram |-> mem, addr |-> Len(a), escape |-> FALSE]
<1>1. Len(a) \in Nat /\ Len(a) <= MemSize
  BY PlainFits
<1>2. r = k_data_chars(m, cs) /\ Holding(mem, a)
  BY DEF Base
<1> HIDE DEF a
<1>3. m \in Storage /\ m.addr = Len(a) /\ m.ram = mem
  BY <1>1 DEF Storage
<1> HIDE DEF m
<1>4. r \in Storage /\ Above(m, r)
  BY <1>2, <1>3, CharsStored
<1>5. Holding(r.ram, a)
  <2> SUFFICES ASSUME NEW i \in 1 .. Len(a) PROVE r.ram[i] = a[i]
    BY DEF Holding
  <2>1. i \in Memory /\ i <= m.addr
    BY <1>1, <1>3, KermitAssumption DEF Memory
  <2> QED BY <1>2, <1>3, <1>4, <2>1 DEF Above, Holding
<1>6. r.ram \in [Memory -> Int]
  BY <1>4 DEF Storage
<1> QED BY <1>5, <1>6 DEF a

LEMMA HeldBefore ==
  ASSUME NEW f, Loadable(f), NEW k \in 1 .. Len(Pieces[f]), NEW mem, Holding(mem, Plain(f, k))
  PROVE  Holding(mem, Plain(f, k - 1))
<1>1. k - 1 \in 0 .. Len(Pieces[f]) - 1 /\ k - 1 \in 0 .. Len(Pieces[f]) /\ (k - 1) + 1 = k
  BY PlainGrows
<1> DEFINE a == Plain(f, k - 1)
           b == Pieces[f][(k - 1) + 1]
<1>2. a \in Seq(Char) /\ b \in Seq(Char) /\ Plain(f, k) = a \o b
  BY <1>1, PlainGrows
<1> HIDE DEF a, b
<1>3. Len(a) \in Nat /\ Len(a \o b) = Len(a) + Len(b) /\ Len(b) \in Nat
      /\ \A i \in 1 .. Len(a) : (a \o b)[i] = a[i]
  BY <1>2, Joined
<1>4. \A i \in 1 .. Len(a) : mem[i] = a[i]
  <2> TAKE i \in 1 .. Len(a)
  <2>1. i \in 1 .. Len(a \o b)
    BY <1>3
  <2> QED BY <1>2, <1>3, <2>1 DEF Holding
<1> QED BY <1>4 DEF a, Holding

-----------------------------------------------------------------------------
(***************************************************************************)
(* Lines over which a load is exact: without damage to the length of a     *)
(* packet (see KermitLength.cfg), and to its body only if the sender waits *)
(* for an answer before it sends again.                                    *)
(***************************************************************************)
LinesAreGood ==
  \A line \in Lines : "length" \notin line.damages /\ ("body" \in line.damages => line.patient)

PacketOf ==
  [n : 0 .. Modulus - 1, type : {"S", "F", "D", "Z", "B"}, chars : Seq(Int), bad : {"no", "body"}]

AnswerOf == [type : {"ACK", "NAK"}, n : 0 .. Modulus - 1]

Whole == Len(Pieces[remote.file])
Current == Packets(remote.file)[remote.at]

(***************************************************************************)
(* The sender has an acknowledgment for the first k pieces.                *)
(***************************************************************************)
Acknowledged(k) ==
  /\ k \in 0 .. Whole
  /\ remote.at < 3 => k = 0
  /\ remote.at \in 3 .. Whole + 2 => k = remote.at - 3
  /\ remote.at > Whole + 2 => remote.cancelled \/ k = Whole

\* the pieces in memory when the packet the sender is at is, too
Reached(k) == IF Current.type = "D" THEN k + 1 ELSE k

(***************************************************************************)
(* A packet on the line is the one the sender is at, or a copy of the one  *)
(* before.                                                                 *)
(***************************************************************************)
Fresh(p) ==
  /\ p.n = remote.num
  /\ p.bad = "no" => p.type = Current.type /\ p.chars = Current.chars

Stale(p, k) ==
  /\ p.n = last_n /\ p.bad = "no" /\ p.type # "B"
  /\ IF p.type = "D" THEN k > 0 /\ p.chars = EncodedPiece(Pieces[remote.file][k]) /\ saved = Base(remote.file, k - 1)
                     ELSE saved = Base(remote.file, k)

\* what bears the number of the sender comes last
Grouped(s) == \A i, j \in 1 .. Len(s) : i < j /\ s[i].n = remote.num => s[j].n = remote.num

(***************************************************************************)
(* The receiver has not seen the packet the sender is at.                  *)
(***************************************************************************)
Behind(k) ==
  /\ last_n # remote.num
  /\ data = Base(remote.file, k)
  /\ saved = Base(remote.file, k) \/ (k > 0 /\ saved = Base(remote.file, k - 1))
  /\ \A i \in 1 .. Len(toBoard) : Fresh(toBoard[i]) \/ Stale(toBoard[i], k)
  /\ \A i \in 1 .. Len(toRemote) : toRemote[i].n # remote.num

(***************************************************************************)
(* It has: it kept it, or it refused a damaged copy.                       *)
(***************************************************************************)
Kept(k) ==
  /\ Current.type # "B"
  /\ data = Base(remote.file, Reached(k))
  /\ Holding(ram, Plain(remote.file, Reached(k)))

Refused(k) ==
  /\ remote.line.patient
  /\ data = Base(remote.file, k)
  /\ \A i \in 1 .. Len(toRemote) : toRemote[i].type = "NAK"

Level(k) ==
  /\ last_n = remote.num
  /\ saved = Base(remote.file, k)
  /\ \A i \in 1 .. Len(toBoard) : Fresh(toBoard[i])
  /\ Kept(k) \/ Refused(k)

RemoteInv ==
  /\ remote \in [file : Files, at : Nat, num : 0 .. Modulus - 1, cancelled : BOOLEAN, line : Lines]
  /\ Loadable(remote.file)
  /\ remote.at \in 1 .. Whole + 4
  /\ remote.cancelled => remote.at >= 3

QueueInv ==
  /\ toBoard \in Seq(PacketOf) /\ toRemote \in Seq(AnswerOf)
  /\ Grouped(toBoard) /\ Grouped(toRemote)
  /\ remote.line.patient =>
       /\ Len(toBoard) + Len(toRemote) <= 1
       /\ \A i \in 1 .. Len(toBoard) : toBoard[i].n = remote.num
  /\ ~remote.line.patient =>
       /\ \A i \in 1 .. Len(toBoard) : toBoard[i].bad = "no"
       /\ \A i \in 1 .. Len(toRemote) : toRemote[i].type = "ACK"
  /\ \A i \in 1 .. Len(toRemote) : toRemote[i].type = "NAK" => toRemote[i].n = remote.num

PieceInv(k) == Acknowledged(k) /\ Holding(ram, Plain(remote.file, k)) /\ (Behind(k) \/ Level(k))

DoneInv ==
  /\ Loadable(remote.file)
  /\ \E k \in 0 .. Whole :
       /\ remote.cancelled \/ k = Whole
       /\ data = Base(remote.file, k) /\ saved = Base(remote.file, k)
       /\ Holding(ram, Plain(remote.file, k))

LoadInv ==
  /\ ram \in [Memory -> Int]
  /\ loading = "receiving" => RemoteInv /\ QueueInv /\ \E k \in 0 .. Whole : PieceInv(k)
  /\ loading = "done" => DoneInv

-----------------------------------------------------------------------------
(***************************************************************************)
(* Queues.                                                                 *)
(***************************************************************************)
LEMMA Appended ==
  ASSUME NEW T, NEW s \in Seq(T), NEW x \in T
  PROVE  /\ Append(s, x) \in Seq(T) /\ Len(s) \in Nat /\ Len(Append(s, x)) = Len(s) + 1
         /\ Append(s, x)[Len(s) + 1] = x /\ \A i \in 1 .. Len(s) : Append(s, x)[i] = s[i]
OBVIOUS

LEMMA TakenOff ==
  ASSUME NEW T, NEW s \in Seq(T), s # <<>>
  PROVE  /\ Head(s) = s[1] /\ s[1] \in T /\ Len(s) \in Nat \ {0}
         /\ Tail(s) \in Seq(T) /\ Len(Tail(s)) = Len(s) - 1
         /\ \A i \in 1 .. Len(s) - 1 : Tail(s)[i] = s[i + 1]
OBVIOUS

LEMMA Replaced ==
  ASSUME NEW T, NEW s \in Seq(T), s # <<>>, NEW x \in T
  PROVE  /\ <<x>> \o Tail(s) \in Seq(T) /\ Len(<<x>> \o Tail(s)) = Len(s)
         /\ (<<x>> \o Tail(s))[1] = x /\ \A i \in 2 .. Len(s) : (<<x>> \o Tail(s))[i] = s[i]
OBVIOUS

-----------------------------------------------------------------------------
(***************************************************************************)
(* The packets of a file.                                                  *)
(***************************************************************************)
LEMMA PacketsAre ==
  ASSUME NEW f, Loadable(f), NEW z, z = Len(Pieces[f]), NEW i \in 1 .. z + 4
  PROVE  /\ i < 3 => Packets(f)[i].type \in {"S", "F"} /\ Packets(f)[i].chars = <<1>>
         /\ i \in 3 .. z + 2 =>
              Packets(f)[i].type = "D" /\ Packets(f)[i].chars = EncodedPiece(Pieces[f][i - 2])
         /\ i > z + 2 => Packets(f)[i].chars = <<>>
         /\ i = z + 3 => Packets(f)[i].type = "Z"
         /\ i = z + 4 => Packets(f)[i].type = "B"
         /\ Packets(f)[i].chars \in Seq(Int)
<1> DEFINE T == [type : {"S", "F", "D", "Z", "B"}, chars : Seq(Int)]
           a == <<[type |-> "S", chars |-> <<1>>], [type |-> "F", chars |-> <<1>>]>>
           b == [j \in 1 .. z |-> [type |-> "D", chars |-> EncodedPiece(Pieces[f][j])]]
           c == <<[type |-> "Z", chars |-> <<>>], [type |-> "B", chars |-> <<>>]>>
<1>1. z \in Nat /\ Pieces[f] \in Seq(Seq(Char))
  BY DEF Loadable
<1>2. \A j \in 1 .. z : EncodedPiece(Pieces[f][j]) \in Seq(Int)
  <2> TAKE j \in 1 .. z
  <2>1. Pieces[f][j] \in Seq(Char)
    BY <1>1
  <2>2. QUOTE \in Char
    BY CharAssumption DEF Char
  <2> QED BY <2>1, <2>2, EncodedAppend
<1>3. a \in Seq(T) /\ Len(a) = 2
  <2>1. <<1>> \in Seq(Int)
    OBVIOUS
  <2>2. [type |-> "S", chars |-> <<1>>] \in T /\ [type |-> "F", chars |-> <<1>>] \in T
    BY <2>1
  <2> QED BY <2>2
<1>4. c \in Seq(T) /\ Len(c) = 2
  <2>1. <<>> \in Seq(Int)
    OBVIOUS
  <2>2. [type |-> "Z", chars |-> <<>>] \in T /\ [type |-> "B", chars |-> <<>>] \in T
    BY <2>1
  <2> QED BY <2>2
<1>5. b \in Seq(T) /\ Len(b) = z
  BY <1>1, <1>2
<1>6. /\ a[1] = [type |-> "S", chars |-> <<1>>] /\ a[2] = [type |-> "F", chars |-> <<1>>]
      /\ c[1] = [type |-> "Z", chars |-> <<>>] /\ c[2] = [type |-> "B", chars |-> <<>>]
      /\ \A j \in 1 .. z : b[j] = [type |-> "D", chars |-> EncodedPiece(Pieces[f][j])]
  OBVIOUS
<1>7. Packets(f) = (a \o b) \o c
  BY DEF Packets
<1> HIDE DEF a, b, c, T
<1>8. /\ a \o b \in Seq(T) /\ Len(a \o b) = z + 2
      /\ \A j \in 1 .. 2 : (a \o b)[j] = a[j]
      /\ \A j \in 1 .. z : (a \o b)[2 + j] = b[j]
  <2>1. /\ a \o b \in Seq(T) /\ Len(a \o b) = Len(a) + Len(b)
        /\ \A j \in 1 .. Len(a) : (a \o b)[j] = a[j]
        /\ \A j \in 1 .. Len(b) : (a \o b)[Len(a) + j] = b[j]
    <3>1. a \in Seq(T) /\ b \in Seq(T)
      BY <1>3, <1>5
    <3> QED BY ONLY <3>1, Joined
  <2> QED BY <1>1, <1>3, <1>5, <2>1
<1> DEFINE d == a \o b
<1> HIDE DEF d
<1>9. /\ \A j \in 1 .. z + 2 : Packets(f)[j] = d[j]
      /\ \A j \in 1 .. 2 : Packets(f)[(z + 2) + j] = c[j]
  <2>1. d \in Seq(T) /\ Len(d) = z + 2 /\ Packets(f) = d \o c
    BY <1>7, <1>8 DEF d
  <2>2. /\ \A j \in 1 .. Len(d) : (d \o c)[j] = d[j]
        /\ \A j \in 1 .. Len(c) : (d \o c)[Len(d) + j] = c[j]
    <3>1. c \in Seq(T) /\ d \in Seq(T)
      BY <1>4, <2>1
    <3> QED BY ONLY <3>1, Joined
  <2> QED BY <1>1, <1>4, <2>1, <2>2
<1>10. CASE i < 3
  <2>1. i \in 1 .. 2 /\ i \in 1 .. z + 2
    BY <1>1, <1>10
  <2>2. Packets(f)[i] = a[i] /\ (i = 1 \/ i = 2) /\ ~(i > z + 2) /\ i \notin 3 .. z + 2
        /\ i # z + 3 /\ i # z + 4
    <3>1. (i = 1 \/ i = 2) /\ ~(i > z + 2) /\ i \notin 3 .. z + 2 /\ i # z + 3 /\ i # z + 4
      BY <1>1, <1>10
    <3>2. Packets(f)[i] = d[i]
      BY <1>9, <2>1
    <3>3. d[i] = a[i]
      BY <1>8, <2>1 DEF d
    <3> QED BY <3>1, <3>2, <3>3
  <2>3. Packets(f)[i].type \in {"S", "F"} /\ Packets(f)[i].chars = <<1>> /\ <<1>> \in Seq(Int)
    BY <1>6, <2>2
  <2> QED BY <2>2, <2>3
<1>11. CASE i \in 3 .. z + 2
  <2>1. i - 2 \in 1 .. z /\ 2 + (i - 2) = i /\ i \in 1 .. z + 2
    BY <1>1, <1>11
  <2>2. Packets(f)[i] = b[i - 2]
    BY <1>8, <1>9, <2>1 DEF d
  <2>3. Packets(f)[i] = [type |-> "D", chars |-> EncodedPiece(Pieces[f][i - 2])]
    BY <1>6, <2>1, <2>2
  <2>4. ~(i > z + 2) /\ ~(i < 3) /\ i # z + 3 /\ i # z + 4
    BY <1>1, <1>11
  <2> QED BY <1>2, <2>1, <2>3, <2>4
<1>12. CASE i = z + 3
  <2>1. 1 \in 1 .. 2 /\ (z + 2) + 1 = i /\ i > z + 2 /\ i # z + 4 /\ ~(i < 3) /\ i \notin 3 .. z + 2
    BY <1>1, <1>12
  <2>2. Packets(f)[i] = c[1] /\ <<>> \in Seq(Int)
    BY <1>9, <2>1
  <2> QED BY <1>6, <1>12, <2>1, <2>2
<1>13. CASE i = z + 4
  <2>1. 2 \in 1 .. 2 /\ (z + 2) + 2 = i /\ i > z + 2 /\ i # z + 3 /\ ~(i < 3) /\ i \notin 3 .. z + 2
    BY <1>1, <1>13
  <2>2. Packets(f)[i] = c[2] /\ <<>> \in Seq(Int)
    BY <1>9, <2>1
  <2> QED BY <1>6, <1>13, <2>1, <2>2
<1>14. i < 3 \/ i \in 3 .. z + 2 \/ i = z + 3 \/ i = z + 4
  BY <1>1
<1> QED BY <1>10, <1>11, <1>12, <1>13, <1>14

-----------------------------------------------------------------------------
(***************************************************************************)
(* What takes a packet or an answer off the line, or appends one.          *)
(***************************************************************************)
LEMMA GroupedTail ==
  ASSUME NEW T, NEW s \in Seq(T), s # <<>>, Grouped(s)
  PROVE  Grouped(Tail(s))
<1> DEFINE t == Tail(s)
<1>1. Len(s) \in Nat \ {0} /\ Len(t) = Len(s) - 1 /\ \A i \in 1 .. Len(s) - 1 : t[i] = s[i + 1]
  BY TakenOff
<1> HIDE DEF t
<1>2. ASSUME NEW i \in 1 .. Len(t), NEW j \in 1 .. Len(t), i < j, t[i].n = remote.num
      PROVE  t[j].n = remote.num
  <2>1. /\ i + 1 \in 1 .. Len(s) /\ j + 1 \in 1 .. Len(s) /\ i + 1 < j + 1
        /\ t[i] = s[i + 1] /\ t[j] = s[j + 1]
    BY <1>1, <1>2
  <2> QED BY <1>2, <2>1 DEF Grouped
<1> QED BY <1>2 DEF Grouped, t

LEMMA GroupedAppend ==
  ASSUME NEW T, NEW s \in Seq(T), NEW x \in T, Grouped(s),
         x.n = remote.num \/ \A i \in 1 .. Len(s) : s[i].n # remote.num
  PROVE  Grouped(Append(s, x))
<1> DEFINE t == Append(s, x)
<1>1. Len(s) \in Nat /\ Len(t) = Len(s) + 1 /\ t[Len(s) + 1] = x /\ \A i \in 1 .. Len(s) : t[i] = s[i]
  BY Appended
<1> HIDE DEF t
<1>2. ASSUME NEW i \in 1 .. Len(t), NEW j \in 1 .. Len(t), i < j, t[i].n = remote.num
      PROVE  t[j].n = remote.num
  <2>1. i \in 1 .. Len(s) /\ t[i] = s[i]
    BY <1>1, <1>2
  <2>2. CASE j = Len(s) + 1
    BY <1>1, <1>2, <2>1, <2>2
  <2>3. CASE j # Len(s) + 1
    <3>1. j \in 1 .. Len(s) /\ t[j] = s[j]
      BY <1>1, <2>3
    <3> QED BY <1>2, <2>1, <3>1 DEF Grouped
  <2> QED BY <2>2, <2>3
<1> QED BY <1>2 DEF Grouped, t

LEMMA GroupedReplaced ==
  ASSUME NEW T, NEW s \in Seq(T), s # <<>>, NEW x \in T, x.n = s[1].n, Grouped(s)
  PROVE  Grouped(<<x>> \o Tail(s))
<1> DEFINE t == <<x>> \o Tail(s)
<1>1. Len(s) \in Nat \ {0} /\ Len(t) = Len(s) /\ t[1] = x /\ \A i \in 2 .. Len(s) : t[i] = s[i]
  <2>1. Len(s) \in Nat \ {0}
    BY TakenOff
  <2> QED BY <2>1, Replaced
<1> HIDE DEF t
<1>2. \A i \in 1 .. Len(s) : t[i].n = s[i].n
  <2> TAKE i \in 1 .. Len(s)
  <2>1. i = 1 \/ i \in 2 .. Len(s)
    BY <1>1
  <2> QED BY <1>1, <2>1
<1> QED BY <1>1, <1>2 DEF Grouped, t

LEMMA LessToBoard ==
  ASSUME QueueInv, toBoard # <<>>, toBoard' = Tail(toBoard), UNCHANGED <<remote, toRemote>>
  PROVE  QueueInv' /\ \A i \in 1 .. Len(toBoard') : \E j \in 1 .. Len(toBoard) : toBoard'[i] = toBoard[j]
<1>1. /\ toBoard \in Seq(PacketOf) /\ Len(toBoard) \in Nat \ {0} /\ toBoard' \in Seq(PacketOf)
      /\ Len(toBoard') = Len(toBoard) - 1
      /\ \A i \in 1 .. Len(toBoard) - 1 : toBoard'[i] = toBoard[i + 1]
  <2>1. toBoard \in Seq(PacketOf)
    BY DEF QueueInv
  <2> QED BY <2>1, TakenOff
<1>2. \A i \in 1 .. Len(toBoard') : i + 1 \in 1 .. Len(toBoard) /\ toBoard'[i] = toBoard[i + 1]
  BY <1>1
<1>3. Grouped(toBoard)'
  <2>1. Grouped(Tail(toBoard))
    BY <1>1, GroupedTail DEF QueueInv
  <2> QED BY <2>1 DEF Grouped
<1>4. Len(toRemote) \in Nat
  BY DEF QueueInv
<1>5. QueueInv'
  BY <1>1, <1>2, <1>3, <1>4 DEF QueueInv, Grouped
<1> QED BY <1>2, <1>5

LEMMA LessToRemote ==
  ASSUME QueueInv, toRemote # <<>>, toRemote' = Tail(toRemote), UNCHANGED <<remote, toBoard>>
  PROVE  QueueInv' /\ \A i \in 1 .. Len(toRemote') : \E j \in 1 .. Len(toRemote) : toRemote'[i] = toRemote[j]
<1>1. /\ toRemote \in Seq(AnswerOf) /\ Len(toRemote) \in Nat \ {0} /\ toRemote' \in Seq(AnswerOf)
      /\ Len(toRemote') = Len(toRemote) - 1
      /\ \A i \in 1 .. Len(toRemote) - 1 : toRemote'[i] = toRemote[i + 1]
  <2>1. toRemote \in Seq(AnswerOf)
    BY DEF QueueInv
  <2> QED BY <2>1, TakenOff
<1>2. \A i \in 1 .. Len(toRemote') : i + 1 \in 1 .. Len(toRemote) /\ toRemote'[i] = toRemote[i + 1]
  BY <1>1
<1>3. Grouped(toRemote)'
  <2>1. Grouped(Tail(toRemote))
    BY <1>1, GroupedTail DEF QueueInv
  <2> QED BY <2>1 DEF Grouped
<1>4. Len(toBoard) \in Nat
  BY DEF QueueInv
<1>5. QueueInv'
  BY <1>1, <1>2, <1>3, <1>4 DEF QueueInv, Grouped
<1> QED BY <1>2, <1>5

(***************************************************************************)
(* A packet is taken in and answered.                                      *)
(***************************************************************************)
LEMMA Answered ==
  ASSUME QueueInv, toBoard # <<>>, toBoard' = Tail(toBoard), remote' = remote,
         NEW t \in {"ACK", "NAK"}, NEW x \in 0 .. Modulus - 1, Answer(t, x),
         t = "NAK" => x = remote.num /\ remote.line.patient,
         x = remote.num \/ \A i \in 1 .. Len(toRemote) : toRemote[i].n # remote.num
  PROVE  /\ QueueInv'
         /\ \A i \in 1 .. Len(toBoard') : \E j \in 1 .. Len(toBoard) : toBoard'[i] = toBoard[j]
         /\ \A i \in 1 .. Len(toRemote') :
              \/ \E j \in 1 .. Len(toRemote) : toRemote'[i] = toRemote[j]
              \/ toRemote'[i] = [type |-> t, n |-> x]
<1>1. /\ toBoard \in Seq(PacketOf) /\ Len(toBoard) \in Nat \ {0} /\ toBoard' \in Seq(PacketOf)
      /\ Len(toBoard') = Len(toBoard) - 1
      /\ \A i \in 1 .. Len(toBoard) - 1 : toBoard'[i] = toBoard[i + 1]
  <2>1. toBoard \in Seq(PacketOf)
    BY DEF QueueInv
  <2> QED BY <2>1, TakenOff
<1>2. \A i \in 1 .. Len(toBoard') : i + 1 \in 1 .. Len(toBoard) /\ toBoard'[i] = toBoard[i + 1]
  BY <1>1
<1>3. Grouped(toBoard)'
  <2>1. Grouped(Tail(toBoard))
    BY <1>1, GroupedTail DEF QueueInv
  <2> QED BY <2>1 DEF Grouped
<1> DEFINE a == [type |-> t, n |-> x]
<1>4. a \in AnswerOf /\ a.type = t /\ a.n = x
  BY DEF AnswerOf
<1> HIDE DEF a
<1>5. toRemote' = Append(toRemote, a) \/ toRemote' = toRemote
  BY DEF Answer, a
<1>6. toRemote \in Seq(AnswerOf) /\ Len(toRemote) \in Nat
  BY DEF QueueInv
<1>7. /\ toRemote' \in Seq(AnswerOf) /\ Len(toRemote') \in Nat /\ Len(toRemote') <= Len(toRemote) + 1
      /\ \A i \in 1 .. Len(toRemote') : (\E j \in 1 .. Len(toRemote) : toRemote'[i] = toRemote[j]) \/ toRemote'[i] = a
  <2>1. CASE toRemote' = toRemote
    BY <1>6, <2>1
  <2>2. CASE toRemote' = Append(toRemote, a)
    <3>1. /\ toRemote' \in Seq(AnswerOf) /\ Len(toRemote') = Len(toRemote) + 1
          /\ toRemote'[Len(toRemote) + 1] = a /\ \A i \in 1 .. Len(toRemote) : toRemote'[i] = toRemote[i]
      BY <1>4, <1>6, <2>2, Appended
    <3>2. \A i \in 1 .. Len(toRemote') : i \in 1 .. Len(toRemote) \/ i = Len(toRemote) + 1
      BY <1>6, <3>1
    <3> QED BY <1>6, <3>1, <3>2
  <2> QED BY <1>5, <2>1, <2>2
<1>8. Grouped(toRemote)'
  <2>1. Grouped(toRemote) /\ Grouped(Append(toRemote, a))
    BY <1>4, <1>6, GroupedAppend DEF QueueInv
  <2> QED BY <1>5, <2>1 DEF Grouped
<1>9. remote.line.patient =>
        /\ Len(toBoard') + Len(toRemote') <= 1
        /\ \A i \in 1 .. Len(toBoard') : toBoard'[i].n = remote.num
  <2>1. remote.line.patient => Len(toBoard) + Len(toRemote) <= 1
    BY DEF QueueInv
  <2>2. remote.line.patient => \A i \in 1 .. Len(toBoard) : toBoard[i].n = remote.num
    BY DEF QueueInv
  <2> QED BY <1>1, <1>2, <1>6, <1>7, <2>1, <2>2
<1>10. ~remote.line.patient =>
        /\ \A i \in 1 .. Len(toBoard') : toBoard'[i].bad = "no"
        /\ \A i \in 1 .. Len(toRemote') : toRemote'[i].type = "ACK"
  <2>1. ~remote.line.patient => t = "ACK"
    OBVIOUS
  <2> QED BY <1>2, <1>4, <1>7, <2>1 DEF QueueInv
<1>11. \A i \in 1 .. Len(toRemote') : toRemote'[i].type = "NAK" => toRemote'[i].n = remote.num
  BY <1>4, <1>7 DEF QueueInv
<1>12. QueueInv'
  BY <1>1, <1>3, <1>7, <1>8, <1>9, <1>10, <1>11 DEF QueueInv, Grouped
<1> QED BY <1>2, <1>7, <1>12 DEF a

-----------------------------------------------------------------------------
(***************************************************************************)
(* Where the sender is, and what its packet is.                            *)
(***************************************************************************)
LEMMA CurrentIs ==
  ASSUME RemoteInv, NEW k \in 0 .. Whole, Acknowledged(k)
  PROVE  /\ Whole \in Nat /\ Current.chars \in Seq(Int) /\ Current.type \in {"S", "F", "D", "Z", "B"}
         /\ Current.type = "B" <=> remote.at = Whole + 4
         /\ Current.type = "D" <=> remote.at \in 3 .. Whole + 2
         /\ Current.type = "D" =>
              k = remote.at - 3 /\ k \in 0 .. Whole - 1 /\ k + 1 \in 0 .. Whole
              /\ Current.chars = EncodedPiece(Pieces[remote.file][k + 1])
         /\ Reached(k) \in 0 .. Whole
<1> DEFINE f == remote.file
           i == remote.at
           z == Whole
<1>1. z \in Nat /\ z = Len(Pieces[f]) /\ Loadable(f) /\ i \in 1 .. z + 4
  BY PlainGrows DEF RemoteInv, Whole
<1>2. i \in 3 .. z + 2 => k = i - 3
  BY DEF Acknowledged
<1>3. Current = Packets(f)[i]
  BY DEF Current
<1> HIDE DEF f, i, z
<1>4. /\ i < 3 => Current.type \in {"S", "F"}
      /\ i \in 3 .. z + 2 => Current.type = "D" /\ Current.chars = EncodedPiece(Pieces[f][i - 2])
      /\ i = z + 3 => Current.type = "Z"
      /\ i = z + 4 => Current.type = "B"
      /\ Current.chars \in Seq(Int)
  BY <1>1, <1>3, PacketsAre
<1>5. i < 3 \/ i \in 3 .. z + 2 \/ i = z + 3 \/ i = z + 4
  BY <1>1
<1>6. i \in 3 .. z + 2 => ~(i < 3) /\ i # z + 3 /\ i # z + 4 /\ i - 2 = k + 1 /\ k \in 0 .. z - 1 /\ k + 1 \in 0 .. z
  BY <1>1, <1>2
<1>7. /\ i < 3 => i # z + 3 /\ i # z + 4
      /\ i = z + 3 => i # z + 4
  BY <1>1
<1>8. Current.type = "D" <=> i \in 3 .. z + 2
  BY <1>4, <1>5, <1>6, <1>7
<1>9. Current.type = "B" <=> i = z + 4
  BY <1>4, <1>5, <1>6, <1>7
<1>10. Current.type \in {"S", "F", "D", "Z", "B"}
  BY <1>4, <1>5
<1>11. Reached(k) \in 0 .. z
  BY <1>1, <1>6, <1>8 DEF Reached, z
<1> QED BY <1>1, <1>2, <1>4, <1>6, <1>8, <1>9, <1>10, <1>11 DEF f, i, z

(***************************************************************************)
(* Steps of the sender and of the line.                                    *)
(***************************************************************************)
LEMMA Starts ==
  ASSUME NEW f \in Files, Loadable(f), NEW line \in Lines, StartLoad(f, line), ram \in [Memory -> Int]
  PROVE  LoadInv'
<1>1. remote' = [file |-> f, at |-> 1, num |-> 0, cancelled |-> FALSE, line |-> line]
      /\ toBoard' = <<>> /\ toRemote' = <<>> /\ ram' = ram /\ loading' = "receiving" /\ last_n' = -1
      /\ data' = [addr |-> 0, escape |-> FALSE] /\ saved' = [addr |-> 0, escape |-> FALSE]
  BY DEF StartLoad
<1>2. Len(Pieces[f]) \in Nat /\ Plain(f, 0) = <<>>
  BY PlainGrows
<1>3. Base(f, 0) = [addr |-> 0, escape |-> FALSE]
  BY <1>2 DEF Base
<1>4. RemoteInv'
  BY <1>1, <1>2, KermitAssumption DEF RemoteInv, Whole
<1>5. QueueInv'
  BY <1>1 DEF QueueInv, Grouped
<1>6. Acknowledged(0)' /\ 0 \in 0 .. Whole'
  BY <1>1, <1>2 DEF Acknowledged, Whole
<1>7. Behind(0)'
  BY <1>1, <1>3 DEF Behind
<1>8. Holding(ram, Plain(remote.file, 0))'
  BY <1>1, <1>2 DEF Holding
<1>9. PieceInv(0)'
  BY <1>6, <1>7, <1>8 DEF PieceInv
<1> QED BY <1>1, <1>4, <1>5, <1>6, <1>9 DEF LoadInv

LEMMA SenderSends ==
  ASSUME LoadInv, RemoteSends
  PROVE  LoadInv'
<1>1. loading = "receiving" /\ RemoteInv /\ QueueInv /\ ram \in [Memory -> Int]
  BY DEF RemoteSends, Sending, LoadInv
<1>2. PICK k \in 0 .. Whole : PieceInv(k)
  BY <1>1 DEF LoadInv
<1> DEFINE q == [n |-> remote.num, type |-> Current.type, chars |-> Current.chars, bad |-> "no"]
<1>3. /\ toBoard' = Append(toBoard, q)
      /\ remote.line.patient => toBoard = <<>> /\ toRemote = <<>>
      /\ UNCHANGED <<loading, ram, data, saved, last_n, remote, toRemote>>
  BY DEF RemoteSends, Current
<1>4. q \in PacketOf /\ q.n = remote.num /\ q.bad = "no" /\ q.type = Current.type /\ q.chars = Current.chars
  BY <1>1, <1>2, CurrentIs DEF PieceInv, PacketOf, RemoteInv
<1> HIDE DEF q
<1>5. toBoard \in Seq(PacketOf) /\ toRemote \in Seq(AnswerOf)
  BY <1>1 DEF QueueInv
<1>6. /\ toBoard' \in Seq(PacketOf) /\ Len(toBoard) \in Nat /\ Len(toBoard') = Len(toBoard) + 1
      /\ toBoard'[Len(toBoard) + 1] = q /\ \A i \in 1 .. Len(toBoard) : toBoard'[i] = toBoard[i]
  BY <1>3, <1>4, <1>5, Appended
<1>7. \A i \in 1 .. Len(toBoard') : i \in 1 .. Len(toBoard) \/ i = Len(toBoard) + 1
  BY <1>6
<1>8. Fresh(q)
  BY <1>4 DEF Fresh
<1>9. Grouped(toBoard)'
  <2>1. Grouped(Append(toBoard, q))
    BY <1>1, <1>4, <1>5, GroupedAppend DEF QueueInv
  <2> QED BY <1>3, <2>1 DEF Grouped
<1>10. QueueInv'
  <2>1. remote.line.patient => Len(toBoard') + Len(toRemote) <= 1
    BY <1>3, <1>6
  <2>2. \A i \in 1 .. Len(toBoard') : toBoard'[i] = q \/ \E j \in 1 .. Len(toBoard) : toBoard'[i] = toBoard[j]
    BY <1>6, <1>7
  <2> QED BY <1>1, <1>3, <1>4, <1>6, <1>9, <2>1, <2>2 DEF QueueInv, Grouped
<1>11. PieceInv(k)'
  <2>1. Current' = Current /\ Whole' = Whole
    BY <1>3 DEF Current, Whole
  <2>2. Behind(k) => Behind(k)'
    BY <1>3, <1>6, <1>7, <1>8, <2>1 DEF Behind, Fresh, Stale
  <2>3. Level(k) => Level(k)'
    BY <1>3, <1>6, <1>7, <1>8, <2>1 DEF Level, Fresh, Kept, Refused, Reached
  <2> QED BY <1>2, <1>3, <2>1, <2>2, <2>3 DEF PieceInv, Acknowledged
<1> QED BY <1>1, <1>2, <1>3, <1>10, <1>11 DEF LoadInv, RemoteInv, Whole

LEMMA SenderCancels ==
  ASSUME LoadInv, RemoteCancels
  PROVE  LoadInv'
<1>1. loading = "receiving" /\ RemoteInv /\ QueueInv /\ ram \in [Memory -> Int]
  BY DEF RemoteCancels, Sending, LoadInv
<1>2. PICK k \in 0 .. Whole : PieceInv(k)
  BY <1>1 DEF LoadInv
<1>3. /\ remote' = [remote EXCEPT !.cancelled = TRUE] /\ remote.at \in 3 .. EndOfFile(remote.file) - 1
      /\ UNCHANGED <<loading, ram, data, saved, last_n, toBoard, toRemote>>
  BY DEF RemoteCancels
<1>4. /\ remote'.file = remote.file /\ remote'.at = remote.at /\ remote'.num = remote.num
      /\ remote'.line = remote.line /\ remote'.cancelled = TRUE /\ remote.at >= 3
      /\ remote' \in [file : Files, at : Nat, num : 0 .. Modulus - 1, cancelled : BOOLEAN, line : Lines]
  <2>1. remote \in [file : Files, at : Nat, num : 0 .. Modulus - 1, cancelled : BOOLEAN, line : Lines]
    BY <1>1 DEF RemoteInv
  <2>2. remote.at >= 3
    <3> DEFINE e == EndOfFile(remote.file) - 1
    <3>1. remote.at \in 3 .. e
      BY <1>3
    <3> HIDE DEF e
    <3> QED BY <3>1
  <2> QED BY <1>3, <2>1, <2>2
<1>5. Current' = Current /\ Whole' = Whole
  BY <1>4 DEF Current, Whole
<1>6. RemoteInv'
  BY <1>1, <1>4, <1>5 DEF RemoteInv
<1>7. QueueInv'
  BY <1>1, <1>3, <1>4 DEF QueueInv, Grouped
<1>8. PieceInv(k)'
  <2>1. Behind(k) => Behind(k)'
    BY <1>3, <1>4, <1>5 DEF Behind, Fresh, Stale
  <2>2. Level(k) => Level(k)'
    BY <1>3, <1>4, <1>5 DEF Level, Fresh, Kept, Refused, Reached
  <2> QED BY <1>2, <1>3, <1>4, <1>5, <2>1, <2>2 DEF PieceInv, Acknowledged
<1> QED BY <1>1, <1>2, <1>3, <1>5, <1>6, <1>7, <1>8 DEF LoadInv

(***************************************************************************)
(* What stays true of the pieces when packets or answers go.               *)
(***************************************************************************)
LEMMA LessOnTheLine ==
  ASSUME NEW k \in 0 .. Whole, PieceInv(k), UNCHANGED <<ram, data, saved, last_n, remote>>,
         \A i \in 1 .. Len(toBoard') : Fresh(toBoard'[i]) \/ \E j \in 1 .. Len(toBoard) : toBoard'[i] = toBoard[j],
         \A i \in 1 .. Len(toRemote') : \E j \in 1 .. Len(toRemote) : toRemote'[i] = toRemote[j]
  PROVE  PieceInv(k)'
<1>1. Current' = Current /\ Whole' = Whole
  BY DEF Current, Whole
<1>2. Behind(k) => Behind(k)'
  BY <1>1 DEF Behind, Fresh, Stale
<1>3. Level(k) => Level(k)'
  BY <1>1 DEF Level, Fresh, Kept, Refused, Reached
<1> QED BY <1>1, <1>2, <1>3 DEF PieceInv, Acknowledged

LEMMA SenderHears ==
  ASSUME LoadInv, RemoteHears
  PROVE  LoadInv'
<1>1. loading = "receiving" /\ RemoteInv /\ QueueInv /\ ram \in [Memory -> Int]
  BY DEF RemoteHears, Sending, LoadInv
<1>2. PICK k \in 0 .. Whole : PieceInv(k)
  BY <1>1 DEF LoadInv
<1> DEFINE a == Head(toRemote)
           f == remote.file
<1>3. /\ toRemote # <<>> /\ toRemote' = Tail(toRemote)
      /\ UNCHANGED <<loading, ram, data, saved, last_n, toBoard>>
  BY DEF RemoteHears
<1>4. CASE ~Moves(a)
  <2>1. remote' = remote
    BY <1>4 DEF RemoteHears
  <2>2. QueueInv' /\ \A i \in 1 .. Len(toRemote') : \E j \in 1 .. Len(toRemote) : toRemote'[i] = toRemote[j]
    BY <1>1, <1>3, <2>1, LessToRemote
  <2>3. PieceInv(k)'
    BY <1>2, <1>3, <2>1, <2>2, LessOnTheLine
  <2> QED BY <1>1, <1>2, <1>3, <2>1, <2>2, <2>3 DEF LoadInv, RemoteInv, Whole
<1>5. CASE Moves(a)
  <2> DEFINE num == (remote.num + 1) % Modulus
             at == IF remote.at = EndOfFile(f) + 1 THEN 0
                   ELSE IF remote.cancelled /\ remote.at < EndOfFile(f) THEN EndOfFile(f)
                   ELSE remote.at + 1
             z == Whole
  <2>1. remote' = [remote EXCEPT !.num = num, !.at = at]
    BY <1>5 DEF RemoteHears
  <2>2. num \in 0 .. Modulus - 1 /\ num # remote.num
    <3>1. remote.num \in 0 .. Modulus - 1 /\ Modulus \in Nat /\ Modulus > 2
      BY <1>1, KermitAssumption DEF RemoteInv
    <3>2. CASE remote.num + 1 = Modulus
      BY <3>1, <3>2
    <3>3. CASE remote.num + 1 # Modulus
      BY <3>1, <3>3
    <3> QED BY <3>2, <3>3
  <2>3. /\ a = toRemote[1] /\ a \in AnswerOf /\ Len(toRemote) \in Nat \ {0} /\ toRemote' \in Seq(AnswerOf)
        /\ Len(toRemote') = Len(toRemote) - 1
        /\ \A i \in 1 .. Len(toRemote) - 1 : toRemote'[i] = toRemote[i + 1]
    <3>1. toRemote \in Seq(AnswerOf)
      BY <1>1 DEF QueueInv
    <3> QED BY <1>3, <3>1, TakenOff
  <2> HIDE DEF num, at
  <2>4. a.type = "ACK" /\ a.n = remote.num
    <3>1. 1 \in 1 .. Len(toRemote)
      BY <2>3
    <3>2. a.type = "NAK" => a.n = remote.num
      BY <1>1, <2>3, <3>1 DEF QueueInv
    <3> QED BY <1>5, <2>2, <3>2 DEF Moves, num
  <2>5. last_n = remote.num /\ saved = Base(f, k) /\ Kept(k) /\ \A i \in 1 .. Len(toBoard) : Fresh(toBoard[i])
    <3>1. 1 \in 1 .. Len(toRemote)
      BY <2>3
    <3>2. ~Behind(k)
      BY <2>3, <2>4, <3>1 DEF Behind
    <3>3. ~Refused(k)
      BY <2>3, <2>4, <3>1 DEF Refused
    <3> QED BY <1>2, <3>2, <3>3 DEF PieceInv, Level
  <2>6. \A i \in 1 .. Len(toRemote') : toRemote'[i].n = remote.num /\ toRemote'[i].type = "ACK"
    <3> TAKE i \in 1 .. Len(toRemote')
    <3>1. 1 \in 1 .. Len(toRemote) /\ i + 1 \in 1 .. Len(toRemote) /\ 1 < i + 1 /\ toRemote'[i] = toRemote[i + 1]
      BY <2>3
    <3>2. toRemote[i + 1].n = remote.num
      BY <1>1, <2>3, <2>4, <3>1 DEF QueueInv, Grouped
    <3>3. ~remote.line.patient
      <4>1. Len(toBoard) \in Nat /\ (remote.line.patient => Len(toBoard) + Len(toRemote) <= 1)
        BY <1>1 DEF QueueInv
      <4> QED BY <2>3, <4>1
    <3>4. toRemote[i + 1].type = "ACK"
      BY <1>1, <3>1, <3>3 DEF QueueInv
    <3> QED BY <3>1, <3>2, <3>4
  <2>7. remote.line.patient => Len(toBoard) = 0 /\ Len(toRemote') = 0
    <3>1. Len(toBoard) \in Nat /\ (remote.line.patient => Len(toBoard) + Len(toRemote) <= 1)
      BY <1>1 DEF QueueInv
    <3> QED BY <2>3, <3>1
  <2>8. /\ remote \in [file : Files, at : Nat, num : 0 .. Modulus - 1, cancelled : BOOLEAN, line : Lines]
        /\ remote.at \in 1 .. z + 4 /\ z \in Nat /\ EndOfFile(f) = z + 3 /\ remote.at # z + 4
        /\ remote.cancelled => remote.at >= 3
    <3>1. Acknowledged(k) /\ Current.type # "B"
      BY <1>2, <2>5 DEF PieceInv, Kept
    <3> QED BY <1>1, <3>1, CurrentIs DEF RemoteInv, EndOfFile, Whole
  <2>9. /\ at = IF remote.cancelled /\ remote.at < z + 3 THEN z + 3 ELSE remote.at + 1
        /\ at \in 2 .. z + 4
    BY <2>8 DEF at
  <2>10. /\ remote'.file = f /\ remote'.at = at /\ remote'.num = num /\ remote'.cancelled = remote.cancelled
         /\ remote'.line = remote.line
         /\ remote' \in [file : Files, at : Nat, num : 0 .. Modulus - 1, cancelled : BOOLEAN, line : Lines]
    <3>1. at \in Nat
      BY <2>8, <2>9
    <3> QED BY <2>1, <2>2, <2>8, <3>1
  <2>11. Whole' = z
    BY <2>10 DEF Whole
  <2>12. RemoteInv'
    <3>1. remote.cancelled => at >= 3
      BY <2>8, <2>9
    <3>2. at \in 1 .. z + 4
      BY <2>8, <2>9
    <3> QED BY <1>1, <2>10, <2>11, <3>1, <3>2 DEF RemoteInv
  <2>13. QueueInv'
    <3>1. \A i \in 1 .. Len(toBoard) : toBoard[i].n = remote.num
      BY <2>5 DEF Fresh
    <3>2. Grouped(toBoard)' /\ Grouped(toRemote)'
      BY <1>3, <2>2, <2>6, <2>10, <3>1 DEF Grouped
    <3> QED BY <1>1, <1>3, <2>3, <2>6, <2>7, <2>10, <3>2 DEF QueueInv, Grouped
  <2>a. PICK j : j = Reached(k)
    OBVIOUS
  <2>14. /\ j \in 0 .. z
         /\ Current.type = "D" => j = k + 1 /\ k = remote.at - 3 /\ remote.at \in 3 .. z + 2 /\ j > 0 /\ j - 1 = k
                                  /\ Current.chars = EncodedPiece(Pieces[f][j])
         /\ Current.type # "D" => j = k /\ remote.at \notin 3 .. z + 2
    <3>1. Acknowledged(k)
      BY <1>2 DEF PieceInv
    <3> QED BY <1>1, <2>a, <3>1, CurrentIs DEF Reached, RemoteInv
  <2>15. Acknowledged(j)'
    <3>1. /\ remote.at < 3 => k = 0
          /\ remote.at > z + 2 => remote.cancelled \/ k = z
      BY <1>2 DEF PieceInv, Acknowledged
    <3>2. at < 3 => j = 0
      BY <2>8, <2>9, <2>14, <3>1
    <3>3. at \in 3 .. z + 2 => j = at - 3
      BY <2>8, <2>9, <2>14, <3>1
    <3>4. at > z + 2 => remote.cancelled \/ j = z
      BY <2>8, <2>9, <2>14, <3>1
    <3> QED BY <2>10, <2>11, <2>14, <3>2, <3>3, <3>4 DEF Acknowledged
  <2>16. ASSUME NEW i \in 1 .. Len(toBoard) PROVE Stale(toBoard[i], j)'
    <3>1. Fresh(toBoard[i]) /\ ~remote.line.patient
      BY <2>5, <2>7
    <3>2. toBoard[i].bad = "no"
      BY <1>1, <3>1 DEF QueueInv
    <3>3. /\ toBoard[i].n = remote.num /\ toBoard[i].type = Current.type /\ toBoard[i].chars = Current.chars
      BY <3>1, <3>2 DEF Fresh
    <3>4. Current.type # "B"
      BY <2>5 DEF Kept
    <3>5. Current.type # "D" => saved = Base(f, j)
      BY <2>5, <2>14
    <3>6. Current.type = "D" => j > 0 /\ toBoard[i].chars = EncodedPiece(Pieces[f][j]) /\ saved = Base(f, j - 1)
      BY <2>5, <2>14, <3>3
    <3> QED BY <1>3, <2>5, <2>10, <3>2, <3>3, <3>4, <3>5, <3>6 DEF Stale
  <2>17. Behind(j)'
    <3>1. data = Base(f, j)
      BY <2>5, <2>a DEF Kept
    <3>2. saved = Base(f, j) \/ (j > 0 /\ saved = Base(f, j - 1))
      BY <2>5, <2>14
    <3> QED BY <1>3, <2>2, <2>5, <2>6, <2>10, <2>16, <3>1, <3>2 DEF Behind
  <2>18. Holding(ram, Plain(f, j))
    BY <2>5, <2>a DEF Kept
  <2>19. PieceInv(j)'
    <3> QED BY <1>3, <2>10, <2>15, <2>17, <2>18 DEF PieceInv
  <2> QED BY <1>1, <1>3, <2>11, <2>12, <2>13, <2>14, <2>19 DEF LoadInv
<1> QED BY <1>4, <1>5

LEMMA AnswerLost ==
  ASSUME LoadInv, LineLosesAnswer
  PROVE  LoadInv'
<1>1. toRemote # <<>> /\ toRemote' = Tail(toRemote) /\ UNCHANGED <<loading, ram, data, saved, last_n, remote, toBoard>>
  BY DEF LineLosesAnswer
<1>2. CASE loading = "receiving"
  <2>1. RemoteInv /\ QueueInv /\ ram \in [Memory -> Int]
    BY <1>2 DEF LoadInv
  <2>2. PICK k \in 0 .. Whole : PieceInv(k)
    BY <1>2 DEF LoadInv
  <2>3. QueueInv' /\ \A i \in 1 .. Len(toRemote') : \E j \in 1 .. Len(toRemote) : toRemote'[i] = toRemote[j]
    BY <1>1, <2>1, LessToRemote
  <2>4. PieceInv(k)'
    BY <1>1, <2>2, <2>3, LessOnTheLine
  <2> QED BY <1>1, <1>2, <2>1, <2>2, <2>3, <2>4 DEF LoadInv, RemoteInv, Whole
<1>3. CASE loading # "receiving"
  BY <1>1, <1>3 DEF LoadInv, DoneInv, Whole
<1> QED BY <1>2, <1>3

LEMMA PacketDamaged ==
  ASSUME LinesAreGood, LoadInv, LineDamages
  PROVE  LoadInv'
<1>1. toBoard # <<>> /\ UNCHANGED <<loading, ram, data, saved, last_n, remote, toRemote>>
  BY DEF LineDamages
<1>2. CASE loading = "receiving"
  <2>1. RemoteInv /\ QueueInv /\ ram \in [Memory -> Int]
    BY <1>2 DEF LoadInv
  <2>2. PICK k \in 0 .. Whole : PieceInv(k)
    BY <1>2 DEF LoadInv
  <2>3. CASE toBoard' = Tail(toBoard)
    <3>1. QueueInv' /\ \A i \in 1 .. Len(toBoard') : \E j \in 1 .. Len(toBoard) : toBoard'[i] = toBoard[j]
      BY <1>1, <2>1, <2>3, LessToBoard
    <3>2. PieceInv(k)'
      BY <1>1, <2>2, <3>1, LessOnTheLine
    <3> QED BY <1>1, <1>2, <2>1, <2>2, <3>1, <3>2 DEF LoadInv, RemoteInv, Whole
  <2>4. ASSUME NEW q \in Damaged(Head(toBoard)), toBoard' = <<q>> \o Tail(toBoard)
        PROVE  LoadInv'
    <3> DEFINE p == toBoard[1]
    <3>1. /\ toBoard \in Seq(PacketOf) /\ Head(toBoard) = p /\ p \in PacketOf /\ Len(toBoard) \in Nat \ {0}
          /\ 1 \in 1 .. Len(toBoard)
      <4>1. toBoard \in Seq(PacketOf)
        BY <2>1 DEF QueueInv
      <4> QED BY <1>1, <4>1, TakenOff
    <3>2. remote.line \in Lines
      BY <2>1 DEF RemoteInv
    <3>3. "length" \notin remote.line.damages
      BY <3>2 DEF LinesAreGood
    <3>4. /\ "body" \in remote.line.damages
          /\ \E t \in {"D", "B"}, j \in 0 .. Len(p.chars) :
               q = BadBody(p, t, j)
      <4>1. q \in Damaged(p)
        BY <2>4, <3>1
      <4> HIDE DEF p
      <4>2. q \in IF "body" \in remote.line.damages
                  THEN {BadBody(p, t, j) : t \in {"D", "B"}, j \in 0 .. Len(p.chars)}
                  ELSE {}
        BY <3>3, <4>1 DEF Damaged
      <4> QED BY <4>2
    <3>5. remote.line.patient
      BY <3>2, <3>4 DEF LinesAreGood
    <3>6. q \in PacketOf /\ q.n = p.n /\ q.bad = "body"
      <4>1. PICK t \in {"D", "B"}, j \in 0 .. Len(p.chars) :
               q = BadBody(p, t, j)
        BY <3>4
      <4>2. p.chars \in Seq(Int)
        BY <3>1 DEF PacketOf
      <4>3. SubSeq(p.chars, 1, j) \in Seq(Int)
        BY <4>2, FirstOnes
      <4> HIDE DEF p
      <4> QED BY <3>1, <4>1, <4>3 DEF PacketOf, BadBody
    <3>7. p.n = remote.num
      BY <2>1, <3>1, <3>5 DEF QueueInv
    <3> HIDE DEF p
    <3>8. /\ toBoard' \in Seq(PacketOf) /\ Len(toBoard') = Len(toBoard)
          /\ toBoard'[1] = q /\ \A i \in 2 .. Len(toBoard) : toBoard'[i] = toBoard[i]
      BY <1>1, <2>4, <3>1, <3>6, Replaced
    <3>9. \A i \in 1 .. Len(toBoard') : toBoard'[i] = q \/ (i \in 1 .. Len(toBoard) /\ toBoard'[i] = toBoard[i])
      <4> TAKE i \in 1 .. Len(toBoard')
      <4>1. i = 1 \/ i \in 2 .. Len(toBoard)
        BY <3>1, <3>8
      <4> QED BY <3>8, <4>1
    <3>10. Fresh(q)
      BY <3>6, <3>7 DEF Fresh
    <3>11. Grouped(toBoard)'
      <4>1. Grouped(<<q>> \o Tail(toBoard))
        BY <1>1, <2>1, <3>1, <3>6, GroupedReplaced DEF QueueInv, p
      <4> QED BY <1>1, <2>4, <4>1 DEF Grouped
    <3>12. QueueInv'
      BY <1>1, <2>1, <3>5, <3>6, <3>7, <3>8, <3>9, <3>11 DEF QueueInv, Grouped
    <3>13. PieceInv(k)'
      <4>1. \A i \in 1 .. Len(toBoard') : Fresh(toBoard'[i]) \/ \E j \in 1 .. Len(toBoard) : toBoard'[i] = toBoard[j]
        BY <3>9, <3>10
      <4>2. \A i \in 1 .. Len(toRemote') : \E j \in 1 .. Len(toRemote) : toRemote'[i] = toRemote[j]
        BY <1>1
      <4> QED BY <1>1, <2>2, <4>1, <4>2, LessOnTheLine
    <3> QED BY <1>1, <1>2, <2>1, <2>2, <3>12, <3>13 DEF LoadInv, RemoteInv, Whole
  <2> QED BY <2>3, <2>4 DEF LineDamages
<1>3. CASE loading # "receiving"
  BY <1>1, <1>3 DEF LoadInv, DoneInv, Whole
<1> QED BY <1>2, <1>3

-----------------------------------------------------------------------------
(***************************************************************************)
(* k_recv.                                                                 *)
(***************************************************************************)
LEMMA LengthIsGood ==
  ASSUME LoadInv, ReceiveBadStart
  PROVE  FALSE
<1>1. toBoard \in Seq(PacketOf) /\ toBoard # <<>> /\ Head(toBoard).bad = "length"
  BY DEF ReceiveBadStart, LoadInv, QueueInv
<1>2. Head(toBoard) \in PacketOf
  BY <1>1, TakenOff
<1> QED BY <1>1, <1>2 DEF PacketOf

LEMMA TakenIn ==
  ASSUME QueueInv, RemoteInv, toBoard # <<>>, NEW k \in 0 .. Whole, PieceInv(k), NEW p, p = Head(toBoard)
  PROVE  /\ p \in PacketOf
         /\ Fresh(p) \/ (Behind(k) /\ Stale(p, k))
         /\ Fresh(p) => /\ p.n = remote.num
                        /\ Checkpoint(p.n) = Base(remote.file, k)
                        /\ \A i \in 1 .. Len(toBoard) : Fresh(toBoard[i])
<1>1. p = toBoard[1] /\ p \in PacketOf /\ 1 \in 1 .. Len(toBoard) /\ Len(toBoard) \in Nat
  <2>1. toBoard \in Seq(PacketOf)
    BY DEF QueueInv
  <2> QED BY <2>1, TakenOff
<1>2. Fresh(p) \/ (Behind(k) /\ Stale(p, k))
  BY <1>1 DEF PieceInv, Behind, Level
<1>3. ASSUME Fresh(p), Behind(k) PROVE \A i \in 1 .. Len(toBoard) : Fresh(toBoard[i])
  <2> TAKE i \in 1 .. Len(toBoard)
  <2>1. toBoard[i].n = remote.num
    <3>1. i = 1 \/ 1 < i
      BY <1>1
    <3> QED BY <1>1, <1>3, <3>1 DEF Fresh, QueueInv, Grouped
  <2> QED BY <1>3, <2>1 DEF Behind, Stale
<1>4. ASSUME Fresh(p) PROVE Checkpoint(p.n) = Base(remote.file, k)
  BY <1>4 DEF PieceInv, Behind, Level, Fresh, Checkpoint
<1>5. Level(k) => \A i \in 1 .. Len(toBoard) : Fresh(toBoard[i])
  BY DEF Level
<1> QED BY <1>1, <1>2, <1>3, <1>4, <1>5 DEF PieceInv, Fresh

LEMMA BadPacket ==
  ASSUME LoadInv, ReceiveBadBody
  PROVE  LoadInv'
<1>1. loading = "receiving" /\ toBoard # <<>> /\ RemoteInv /\ QueueInv /\ ram \in [Memory -> Int]
  BY DEF ReceiveBadBody, LoadInv
<1>2. PICK k \in 0 .. Whole : PieceInv(k)
  BY <1>1 DEF LoadInv
<1>3. PICK p : p = Head(toBoard)
  OBVIOUS
<1>4. PICK d : d = Checkpoint(p.n)
  OBVIOUS
<1>5. /\ p.bad = "body" /\ data' = d /\ saved' = d /\ last_n' = p.n
      /\ ram' = IF p.type = "D" THEN Stored(p.chars, d).ram ELSE ram
      /\ Answer("NAK", p.n) /\ toBoard' = Tail(toBoard) /\ UNCHANGED <<loading, remote>>
  BY <1>3, <1>4 DEF ReceiveBadBody
<1>6. /\ p \in PacketOf /\ p.n = remote.num /\ d = Base(remote.file, k)
      /\ \A i \in 1 .. Len(toBoard) : Fresh(toBoard[i])
  BY <1>1, <1>2, <1>3, <1>4, <1>5, TakenIn DEF Stale
<1>7. remote.line.patient /\ \A i \in 1 .. Len(toRemote) : FALSE
  <2>1. toBoard \in Seq(PacketOf) /\ Len(toRemote) \in Nat
    BY <1>1 DEF QueueInv
  <2>2. Len(toBoard) \in Nat \ {0} /\ toBoard[1] = p /\ 1 \in 1 .. Len(toBoard)
    BY <1>1, <1>3, <2>1, TakenOff
  <2>3. remote.line.patient
    BY <1>1, <1>5, <2>2 DEF QueueInv
  <2>4. Len(toBoard) + Len(toRemote) <= 1
    BY <1>1, <2>3 DEF QueueInv
  <2>5. Len(toRemote) = 0
    BY <2>1, <2>2, <2>4
  <2> QED BY <2>3, <2>5
<1>8. remote.num \in 0 .. Modulus - 1
  BY <1>1 DEF RemoteInv
<1>9. /\ QueueInv'
      /\ \A i \in 1 .. Len(toBoard') : \E j \in 1 .. Len(toBoard) : toBoard'[i] = toBoard[j]
      /\ \A i \in 1 .. Len(toRemote') :
           \/ \E j \in 1 .. Len(toRemote) : toRemote'[i] = toRemote[j]
           \/ toRemote'[i] = [type |-> "NAK", n |-> p.n]
  BY <1>1, <1>5, <1>6, <1>7, <1>8, Answered
<1>10. ram' \in [Memory -> Int] /\ Holding(ram', Plain(remote.file, k))
  <2>1. Loadable(remote.file) /\ k \in 0 .. Len(Pieces[remote.file]) /\ Holding(ram, Plain(remote.file, k))
    BY <1>1, <1>2 DEF RemoteInv, PieceInv, Whole
  <2>2. CASE p.type = "D"
    <3>1. PICK r : r = Stored(p.chars, d)
      OBVIOUS
    <3>2. r = k_data_chars([ram |-> ram, addr |-> Base(remote.file, k).addr,
                            escape |-> Base(remote.file, k).escape], p.chars)
      BY <1>6, <3>1 DEF Stored
    <3>3. p.chars \in Seq(Int)
      BY <1>6 DEF PacketOf
    <3>4. r.ram \in [Memory -> Int] /\ Holding(r.ram, Plain(remote.file, k))
      BY <1>1, <2>1, <3>2, <3>3, HeldStays
    <3> QED BY <1>5, <2>2, <3>1, <3>4
  <2>3. CASE p.type # "D"
    BY <1>1, <1>5, <2>1, <2>3
  <2> QED BY <2>2, <2>3
<1>11. PieceInv(k)'
  <2>1. Current' = Current /\ Whole' = Whole
    BY <1>5 DEF Current, Whole
  <2>2. \A i \in 1 .. Len(toBoard') : Fresh(toBoard[i])'
    BY <1>5, <1>6, <1>9, <2>1 DEF Fresh
  <2>3. Refused(k)'
    BY <1>5, <1>6, <1>7, <1>9 DEF Refused
  <2>4. Level(k)'
    BY <1>5, <1>6, <2>2, <2>3 DEF Level
  <2> QED BY <1>2, <1>5, <1>10, <2>1, <2>4 DEF PieceInv, Acknowledged
<1> QED BY <1>1, <1>2, <1>5, <1>9, <1>10, <1>11 DEF LoadInv, RemoteInv, Whole

LEMMA OldPacket ==
  ASSUME LoadInv, ReceiveGood, NEW k \in 0 .. Whole, PieceInv(k), Behind(k), Stale(Head(toBoard), k)
  PROVE  LoadInv'
<1> DEFINE f == remote.file
<1>1. loading = "receiving" /\ toBoard # <<>> /\ RemoteInv /\ QueueInv /\ ram \in [Memory -> Int]
  BY DEF ReceiveGood, LoadInv
<1>2. Loadable(f) /\ k \in 0 .. Len(Pieces[f]) /\ Holding(ram, Plain(f, k)) /\ Acknowledged(k)
  BY <1>1 DEF RemoteInv, PieceInv, Whole
<1>3. PICK p : p = Head(toBoard)
  OBVIOUS
<1>4. PICK m : m = Stored(IF p.type = "D" THEN p.chars ELSE <<>>, saved)
  OBVIOUS
<1>5. /\ p \in PacketOf /\ p.n = last_n /\ p.type # "B" /\ last_n # remote.num /\ Checkpoint(p.n) = saved
      /\ data = Base(f, k)
  BY <1>1, <1>3, TakenIn DEF Stale, Checkpoint, Behind
<1>6. /\ ram' = m.ram /\ data' = DataOf(m) /\ saved' = saved /\ last_n' = last_n /\ loading' = "receiving"
      /\ Answer("ACK", p.n) /\ toBoard' = Tail(toBoard) /\ remote' = remote
  BY <1>1, <1>3, <1>4, <1>5 DEF ReceiveGood
<1>7. m.ram \in [Memory -> Int] /\ DataOf(m) = Base(f, k) /\ Holding(m.ram, Plain(f, k))
  <2>1. CASE p.type = "D"
    <3>1. /\ k > 0 /\ p.chars = EncodedPiece(Pieces[f][k]) /\ saved = Base(f, k - 1)
      BY <1>3, <2>1 DEF Stale
    <3>2. k \in 1 .. Len(Pieces[f]) /\ k - 1 \in 0 .. Len(Pieces[f]) - 1 /\ (k - 1) + 1 = k
      BY <1>2, <3>1, PlainGrows
    <3>3. Holding(ram, Plain(f, k - 1))
      BY <1>2, <3>2, HeldBefore
    <3> HIDE DEF f
    <3>4. m = k_data_chars([ram |-> ram, addr |-> Base(f, k - 1).addr, escape |-> Base(f, k - 1).escape],
                           EncodedPiece(Pieces[f][(k - 1) + 1]))
      BY <1>4, <2>1, <3>1, <3>2 DEF Stored
    <3> QED BY <1>1, <1>2, <3>2, <3>3, <3>4, PieceHeld
  <2>2. CASE p.type # "D"
    <3>1. saved = Base(f, k)
      BY <1>3, <2>2 DEF Stale
    <3> HIDE DEF f
    <3>2. m = [ram |-> ram, addr |-> saved.addr, escape |-> saved.escape]
      BY <1>4, <2>2, NoChars DEF Stored
    <3>3. m.ram = ram /\ DataOf(m) = Base(f, k)
      BY <3>1, <3>2 DEF DataOf, Base
    <3> QED BY <1>1, <1>2, <3>3
  <2> QED BY <2>1, <2>2
<1>8. p.n \in 0 .. Modulus - 1 /\ \A i \in 1 .. Len(toRemote) : toRemote[i].n # remote.num
  BY <1>5 DEF PacketOf, Behind
<1>9. /\ QueueInv'
      /\ \A i \in 1 .. Len(toBoard') : \E j \in 1 .. Len(toBoard) : toBoard'[i] = toBoard[j]
      /\ \A i \in 1 .. Len(toRemote') :
           \/ \E j \in 1 .. Len(toRemote) : toRemote'[i] = toRemote[j]
           \/ toRemote'[i] = [type |-> "ACK", n |-> p.n]
  BY <1>1, <1>6, <1>8, Answered
<1>10. PieceInv(k)'
  <2>1. Current' = Current /\ Whole' = Whole
    BY <1>6 DEF Current, Whole
  <2>2. \A i \in 1 .. Len(toBoard') : Fresh(toBoard[i])' \/ Stale(toBoard[i], k)'
    BY <1>6, <1>9, <2>1 DEF Behind, Fresh, Stale
  <2>3. \A i \in 1 .. Len(toRemote') : toRemote'[i].n # remote.num
    BY <1>5, <1>8, <1>9
  <2>4. Behind(k)'
    BY <1>5, <1>6, <1>7, <2>2, <2>3 DEF Behind
  <2> QED BY <1>2, <1>6, <1>7, <2>1, <2>4 DEF PieceInv, Acknowledged
<1> QED BY <1>1, <1>6, <1>7, <1>9, <1>10 DEF LoadInv, RemoteInv, Whole

LEMMA NewPacket ==
  ASSUME LoadInv, ReceiveGood, NEW k \in 0 .. Whole, PieceInv(k), Fresh(Head(toBoard))
  PROVE  LoadInv'
<1> DEFINE f == remote.file
<1>1. loading = "receiving" /\ toBoard # <<>> /\ RemoteInv /\ QueueInv /\ ram \in [Memory -> Int]
  BY DEF ReceiveGood, LoadInv
<1>2. Loadable(f) /\ k \in 0 .. Len(Pieces[f]) /\ Holding(ram, Plain(f, k)) /\ Acknowledged(k)
  BY <1>1 DEF RemoteInv, PieceInv, Whole
<1>3. PICK p : p = Head(toBoard)
  OBVIOUS
<1>4. PICK d : d = Checkpoint(p.n)
  OBVIOUS
<1>5. PICK m : m = Stored(IF p.type = "D" THEN p.chars ELSE <<>>, d)
  OBVIOUS
<1>6. /\ p.bad = "no" /\ ram' = m.ram /\ data' = DataOf(m) /\ saved' = d /\ last_n' = p.n
      /\ loading' = IF p.type = "B" THEN "done" ELSE "receiving"
      /\ Answer("ACK", p.n) /\ toBoard' = Tail(toBoard) /\ remote' = remote
  BY <1>3, <1>4, <1>5 DEF ReceiveGood
<1>7. /\ p \in PacketOf /\ p.n = remote.num /\ d = Base(f, k)
      /\ \A i \in 1 .. Len(toBoard) : Fresh(toBoard[i])
  BY <1>1, <1>3, <1>4, TakenIn
<1>8. p.type = Current.type /\ p.chars = Current.chars
  BY <1>3, <1>6 DEF Fresh
<1>9. /\ Current.type = "B" <=> remote.at = Whole + 4
      /\ Current.type = "D" => k \in 0 .. Len(Pieces[f]) - 1 /\ k + 1 \in 0 .. Len(Pieces[f])
                               /\ Current.chars = EncodedPiece(Pieces[f][k + 1])
      /\ Whole \in Nat
  BY <1>1, <1>2, CurrentIs DEF Whole
<1>10. PICK j : j = Reached(k)
  OBVIOUS
<1>11. m.ram \in [Memory -> Int] /\ DataOf(m) = Base(f, j) /\ Holding(m.ram, Plain(f, j)) /\ Holding(m.ram, Plain(f, k))
  <2>1. CASE p.type = "D"
    <3>1. j = k + 1 /\ k \in 0 .. Len(Pieces[f]) - 1 /\ k + 1 \in 1 .. Len(Pieces[f]) /\ (k + 1) - 1 = k
      BY <1>2, <1>8, <1>9, <1>10, <2>1, PlainGrows DEF Reached
    <3> HIDE DEF f
    <3>2. m = k_data_chars([ram |-> ram, addr |-> Base(f, k).addr, escape |-> Base(f, k).escape],
                           EncodedPiece(Pieces[f][k + 1]))
      BY <1>5, <1>7, <1>8, <1>9, <2>1 DEF Stored
    <3>3. m.ram \in [Memory -> Int] /\ DataOf(m) = Base(f, k + 1) /\ Holding(m.ram, Plain(f, k + 1))
      BY <1>1, <1>2, <3>1, <3>2, PieceHeld
    <3>4. Holding(m.ram, Plain(f, k))
      BY <1>2, <3>1, <3>3, HeldBefore
    <3> QED BY <3>1, <3>3, <3>4
  <2>2. CASE p.type # "D"
    <3>1. j = k
      BY <1>8, <1>10, <2>2 DEF Reached
    <3> HIDE DEF f
    <3>2. m = [ram |-> ram, addr |-> d.addr, escape |-> d.escape]
      BY <1>5, <2>2, NoChars DEF Stored
    <3>3. m.ram = ram /\ DataOf(m) = Base(f, k)
      BY <1>7, <3>2 DEF DataOf, Base
    <3> QED BY <1>1, <1>2, <3>1, <3>3
  <2> QED BY <2>1, <2>2
<1>12. CASE p.type = "B"
  <2>1. j = k
    BY <1>8, <1>10, <1>12 DEF Reached
  <2>2. remote.at > Whole + 2
    BY <1>8, <1>9, <1>12
  <2>3. remote.cancelled \/ k = Whole
    BY <1>2, <2>2 DEF Acknowledged
  <2>4. DoneInv'
    BY <1>2, <1>6, <1>7, <1>11, <2>1, <2>3 DEF DoneInv, Whole
  <2> QED BY <1>6, <1>11, <1>12, <2>4 DEF LoadInv
<1>13. CASE p.type # "B"
  <2>1. p.n \in 0 .. Modulus - 1
    BY <1>7 DEF PacketOf
  <2>2. /\ QueueInv'
        /\ \A i \in 1 .. Len(toBoard') : \E h \in 1 .. Len(toBoard) : toBoard'[i] = toBoard[h]
    BY <1>1, <1>6, <1>7, <2>1, Answered
  <2>3. Current' = Current /\ Whole' = Whole
    BY <1>6 DEF Current, Whole
  <2>4. \A i \in 1 .. Len(toBoard') : Fresh(toBoard[i])'
    BY <1>6, <1>7, <2>2, <2>3 DEF Fresh
  <2>5. Kept(k)'
    <3>1. Reached(k)' = j
      BY <1>10, <2>3 DEF Reached
    <3> QED BY <1>6, <1>8, <1>11, <1>13, <2>3, <3>1 DEF Kept
  <2>6. Level(k)'
    BY <1>6, <1>7, <2>4, <2>5 DEF Level
  <2>7. PieceInv(k)'
    BY <1>2, <1>6, <1>11, <2>3, <2>6 DEF PieceInv, Acknowledged
  <2> QED BY <1>1, <1>6, <1>11, <1>13, <2>2, <2>3, <2>7 DEF LoadInv, RemoteInv, Whole
<1> QED BY <1>12, <1>13

(***************************************************************************)
(* Any step of a load.                                                     *)
(***************************************************************************)
LEMMA LoadStep ==
  ASSUME LinesAreGood, LoadInv, LineStep
  PROVE  LoadInv'
<1>1. CASE ReceiveGood
  <2>1. loading = "receiving" /\ toBoard # <<>> /\ RemoteInv /\ QueueInv
    BY <1>1 DEF ReceiveGood, LoadInv
  <2>2. PICK k \in 0 .. Whole : PieceInv(k)
    BY <2>1 DEF LoadInv
  <2>3. Fresh(Head(toBoard)) \/ (Behind(k) /\ Stale(Head(toBoard), k))
    BY <2>1, <2>2, TakenIn
  <2> QED BY <1>1, <2>2, <2>3, OldPacket, NewPacket
<1>2. CASE Interrupt
  BY <1>2 DEF Interrupt, LoadInv
<1> QED
  BY <1>1, <1>2, SenderSends, SenderHears, SenderCancels, PacketDamaged, AnswerLost, LengthIsGood, BadPacket
  DEF LineStep, Receive

(***************************************************************************)
(* What is held is what LoadedIsSent says.                                 *)
(***************************************************************************)
LEMMA HeldIsSent == LoadInv => LoadedIsSent
<1> SUFFICES ASSUME LoadInv PROVE LoadedIsSent
  OBVIOUS
<1>1. ASSUME Sending, ~remote.cancelled, remote.at \in 4 .. EndOfFile(remote.file)
      PROVE  Holds(Plain(remote.file, remote.at - 3))
  <2>1. RemoteInv
    BY <1>1 DEF LoadInv, Sending
  <2>2. PICK k \in 0 .. Whole : PieceInv(k)
    BY <1>1 DEF LoadInv, Sending
  <2>3. Whole \in Nat /\ EndOfFile(remote.file) = Whole + 3
    BY <2>1, PlainGrows DEF RemoteInv, Whole, EndOfFile
  <2>4. k = remote.at - 3
    <3>1. Acknowledged(k)
      BY <2>2 DEF PieceInv
    <3>2. remote.at \in 3 .. Whole + 2 \/ (remote.at > Whole + 2 /\ remote.at - 3 = Whole)
      BY <1>1, <2>3
    <3> QED BY <1>1, <3>1, <3>2 DEF Acknowledged
  <2> QED BY <2>2, <2>4 DEF PieceInv, Holding, Holds
<1>2. ASSUME loading = "done"
      PROVE  \E i \in 0 .. Len(Pieces[remote.file]) :
               /\ remote.cancelled \/ i = Len(Pieces[remote.file])
               /\ LoadSize = Len(Plain(remote.file, i))
               /\ Holds(Plain(remote.file, i))
  <2>1. PICK k \in 0 .. Whole :
          /\ remote.cancelled \/ k = Whole
          /\ data = Base(remote.file, k)
          /\ Holding(ram, Plain(remote.file, k))
    BY <1>2 DEF LoadInv, DoneInv
  <2>2. LoadSize = Len(Plain(remote.file, k))
    BY <1>2, <2>1 DEF LoadSize, Base
  <2> QED BY <2>1, <2>2 DEF Whole, Holding, Holds
<1> QED BY <1>1, <1>2 DEF LoadedIsSent

-----------------------------------------------------------------------------
(***************************************************************************)
(* How far characters reach: no further than their number, and no further  *)
(* than the piece they begin.                                              *)
(***************************************************************************)
Below(m, r) == \A i \in Memory : i > r.addr => r.ram[i] = m.ram[i]

LEMMA CharReaches ==
  ASSUME NEW m \in Storage, NEW c \in Int
  PROVE  LET w == k_data_char(m, c)
         IN  w.addr \in {m.addr, m.addr + 1} /\ Below(m, w)
<1> DEFINE put(x) == [ram |-> [m.ram EXCEPT ![m.addr + 1] = x], addr |-> m.addr + 1, escape |-> FALSE]
<1>0. m.addr \in Nat /\ \A i \in Memory : i \in Nat
  BY KermitAssumption DEF Storage, Memory
<1>1. ASSUME NEW x PROVE put(x).addr = m.addr + 1 /\ Below(m, put(x))
  BY <1>0 DEF Below, Storage
<1>2. [m EXCEPT !.escape = TRUE].addr = m.addr /\ Below(m, [m EXCEPT !.escape = TRUE])
  BY DEF Below, Storage
<1> HIDE DEF put
<1>3. k_data_char(m, c) = [m EXCEPT !.escape = TRUE] \/ \E x : k_data_char(m, c) = put(x)
  BY CharStored DEF put, Storage
<1> QED BY <1>1, <1>2, <1>3

LEMMA CharsReach ==
  ASSUME NEW m \in Storage, NEW cs \in Seq(Int)
  PROVE  /\ k_data_chars(m, cs).addr \in Nat
         /\ k_data_chars(m, cs).addr <= m.addr + Len(cs)
         /\ Below(m, k_data_chars(m, cs))
<1> DEFINE S == {u \in Seq(Int) : /\ k_data_chars(m, u).addr <= m.addr + Len(u)
                                  /\ Below(m, k_data_chars(m, u))}
<1>0. m.addr \in Nat /\ \A i \in Memory : i \in Nat
  BY KermitAssumption DEF Storage, Memory
<1>1. <<>> \in S
  BY <1>0, NoChars DEF Below
<1>2. ASSUME NEW u \in Seq(Int), NEW x \in Int, u \in S PROVE Append(u, x) \in S
  <2> DEFINE r == k_data_chars(m, u)
             w == k_data_char(r, x)
  <2>1. k_data_chars(m, Append(u, x)) = w
    BY CharAfter
  <2>2. r \in Storage /\ Below(m, r) /\ r.addr <= m.addr + Len(u)
    BY <1>2, CharsStored
  <2>3. Len(u) \in Nat /\ Append(u, x) \in Seq(Int) /\ Len(Append(u, x)) = Len(u) + 1
    OBVIOUS
  <2> HIDE DEF r
  <2>4. w.addr \in {r.addr, r.addr + 1} /\ Below(r, w)
    BY <2>2, CharReaches
  <2> HIDE DEF w
  <2>5. r.addr \in Nat
    BY <2>2 DEF Storage
  <2>6. w.addr <= m.addr + Len(Append(u, x))
    BY <1>0, <2>2, <2>3, <2>4, <2>5
  <2>7. Below(m, w)
    BY <1>0, <2>2, <2>4, <2>5 DEF Below
  <2> QED BY <2>1, <2>3, <2>6, <2>7
<1> HIDE DEF S
<1>3. Seq(Int) \subseteq S
  BY <1>1, <1>2, SequenceInduction
<1>4. k_data_chars(m, cs).addr \in Nat
  BY CharsStored DEF Storage
<1> QED BY <1>3, <1>4 DEF S

LEMMA FewerReach ==
  ASSUME NEW m \in Storage, NEW us \in Seq(Int), NEW j \in 0 .. Len(us)
  PROVE  k_data_chars(m, SubSeq(us, 1, j)).addr <= k_data_chars(m, us).addr
<1> DEFINE far == [u \in Seq(Int) |-> k_data_chars(m, u).addr]
           S == {u \in Seq(Int) : \A i \in 0 .. Len(u) : far[SubSeq(u, 1, i)] <= far[u]}
<1>0. far \in [Seq(Int) -> Nat] /\ \A u \in Seq(Int) : far[u] = k_data_chars(m, u).addr
  BY CharsReach
<1> HIDE DEF far
<1>1. <<>> \in S
  <2>1. /\ Len(<<>>) = 0 /\ SubSeq(<<>>, 1, 0) = <<>> /\ <<>> \in Seq(Int)
        /\ \A i \in 0 .. 0 : i = 0
    OBVIOUS
  <2>2. far[<<>>] <= far[<<>>]
    <3>1. far[<<>>] \in Nat
      BY <1>0, <2>1, Zenon
    <3>2. PICK x \in Nat : x = far[<<>>]
      BY <3>1
    <3>3. x <= x
      OBVIOUS
    <3> QED BY <3>2, <3>3, Zenon
  <2> QED BY <2>1, <2>2
<1>2. ASSUME NEW u \in Seq(Int), NEW x \in Int, u \in S PROVE Append(u, x) \in S
  <2> DEFINE v == Append(u, x)
  <2>1. v \in Seq(Int) /\ Len(v) = Len(u) + 1 /\ Len(u) \in Nat /\ SubSeq(v, 1, Len(v)) = v
        /\ \A i \in 0 .. Len(u) : SubSeq(v, 1, i) = SubSeq(u, 1, i)
    OBVIOUS
  <2>2. k_data_chars(m, v) = k_data_char(k_data_chars(m, u), x)
    BY CharAfter
  <2> HIDE DEF v
  <2>3. k_data_chars(m, u) \in Storage
    BY CharsStored
  <2>4. far[u] <= far[v] /\ far[u] \in Nat /\ far[v] \in Nat
    <3>1. Above(k_data_chars(m, u), k_data_chars(m, v)) /\ k_data_chars(m, v) \in Storage
      BY <2>2, <2>3, CharStored
    <3> QED BY <1>0, <2>1, <2>3, <3>1 DEF Above, Storage
  <2>5. ASSUME NEW i \in 0 .. Len(v)
        PROVE  far[SubSeq(v, 1, i)] <= far[v]
    <3>1. CASE i = Len(v)
      <4>1. SubSeq(v, 1, i) = v
        BY <2>1, <3>1
      <4>2. PICK y \in Nat : y = far[v]
        BY <2>4, Zenon
      <4>3. y <= y
        OBVIOUS
      <4> QED BY <4>1, <4>2, <4>3, Zenon
    <3>2. CASE i # Len(v)
      <4>1. i \in 0 .. Len(u)
        BY <2>1, <3>2
      <4>2. far[SubSeq(u, 1, i)] <= far[u]
        BY <1>2, <4>1
      <4>3. SubSeq(u, 1, i) \in Seq(Int)
        BY <4>1, FirstOnes
      <4>4. far[SubSeq(u, 1, i)] \in Nat
        BY <1>0, <4>3
      <4>5. SubSeq(v, 1, i) = SubSeq(u, 1, i)
        BY <2>1, <4>1
      <4>6. PICK a \in Nat, b \in Nat, y \in Nat : a = far[SubSeq(u, 1, i)] /\ b = far[u] /\ y = far[v]
        BY <2>4, <4>4, Zenon
      <4>7. a <= b /\ b <= y
        BY <2>4, <4>2, <4>6, Zenon
      <4>8. a <= y
        BY <4>7
      <4> QED BY <4>5, <4>6, <4>8, Zenon
    <3> QED BY <3>1, <3>2
  <2> QED BY <2>1, <2>5 DEF v
<1> HIDE DEF S
<1>3. Seq(Int) \subseteq S
  BY <1>1, <1>2, SequenceInduction
<1>4. far[SubSeq(us, 1, j)] <= far[us]
  BY <1>3 DEF S
<1>5. SubSeq(us, 1, j) \in Seq(Int)
  BY FirstOnes
<1> QED BY <1>0, <1>4, <1>5

-----------------------------------------------------------------------------
(***************************************************************************)
(* Beyond what was sent memory stays as it was: a value that is not at     *)
(* place e when a load starts only gets there with a piece that reaches e. *)
(* The damage to a body leaves characters of the packet, from the first.   *)
(***************************************************************************)
Truncated(p) == p.bad = "body" => \E j \in 0 .. Len(Current.chars) : p.chars = SubSeq(Current.chars, 1, j)

Top ==
  IF remote.at > Whole + 2 THEN data.addr
  ELSE IF remote.at > 2 THEN Len(Plain(remote.file, remote.at - 2)) ELSE 0

FrameInv(e, v) ==
  /\ loading = "receiving" => /\ \A i \in 1 .. Len(toBoard) : Truncated(toBoard[i])
                              /\ ram[e] = v => e <= Top
  /\ loading = "done" /\ ram[e] = v => e <= data.addr

LEMMA StartMem ==
  ASSUME NEW f, Loadable(f), NEW k \in 0 .. Len(Pieces[f]), NEW mem \in [Memory -> Int]
  PROVE  LET m == [ram |-> mem, addr |-> Base(f, k).addr, escape |-> Base(f, k).escape]
         IN  m \in Storage /\ m.ram = mem /\ m.addr = Len(Plain(f, k)) /\ Len(Plain(f, k)) \in Nat
<1>1. Len(Plain(f, k)) \in Nat
  BY PlainFits
<1> QED BY <1>1 DEF Base, Storage

(***************************************************************************)
(* A piece, or the beginning of one.                                       *)
(***************************************************************************)
LEMMA PieceReaches ==
  ASSUME NEW f, Loadable(f), NEW k \in 0 .. Len(Pieces[f]) - 1, NEW mem \in [Memory -> Int],
         Holding(mem, Plain(f, k)), NEW cs, cs = EncodedPiece(Pieces[f][k + 1]), NEW j \in 0 .. Len(cs),
         NEW r, r = k_data_chars([ram |-> mem, addr |-> Base(f, k).addr, escape |-> Base(f, k).escape],
                                 SubSeq(cs, 1, j)),
         NEW e \in Memory, e > Len(Plain(f, k + 1))
  PROVE  r.ram[e] = mem[e]
<1>1. k \in 0 .. Len(Pieces[f]) /\ Pieces[f][k + 1] \in Seq(Char) /\ k + 1 \in 0 .. Len(Pieces[f])
  BY PlainGrows
<1>2. PICK m : m = [ram |-> mem, addr |-> Base(f, k).addr, escape |-> Base(f, k).escape]
  OBVIOUS
<1>3. m \in Storage /\ m.ram = mem
  BY <1>1, <1>2, StartMem
<1>4. cs \in Seq(Int)
  <2>1. QUOTE \in Char
    BY CharAssumption DEF Char
  <2> QED BY <1>1, <2>1, EncodedAppend
<1>5. PICK w : w = k_data_chars(m, cs)
  OBVIOUS
<1>6. DataOf(w) = Base(f, k + 1)
  BY <1>2, <1>5, PieceHeld
<1>7. w.addr = Len(Plain(f, k + 1))
  BY <1>6 DEF DataOf, Base
<1>8. SubSeq(cs, 1, j) \in Seq(Int)
  BY <1>4, FirstOnes
<1>9. r.addr <= w.addr
  BY <1>2, <1>3, <1>4, <1>5, FewerReach
<1>10. Below(m, r) /\ r.addr \in Nat
  BY <1>2, <1>3, <1>8, CharsReach
<1>11. e > r.addr
  <2>1. Len(Plain(f, k + 1)) \in Nat
    BY <1>1, PlainFits
  <2>2. e \in Nat
    BY KermitAssumption DEF Memory
  <2>3. r.addr <= Len(Plain(f, k + 1))
    BY <1>7, <1>9
  <2> QED BY <1>10, <2>1, <2>2, <2>3
<1> QED BY <1>3, <1>10, <1>11 DEF Below

LEMMA PieceGrows ==
  ASSUME NEW f, Loadable(f), NEW k \in 0 .. Len(Pieces[f]) - 1
  PROVE  /\ Len(Plain(f, k)) \in Nat /\ Len(Plain(f, k + 1)) \in Nat
         /\ Len(Plain(f, k)) <= Len(Plain(f, k + 1))
<1>1. k \in 0 .. Len(Pieces[f]) /\ k + 1 \in 0 .. Len(Pieces[f])
  BY PlainGrows
<1>2. Plain(f, k) \in Seq(Char) /\ Pieces[f][k + 1] \in Seq(Char)
      /\ Plain(f, k + 1) = Plain(f, k) \o Pieces[f][k + 1]
  BY <1>1, PlainGrows
<1> DEFINE a == Plain(f, k)
           b == Pieces[f][k + 1]
<1>3. a \in Seq(Char) /\ b \in Seq(Char) /\ Plain(f, k + 1) = a \o b
  BY <1>2
<1>4. Plain(f, k) = a
  OBVIOUS
<1> HIDE DEF a, b
<1>5. Len(a) \in Nat /\ Len(b) \in Nat /\ Len(a \o b) = Len(a) + Len(b)
  BY <1>3, Joined
<1>6. Len(a) <= Len(a \o b) /\ Len(a \o b) \in Nat
  BY <1>5
<1> QED BY <1>3, <1>4, <1>5, <1>6

(***************************************************************************)
(* Where the sender is, and what it has sent.                              *)
(***************************************************************************)
LEMMA TopIs ==
  ASSUME RemoteInv, NEW k \in 0 .. Whole, PieceInv(k)
  PROVE  /\ Whole \in Nat /\ remote.at \in 1 .. Whole + 4
         /\ remote.at > Whole + 2 => data = Base(remote.file, k) /\ Top = Len(Plain(remote.file, k))
                                     /\ Current.type # "D" /\ Current.chars = <<>>
         /\ remote.at \in 3 .. Whole + 2 =>
              /\ k = remote.at - 3 /\ k \in 0 .. Whole - 1 /\ Top = Len(Plain(remote.file, k + 1))
              /\ Current.type = "D" /\ Current.chars = EncodedPiece(Pieces[remote.file][k + 1])
         /\ remote.at < 3 => k = 0 /\ Top = 0 /\ Current.type # "D" /\ Current.chars = <<1>>
<1> DEFINE f == remote.file
           i == remote.at
           z == Whole
<1>1. Acknowledged(k) /\ (Behind(k) \/ Level(k))
  BY DEF PieceInv
<1>2. /\ z \in Nat /\ i \in 1 .. z + 4
      /\ Current.type = "D" <=> i \in 3 .. z + 2
      /\ Current.type = "D" => k = i - 3 /\ k \in 0 .. z - 1 /\ Current.chars = EncodedPiece(Pieces[f][k + 1])
  BY <1>1, CurrentIs DEF RemoteInv
<1>3. /\ i < 3 => Current.chars = <<1>>
      /\ i > z + 2 => Current.chars = <<>>
  <2>1. Loadable(f) /\ z = Len(Pieces[f])
    BY DEF RemoteInv, Whole
  <2>2. Current = Packets(f)[i]
    BY DEF Current
  <2> HIDE DEF f, i, z
  <2> QED BY <1>2, <2>1, <2>2, PacketsAre
<1>4. ASSUME i > z + 2
      PROVE  data = Base(f, k) /\ Top = Len(Plain(f, k)) /\ Current.type # "D"
  <2>1. Current.type # "D"
    BY <1>2, <1>4
  <2>2. data = Base(f, k)
    BY <1>1, <2>1 DEF Behind, Level, Kept, Refused, Reached
  <2> QED BY <1>4, <2>1, <2>2 DEF Top, Base
<1>5. ASSUME i \in 3 .. z + 2
      PROVE  Top = Len(Plain(f, k + 1))
  <2>1. ~(i > z + 2) /\ i > 2 /\ i - 2 = k + 1
    BY <1>2, <1>5
  <2> QED BY <2>1 DEF Top
<1>6. ASSUME i < 3 PROVE k = 0 /\ Top = 0 /\ Current.type # "D"
  <2>1. ~(i > z + 2) /\ ~(i > 2) /\ i \notin 3 .. z + 2
    BY <1>2, <1>6
  <2> QED BY <1>1, <1>2, <1>6, <2>1 DEF Top, Acknowledged
<1> HIDE DEF f, i, z
<1>7. /\ i > z + 2 => data = Base(f, k) /\ Top = Len(Plain(f, k)) /\ Current.type # "D" /\ Current.chars = <<>>
      /\ i \in 3 .. z + 2 =>
           /\ k = i - 3 /\ k \in 0 .. z - 1 /\ Top = Len(Plain(f, k + 1))
           /\ Current.type = "D" /\ Current.chars = EncodedPiece(Pieces[f][k + 1])
      /\ i < 3 => k = 0 /\ Top = 0 /\ Current.type # "D" /\ Current.chars = <<1>>
  BY <1>2, <1>3, <1>4, <1>5, <1>6
<1> QED BY <1>2, <1>7 DEF f, i, z

LEMMA TopHolds ==
  ASSUME RemoteInv, NEW k \in 0 .. Whole, PieceInv(k)
  PROVE  Top \in Nat /\ Len(Plain(remote.file, k)) \in Nat /\ Len(Plain(remote.file, k)) <= Top
<1> DEFINE f == remote.file
<1>1. Loadable(f) /\ Whole = Len(Pieces[f])
  BY DEF RemoteInv, Whole
<1>2. Len(Plain(f, k)) \in Nat
  BY <1>1, PlainFits
<1>3. remote.at > Whole + 2 \/ remote.at \in 3 .. Whole + 2 \/ remote.at < 3
  BY TopIs
<1>4. CASE remote.at > Whole + 2
  BY <1>2, <1>4, TopIs
<1>5. CASE remote.at \in 3 .. Whole + 2
  <2>1. k \in 0 .. Len(Pieces[f]) - 1 /\ Top = Len(Plain(f, k + 1))
    BY <1>1, <1>5, TopIs
  <2> QED BY <1>1, <2>1, PieceGrows
<1>6. CASE remote.at < 3
  <2>1. k = 0 /\ Top = 0
    BY <1>6, TopIs
  <2>2. Plain(f, 0) = <<>>
    BY <1>1, PlainGrows
  <2> QED BY <2>1, <2>2
<1> QED BY <1>3, <1>4, <1>5, <1>6

LEMMA TopIsNat == RemoteInv /\ (\E j \in 0 .. Whole : PieceInv(j)) => Top \in Nat
  BY TopHolds

(***************************************************************************)
(* The steps.                                                              *)
(***************************************************************************)
LEMMA FrameStarts ==
  ASSUME NEW e \in Memory, NEW v, NEW f \in Files, NEW line \in Lines, StartLoad(f, line), ram[e] # v
  PROVE  FrameInv(e, v)'
BY DEF StartLoad, FrameInv

\* a step that leaves memory alone and sends nothing damaged
LEMMA FrameKept ==
  ASSUME NEW e \in Memory, NEW v, FrameInv(e, v), UNCHANGED <<loading, ram, data, remote>>,
         \A i \in 1 .. Len(toBoard') :
           toBoard'[i].bad = "no" \/ \E j \in 1 .. Len(toBoard) : toBoard'[i] = toBoard[j]
  PROVE  FrameInv(e, v)'
<1>1. Current' = Current /\ Whole' = Whole
  BY DEF Current, Whole
<1>2. Top' = Top
  BY <1>1 DEF Top
<1> QED BY <1>1, <1>2 DEF FrameInv, Truncated

LEMMA FrameSends ==
  ASSUME NEW e \in Memory, NEW v, FrameInv(e, v), LoadInv, RemoteSends
  PROVE  FrameInv(e, v)'
<1> DEFINE q == [n |-> remote.num, type |-> Current.type, chars |-> Current.chars, bad |-> "no"]
<1>1. toBoard' = Append(toBoard, q) /\ UNCHANGED <<loading, ram, data, remote>> /\ q.bad = "no"
      /\ loading = "receiving"
  BY DEF RemoteSends, Sending, Current
<1>2. toBoard \in Seq(PacketOf) /\ q \in PacketOf
  <2>1. RemoteInv /\ QueueInv /\ \E k \in 0 .. Whole : PieceInv(k)
    BY <1>1 DEF LoadInv
  <2> QED BY <2>1, CurrentIs DEF PieceInv, PacketOf, RemoteInv, QueueInv
<1> HIDE DEF q
<1>3. /\ Len(toBoard') = Len(toBoard) + 1 /\ Len(toBoard) \in Nat
      /\ toBoard'[Len(toBoard) + 1] = q /\ \A i \in 1 .. Len(toBoard) : toBoard'[i] = toBoard[i]
  BY <1>1, <1>2, Appended
<1>4. \A i \in 1 .. Len(toBoard') : i \in 1 .. Len(toBoard) \/ i = Len(toBoard) + 1
  BY <1>3
<1> QED BY <1>1, <1>3, <1>4, FrameKept

LEMMA FrameCancels ==
  ASSUME NEW e \in Memory, NEW v, FrameInv(e, v), LoadInv, RemoteCancels
  PROVE  FrameInv(e, v)'
<1>1. remote' = [remote EXCEPT !.cancelled = TRUE] /\ UNCHANGED <<loading, ram, data, toBoard>>
      /\ loading = "receiving"
  BY DEF RemoteCancels, Sending
<1>2. remote'.file = remote.file /\ remote'.at = remote.at
  <2>1. remote \in [file : Files, at : Nat, num : 0 .. Modulus - 1, cancelled : BOOLEAN, line : Lines]
    BY <1>1 DEF LoadInv, RemoteInv
  <2> QED BY <1>1, <2>1
<1>3. Current' = Current /\ Whole' = Whole
  BY <1>2 DEF Current, Whole
<1>4. Top' = Top
  BY <1>1, <1>2, <1>3 DEF Top
<1> QED BY <1>1, <1>3, <1>4 DEF FrameInv, Truncated

LEMMA FrameDamaged ==
  ASSUME NEW e \in Memory, NEW v, FrameInv(e, v), LinesAreGood, LoadInv, LineDamages
  PROVE  FrameInv(e, v)'
<1>1. toBoard # <<>> /\ UNCHANGED <<loading, ram, data, remote>> /\ Head(toBoard).bad = "no"
  BY DEF LineDamages
<1>2. CASE loading = "receiving"
  <2>1. RemoteInv /\ QueueInv
    BY <1>2 DEF LoadInv
  <2>2. PICK k \in 0 .. Whole : PieceInv(k)
    BY <1>2 DEF LoadInv
  <2>3. toBoard \in Seq(PacketOf)
    BY <2>1 DEF QueueInv
  <2>4. PICK p : p = toBoard[1]
    OBVIOUS
  <2>5. /\ p = Head(toBoard) /\ p \in PacketOf /\ p.bad = "no" /\ Len(toBoard) \in Nat \ {0} /\ 1 \in 1 .. Len(toBoard)
        /\ Len(Tail(toBoard)) = Len(toBoard) - 1 /\ \A i \in 1 .. Len(toBoard) - 1 : Tail(toBoard)[i] = toBoard[i + 1]
    BY <1>1, <2>3, <2>4, TakenOff
  <2>6. CASE toBoard' = Tail(toBoard)
    <3>1. \A i \in 1 .. Len(toBoard') : i + 1 \in 1 .. Len(toBoard) /\ toBoard'[i] = toBoard[i + 1]
      BY <2>5, <2>6
    <3> QED BY <1>1, <3>1, FrameKept
  <2>7. ASSUME NEW q \in Damaged(p), toBoard' = <<q>> \o Tail(toBoard)
        PROVE  FrameInv(e, v)'
    <3>1. remote.line \in Lines
      BY <2>1 DEF RemoteInv
    <3>2. "length" \notin remote.line.damages
      BY <3>1 DEF LinesAreGood
    <3>3. q \in IF "body" \in remote.line.damages
                THEN {BadBody(p, t, j) : t \in {"D", "B"}, j \in 0 .. Len(p.chars)}
                ELSE {}
      BY <2>7, <3>2 DEF Damaged
    <3>4. PICK t \in {"D", "B"}, j \in 0 .. Len(p.chars) : q = BadBody(p, t, j)
      BY <3>3
    <3>5. remote.line.patient
      BY <3>1, <3>3 DEF LinesAreGood
    <3>6. p.n = remote.num
      BY <2>1, <2>4, <2>5, <3>5 DEF QueueInv
    <3>7. p.chars = Current.chars
      <4>1. Fresh(p) \/ (Behind(k) /\ Stale(p, k))
        BY <1>1, <2>1, <2>2, <2>5, TakenIn
      <4> QED BY <2>5, <3>6, <4>1 DEF Fresh, Stale, Behind
    <3>8. q.bad = "body" /\ q.chars = SubSeq(p.chars, 1, j) /\ q \in PacketOf
      <4>1. SubSeq(p.chars, 1, j) \in Seq(Int)
        BY <2>5, FirstOnes DEF PacketOf
      <4> QED BY <2>5, <3>4, <4>1 DEF BadBody, PacketOf
    <3>9. Truncated(q)
      BY <3>7, <3>8 DEF Truncated
    <3>10. /\ Len(toBoard') = Len(toBoard) /\ toBoard'[1] = q
           /\ \A i \in 2 .. Len(toBoard) : toBoard'[i] = toBoard[i]
      BY <1>1, <2>3, <2>7, <3>8, Replaced
    <3>11. \A i \in 1 .. Len(toBoard') : Truncated(toBoard'[i])
      <4> TAKE i \in 1 .. Len(toBoard')
      <4>1. i = 1 \/ (i \in 2 .. Len(toBoard) /\ i \in 1 .. Len(toBoard))
        BY <2>5, <3>10
      <4> QED BY <1>2, <3>9, <3>10, <4>1 DEF FrameInv
    <3>12. Current' = Current /\ Whole' = Whole
      BY <1>1 DEF Current, Whole
    <3>13. Top' = Top
      BY <1>1, <3>12 DEF Top
    <3> QED BY <1>1, <1>2, <3>11, <3>12, <3>13 DEF FrameInv, Truncated
  <2> QED BY <2>5, <2>6, <2>7 DEF LineDamages
<1>3. CASE loading # "receiving"
  BY <1>1, <1>3 DEF FrameInv
<1> QED BY <1>2, <1>3

(***************************************************************************)
(* What the sender takes for an acknowledgment is one of the packet it is  *)
(* at, and this packet was kept.                                           *)
(***************************************************************************)
LEMMA AnswerIsKept ==
  ASSUME RemoteInv, QueueInv, toRemote # <<>>, Moves(Head(toRemote)), NEW k \in 0 .. Whole, PieceInv(k)
  PROVE  Kept(k)
<1> DEFINE a == Head(toRemote)
           num == (remote.num + 1) % Modulus
<1>1. num # remote.num
  <2>1. remote.num \in 0 .. Modulus - 1 /\ Modulus \in Nat /\ Modulus > 2
    BY KermitAssumption DEF RemoteInv
  <2>2. CASE remote.num + 1 = Modulus
    BY <2>1, <2>2
  <2>3. CASE remote.num + 1 # Modulus
    BY <2>1, <2>3
  <2> QED BY <2>2, <2>3
<1>2. a = toRemote[1] /\ a \in AnswerOf /\ 1 \in 1 .. Len(toRemote)
  <2>1. toRemote \in Seq(AnswerOf)
    BY DEF QueueInv
  <2> QED BY <2>1, TakenOff
<1> HIDE DEF num
<1>3. a.type = "ACK" /\ a.n = remote.num
  <2>1. a.type = "NAK" => a.n = remote.num
    BY <1>2 DEF QueueInv
  <2> QED BY <1>1, <2>1 DEF Moves, num
<1>4. ~Behind(k) /\ ~Refused(k)
  BY <1>2, <1>3 DEF Behind, Refused
<1> QED BY <1>4 DEF PieceInv, Level

(***************************************************************************)
(* The sender moves on when the packet is in memory.                       *)
(***************************************************************************)
LEMMA FrameHears ==
  ASSUME NEW e \in Memory, NEW v, FrameInv(e, v), LinesAreGood, LoadInv, RemoteHears
  PROVE  FrameInv(e, v)'
<1>1. /\ loading = "receiving" /\ RemoteInv /\ QueueInv /\ toRemote # <<>>
      /\ UNCHANGED <<loading, ram, data, toBoard>>
  BY DEF RemoteHears, Sending, LoadInv
<1>2. PICK k \in 0 .. Whole : PieceInv(k)
  BY <1>1 DEF LoadInv
<1> DEFINE a == Head(toRemote)
<1>3. CASE ~Moves(a)
  <2>1. remote' = remote
    BY <1>3 DEF RemoteHears
  <2> QED BY <1>1, <2>1, FrameKept
<1>4. CASE Moves(a)
  <2>1. LoadInv'
    BY SenderHears
  <2>2. RemoteInv' /\ \E j \in 0 .. Whole' : PieceInv(j)'
    BY <1>1, <2>1 DEF LoadInv
  <2>3. Kept(k)
    BY <1>1, <1>2, <1>4, AnswerIsKept
  <2>4. /\ remote'.file = remote.file
        /\ remote'.at = IF remote.at = EndOfFile(remote.file) + 1 THEN 0
                        ELSE IF remote.cancelled /\ remote.at < EndOfFile(remote.file)
                        THEN EndOfFile(remote.file) ELSE remote.at + 1
    <3>1. remote \in [file : Files, at : Nat, num : 0 .. Modulus - 1, cancelled : BOOLEAN, line : Lines]
      BY <1>1 DEF RemoteInv
    <3> QED BY <1>4, <3>1 DEF RemoteHears
  <2>5. Whole' = Whole /\ Whole \in Nat /\ remote.at \in 1 .. Whole + 4 /\ EndOfFile(remote.file) = Whole + 3
    BY <1>1, <1>2, <2>4, TopIs DEF Whole, EndOfFile
  <2>6. remote.at # Whole + 4
    <3>1. Acknowledged(k)
      BY <1>2 DEF PieceInv
    <3> QED BY <1>1, <2>3, <3>1, CurrentIs DEF Kept
  <2>7. remote'.at = IF remote.cancelled /\ remote.at < Whole + 3 THEN Whole + 3 ELSE remote.at + 1
    BY <2>4, <2>5, <2>6
  <2>8. data = Base(remote.file, Reached(k))
    BY <2>3 DEF Kept
  <2>9. \A i \in 1 .. Len(toBoard) : toBoard[i].bad = "no"
    <3>1. toBoard \in Seq(PacketOf) /\ Len(toBoard) \in Nat /\ Len(toRemote) \in Nat /\ Len(toRemote) # 0
      BY <1>1 DEF QueueInv
    <3>2. remote.line.patient => Len(toBoard) = 0
      BY <1>1, <3>1 DEF QueueInv
    <3> QED BY <1>1, <3>2 DEF QueueInv
  <2>10. \A i \in 1 .. Len(toBoard') : Truncated(toBoard[i])'
    BY <1>1, <2>9 DEF Truncated
  <2>11. Top \in Nat /\ Top' \in Nat /\ Top <= Top'
    <3>1. Top \in Nat /\ Top' \in Nat
      <4>1. \E j \in 0 .. Whole : PieceInv(j)
        BY <1>2
      <4>2. Top \in Nat
        BY <1>1, <4>1, TopIsNat
      <4>3. (RemoteInv /\ (\E j \in 0 .. Whole : PieceInv(j)) => Top \in Nat)'
        BY TopIsNat, PTL
      <4> QED BY <2>2, <4>2, <4>3
    <3>2. CASE remote.at < 3
      <4>1. Top = 0
        BY <1>1, <1>2, <3>2, TopIs
      <4> QED BY <3>1, <4>1
    <3>3. CASE remote.at \in 3 .. Whole + 2
      <4>1. /\ Top = Len(Plain(remote.file, k + 1)) /\ Reached(k) = k + 1 /\ k = remote.at - 3
            /\ k \in 0 .. Whole - 1
        BY <1>1, <1>2, <3>3, TopIs DEF Reached
      <4>2. data.addr = Top
        BY <2>8, <4>1 DEF Base
      <4>3. CASE remote'.at > Whole + 2
        <5>1. Top' = data.addr
          BY <1>1, <2>5, <4>3 DEF Top
        <5> QED BY <3>1, <4>2, <5>1
      <4>4. CASE ~(remote'.at > Whole + 2)
        <5>1. remote'.at = remote.at + 1 /\ remote'.at > 2 /\ remote'.at - 2 = (k + 1) + 1
              /\ k + 1 \in 0 .. Whole - 1
          BY <2>5, <2>7, <3>3, <4>1, <4>4, SMTT(30)
        <5>2. Top' = Len(Plain(remote.file, (k + 1) + 1))
          BY <2>4, <2>5, <4>4, <5>1 DEF Top
        <5>3. Loadable(remote.file) /\ Whole = Len(Pieces[remote.file])
          BY <1>1 DEF RemoteInv, Whole
        <5>4. Len(Plain(remote.file, k + 1)) <= Len(Plain(remote.file, (k + 1) + 1))
          BY <5>1, <5>3, PieceGrows
        <5> QED BY <3>1, <4>1, <5>2, <5>4
      <4> QED BY <4>3, <4>4
    <3>4. CASE remote.at > Whole + 2
      <4>1. Top = data.addr
        BY <3>4 DEF Top
      <4>2. remote'.at > Whole + 2
        BY <2>5, <2>7, <3>4
      <4>3. Top' = data.addr
        BY <1>1, <2>5, <4>2 DEF Top
      <4> QED BY <3>1, <4>1, <4>3
    <3>5. remote.at > Whole + 2 \/ remote.at \in 3 .. Whole + 2 \/ remote.at < 3
      BY <2>5
    <3> QED BY <3>2, <3>3, <3>4, <3>5
  <2>12. e \in Nat
    BY KermitAssumption DEF Memory
  <2> QED BY <1>1, <2>10, <2>11, <2>12 DEF FrameInv
<1> QED BY <1>3, <1>4

\* a packet is taken in
LEMMA FrameReceives ==
  ASSUME NEW e \in Memory, NEW v, FrameInv(e, v), LoadInv, loading = "receiving", toBoard # <<>>,
         toBoard' = Tail(toBoard), UNCHANGED <<loading, remote>>, ram'[e] = ram[e], Top' = Top
  PROVE  FrameInv(e, v)'
<1>1. toBoard \in Seq(PacketOf)
  BY DEF LoadInv, QueueInv
<1>2. \A i \in 1 .. Len(toBoard') : i + 1 \in 1 .. Len(toBoard) /\ toBoard'[i] = toBoard[i + 1]
  BY <1>1, TakenOff
<1>3. Current' = Current
  BY DEF Current
<1> QED BY <1>2, <1>3 DEF FrameInv, Truncated

LEMMA FrameLow ==
  ASSUME NEW e \in Memory, NEW v, FrameInv(e, v), LoadInv, loading = "receiving", toBoard # <<>>,
         toBoard' = Tail(toBoard), UNCHANGED <<loading, remote>>, e <= Top, Top' = Top
  PROVE  FrameInv(e, v)'
<1>1. toBoard \in Seq(PacketOf)
  BY DEF LoadInv, QueueInv
<1>2. \A i \in 1 .. Len(toBoard') : i + 1 \in 1 .. Len(toBoard) /\ toBoard'[i] = toBoard[i + 1]
  BY <1>1, TakenOff
<1>3. Current' = Current
  BY DEF Current
<1> QED BY <1>2, <1>3 DEF FrameInv, Truncated

\* Top, where data.addr does not matter or does not change
LEMMA TopStays ==
  ASSUME RemoteInv, UNCHANGED remote, remote.at > Whole + 2 => data'.addr = data.addr
  PROVE  Top' = Top
BY DEF Top, Whole

LEMMA FrameBadPacket ==
  ASSUME NEW e \in Memory, e > 1, NEW v, FrameInv(e, v), LoadInv, ReceiveBadBody
  PROVE  FrameInv(e, v)'
<1> DEFINE f == remote.file
<1>1. loading = "receiving" /\ toBoard # <<>> /\ RemoteInv /\ QueueInv /\ ram \in [Memory -> Int]
  BY DEF ReceiveBadBody, LoadInv
<1>2. PICK k \in 0 .. Whole : PieceInv(k)
  BY <1>1 DEF LoadInv
<1>3. PICK p : p = Head(toBoard)
  OBVIOUS
<1>4. PICK d : d = Checkpoint(p.n)
  OBVIOUS
<1>5. /\ p.bad = "body" /\ data' = d
      /\ ram' = IF p.type = "D" THEN Stored(p.chars, d).ram ELSE ram
      /\ toBoard' = Tail(toBoard) /\ UNCHANGED <<loading, remote>>
  BY <1>3, <1>4 DEF ReceiveBadBody
<1>6. p \in PacketOf /\ d = Base(f, k) /\ p = toBoard[1] /\ 1 \in 1 .. Len(toBoard)
  <2>1. toBoard \in Seq(PacketOf)
    BY <1>1 DEF QueueInv
  <2> QED BY <1>1, <1>2, <1>3, <1>4, <1>5, <2>1, TakenIn, TakenOff DEF Stale
<1>7. PICK j \in 0 .. Len(Current.chars) : p.chars = SubSeq(Current.chars, 1, j)
  BY <1>1, <1>5, <1>6 DEF FrameInv, Truncated
<1>8. Top' = Top
  <2>1. remote.at > Whole + 2 => data'.addr = data.addr
    BY <1>1, <1>2, <1>5, <1>6, TopIs
  <2> QED BY <1>1, <1>5, <2>1, TopStays
<1>9. /\ Loadable(f) /\ k \in 0 .. Len(Pieces[f]) /\ Holding(ram, Plain(f, k)) /\ Whole = Len(Pieces[f])
  BY <1>1, <1>2 DEF RemoteInv, PieceInv, Whole
<1>10. e \in Nat /\ Top \in Nat
  BY <1>1, <1>2, TopHolds, KermitAssumption DEF Memory
<1>11. CASE e <= Top
  BY <1>1, <1>5, <1>8, <1>11, FrameLow
<1>12. CASE e > Top
  <2>1. ram'[e] = ram[e]
    <3>1. CASE p.type # "D"
      BY <1>5, <3>1
    <3>2. CASE p.type = "D" /\ remote.at \in 3 .. Whole + 2
      <4>1. /\ k \in 0 .. Len(Pieces[f]) - 1 /\ e > Len(Plain(f, k + 1))
            /\ Current.chars = EncodedPiece(Pieces[f][k + 1])
        BY <1>1, <1>2, <1>9, <1>12, <3>2, TopIs
      <4>2. ram' = k_data_chars([ram |-> ram, addr |-> Base(f, k).addr, escape |-> Base(f, k).escape],
                                SubSeq(Current.chars, 1, j)).ram
        BY <1>5, <1>6, <1>7, <3>2 DEF Stored
      <4> HIDE DEF f
      <4> QED BY <1>1, <1>7, <1>9, <4>1, <4>2, PieceReaches
    <3>3. CASE p.type = "D" /\ remote.at \notin 3 .. Whole + 2
      <4>1. /\ Whole \in Nat /\ remote.at \in 1 .. Whole + 4
            /\ remote.at > Whole + 2 => Current.chars = <<>> /\ Top = Len(Plain(f, k))
            /\ remote.at < 3 => k = 0 /\ Current.chars = <<1>>
        BY <1>1, <1>2, TopIs
      <4>2. PICK m : m = [ram |-> ram, addr |-> Base(f, k).addr, escape |-> Base(f, k).escape]
        OBVIOUS
      <4>3. m \in Storage /\ m.ram = ram /\ m.addr = Len(Plain(f, k)) /\ Len(Plain(f, k)) \in Nat
        <5> HIDE DEF f
        <5> QED BY <1>1, <1>9, <4>2, StartMem
      <4>4. p.chars \in Seq(Int)
        BY <1>6 DEF PacketOf
      <4>5. PICK r : r = k_data_chars(m, p.chars)
        OBVIOUS
      <4>6. ram' = r.ram
        BY <1>5, <1>6, <3>3, <4>2, <4>5 DEF Stored
      <4>7. r.addr \in Nat /\ r.addr <= m.addr + Len(p.chars) /\ Below(m, r)
        BY <4>3, <4>4, <4>5, CharsReach
      <4>8. m.addr + Len(p.chars) < e
        <5>1. CASE remote.at > Whole + 2
          <6>1. Len(p.chars) = 0
            BY <1>7, <4>1, <5>1
          <6> QED BY <1>10, <1>12, <4>1, <4>3, <5>1, <6>1
        <5>2. CASE remote.at < 3
          <6>1. Len(p.chars) = j /\ j \in 0 .. 1
            BY <1>7, <4>1, <5>2
          <6>2. Len(Plain(f, k)) = 0
            BY <1>9, <4>1, <5>2, PlainGrows
          <6> QED BY <1>10, <4>3, <6>1, <6>2
        <5> QED BY <3>3, <4>1, <5>1, <5>2
      <4>9. e > r.addr
        <5>1. Len(p.chars) \in Nat
          BY <4>4
        <5>2. PICK a \in Nat, b \in Nat, c \in Nat : a = m.addr /\ b = Len(p.chars) /\ c = r.addr
          BY <4>3, <4>7, <5>1
        <5>3. c <= a + b /\ a + b < e
          BY <4>7, <4>8, <5>2, Zenon
        <5>4. e > c
          BY <1>10, <5>2, <5>3
        <5> QED BY <5>2, <5>4, Zenon
      <4> QED BY <4>3, <4>6, <4>7, <4>9 DEF Below
    <3> QED BY <3>1, <3>2, <3>3
  <2> QED BY <1>1, <1>5, <1>8, <2>1, FrameReceives
<1>13. e <= Top \/ e > Top
  BY <1>10
<1> QED BY <1>11, <1>12, <1>13

LEMMA WholePieceReaches ==
  ASSUME NEW f, Loadable(f), NEW k \in 0 .. Len(Pieces[f]) - 1, NEW mem \in [Memory -> Int],
         Holding(mem, Plain(f, k)), NEW r,
         r = k_data_chars([ram |-> mem, addr |-> Base(f, k).addr, escape |-> Base(f, k).escape],
                          EncodedPiece(Pieces[f][k + 1])),
         NEW e \in Memory, e > Len(Plain(f, k + 1))
  PROVE  r.ram[e] = mem[e]
<1>1. PICK cs : cs = EncodedPiece(Pieces[f][k + 1])
  OBVIOUS
<1>2. cs \in Seq(Int)
  <2>1. QUOTE \in Char /\ Pieces[f][k + 1] \in Seq(Char)
    BY CharAssumption, PlainGrows DEF Char
  <2> QED BY <1>1, <2>1, EncodedAppend
<1>3. SubSeq(cs, 1, Len(cs)) = cs /\ Len(cs) \in 0 .. Len(cs)
  BY <1>2, FirstOnes
<1>4. PICK j \in 0 .. Len(cs) : SubSeq(cs, 1, j) = cs
  BY <1>3
<1>5. r = k_data_chars([ram |-> mem, addr |-> Base(f, k).addr, escape |-> Base(f, k).escape], SubSeq(cs, 1, j))
  BY <1>1, <1>4
<1> QED BY ONLY <1>1, <1>5, PieceReaches, Loadable(f), k \in 0 .. Len(Pieces[f]) - 1, mem \in [Memory -> Int],
             Holding(mem, Plain(f, k)), j \in 0 .. Len(cs), e \in Memory, e > Len(Plain(f, k + 1))

\* what a packet of the sender, or an old one, does to memory beyond Top
LEMMA FrameGoodPacket ==
  ASSUME NEW e \in Memory, NEW v, FrameInv(e, v), LoadInv, ReceiveGood
  PROVE  FrameInv(e, v)'
<1> DEFINE f == remote.file
<1>1. loading = "receiving" /\ toBoard # <<>> /\ RemoteInv /\ QueueInv /\ ram \in [Memory -> Int]
  BY DEF ReceiveGood, LoadInv
<1>2. PICK k \in 0 .. Whole : PieceInv(k)
  BY <1>1 DEF LoadInv
<1>3. PICK p : p = Head(toBoard)
  OBVIOUS
<1>4. PICK d : d = Checkpoint(p.n)
  OBVIOUS
<1>5. PICK m : m = Stored(IF p.type = "D" THEN p.chars ELSE <<>>, d)
  OBVIOUS
<1>6. /\ p.bad = "no" /\ ram' = m.ram /\ data' = DataOf(m)
      /\ loading' = IF p.type = "B" THEN "done" ELSE "receiving"
      /\ toBoard' = Tail(toBoard) /\ remote' = remote
  BY <1>3, <1>4, <1>5 DEF ReceiveGood
<1>7. /\ p \in PacketOf /\ (Fresh(p) \/ (Behind(k) /\ Stale(p, k)))
      /\ Fresh(p) => d = Base(f, k)
  BY <1>1, <1>2, <1>3, <1>4, TakenIn
<1>8. /\ Loadable(f) /\ k \in 0 .. Len(Pieces[f]) /\ Whole = Len(Pieces[f]) /\ Holding(ram, Plain(f, k))
      /\ Len(Plain(f, k)) \in Nat /\ Len(Plain(f, k)) <= Top /\ Top \in Nat /\ e \in Nat
  BY <1>1, <1>2, TopHolds, KermitAssumption DEF RemoteInv, PieceInv, Whole, Memory
<1>9. /\ Whole \in Nat /\ remote.at \in 1 .. Whole + 4
      /\ remote.at > Whole + 2 => data = Base(f, k) /\ Top = Len(Plain(f, k)) /\ Current.type # "D"
      /\ remote.at \in 3 .. Whole + 2 =>
           /\ k \in 0 .. Whole - 1 /\ Top = Len(Plain(f, k + 1))
           /\ Current.type = "D" /\ Current.chars = EncodedPiece(Pieces[f][k + 1])
      /\ remote.at < 3 => Current.type # "D"
  BY <1>1, <1>2, TopIs
\* where the data goes on, and what is untouched
<1>10. /\ e > Top => m.ram[e] = ram[e]
       /\ remote.at > Whole + 2 => DataOf(m) = Base(f, k)
  <2>1. CASE p.type # "D"
    <3>1. m = [ram |-> ram, addr |-> d.addr, escape |-> d.escape]
      BY <1>5, <2>1, NoChars DEF Stored
    <3>2. d = Base(f, k)
      BY <1>4, <1>7, <2>1 DEF Stale, Checkpoint
    <3> HIDE DEF f
    <3> QED BY <3>1, <3>2 DEF DataOf, Base
  <2>2. CASE p.type = "D" /\ Fresh(p)
    <3>1. Current.type = "D" /\ p.chars = Current.chars
      BY <1>6, <2>2 DEF Fresh
    <3>2. remote.at \in 3 .. Whole + 2 /\ ~(remote.at > Whole + 2)
      BY <1>9, <3>1
    <3>3. m = k_data_chars([ram |-> ram, addr |-> Base(f, k).addr, escape |-> Base(f, k).escape], p.chars)
      BY <1>5, <1>7, <2>2 DEF Stored
    <3>4. /\ k \in 0 .. Len(Pieces[f]) - 1 /\ Top = Len(Plain(f, k + 1))
          /\ p.chars = EncodedPiece(Pieces[f][k + 1])
      BY <1>8, <1>9, <3>1, <3>2
    <3> HIDE DEF f
    <3>5. e > Top => m.ram[e] = ram[e]
      BY <1>1, <1>7, <1>8, <3>3, <3>4, WholePieceReaches
    <3> QED BY <3>2, <3>5
  <2>3. CASE p.type = "D" /\ ~Fresh(p)
    <3>1. /\ Stale(p, k) /\ Behind(k) /\ k > 0 /\ p.chars = EncodedPiece(Pieces[f][k]) /\ saved = Base(f, k - 1)
          /\ d = saved
      BY <1>4, <1>7, <2>3 DEF Stale, Checkpoint
    <3>2. k \in 1 .. Len(Pieces[f]) /\ k - 1 \in 0 .. Len(Pieces[f]) - 1 /\ (k - 1) + 1 = k
      BY <1>8, <3>1, PlainGrows
    <3> HIDE DEF f
    <3>3. Holding(ram, Plain(f, k - 1))
      BY <1>8, <3>2, HeldBefore
    <3>4. PICK j : j = k - 1
      OBVIOUS
    <3>5. m = k_data_chars([ram |-> ram, addr |-> Base(f, j).addr, escape |-> Base(f, j).escape],
                           EncodedPiece(Pieces[f][j + 1]))
      BY <1>5, <2>3, <3>1, <3>2, <3>4 DEF Stored
    <3>6. DataOf(m) = Base(f, j + 1)
      BY <1>1, <1>8, <3>2, <3>3, <3>4, <3>5, PieceHeld
    <3>7. e > Len(Plain(f, j + 1)) => m.ram[e] = ram[e]
      BY <1>1, <1>7, <1>8, <3>1, <3>2, <3>3, <3>4, <3>5, WholePieceReaches
    <3>8. e > Top => e > Len(Plain(f, k))
      BY <1>8
    <3> QED BY <3>2, <3>4, <3>6, <3>7, <3>8
  <2> QED BY <2>1, <2>2, <2>3
<1>11. CASE p.type # "B"
  <2>1. remote.at > Whole + 2 => data'.addr = data.addr
    BY <1>6, <1>9, <1>10
  <2>2. Top' = Top /\ UNCHANGED <<loading, remote>>
    BY <1>1, <1>6, <1>11, <2>1, TopStays
  <2>3. e > Top => ram'[e] = ram[e]
    BY <1>6, <1>10
  <2>4. toBoard' = Tail(toBoard)
    BY <1>6
  <2>5. CASE e <= Top
    BY <1>1, <2>2, <2>4, <2>5, FrameLow
  <2>6. CASE e > Top
    BY <1>1, <2>2, <2>3, <2>4, <2>6, FrameReceives
  <2>7. e <= Top \/ e > Top
    BY <1>8
  <2> QED BY <2>5, <2>6, <2>7
<1>12. CASE p.type = "B"
  <2>1. Fresh(p) /\ Current.type = "B"
    BY <1>6, <1>7, <1>12 DEF Stale, Fresh
  <2>2. remote.at > Whole + 2
    <3>1. remote.at = Whole + 4
      BY <1>1, <1>2, <2>1, CurrentIs DEF PieceInv
    <3> QED BY <1>9, <3>1
  <2>3. data'.addr = Top
    BY <1>6, <1>9, <1>10, <2>2 DEF Base
  <2>4. ram'[e] = v => e <= data'.addr
    <3>1. e <= Top \/ e > Top
      BY <1>8
    <3>2. ram[e] = v => e <= Top
      BY <1>1 DEF FrameInv
    <3> QED BY <1>6, <1>10, <2>3, <3>1, <3>2
  <2> QED BY <1>6, <1>12, <2>4 DEF FrameInv
<1> QED BY <1>11, <1>12

(***************************************************************************)
(* Any step of a load.                                                     *)
(***************************************************************************)
LEMMA FrameStep ==
  ASSUME NEW e \in Memory, e > 1, NEW v, FrameInv(e, v), LinesAreGood, LoadInv, LineStep
  PROVE  FrameInv(e, v)'
<1>1. CASE RemoteSends
  BY <1>1, FrameSends
<1>2. CASE RemoteHears
  BY <1>2, FrameHears
<1>3. CASE RemoteCancels
  BY <1>3, FrameCancels
<1>4. CASE LineDamages
  BY <1>4, FrameDamaged
<1>5. CASE LineLosesAnswer
  BY <1>5, FrameKept DEF LineLosesAnswer
<1>6. CASE Receive
  BY <1>6, LengthIsGood, FrameBadPacket, FrameGoodPacket DEF Receive
<1>7. CASE Interrupt
  BY <1>7 DEF Interrupt, FrameInv
<1> QED BY <1>1, <1>2, <1>3, <1>4, <1>5, <1>6, <1>7 DEF LineStep
===============================================================================
