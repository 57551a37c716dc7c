----------------------------- MODULE BooksProofs -----------------------------
(***************************************************************************)
(* Two components that conclude something from the files others appended:  *)
(* Learning (captures.jsonl) and Books (the cycles file and the report of  *)
(* a reconciliation), each proved for all values of its constants.         *)
(***************************************************************************)
EXTENDS Learning, Books, SequenceTheorems, FiniteSetTheorems, WellFoundedInduction,
        TLAPS

-----------------------------------------------------------------------------
(* Induction over the numbers, from the least element of a set. *)
LEMMA Induct ==
  ASSUME NEW S, 0 \in S, \A n \in Nat : n \in S => n + 1 \in S
  PROVE  Nat \subseteq S
<1> DEFINE Less == OpToRel(<, Nat)
           T == Nat \ S
<1>1. IsWellFoundedOn(Less, Nat)
  BY NatLessThanWellFounded
<1>2. \A m, n \in Nat : m < n => <<m, n>> \in Less
  BY DEF OpToRel
<1> HIDE DEF Less
<1> SUFFICES ASSUME T # {} PROVE FALSE
  OBVIOUS
<1>3. PICK m \in T : \A k \in T : ~ (<<k, m>> \in Less)
  <2>1. T \subseteq Nat
    OBVIOUS
  <2> HIDE DEF T
  <2> QED BY <1>1, <2>1, WFMin
<1>4. m # 0 /\ m \in Nat
  BY <1>3
<1>5. m - 1 \in Nat /\ m - 1 < m /\ (m - 1) + 1 = m
  BY <1>4
<1>6. m - 1 \in S
  BY <1>2, <1>3, <1>4, <1>5
<1> QED BY <1>3, <1>5, <1>6

(* What holds of 0 and of each successor up to a bound holds of the bound. *)
LEMMA InductUpTo ==
  ASSUME NEW N \in Nat, NEW S, 0 \in S,
         \A n \in 0 .. N : n < N /\ n \in S => n + 1 \in S
  PROVE  \A n \in 0 .. N : n \in S
<1> DEFINE T == {n \in Nat : n <= N => n \in S}
<1>1. 0 \in T
  OBVIOUS
<1>2. ASSUME NEW n \in Nat, n \in T PROVE n + 1 \in T
  BY <1>2
<1>3. Nat \subseteq T
  <2> HIDE DEF T
  <2> QED BY <1>1, <1>2, Induct
<1> QED BY <1>3

LEMMA Least ==
  ASSUME NEW T \in SUBSET Nat, T # {}
  PROVE  \E m \in T : \A k \in T : m <= k
<1> DEFINE Less == OpToRel(<, Nat)
<1>1. IsWellFoundedOn(Less, Nat)
  BY NatLessThanWellFounded
<1>2. \A m, n \in Nat : m < n => <<m, n>> \in Less
  BY DEF OpToRel
<1> HIDE DEF Less
<1>3. PICK m \in T : \A k \in T : ~ (<<k, m>> \in Less)
  BY <1>1, WFMin
<1>4. ASSUME NEW k \in T PROVE m <= k
  <2>1. k \in Nat /\ m \in Nat /\ ~ (k < m)
    BY <1>2, <1>3
  <2> QED BY <2>1
<1> QED BY <1>3, <1>4

LEMMA Greatest ==
  ASSUME NEW n \in Nat, NEW T \in SUBSET (0 .. n), T # {}
  PROVE  \E m \in T : \A k \in T : k <= m
<1> DEFINE U == {n - k : k \in T}
<1>1. U \in SUBSET Nat /\ U # {}
  <2>1. \A k \in T : n - k \in Nat
    OBVIOUS
  <2>2. \E k \in T : n - k \in U
    OBVIOUS
  <2> QED BY <2>1, <2>2
<1>2. PICK u \in U : \A k \in U : u <= k
  <2> HIDE DEF U
  <2> QED BY <1>1, Least
<1>3. PICK m \in T : u = n - m
  BY <1>2
<1>4. ASSUME NEW k \in T PROVE k <= m
  <2>1. n - k \in U /\ k \in Int /\ m \in Int
    OBVIOUS
  <2>2. n - m <= n - k
    <3> HIDE DEF U
    <3> QED BY <1>2, <1>3, <2>1
  <2> QED BY <2>1, <2>2
<1> QED BY <1>4

(* Each rank of a set of numbers is taken by one of them. *)
LEMMA RankedIs ==
  ASSUME NEW S \in SUBSET Nat, IsFiniteSet(S)
  PROVE  /\ Cardinality(S) \in Nat /\ Len(Ranked(S)) = Cardinality(S)
         /\ DOMAIN Ranked(S) = 1 .. Cardinality(S)
         /\ \A n \in 1 .. Cardinality(S) : Ranked(S)[n] \in S
<1> DEFINE N == Cardinality(S)
           UpTo(x) == {y \in S : y <= x}
           P == {n \in Nat : n < N => \E x \in S : Cardinality(UpTo(x)) = n + 1}
<1>1. N \in Nat
  BY FS_CardinalityType
<1>2. \A x \in S : IsFiniteSet(UpTo(x)) /\ Cardinality(UpTo(x)) \in Nat
  BY FS_Subset, FS_CardinalityType
<1>3. 0 \in P
  <2> SUFFICES ASSUME 0 < N PROVE \E x \in S : Cardinality(UpTo(x)) = 1
    OBVIOUS
  <2>1. S # {}
    BY FS_EmptySet
  <2>2. PICK x \in S : \A y \in S : x <= y
    BY <2>1, Least
  <2>3. UpTo(x) = {x}
    <3>1. \A y \in S : y <= x <=> y = x
      <4>1. \A y \in S : y \in Nat /\ x \in Nat
        OBVIOUS
      <4> QED BY <2>2, <4>1
    <3> QED BY <3>1
  <2> QED BY <2>3, FS_Singleton
<1>4. ASSUME NEW n \in Nat, n \in P PROVE n + 1 \in P
  <2> SUFFICES ASSUME n + 1 < N PROVE \E x \in S : Cardinality(UpTo(x)) = (n + 1) + 1
    OBVIOUS
  <2>1. PICK x \in S : Cardinality(UpTo(x)) = n + 1
    BY <1>1, <1>4
  <2> DEFINE U == S \ UpTo(x)
  <2>2. U # {}
    <3>1. UpTo(x) # S
      <4> HIDE DEF UpTo
      <4> QED BY <1>1, <2>1
    <3> QED BY <3>1
  <2>3. PICK z \in U : \A y \in U : z <= y
    <3>1. U \in SUBSET Nat
      OBVIOUS
    <3> HIDE DEF U
    <3> QED BY <2>2, <3>1, Least
  <2>4. UpTo(z) = UpTo(x) \cup {z} /\ z \in S /\ z \notin UpTo(x)
    <3>1. z \in S /\ ~ (z <= x) /\ z \in Nat /\ x \in Nat
      OBVIOUS
    <3>2. ASSUME NEW y \in S PROVE y <= z <=> y <= x \/ y = z
      <4>1. y \in Nat /\ (y <= x \/ y \in U)
        OBVIOUS
      <4> HIDE DEF U
      <4> QED BY <2>3, <3>1, <4>1
    <3> QED BY <3>1, <3>2
  <2> HIDE DEF UpTo
  <2>5. Cardinality(UpTo(x) \cup {z}) = (n + 1) + 1
    BY <1>2, <2>1, <2>4, FS_AddElement
  <2> QED BY <2>4, <2>5
<1>5. ASSUME NEW n \in 1 .. N PROVE \E x \in S : Cardinality(UpTo(x)) = n
  <2>1. n - 1 \in Nat /\ n - 1 < N /\ (n - 1) + 1 = n
    BY <1>1
  <2>2. n - 1 \in P
    <3> HIDE DEF P
    <3> QED BY <1>3, <1>4, <2>1, Induct
  <2> HIDE DEF UpTo
  <2> QED BY <2>1, <2>2
<1>6. Ranked(S) = [n \in 1 .. N |-> CHOOSE x \in S : Cardinality(UpTo(x)) = n]
  BY DEF Ranked
<1> HIDE DEF UpTo, N
<1>7. \A n \in 1 .. N : (CHOOSE x \in S : Cardinality(UpTo(x)) = n) \in S
  BY <1>5
<1>8. DOMAIN Ranked(S) = 1 .. N /\ \A n \in 1 .. N : Ranked(S)[n] \in S
  BY <1>6, <1>7
<1>9. Len(Ranked(S)) = N
  BY <1>1, <1>6
<1> QED BY <1>1, <1>8, <1>9 DEF N

-----------------------------------------------------------------------------
(* The captures file.  A record is settled when a line end stands on both  *)
(* sides of it: no later write can join anything to it.                    *)
Tokens == Written \cup {Newline, Torn}

Starts(f, i) == i = 1 \/ f[i - 1] = Newline
Settled(f) ==
    {i \in 1 .. Len(f) - 1 : f[i] \notin {Newline, Torn} /\ Starts(f, i) /\ f[i + 1] = Newline}

Unended(f) == f # <<>> /\ f[Len(f)] # Newline

(* A record that is being written alone in its line will be settled; what  *)
(* else stands in an unended line was lost to a stop or a failed write,    *)
(* and takes the next record with it.                                      *)
Spoiled == Unended(file) /\ ~ (trader.writing # <<>> /\ Starts(file, Len(file)))

Captured ==
    /\ file \in Seq(Tokens)
    /\ trader = [up |-> trader.up, seq |-> trader.seq, writing |-> trader.writing,
                 niches |-> trader.niches]
    /\ trader.seq \in Nat /\ done \in Nat /\ faults \in Nat
    /\ ~ trader.up => trader.writing = <<>>
    /\ trader.writing # <<>> => file # <<>> /\ file[Len(file)] \notin {Newline, Torn}
    /\ Cardinality(Settled(file)) + faults >= done + IF Spoiled THEN 1 ELSE 0

LEMMA SettledIs ==
  ASSUME NEW f \in Seq(Tokens)
  PROVE  /\ IsFiniteSet(Settled(f)) /\ Cardinality(Settled(f)) \in Nat
         /\ Len(ReadJsonl(f)) \in Nat /\ Len(ReadJsonl(f)) >= Cardinality(Settled(f))
<1> DEFINE ends == {0} \cup {i \in DOMAIN f : f[i] = Newline}
           alone(i) == /\ f[i] \notin {Newline, Torn}
                       /\ i - 1 \in ends
                       /\ i = Len(f) \/ i + 1 \in ends
           kept == {i \in DOMAIN f : alone(i)}
           read == ReadJsonl(f)
<1>1. Len(f) \in Nat /\ DOMAIN f = 1 .. Len(f)
  BY LenProperties
<1>2. IsFiniteSet(DOMAIN f)
  BY <1>1, FS_Interval
<1>3. IsFiniteSet(kept) /\ Cardinality(kept) \in Nat
  BY <1>2, FS_Subset, FS_CardinalityType
<1>4. Settled(f) \subseteq kept
  <2> SUFFICES ASSUME NEW i \in Settled(f) PROVE i \in kept
    OBVIOUS
  <2>1. /\ i \in 1 .. Len(f) - 1 /\ f[i] \notin {Newline, Torn}
        /\ i = 1 \/ f[i - 1] = Newline
        /\ f[i + 1] = Newline
    BY DEF Settled, Starts
  <2>2. i \in DOMAIN f /\ i + 1 \in DOMAIN f /\ (i = 1 \/ i - 1 \in DOMAIN f)
    BY <1>1, <2>1
  <2>3. i - 1 \in ends /\ i + 1 \in ends
    BY <2>1, <2>2
  <2> QED BY <2>1, <2>2, <2>3
<1>5. IsFiniteSet(Settled(f)) /\ Cardinality(Settled(f)) \in Nat
      /\ Cardinality(Settled(f)) <= Cardinality(kept)
  BY <1>3, <1>4, FS_Subset, FS_CardinalityType
<1>6. Len(read) = Cardinality(kept)
  <2>1. kept \in SUBSET Nat
    BY <1>1
  <2>2. read = [n \in DOMAIN Ranked(kept) |-> f[Ranked(kept)[n]]]
    BY Zenon DEF ReadJsonl
  <2> HIDE DEF kept, read
  <2> QED BY <1>3, <2>1, <2>2, RankedIs
<1> QED BY <1>3, <1>5, <1>6 DEF read

(* What each write does to the settled records. *)
LEMMA SettledAppend ==
  ASSUME NEW f \in Seq(Tokens), NEW t \in Tokens, t # Newline
  PROVE  /\ Append(f, t) \in Seq(Tokens) /\ Settled(Append(f, t)) = Settled(f)
         /\ Unended(Append(f, t))
         /\ Append(f, t)[Len(Append(f, t))] = t
         /\ Starts(Append(f, t), Len(Append(f, t))) <=> ~ Unended(f)
<1> DEFINE g == Append(f, t)
           N == Len(f)
<1>1. /\ N \in Nat /\ g \in Seq(Tokens) /\ Len(g) = N + 1
      /\ \A i \in 1 .. N : g[i] = f[i]
      /\ g[N + 1] = t
  BY AppendProperties, LenProperties
<1>2. f # <<>> <=> N > 0
  BY <1>1, EmptySeq
<1> HIDE DEF g, N
<1>3. ASSUME NEW i \in 1 .. N
      PROVE  i \in Settled(g) <=> i \in 1 .. N - 1 /\ i \in Settled(f)
  <2>1. i \in 1 .. Len(g) - 1 /\ g[i] = f[i] /\ (i # 1 => i - 1 \in 1 .. N /\ g[i - 1] = f[i - 1])
    BY <1>1
  <2>2. CASE i = N
    <3>1. g[i + 1] = t
      BY <1>1, <2>2
    <3> QED BY <1>1, <2>2, <3>1 DEF Settled
  <2>3. CASE i # N
    <3>1. i + 1 \in 1 .. N /\ g[i + 1] = f[i + 1] /\ i \in 1 .. N - 1
      BY <1>1, <2>3
    <3> QED BY <2>1, <3>1 DEF Settled, Starts, N
  <2> QED BY <2>2, <2>3
<1>4. Settled(f) \subseteq 1 .. N - 1 /\ Settled(g) \subseteq 1 .. N
  BY <1>1 DEF Settled, N
<1>5. Settled(g) = Settled(f)
  <2>1. 1 .. N - 1 \subseteq 1 .. N
    BY <1>1
  <2>2. \A i \in 1 .. N : i \in Settled(g) <=> i \in 1 .. N - 1 /\ i \in Settled(f)
    BY <1>3
  <2> QED BY <1>4, <2>1, <2>2, Zenon
<1>6. Unended(g)
  BY <1>1, EmptySeq DEF Unended
<1>7. Starts(g, N + 1) <=> ~ Unended(f)
  <2>1. CASE N = 0
    BY <1>1, <1>2, <2>1 DEF Starts, Unended
  <2>2. CASE N # 0
    <3>1. N + 1 # 1 /\ (N + 1) - 1 = N /\ N \in 1 .. N
      BY <1>1, <2>2
    <3>2. g[N] = f[N] /\ f # <<>>
      BY <1>1, <1>2, <2>2, <3>1
    <3> QED BY <3>1, <3>2 DEF Starts, Unended, N
  <2> QED BY <2>1, <2>2
<1> QED BY <1>1, <1>5, <1>6, <1>7 DEF g

LEMMA SettledEnd ==
  ASSUME NEW f \in Seq(Tokens), f # <<>>, f[Len(f)] \notin {Newline, Torn}
  PROVE  /\ Append(f, Newline) \in Seq(Tokens) /\ ~ Unended(Append(f, Newline))
         /\ Cardinality(Settled(Append(f, Newline)))
              = Cardinality(Settled(f)) + IF Starts(f, Len(f)) THEN 1 ELSE 0
<1> DEFINE g == Append(f, Newline)
           N == Len(f)
<1>0. Newline \in Tokens
  BY DEF Tokens
<1>1. /\ N \in Nat \ {0} /\ g \in Seq(Tokens) /\ Len(g) = N + 1
      /\ \A i \in 1 .. N : g[i] = f[i]
      /\ g[N + 1] = Newline /\ f[N] \notin {Newline, Torn}
  BY <1>0, AppendProperties, LenProperties, EmptySeq
<1> HIDE DEF g, N
<1>2. ASSUME NEW i \in 1 .. N - 1 PROVE i \in Settled(g) <=> i \in Settled(f)
  <2>1. /\ i \in 1 .. Len(g) - 1 /\ g[i] = f[i] /\ (i # 1 => i - 1 \in 1 .. N /\ g[i - 1] = f[i - 1])
        /\ g[i + 1] = f[i + 1]
    BY <1>1
  <2> QED BY <2>1 DEF Settled, Starts, N
<1>3. N \in Settled(g) <=> Starts(f, N)
  <2>1. N \in 1 .. Len(g) - 1 /\ g[N] = f[N] /\ f[N] \notin {Newline, Torn}
        /\ (N # 1 => N - 1 \in 1 .. N /\ g[N - 1] = f[N - 1])
    BY <1>1
  <2> QED BY <1>1, <2>1 DEF Settled, Starts
<1>4. Settled(f) \subseteq 1 .. N - 1 /\ Settled(g) \subseteq 1 .. N
  BY <1>1 DEF Settled, N
<1>5. Settled(g) = IF Starts(f, N) THEN Settled(f) \cup {N} ELSE Settled(f)
  <2>1. \A i \in 1 .. N : i = N \/ i \in 1 .. N - 1
    BY <1>1
  <2>2. N \in 1 .. N /\ 1 .. N - 1 \subseteq 1 .. N
    BY <1>1
  <2>3. \A i \in 1 .. N - 1 : i \in Settled(g) <=> i \in Settled(f)
    BY <1>2
  <2>4. CASE Starts(f, N)
    <3>1. Settled(g) = Settled(f) \cup {N}
      BY <1>3, <1>4, <2>1, <2>2, <2>3, <2>4, Zenon
    <3> QED BY <2>4, <3>1
  <2>5. CASE ~ Starts(f, N)
    <3>1. Settled(g) = Settled(f)
      BY <1>3, <1>4, <2>1, <2>2, <2>3, <2>5, Zenon
    <3> QED BY <2>5, <3>1
  <2> QED BY <2>4, <2>5
<1>6. N \notin Settled(f)
  BY <1>1, <1>4
<1>7. IsFiniteSet(Settled(f)) /\ Cardinality(Settled(f)) \in Nat
  BY SettledIs
<1>8. CASE Starts(f, N)
  <2>1. Cardinality(Settled(f) \cup {N}) = Cardinality(Settled(f)) + 1
    BY <1>6, <1>7, FS_AddElement
  <2> QED BY <1>1, <1>5, <1>8, <2>1 DEF g, N, Unended
<1>9. CASE ~ Starts(f, N)
  BY <1>1, <1>5, <1>7, <1>9 DEF g, N, Unended
<1> QED BY <1>8, <1>9

LEMMA SettledTorn ==
  ASSUME NEW f \in Seq(Tokens), f # <<>>, f[Len(f)] \notin {Newline, Torn}
  PROVE  LET g == [f EXCEPT ![Len(f)] = Torn]
         IN  g \in Seq(Tokens) /\ Settled(g) = Settled(f) /\ Unended(g) /\ Unended(f)
<1> DEFINE g == [f EXCEPT ![Len(f)] = Torn]
           N == Len(f)
<1>0. Torn \in Tokens
  BY DEF Tokens
<1>1. N \in Nat \ {0} /\ N \in 1 .. N /\ f \in [1 .. N -> Tokens]
  BY LenProperties, EmptySeq
<1>2. /\ g \in [1 .. N -> Tokens] /\ g[N] = Torn
      /\ \A i \in 1 .. N : i # N => g[i] = f[i]
  BY <1>0, <1>1
<1>3. g \in Seq(Tokens) /\ Len(g) = N
  <2> HIDE DEF g, N
  <2> QED BY <1>1, <1>2
<1>4. f[N] \notin {Newline, Torn} /\ Newline # Torn
  BY LearningAssumption
<1> HIDE DEF g, N
<1>5. ASSUME NEW i \in 1 .. N - 1 PROVE i \in Settled(g) <=> i \in Settled(f)
  <2>1. g[i] = f[i] /\ (i # 1 => g[i - 1] = f[i - 1])
    BY <1>1, <1>2
  <2>2. g[i + 1] = Newline <=> f[i + 1] = Newline
    <3>1. CASE i + 1 = N
      BY <1>2, <1>4, <3>1
    <3>2. CASE i + 1 # N
      BY <1>1, <1>2, <3>2
    <3> QED BY <3>1, <3>2
  <2> QED BY <1>3, <2>1, <2>2 DEF Settled, Starts, N
<1>6. Settled(f) \subseteq 1 .. N - 1 /\ Settled(g) \subseteq 1 .. N - 1
  BY <1>3 DEF Settled, N
<1>7. Settled(g) = Settled(f)
  BY <1>5, <1>6
<1>8. Unended(g) /\ Unended(f)
  BY <1>1, <1>2, <1>3, <1>4, EmptySeq DEF Unended, N
<1> QED BY <1>3, <1>7, <1>8 DEF g, N

LEMMA CapturedStep == Captured /\ [LearningNext]_learningVars => Captured'
<1> SUFFICES ASSUME Captured, [LearningNext]_learningVars PROVE Captured'
  OBVIOUS
<1> DEFINE K == Cardinality(Settled(file))
           Rest == UNCHANGED <<reports, ledger, niches, fitted>>
<1>1. file \in Seq(Tokens) /\ K \in Nat /\ done \in Nat /\ faults \in Nat
  BY SettledIs DEF Captured
<1>2. ASSUME UNCHANGED <<file, trader, done, faults>> PROVE Captured'
  BY <1>2 DEF Captured, Spoiled
<1>3. ASSUME UNCHANGED <<file, done, faults>>, trader.writing = <<>>, trader'.writing = <<>>,
             trader'.seq \in Nat,
             trader' = [up |-> trader'.up, seq |-> trader'.seq, writing |-> trader'.writing,
                        niches |-> trader'.niches]
      PROVE  Captured'
  BY <1>3 DEF Captured, Spoiled
<1>4. CASE Start
  <2>1. trader.writing = <<>>
    BY <1>4 DEF Start, Captured
  <2> QED BY <1>3, <1>4, <2>1 DEF Start
<1>5. ASSUME NEW d, NEW s, Refuse(d, s) \/ Lose(d, s) PROVE Captured'
  <2>1. /\ UNCHANGED <<file, done, faults>> /\ trader.writing = <<>>
        /\ trader' = [trader EXCEPT !.seq = @ + 1]
    BY <1>5 DEF Refuse, Lose
  <2>2. trader.seq \in Nat /\ trader = [up |-> trader.up, seq |-> trader.seq,
             writing |-> trader.writing, niches |-> trader.niches]
    BY DEF Captured
  <2>3. trader' = [up |-> trader.up, seq |-> trader.seq + 1,
             writing |-> trader.writing, niches |-> trader.niches]
    BY <2>1, <2>2
  <2> QED BY <1>3, <2>1, <2>2, <2>3
<1>6. ASSUME NEW d \in Dexes, NEW s \in Sizes, NEW h \in Hours, NEW o \in Outs,
             NEW t \in Tips, Land(d, s, h, o, t)
      PROVE  Captured'
  <2> DEFINE c == Capture(Ticks, trader.seq + 1, d, s, h, o, t)
  <2>1. /\ trader.up /\ trader.writing = <<>> /\ Ticks < MaxCaptures
        /\ trader.seq < MaxCaptures
        /\ trader' = [trader EXCEPT !.seq = @ + 1, !.writing = <<c>>]
        /\ file' = Append(file, c) /\ UNCHANGED <<done, faults>>
    BY <1>6 DEF Land
  <2>2. Ticks \in Nat
    <3>1. IsFiniteSet(DOMAIN file)
      BY <1>1, FS_Interval, LenProperties
    <3>2. Cardinality({i \in DOMAIN file : file[i] \notin {Newline, Torn}}) \in Nat
      BY <3>1, FS_Subset, FS_CardinalityType
    <3> QED BY <3>2 DEF Ticks
  <2>3. c \in Written
    <3>1. Ticks \in 0 .. MaxCaptures /\ trader.seq + 1 \in 0 .. MaxCaptures
      BY LearningAssumption, <2>1, <2>2 DEF Captured
    <3> QED BY <3>1 DEF Written
  <2>4. c \in Tokens /\ c \notin {Newline, Torn}
    BY LearningAssumption, <2>3 DEF Tokens
  <2> HIDE DEF c
  <2>5. /\ file' \in Seq(Tokens) /\ Settled(file') = Settled(file) /\ Unended(file')
        /\ file'[Len(file')] = c /\ (Starts(file', Len(file')) <=> ~ Unended(file))
    BY <1>1, <2>1, <2>4, SettledAppend
  <2>6. trader' = [up |-> trader.up, seq |-> trader.seq + 1, writing |-> <<c>>,
                   niches |-> trader.niches]
    BY <2>1 DEF Captured
  <2>7. file' # <<>>
    BY <2>5 DEF Unended
  <2>8. Spoiled' <=> Spoiled
    BY <2>1, <2>5, <2>6 DEF Spoiled
  <2>9. Cardinality(Settled(file')) + faults' >= done' + IF Spoiled' THEN 1 ELSE 0
    <3>1. K + faults >= done + IF Spoiled THEN 1 ELSE 0
      BY DEF Captured
    <3> HIDE DEF Spoiled
    <3> QED BY <2>1, <2>5, <2>8, <3>1
  <2>10. trader.seq + 1 \in Nat
    BY DEF Captured
  <2> QED BY <1>1, <2>1, <2>4, <2>5, <2>6, <2>7, <2>9, <2>10 DEF Captured
<1>7. CASE EndLine
  <2>1. /\ trader.writing # <<>> /\ file' = Append(file, Newline) /\ done' = done + 1
        /\ trader' = [trader EXCEPT !.writing = <<>>] /\ faults' = faults
    BY <1>7 DEF EndLine
  <2>2. file # <<>> /\ file[Len(file)] \notin {Newline, Torn}
    BY <2>1 DEF Captured
  <2>3. /\ file' \in Seq(Tokens) /\ ~ Unended(file')
        /\ Cardinality(Settled(file')) = K + IF Starts(file, Len(file)) THEN 1 ELSE 0
    BY <1>1, <2>1, <2>2, SettledEnd
  <2>4. trader' = [up |-> trader.up, seq |-> trader.seq, writing |-> <<>>,
                   niches |-> trader.niches]
    BY <2>1 DEF Captured
  <2>5. Spoiled <=> ~ Starts(file, Len(file))
    BY <2>1, <2>2 DEF Spoiled, Unended
  <2>6. ~ Spoiled'
    BY <2>3 DEF Spoiled
  <2>7. K + faults >= done + IF Spoiled THEN 1 ELSE 0
    BY DEF Captured
  <2> DEFINE S == Spoiled
             A == Starts(file, Len(file))
             M == Cardinality(Settled(file'))
  <2>8. M + faults' >= done' + 0
    <3> HIDE DEF K, S, A, M
    <3>1. CASE A
      <4>1. M = K + 1 /\ K + faults >= done + 0
        BY <2>3, <2>5, <2>7, <3>1 DEF M, A, S
      <4> QED BY <1>1, <2>1, <4>1
    <3>2. CASE ~ A
      <4>1. M = K /\ K + faults >= done + 1
        BY <1>1, <2>3, <2>5, <2>7, <3>2 DEF M, A, S
      <4> QED BY <1>1, <2>1, <4>1
    <3> QED BY <3>1, <3>2
  <2> QED BY SMTT(30), <1>1, <2>1, <2>3, <2>4, <2>6, <2>8 DEF Captured
<1>8. ASSUME NEW torn, trader.writing # <<>>, faults' = faults + 1, done' = done,
             file' = IF torn THEN [file EXCEPT ![Len(file)] = Torn] ELSE file,
             trader'.writing = <<>>, trader'.seq \in Nat,
             trader' = [up |-> trader'.up, seq |-> trader'.seq, writing |-> trader'.writing,
                        niches |-> trader'.niches]
      PROVE  Captured'
  <2>1. file # <<>> /\ file[Len(file)] \notin {Newline, Torn}
    BY <1>8 DEF Captured
  <2>2. file' \in Seq(Tokens) /\ Settled(file') = Settled(file)
    BY <1>1, <1>8, <2>1, SettledTorn
  <2>3. K + faults >= done
    BY <1>1 DEF Captured
  <2>4. Cardinality(Settled(file')) + faults' >= done' + IF Spoiled' THEN 1 ELSE 0
    BY <1>1, <1>8, <2>2, <2>3
  <2> QED BY <1>1, <1>8, <2>2, <2>4 DEF Captured
<1>9. ASSUME NEW torn, FailWrite(torn) PROVE Captured'
  <2>1. trader' = [up |-> trader.up, seq |-> trader.seq, writing |-> <<>>,
                   niches |-> trader.niches]
    BY <1>9 DEF FailWrite, Captured
  <2> QED BY <1>8, <1>9, <2>1 DEF FailWrite, Captured
<1>10. ASSUME NEW torn, Stop(torn) PROVE Captured'
  <2>1. trader' = [up |-> FALSE, seq |-> 0, writing |-> <<>>, niches |-> NoNiches] /\ done' = done
    BY <1>10 DEF Stop, Down
  <2>2. CASE trader.writing # <<>>
    BY <1>8, <1>10, <2>1, <2>2 DEF Stop
  <2>3. CASE trader.writing = <<>>
    BY <1>3, <1>10, <2>1, <2>3 DEF Stop
  <2> QED BY <2>2, <2>3
<1>11. ASSUME NEW a, NEW b, NEW x, NEW y,
              \/ Niches(a) \/ DailyReport(a, b) \/ CalibrateCaptures(a, x, y)
              \/ EmitReconciliation(a) \/ CalibrateFrom(x, y)
       PROVE  Captured'
  BY <1>2, <1>11 DEF Niches, DailyReport, CalibrateCaptures, EmitReconciliation, CalibrateFrom
<1>12. CASE UNCHANGED learningVars
  BY <1>2, <1>12 DEF learningVars
<1> QED
  BY <1>4, <1>5, <1>6, <1>7, <1>9, <1>10, <1>11, <1>12 DEF LearningNext

LEMMA CapturedAtFirst == LearningInit => Captured
<1> SUFFICES ASSUME LearningInit PROVE Captured
  OBVIOUS
<1>1. /\ file = <<>> /\ done = 0 /\ faults = 0
      /\ trader = [up |-> FALSE, seq |-> 0, writing |-> <<>>, niches |-> NoNiches]
  BY DEF LearningInit, Down
<1>2. file \in Seq(Tokens)
  BY <1>1
<1>3. Cardinality(Settled(file)) \in Nat /\ ~ Spoiled
  BY <1>1, <1>2, SettledIs DEF Spoiled, Unended
<1> QED BY <1>1, <1>2, <1>3 DEF Captured

(* For any bounds on captures, stops and failed writes, and any order of   *)
(* them: each stop or failed write in the middle of a record costs at most *)
(* one finished capture, so the reader of captures.jsonl returns the       *)
(* others (dl-calibration JsonlCaptures record, read_jsonl).               *)
THEOREM CapturesAreKept == LearningSpec => []CapturesSurvive
<1>1. LearningInit => Captured
  BY CapturedAtFirst
<1>2. Captured /\ [LearningNext]_learningVars => Captured'
  BY CapturedStep
<1>3. Captured => CapturesSurvive
  <2> SUFFICES ASSUME Captured PROVE CapturesSurvive
    OBVIOUS
  <2> DEFINE K == Cardinality(Settled(file))
             R == Len(ReadJsonl(file))
  <2>1. K \in Nat /\ R \in Nat /\ R >= K
    BY SettledIs DEF Captured
  <2>2. K + faults >= done /\ faults \in Nat /\ done \in Nat
    BY <2>1 DEF Captured
  <2>3. CapturesSurvive <=> R + faults >= done
    BY DEF CapturesSurvive, Captures
  <2> HIDE DEF K, R
  <2>4. R + faults >= done
    BY <2>1, <2>2
  <2> QED BY <2>3, <2>4
<1> QED BY <1>1, <1>2, <1>3, PTL DEF LearningSpec

-----------------------------------------------------------------------------
(* What is concluded from the captures.  The reader returns records that   *)
(* were written, and each row of a report is the latest record of a cycle, *)
(* so its gain is the tip.                                                 *)
Alone(f) ==
    LET ends == {0} \cup {i \in DOMAIN f : f[i] = Newline}
        alone(i) == /\ f[i] \notin {Newline, Torn}
                    /\ i - 1 \in ends
                    /\ i = Len(f) \/ i + 1 \in ends
    IN  {i \in DOMAIN f : alone(i)}

LEMMA ReadIsWritten == ASSUME NEW f \in Seq(Tokens) PROVE ReadJsonl(f) \in Seq(Written)
<1> DEFINE K == Alone(f)
           N == Cardinality(K)
<1>1. Len(f) \in Nat /\ DOMAIN f = 1 .. Len(f)
  BY LenProperties
<1>2. /\ K \in SUBSET Nat /\ K \subseteq DOMAIN f /\ \A i \in K : f[i] \in Written
  <2>1. \A i \in DOMAIN f : f[i] \in Tokens
    BY ElementOfSeq, <1>1
  <2> QED BY <1>1, <2>1 DEF Alone, Tokens
<1>3. IsFiniteSet(K)
  <2>1. IsFiniteSet(DOMAIN f)
    BY <1>1, FS_Interval
  <2> QED BY <1>2, <2>1, FS_Subset
<1>4. ReadJsonl(f) = [n \in DOMAIN Ranked(K) |-> f[Ranked(K)[n]]]
  BY Zenon DEF ReadJsonl, Alone
<1> HIDE DEF K
<1>5. N \in Nat /\ DOMAIN Ranked(K) = 1 .. N /\ \A n \in 1 .. N : Ranked(K)[n] \in K
  BY <1>2, <1>3, RankedIs
<1> HIDE DEF N
<1>6. ReadJsonl(f) \in [1 .. N -> Written]
  BY <1>2, <1>4, <1>5
<1> QED BY <1>5, <1>6

LEMMA WrittenIs ==
  ASSUME NEW w \in Written
  PROVE  /\ w.ts \in 0 .. MaxCaptures /\ w.seq \in 0 .. MaxCaptures /\ w.realized \in Tips
BY DEF Written, Capture

LEMMA LatestIs ==
  ASSUME NEW c \in Seq(Written), NEW q, \E i \in DOMAIN c : c[i].seq = q
  PROVE  \E i \in DOMAIN c : Latest(c, q) = c[i]
<1> DEFINE N == Len(c)
           same == {i \in DOMAIN c : c[i].seq = q}
           times == {c[i].ts : i \in same}
           Last1(i) == \A j \in same : \/ c[j].ts < c[i].ts
                                       \/ c[j].ts = c[i].ts /\ j <= i
<1>1. N \in Nat /\ DOMAIN c = 1 .. N /\ MaxCaptures \in Nat
  BY LenProperties, LearningAssumption
<1>2. \A i \in same : c[i].ts \in 0 .. MaxCaptures /\ i \in 0 .. N
  BY <1>1, ElementOfSeq, WrittenIs
<1>3. same # {}
  OBVIOUS
<1>4. \A i \in same : i \in DOMAIN c
  OBVIOUS
<1>5. Latest(c, q) = c[CHOOSE i \in same : Last1(i)]
  BY Zenon DEF Latest
<1> HIDE DEF same
<1>6. PICK s \in times : \A x \in times : x <= s
  <2>1. times \in SUBSET (0 .. MaxCaptures) /\ times # {}
    BY <1>2, <1>3
  <2> HIDE DEF times
  <2> QED BY <1>1, <2>1, Greatest
<1> DEFINE final == {i \in same : c[i].ts = s}
<1>7. PICK m \in final : \A x \in final : x <= m
  <2>1. final \in SUBSET (0 .. N) /\ final # {}
    BY <1>2, <1>6
  <2> HIDE DEF final
  <2> QED BY <1>1, <2>1, Greatest
<1>8. m \in same /\ Last1(m)
  <2>1. ASSUME NEW j \in same PROVE c[j].ts < c[m].ts \/ (c[j].ts = c[m].ts /\ j <= m)
    <3>1. c[j].ts \in times /\ c[m].ts = s
      OBVIOUS
    <3>2. c[j].ts <= s /\ c[j].ts \in Int /\ s \in Int
      BY <1>2, <1>6, <3>1
    <3>3. CASE c[j].ts = s
      BY <1>7, <3>1, <3>3
    <3> QED BY <3>1, <3>2, <3>3
  <2> QED BY <2>1
<1>9. (CHOOSE i \in same : Last1(i)) \in same
  <2> HIDE DEF Last1
  <2> QED BY <1>8, Zenon
<1> QED BY <1>4, <1>5, <1>9

LEMMA RowIs == ASSUME NEW c PROVE Row(c).realized = c.realized
<1> DEFINE p == SumOf(c.outs, LAMBDA o : o - c.input)
<1>1. Row(c) = [seq |-> c.seq, slot |-> c.slot, dex |-> c.dex, size |-> c.size, hour |-> c.hour,
                predicted |-> p, realized |-> c.realized, delta |-> c.realized - p,
                tip |-> IF c.realized > 0 THEN c.realized ELSE 0]
  BY Zenon DEF Row
<1> HIDE DEF p
<1> QED BY <1>1

(* The rows of a report. *)
LEMMA ReconcileIs ==
  ASSUME NEW c \in Seq(Written)
  PROVE  \E n \in Nat : /\ DOMAIN Reconcile(c) = 1 .. n
                        /\ \A i \in 1 .. n : Reconcile(c)[i].realized \in Tips
<1> DEFINE seqs == {c[i].seq : i \in DOMAIN c}
           order == Ranked(seqs)
           N == Cardinality(seqs)
<1>1. \A i \in DOMAIN c : c[i] \in Written /\ c[i].seq \in 0 .. MaxCaptures
  BY ElementOfSeq, LenProperties, WrittenIs
<1>2. seqs \in SUBSET (0 .. MaxCaptures) /\ seqs \in SUBSET Nat
  BY <1>1
<1>3. IsFiniteSet(seqs)
  <2>1. IsFiniteSet(0 .. MaxCaptures)
    BY LearningAssumption, FS_Interval
  <2> HIDE DEF seqs
  <2> QED BY <1>2, <2>1, FS_Subset
<1>4. \A q \in seqs : \E i \in DOMAIN c : c[i].seq = q
  OBVIOUS
<1>5. Reconcile(c) = [n \in DOMAIN order |-> Row(Latest(c, order[n]))]
  BY Zenon DEF Reconcile
<1> HIDE DEF seqs
<1>6. N \in Nat /\ DOMAIN order = 1 .. N /\ \A n \in 1 .. N : order[n] \in seqs
  BY <1>2, <1>3, RankedIs
<1> HIDE DEF order, N
<1>7. ASSUME NEW n \in 1 .. N PROVE Reconcile(c)[n].realized \in Tips
  <2>1. PICK i \in DOMAIN c : Latest(c, order[n]) = c[i]
    BY <1>4, <1>6, LatestIs
  <2>2. Latest(c, order[n]).realized \in Tips
    BY <1>1, <2>1, WrittenIs
  <2>3. Reconcile(c)[n] = Row(Latest(c, order[n]))
    BY <1>5, <1>6
  <2> HIDE DEF order
  <2> QED BY <2>2, <2>3, RowIs
<1> QED BY <1>5, <1>6, <1>7

(* A smoothed ratio of a part is below one. *)
LEMMA RatioIs ==
  ASSUME NEW p \in Nat, NEW q \in Nat, p <= q
  PROVE  RatioToProb(p + 1, q + 2) < ProbOne
<1> DEFINE d == q + 2
           x == (p + 1) * ProbOne
           r == x \div d
<1>1. ProbOne \in Nat \ {0, 1}
  BY LearningAssumption
<1>2. x \in Nat /\ d \in Nat \ {0}
  BY <1>1
<1>3. x < ProbOne * d
  <2>1. (p + 1) * ProbOne <= (q + 1) * ProbOne
    BY <1>1
  <2>2. ProbOne * (q + 2) = (q + 1) * ProbOne + ProbOne
    BY <1>1
  <2>3. (p + 1) * ProbOne \in Int /\ (q + 1) * ProbOne \in Int /\ ProbOne * (q + 2) \in Int
    BY <1>1
  <2> DEFINE u == (p + 1) * ProbOne
             v == (q + 1) * ProbOne
             w == ProbOne * (q + 2)
  <2> HIDE DEF u, v, w
  <2>4. u <= v /\ w = v + ProbOne /\ u \in Int /\ v \in Int /\ w \in Int
    BY <2>1, <2>2, <2>3 DEF u, v, w
  <2>5. u < w
    BY <1>1, <2>4
  <2> QED BY <2>5 DEF u, w
<1>4. RatioToProb(p + 1, q + 2) = IF r > ProbOne THEN ProbOne ELSE r
  BY DEF RatioToProb
<1> HIDE DEF x, d
<1>5. r \in Nat /\ r * d <= x
  BY <1>2
<1> HIDE DEF r
<1>6. r < ProbOne
  <2> SUFFICES ASSUME r >= ProbOne PROVE FALSE
    BY <1>1, <1>5
  <2>1. r * d >= ProbOne * d
    BY <1>1, <1>2, <1>5
  <2>2. r * d \in Int /\ ProbOne * d \in Int
    BY <1>1, <1>2, <1>5
  <2> DEFINE u == r * d
             v == ProbOne * d
  <2>3. u >= v /\ u <= x /\ x < v /\ u \in Int /\ v \in Int
    BY <1>3, <1>5, <2>1, <2>2
  <2> HIDE DEF u, v
  <2> QED BY <1>2, <2>3
<1> QED BY <1>1, <1>4, <1>5, <1>6

(* Some of the captures, never more than all, realized something. *)
LEMMA FitIs ==
  ASSUME NEW S, NEW c \in Seq(S)
  PROVE  Fit(c).detect < ProbOne
<1> DEFINE R == {i \in DOMAIN c : c[i].realized # 0}
           r == Cardinality(R)
           n == Len(c)
<1>1. IsFiniteSet(1 .. n) /\ Cardinality(1 .. n) = n /\ n \in Nat /\ DOMAIN c = 1 .. n
  BY FS_Interval, LenProperties
<1>2. R \in SUBSET (1 .. n)
  BY <1>1
<1>3. Fit(c).detect = RatioToProb(r + 1, n + 2)
  BY DEF Fit
<1> HIDE DEF R
<1>4. IsFiniteSet(R) /\ Cardinality(R) <= Cardinality(1 .. n)
  BY <1>1, <1>2, FS_Subset, Zenon
<1>5. r \in Nat /\ r <= n
  BY <1>1, <1>4, FS_CardinalityType
<1> HIDE DEF r, n
<1> QED BY <1>1, <1>3, <1>5, RatioIs

(* The rows that speak for a class: no report is ever taken back. *)
Reports ==
    {Torn} \cup {[rows |-> Reconcile(c), first_seen |-> f] : c \in Seq(Written), f \in FirstSeens}

Places == UNION {{<<r, i>> : i \in DOMAIN reports[r].rows} :
                    r \in {q \in DOMAIN reports : reports[q] # Torn}}

Enough(c) ==
    /\ Cardinality(Samples(c)) >= MinSamples
    /\ \E p \in Samples(c) : reports[p[1]].rows[p[2]].realized > 0

Backed(classes) == \A c \in classes : Enough(c)

LEMMA SamplesAre == \A c : Samples(c) = {p \in Places :
        Class(reports[p[1]].rows[p[2]], reports[p[1]].first_seen) = c}
BY DEF Samples, Places

LEMMA PlaceIs ==
  ASSUME NEW p
  PROVE  p \in Places <=>
           \E r \in DOMAIN reports : /\ reports[r] # Torn
                                     /\ \E i \in DOMAIN reports[r].rows : p = <<r, i>>
BY DEF Places

LEMMA ReportIs ==
  ASSUME NEW t \in Reports, t # Torn
  PROVE  \E n \in Nat : /\ DOMAIN t.rows = 1 .. n
                        /\ \A i \in 1 .. n : t.rows[i].realized \in Tips
<1>1. PICK c \in Seq(Written), f \in FirstSeens : t = [rows |-> Reconcile(c), first_seen |-> f]
  BY DEF Reports
<1>2. t.rows = Reconcile(c)
  BY <1>1
<1> QED BY <1>2, ReconcileIs

LEMMA MaxIs ==
  ASSUME NEW n \in Nat, NEW T \in SUBSET (1 .. n), T # {}
  PROVE  Max(T) \in T /\ \A y \in T : Max(T) >= y
<1>1. T \in SUBSET (0 .. n)
  OBVIOUS
<1>2. PICK m \in T : \A k \in T : k <= m
  BY <1>1, Greatest
<1>3. \A k \in T : m >= k
  BY <1>1, <1>2
<1> QED BY <1>2, <1>3, Zenon DEF Max

LEMMA MaxOfFirst ==
  ASSUME NEW n \in Nat, NEW i \in 1 .. n
  PROVE  /\ 1 .. i \in SUBSET (1 .. n) /\ 1 .. i # {} /\ Max(1 .. i) = i
         /\ (1 .. i) \ {Max(1 .. i)} = 1 .. (i - 1) /\ i - 1 \in Nat
<1>1. i \in 1 .. i /\ \A y \in 1 .. i : y \in 1 .. n
  OBVIOUS
<1>2. Max(1 .. i) \in 1 .. i /\ \A y \in 1 .. i : Max(1 .. i) >= y
  BY <1>1, MaxIs
<1>3. Max(1 .. i) = i
  BY <1>1, <1>2
<1>4. (1 .. i) \ {i} = 1 .. (i - 1) /\ i - 1 \in Nat
  OBVIOUS
<1> QED BY <1>1, <1>3, <1>4

(* Rows that all gained nothing add up to nothing. *)
Gained(p) == reports[p[1]].rows[p[2]].realized
GainOf(S) == SumOf(SetToSeq(S), LAMBDA p : reports[p[1]].rows[p[2]].realized)

LEMMA NothingGained ==
  ASSUME NEW S, IsFiniteSet(S), \A p \in S : Gained(p) = 0
  PROVE  GainOf(S) = 0
<1> DEFINE s == SetToSeq(S)
           N == Cardinality(S)
           Body(g, T) == IF T = {} THEN 0 ELSE g[T \ {Max(T)}] + Gained(s[Max(T)])
           c == CHOOSE g : g = [T \in SUBSET (DOMAIN s) |-> Body(g, T)]
           zero == [T \in SUBSET (1 .. N) |-> 0]
<1>1. N \in Nat /\ DOMAIN s = 1 .. N /\ \A i \in 1 .. N : s[i] \in S
  <2>1. N \in Nat
    BY FS_CardinalityType
  <2>2. \E f \in [1 .. N -> S] : IsInjective(f)
    <3>1. PICK n \in Nat : ExistsBijection(1 .. n, S)
      BY FS_NatBijection
    <3>2. n = N
      BY <3>1, FS_CountingElements
    <3>3. PICK f : f \in Bijection(1 .. N, S)
      BY <3>1, <3>2 DEF ExistsBijection
    <3> QED BY <3>3 DEF Bijection, Injection, IsInjective
  <2>3. s \in [1 .. N -> S]
    BY <2>2, Zenon DEF SetToSeq
  <2> QED BY <2>1, <2>3
<1> HIDE DEF s, N
<1>2. zero = [T \in SUBSET (1 .. N) |-> Body(zero, T)]
  <2>1. ASSUME NEW T \in SUBSET (1 .. N) PROVE zero[T] = Body(zero, T)
    <3>1. CASE T = {}
      BY <3>1
    <3>2. CASE T # {}
      <4>1. Max(T) \in 1 .. N /\ T \ {Max(T)} \in SUBSET (1 .. N)
        BY <1>1, <3>2, MaxIs
      <4>2. Gained(s[Max(T)]) = 0
        BY <1>1, <4>1
      <4> QED BY <3>2, <4>1, <4>2
    <3> QED BY <3>1, <3>2
  <2>2. zero = [T \in SUBSET (1 .. N) |-> zero[T]]
    OBVIOUS
  <2> HIDE DEF zero, Body
  <2> QED BY <2>1, <2>2
<1>3. c = [T \in SUBSET (1 .. N) |-> Body(c, T)]
  <2> HIDE DEF Body, zero
  <2>1. c = [T \in SUBSET (DOMAIN s) |-> Body(c, T)]
    BY <1>1, <1>2, Zenon
  <2> QED BY <1>1, <2>1
<1>4. GainOf(S) = c[1 .. N]
  BY <1>1 DEF GainOf, SumOf, FoldLeft, MapThenFoldSet, Gained, s
<1> HIDE DEF c
<1>5. \A T \in SUBSET (1 .. N) : c[T] = Body(c, T)
  <2> HIDE DEF Body
  <2> QED BY <1>3
<1> DEFINE Z == {i \in Nat : i <= N => c[1 .. i] = 0}
<1>6. 0 \in Z
  <2>1. 1 .. 0 = {} /\ {} \in SUBSET (1 .. N)
    OBVIOUS
  <2>2. c[{}] = 0
    BY <1>5, <2>1
  <2> QED BY <2>1, <2>2
<1>7. ASSUME NEW i \in Nat, i \in Z PROVE i + 1 \in Z
  <2> SUFFICES ASSUME i + 1 <= N PROVE c[1 .. i + 1] = 0
    OBVIOUS
  <2>1. i + 1 \in 1 .. N /\ c[1 .. i] = 0 /\ (i + 1) - 1 = i
    BY <1>1, <1>7
  <2>2. /\ 1 .. i + 1 \in SUBSET (1 .. N) /\ 1 .. i + 1 # {} /\ Max(1 .. i + 1) = i + 1
        /\ (1 .. i + 1) \ {Max(1 .. i + 1)} = 1 .. i
    BY <1>1, <2>1, MaxOfFirst
  <2>3. Gained(s[i + 1]) = 0
    BY <1>1, <2>1
  <2> DEFINE T == 1 .. i + 1
  <2>4. /\ T \in SUBSET (1 .. N) /\ T # {} /\ Max(T) = i + 1
        /\ T \ {Max(T)} = 1 .. i
    BY <2>2
  <2> HIDE DEF Z, T
  <2>5. c[T] = c[T \ {Max(T)}] + Gained(s[Max(T)])
    BY <1>5, <2>4
  <2>6. c[T] = c[1 .. i] + Gained(s[i + 1])
    BY <2>4, <2>5
  <2>7. c[T] = 0
    BY <2>1, <2>3, <2>6
  <2> QED BY <2>7 DEF T
<1>8. N \in Z
  <2> HIDE DEF Z
  <2> QED BY <1>1, <1>6, <1>7, Induct
<1> QED BY <1>1, <1>4, <1>8

LEMMA SamplesIn == \A c : Samples(c) \subseteq Places
BY SamplesAre

LEMMA NicheBacked ==
  ASSUME reports \in Seq(Reports), IsFiniteSet(Places)
  PROVE  Backed(NicheConfig(NicheScore(reports)).enabled)
<1> SUFFICES ASSUME NEW c \in NicheConfig(NicheScore(reports)).enabled PROVE Enough(c)
  BY DEF Backed
<1> DEFINE mine(c1) == {p \in Places : Class(reports[p[1]].rows[p[2]], reports[p[1]].first_seen) = c1}
           Ranks(c1, x) == [class |-> c1, pnl |-> x, n |-> Cardinality(mine(c1)),
                            enabled |-> Cardinality(mine(c1)) >= MinSamples /\ x > 0]
<1>1. PICK s \in NicheScore(reports) : s.enabled /\ s.class = c
  <2>1. \E s \in NicheScore(reports) : s.enabled /\ s.class = c
    BY Zenon DEF NicheConfig
  <2> QED BY <2>1
<1>2. \E c1 : s = Ranks(c1, GainOf(mine(c1)))
  BY Zenon DEF NicheScore, Places, GainOf
<1> HIDE DEF mine
<1>3. Cardinality(mine(c)) >= MinSamples /\ GainOf(mine(c)) > 0
  <2>1. PICK c1 : s = Ranks(c1, GainOf(mine(c1)))
    BY <1>2
  <2> DEFINE x == GainOf(mine(c1))
             both == Cardinality(mine(c1)) >= MinSamples /\ x > 0
  <2>2. s = [class |-> c1, pnl |-> x, n |-> Cardinality(mine(c1)), enabled |-> both]
    BY <2>1
  <2>3. both \in BOOLEAN
    OBVIOUS
  <2> HIDE DEF both, x
  <2>4. c1 = c /\ both
    BY <1>1, <2>2, <2>3
  <2> QED BY <2>4 DEF both, x
<1>4. mine(c) = Samples(c)
  BY SamplesAre, Zenon DEF mine
<1>5. IsFiniteSet(Samples(c))
  BY SamplesIn, FS_Subset
<1>6. ASSUME NEW p \in Samples(c) PROVE Gained(p) \in Nat
  <2>1. PICK r \in DOMAIN reports : /\ reports[r] # Torn
                                   /\ \E i \in DOMAIN reports[r].rows : p = <<r, i>>
    BY SamplesAre, PlaceIs
  <2>2. PICK i \in DOMAIN reports[r].rows : p = <<r, i>>
    BY <2>1
  <2>3. reports[r] \in Reports
    BY ElementOfSeq, LenProperties
  <2>4. reports[r].rows[i].realized \in Tips /\ p[1] = r /\ p[2] = i
    BY <2>1, <2>2, <2>3, ReportIs
  <2> QED BY <2>4, LearningAssumption DEF Gained
<1>7. \E p \in Samples(c) : Gained(p) > 0
  <2> SUFFICES ASSUME \A p \in Samples(c) : ~ Gained(p) > 0 PROVE FALSE
    OBVIOUS
  <2>1. \A p \in Samples(c) : Gained(p) = 0
    BY <1>6
  <2>2. GainOf(mine(c)) = 0
    BY <1>4, <1>5, <2>1, NothingGained
  <2> QED BY <1>3, <2>2
<1> QED BY <1>3, <1>4, <1>7 DEF Enough, Gained

(* A report that is added leaves every place that was there. *)
LEMMA PlacesGrow ==
  ASSUME reports \in Seq(Reports), IsFiniteSet(Places), NEW t \in Reports,
         reports' = Append(reports, t)
  PROVE  /\ IsFiniteSet(Places')
         /\ \A classes : Backed(classes) => Backed(classes)'
<1> DEFINE N == Len(reports)
           X == {q \in {N + 1} : t # Torn}
           New == {<<r, i>> : r \in X, i \in DOMAIN t.rows}
<1>1. /\ N \in Nat /\ DOMAIN reports = 1 .. N /\ DOMAIN reports' = 1 .. N + 1
      /\ \A r \in 1 .. N : reports'[r] = reports[r]
      /\ reports'[N + 1] = t
  BY AppendProperties, LenProperties
<1> HIDE DEF N
<1>2. ASSUME NEW p \in Places PROVE p \in Places'
  <2>1. PICK r \in DOMAIN reports : /\ reports[r] # Torn
                                   /\ \E i \in DOMAIN reports[r].rows : p = <<r, i>>
    BY PlaceIs
  <2>2. r \in DOMAIN reports' /\ reports'[r] = reports[r]
    BY <1>1
  <2> QED BY <2>1, <2>2 DEF Places
<1>3. ASSUME NEW p \in Places' PROVE p \in Places \cup New
  <2>1. PICK r \in DOMAIN reports' : /\ reports'[r] # Torn
                                    /\ \E i \in DOMAIN reports'[r].rows : p = <<r, i>>
    BY DEF Places
  <2>2. CASE r = N + 1
    <3>1. r \in X /\ \E i \in DOMAIN t.rows : p = <<r, i>>
      BY <1>1, <2>1, <2>2
    <3> QED BY <3>1
  <2>3. CASE r # N + 1
    <3>1. r \in DOMAIN reports /\ reports'[r] = reports[r]
      BY <1>1, <2>3
    <3> QED BY <2>1, <3>1 DEF Places
  <2> QED BY <2>2, <2>3
<1>4. IsFiniteSet(New)
  <2>1. CASE t = Torn
    <3>1. New = {}
      BY <2>1
    <3> HIDE DEF New
    <3> QED BY <3>1, FS_EmptySet
  <2>2. CASE t # Torn
    <3>1. PICK n \in Nat : DOMAIN t.rows = 1 .. n
      BY <2>2, ReportIs
    <3>2. New \subseteq {N + 1} \X (1 .. n)
      BY <3>1
    <3>3. IsFiniteSet({N + 1} \X (1 .. n))
      <4> DEFINE A == {N + 1}
                 B == 1 .. n
      <4>1. IsFiniteSet(A)
        BY FS_Singleton
      <4>2. IsFiniteSet(B)
        BY FS_Interval
      <4> HIDE DEF A, B
      <4>3. IsFiniteSet(A \X B)
        BY <4>1, <4>2, FS_Product
      <4> QED BY <4>3 DEF A, B
    <3> HIDE DEF New
    <3> QED BY <3>2, <3>3, FS_Subset
  <2> QED BY <2>1, <2>2
<1> HIDE DEF New
<1>5. IsFiniteSet(Places')
  <2>1. IsFiniteSet(Places \cup New)
    BY <1>4, FS_Union
  <2>2. Places' \subseteq Places \cup New
    BY <1>3
  <2> QED BY <2>1, <2>2, FS_Subset
<1>6. ASSUME NEW c PROVE Samples(c) \subseteq Samples(c)'
  <2> SUFFICES ASSUME NEW p \in Samples(c) PROVE p \in Samples(c)'
    OBVIOUS
  <2>1. p \in Places /\ Class(reports[p[1]].rows[p[2]], reports[p[1]].first_seen) = c
    BY SamplesAre
  <2>2. p[1] \in DOMAIN reports
    BY <2>1, PlaceIs
  <2>3. reports'[p[1]] = reports[p[1]]
    BY <1>1, <2>2
  <2>4. p \in Places' /\ Class(reports'[p[1]].rows[p[2]], reports'[p[1]].first_seen) = c
    BY <1>2, <2>1, <2>3
  <2> QED BY <2>4 DEF Samples, Places
<1>7. ASSUME NEW c
      PROVE  /\ Cardinality(Samples(c)) <= Cardinality(Samples(c)')
             /\ Cardinality(Samples(c)) \in Nat /\ Cardinality(Samples(c)') \in Nat
  <2>1. Samples(c)' \subseteq Places'
    BY DEF Samples, Places
  <2>2. IsFiniteSet(Samples(c)')
    BY <1>5, <2>1, FS_Subset
  <2>3. IsFiniteSet(Samples(c)) /\ Cardinality(Samples(c)) <= Cardinality(Samples(c)')
    BY <1>6, <2>2, FS_Subset
  <2> QED BY <2>2, <2>3, FS_CardinalityType
<1>8. ASSUME NEW c, Enough(c) PROVE Enough(c)'
  <2>1. MinSamples \in Nat /\ Cardinality(Samples(c)) >= MinSamples
    BY <1>8, LearningAssumption DEF Enough
  <2>2. Cardinality(Samples(c)') >= MinSamples
    BY <1>7, <2>1
  <2>3. PICK p \in Samples(c) : reports[p[1]].rows[p[2]].realized > 0
    BY <1>8 DEF Enough
  <2>4. p[1] \in DOMAIN reports
    BY SamplesAre, PlaceIs
  <2>5. reports'[p[1]] = reports[p[1]] /\ p \in Samples(c)'
    BY <1>1, <1>6, <2>4
  <2> QED BY <2>2, <2>3, <2>5 DEF Enough
<1> QED BY <1>5, <1>8 DEF Backed

LEMMA EvalIs ==
  ASSUME NEW S, NEW c \in Seq(S), NEW h, NEW g
  PROVE  EvalParams(FitWithOverfit(c, h, g)).detect < ProbOne
<1>1. FitWithOverfit(c, h, g).result = Fit(c)
  BY DEF FitWithOverfit
<1> QED BY <1>1, FitIs DEF EvalParams

LEMMA LedgerIs ==
  ASSUME NEW rows \in Ledgers
  PROVE  \E S : CapturesFromReport([n \in DOMAIN rows |-> RowOf(n - 1, rows[n])]) \in Seq(S)
<1> DEFINE made == [n \in DOMAIN rows |-> RowOf(n - 1, rows[n])]
           c == CapturesFromReport(made)
           S == {c[i] : i \in DOMAIN c}
<1>1. Len(rows) \in Nat /\ DOMAIN rows = 1 .. Len(rows)
  BY LearningAssumption, LenProperties
<1>2. DOMAIN made = 1 .. Len(rows)
  BY <1>1
<1> HIDE DEF made
<1>3. \E f : c = [i \in 1 .. Len(rows) |-> f[i]]
  <2>1. c = [i \in DOMAIN made |-> RowToCapture(made[i], (IF made = <<>> THEN 0 ELSE made[1].seq) + i - 1)]
    BY Zenon DEF CapturesFromReport
  <2>2. c = [i \in DOMAIN made |-> c[i]]
    BY <2>1
  <2> HIDE DEF c
  <2> QED BY <1>2, <2>2
<1> HIDE DEF c
<1>4. DOMAIN c = 1 .. Len(rows) /\ c = [i \in 1 .. Len(rows) |-> c[i]]
  BY <1>3
<1>5. c \in [1 .. Len(rows) -> S]
  BY <1>4
<1>6. c \in Seq(S)
  <2> HIDE DEF S
  <2> QED BY <1>1, <1>5, SeqDef
<1> QED BY <1>6 DEF c, made

Concluded ==
    /\ reports \in Seq(Reports) /\ IsFiniteSet(Places)
    /\ ledger = <<>> \/ \E rows \in Ledgers :
                           ledger = << [n \in DOMAIN rows |-> RowOf(n - 1, rows[n])] >>
    /\ niches \notin {<<>>, <<Torn>>} => Backed(niches[1].enabled)
    /\ Backed(trader.niches.enabled)
    /\ fitted \notin {<<>>, <<Torn>>} => EvalParams(fitted[1]).detect < ProbOne

LEMMA ConcludedStep == Captured /\ Concluded /\ [LearningNext]_learningVars => Concluded'
<1> SUFFICES ASSUME Captured, Concluded, [LearningNext]_learningVars PROVE Concluded'
  OBVIOUS
<1>1. file \in Seq(Tokens) /\ reports \in Seq(Reports) /\ IsFiniteSet(Places)
      /\ trader = [up |-> trader.up, seq |-> trader.seq, writing |-> trader.writing,
                   niches |-> trader.niches]
  BY DEF Captured, Concluded
<1> DEFINE Carried == IsFiniteSet(Places') /\ \A c : Enough(c) => Enough(c)'
<1>2. ASSUME reports' = reports PROVE Carried
  <2>1. Places' = Places /\ \A c : Samples(c)' = Samples(c)
    BY <1>2 DEF Places, Samples
  <2>2. \A c : Enough(c) => Enough(c)'
    BY <1>2, <2>1 DEF Enough
  <2> QED BY <1>1, <2>1, <2>2
<1>3. ASSUME NEW t \in Reports, reports' = Append(reports, t) PROVE Carried
  <2>1. IsFiniteSet(Places') /\ \A classes : Backed(classes) => Backed(classes)'
    BY <1>1, <1>3, PlacesGrow
  <2>2. ASSUME NEW c, Enough(c) PROVE Enough(c)'
    <3>1. Backed({c})
      BY <2>2 DEF Backed
    <3>2. Backed({c})'
      BY <2>1, <3>1
    <3> QED BY <3>2 DEF Backed
  <2> QED BY <2>1, <2>2
<1>4. ASSUME Carried, reports' \in Seq(Reports), UNCHANGED <<ledger, niches, fitted>>,
             trader'.niches = trader.niches \/ trader'.niches.enabled = {}
      PROVE  Concluded'
  <2>1. niches \notin {<<>>, <<Torn>>} => \A c \in niches[1].enabled : Enough(c)'
    BY <1>4 DEF Concluded, Backed
  <2>2. \A c \in trader'.niches.enabled : Enough(c)'
    BY <1>4 DEF Concluded, Backed
  <2> QED BY <1>4, <2>1, <2>2 DEF Concluded, Backed
<1>5. ASSUME UNCHANGED <<trader, reports>> PROVE Carried /\ Backed(trader.niches.enabled)'
  <2>1. Carried
    BY <1>2, <1>5
  <2> QED BY <1>5, <2>1 DEF Concluded, Backed
<1>6. CASE Start
  <2>1. Carried /\ UNCHANGED <<reports, ledger, niches, fitted>>
    BY <1>2, <1>6 DEF Start
  <2>2. CASE niches \in {<<>>, <<Torn>>}
    <3>1. trader'.niches.enabled = {}
      BY <1>6, <2>2 DEF Start, NoNiches
    <3> QED BY <1>1, <1>4, <2>1, <3>1
  <2>3. CASE niches \notin {<<>>, <<Torn>>}
    <3>1. trader'.niches = niches[1]
      BY <1>6, <2>3 DEF Start
    <3>2. \A c \in niches[1].enabled : Enough(c)'
      BY <2>1, <2>3 DEF Concluded, Backed
    <3> QED BY <1>1, <2>1, <3>1, <3>2 DEF Concluded, Backed
  <2> QED BY <2>2, <2>3
<1>7. ASSUME NEW d, NEW s, NEW h, NEW o, NEW t, NEW b,
             \/ Refuse(d, s) \/ Lose(d, s) \/ Land(d, s, h, o, t) \/ EndLine
             \/ FailWrite(b) \/ Stop(b)
      PROVE  Concluded'
  <2>1. UNCHANGED <<reports, ledger, niches, fitted>>
    BY <1>7 DEF Refuse, Lose, Land, EndLine, FailWrite, Stop
  <2>2. Carried
    BY <1>2, <2>1
  <2>3. CASE Stop(b)
    <3>1. trader'.niches.enabled = {}
      BY <2>3 DEF Stop, Down, NoNiches
    <3> QED BY <1>1, <1>4, <2>1, <2>2, <3>1
  <2>4. CASE Refuse(d, s) \/ Lose(d, s) \/ Land(d, s, h, o, t) \/ EndLine \/ FailWrite(b)
    <3>1. trader'.niches = trader.niches
      BY <1>1, <2>4 DEF Refuse, Lose, Land, EndLine, FailWrite
    <3> QED BY <1>1, <1>4, <2>1, <2>2, <3>1
  <2> QED BY <1>7, <2>3, <2>4
<1>8. ASSUME NEW f \in FirstSeens, NEW b \in BOOLEAN, DailyReport(f, b) PROVE Concluded'
  <2>1. PICK t \in Reports : reports' = Append(reports, t)
    <3>1. Captures \in Seq(Written)
      BY <1>1, ReadIsWritten DEF Captures
    <3>2. [rows |-> Reconcile(Captures), first_seen |-> f] \in Reports /\ Torn \in Reports
      BY <3>1 DEF Reports
    <3> QED BY <1>8, <3>2 DEF DailyReport
  <2>2. Carried
    BY <1>3, <2>1
  <2>3. reports' \in Seq(Reports)
    BY <1>1, <2>1, AppendProperties
  <2> QED BY <1>4, <1>8, <2>2, <2>3 DEF DailyReport
<1>9. ASSUME NEW b, Niches(b) PROVE Concluded'
  <2>1. UNCHANGED <<trader, reports, ledger, fitted>>
    BY <1>9 DEF Niches
  <2>2. Carried /\ Backed(trader.niches.enabled)'
    BY <1>5, <2>1
  <2>3. ASSUME niches' \notin {<<>>, <<Torn>>} PROVE Backed(niches[1].enabled)'
    <3>1. niches'[1] = NicheConfig(NicheScore(reports))
      BY <1>9, <2>3 DEF Niches
    <3>2. \A c \in niches'[1].enabled : Enough(c)
      BY <1>1, <3>1, NicheBacked DEF Backed
    <3> QED BY <2>2, <3>2 DEF Backed
  <2> QED BY <1>1, <2>1, <2>2, <2>3 DEF Concluded
<1>10. ASSUME UNCHANGED <<trader, reports, niches>>,
              ledger' = <<>> \/ \E rows \in Ledgers :
                           ledger' = << [n \in DOMAIN rows |-> RowOf(n - 1, rows[n])] >>,
              fitted' \notin {<<>>, <<Torn>>} => EvalParams(fitted'[1]).detect < ProbOne
       PROVE  Concluded'
  <2>1. Carried /\ Backed(trader.niches.enabled)'
    BY <1>5, <1>10
  <2>2. niches \notin {<<>>, <<Torn>>} => \A c \in niches[1].enabled : Enough(c)'
    BY <2>1 DEF Concluded, Backed
  <2>3. niches' \notin {<<>>, <<Torn>>} => Backed(niches[1].enabled)'
    BY <1>10, <2>2 DEF Backed
  <2>4. (fitted \notin {<<>>, <<Torn>>} => EvalParams(fitted[1]).detect < ProbOne)'
    BY <1>10 DEF EvalParams
  <2> QED BY <1>1, <1>10, <2>1, <2>3, <2>4 DEF Concluded
<1>11. ASSUME NEW b, NEW h, NEW r, CalibrateCaptures(b, h, r) PROVE Concluded'
  <2>1. UNCHANGED <<trader, reports, ledger, niches>>
    BY <1>11 DEF CalibrateCaptures
  <2>2. fitted' \notin {<<>>, <<Torn>>} => fitted'[1] = FitWithOverfit(Captures, h, r)
    BY <1>11 DEF CalibrateCaptures
  <2>3. EvalParams(FitWithOverfit(Captures, h, r)).detect < ProbOne
    BY <1>1, ReadIsWritten, EvalIs DEF Captures
  <2> QED BY <1>10, <2>1, <2>2, <2>3 DEF Concluded
<1>12. ASSUME NEW h, NEW r, CalibrateFrom(h, r) PROVE Concluded'
  <2>1. UNCHANGED <<trader, reports, ledger, niches>>
    BY <1>12 DEF CalibrateFrom
  <2>2. PICK rows \in Ledgers : ledger = << [n \in DOMAIN rows |-> RowOf(n - 1, rows[n])] >>
    BY <1>12 DEF CalibrateFrom, Concluded
  <2> DEFINE made == [n \in DOMAIN rows |-> RowOf(n - 1, rows[n])]
  <2>3. fitted'[1] = FitWithOverfit(CapturesFromReport(made), h, r)
    <3>1. ledger[1] = made
      BY <2>2
    <3> HIDE DEF made
    <3> QED BY <1>12, <3>1 DEF CalibrateFrom
  <2>4. \E S : CapturesFromReport(made) \in Seq(S)
    BY LedgerIs
  <2> HIDE DEF made
  <2>5. EvalParams(FitWithOverfit(CapturesFromReport(made), h, r)).detect < ProbOne
    BY <2>4, EvalIs
  <2> QED BY <1>10, <2>1, <2>3, <2>5 DEF Concluded
<1>13. ASSUME NEW rows \in Ledgers, EmitReconciliation(rows) PROVE Concluded'
  <2>1. /\ UNCHANGED <<trader, reports, niches, fitted>>
        /\ ledger' = << [n \in DOMAIN rows |-> RowOf(n - 1, rows[n])] >>
    BY <1>13 DEF EmitReconciliation
  <2> QED BY <1>10, <2>1 DEF Concluded
<1>14. CASE UNCHANGED learningVars
  BY <1>2, <1>4, <1>14 DEF learningVars, Concluded
<1> QED
  BY <1>6, <1>7, <1>8, <1>9, <1>11, <1>12, <1>13, <1>14 DEF LearningNext

(* For any captures, tips of zero included, any ledgers, reports and runs  *)
(* of the commands: a niche the running trader takes as open stood in at   *)
(* least MIN_SAMPLES rows of the reports on disk, some of which gained,    *)
(* and no fit is certain that a cycle is detected (dl-calibration          *)
(* niche_score, niches_from_scores, fit).                                  *)
THEOREM ConclusionsAreEarned == LearningSpec => []ConclusionsEarned
<1>1. LearningInit => Captured
  BY CapturedAtFirst
<1>2. LearningInit => Concluded
  <2> SUFFICES ASSUME LearningInit PROVE Concluded
    OBVIOUS
  <2>1. /\ reports = <<>> /\ ledger = <<>> /\ niches = <<>> /\ fitted = <<>>
        /\ trader.niches.enabled = {}
    BY DEF LearningInit, Down, NoNiches
  <2>2. Places = {}
    BY <2>1 DEF Places
  <2>3. IsFiniteSet(Places)
    BY <2>2, FS_EmptySet
  <2> QED BY <2>1, <2>3 DEF Concluded, Backed
<1>3. Captured /\ [LearningNext]_learningVars => Captured'
  BY CapturedStep
<1>4. Captured /\ Concluded /\ [LearningNext]_learningVars => Concluded'
  BY ConcludedStep
<1>5. Concluded => ConclusionsEarned
  BY DEF Concluded, Backed, Enough, ConclusionsEarned
<1> QED BY <1>1, <1>2, <1>3, <1>4, <1>5, PTL DEF LearningSpec

-----------------------------------------------------------------------------
(* What FlattenSeq joins. *)

LEMMA FlattenIs ==
  ASSUME NEW T, NEW s \in Seq(Seq(T))
  PROVE  /\ FlattenSeq(s) \in Seq(T)
         /\ \A i \in DOMAIN FlattenSeq(s) :
               \E n \in DOMAIN s : \E k \in DOMAIN s[n] : FlattenSeq(s)[i] = s[n][k]
         /\ FlattenSeq(s) = <<>> => \A n \in DOMAIN s : s[n] = <<>>
<1> DEFINE N == Len(s)
           Def(g, n) == g = [i \in 1 .. n |-> IF i = 1 THEN s[i] ELSE g[i - 1] \o s[i]]
           S == {n \in Nat : \E g : Def(g, n)}
           flat == CHOOSE g : Def(g, N)
<1>0. N \in Nat /\ DOMAIN s = 1 .. N /\ \A i \in 1 .. N : s[i] \in Seq(T)
  BY LenProperties, ElementOfSeq
<1>1. 0 \in S
  <2> DEFINE g == [i \in 1 .. 0 |-> <<>>]
  <2>1. Def(g, 0)
    OBVIOUS
  <2> QED BY <2>1
<1>2. ASSUME NEW n \in Nat, n \in S PROVE n + 1 \in S
  <2>1. PICK g : Def(g, n)
    BY <1>2
  <2> DEFINE h == [i \in 1 .. n + 1 |->
                     IF i \in 1 .. n THEN g[i] ELSE IF i = 1 THEN s[i] ELSE g[n] \o s[i]]
  <2>2. \A i \in 1 .. n : g[i] = IF i = 1 THEN s[i] ELSE g[i - 1] \o s[i]
    BY <2>1, Zenon
  <2>3. ASSUME NEW i \in 1 .. n + 1
        PROVE  h[i] = IF i = 1 THEN s[i] ELSE h[i - 1] \o s[i]
    <3>1. CASE i = n + 1
      <4>1. h[i] = IF i = 1 THEN s[i] ELSE g[n] \o s[i]
        BY <3>1
      <4>2. i # 1 => h[i - 1] = g[n]
        BY <3>1
      <4> HIDE DEF h
      <4> QED BY <4>1, <4>2
    <3>2. CASE i \in 1 .. n
      <4>1. h[i] = g[i] /\ (i # 1 => h[i - 1] = g[i - 1])
        BY <3>2
      <4> HIDE DEF h
      <4> QED BY <2>2, <3>2, <4>1
    <3> QED BY <3>1, <3>2
  <2>4. DOMAIN h = 1 .. n + 1 /\ h = [i \in 1 .. n + 1 |-> h[i]]
    OBVIOUS
  <2>5. Def(h, n + 1)
    <3> HIDE DEF h
    <3> QED BY <2>3, <2>4, Zenon
  <2> HIDE DEF h, Def
  <2> QED BY <2>5
<1>3. N \in S
  <2> HIDE DEF S
  <2> QED BY <1>0, <1>1, <1>2, Induct
<1>4. Def(flat, N)
  <2>1. \E g : Def(g, N)
    BY <1>3
  <2> HIDE DEF Def
  <2> QED BY <2>1, Zenon
<1>5. N # 0 => FlattenSeq(s) = flat[N]
  BY Zenon DEF FlattenSeq
<1> HIDE DEF flat
<1>6. \A i \in 1 .. N : flat[i] = IF i = 1 THEN s[i] ELSE flat[i - 1] \o s[i]
  BY <1>4, Zenon
<1> DEFINE From(u, n) ==
             /\ u \in Seq(T)
             /\ \A i \in DOMAIN u : \E m \in 1 .. n : \E k \in DOMAIN s[m] : u[i] = s[m][k]
             /\ u = <<>> => \A m \in 1 .. n : s[m] = <<>>
           P == {n \in Nat : n > 0 => From(flat[n], n)}
<1>7. 0 \in P
  OBVIOUS
<1>8. ASSUME NEW n \in 0 .. N, n < N, n \in P PROVE n + 1 \in P
  <2>1. n \in Nat /\ n + 1 \in 1 .. N /\ (n + 1) - 1 = n /\ s[n + 1] \in Seq(T)
    BY <1>0, <1>8
  <2>2. CASE n = 0
    <3>1. flat[n + 1] = s[n + 1]
      BY <1>6, <2>1, <2>2
    <3>2. From(s[n + 1], n + 1)
      BY <2>1, <2>2
    <3> HIDE DEF From
    <3> QED BY <2>1, <3>1, <3>2
  <2>3. CASE n # 0
    <3> DEFINE u == flat[n]
               v == s[n + 1]
    <3>1. n + 1 # 1 /\ n \in 1 .. N
      BY <2>1, <2>3
    <3>2. flat[n + 1] = u \o v
      BY <1>6, <2>1, <3>1
    <3>3. From(u, n)
      BY <1>8, <2>1, <2>3
    <3> HIDE DEF u
    <3>4. u \in Seq(T) /\ v \in Seq(T)
      BY <2>1, <3>3
    <3>5. /\ u \o v \in Seq(T) /\ Len(u \o v) = Len(u) + Len(v)
          /\ Len(u) \in Nat /\ Len(v) \in Nat
          /\ DOMAIN u = 1 .. Len(u) /\ DOMAIN v = 1 .. Len(v)
          /\ DOMAIN (u \o v) = 1 .. Len(u) + Len(v)
          /\ \A i \in 1 .. Len(u) + Len(v) :
                (u \o v)[i] = IF i <= Len(u) THEN u[i] ELSE v[i - Len(u)]
      BY <3>4, ConcatProperties, LenProperties
    <3>6. ASSUME NEW i \in DOMAIN (u \o v)
          PROVE  \E m \in 1 .. n + 1 : \E k \in DOMAIN s[m] : (u \o v)[i] = s[m][k]
      <4>1. CASE i <= Len(u)
        <5>1. i \in DOMAIN u /\ (u \o v)[i] = u[i]
          BY <3>5, <3>6, <4>1
        <5>2. PICK m \in 1 .. n : \E k \in DOMAIN s[m] : u[i] = s[m][k]
          BY <3>3, <5>1
        <5>3. m \in 1 .. n + 1
          BY <2>1
        <5> QED BY <5>1, <5>2, <5>3
      <4>2. CASE ~ (i <= Len(u))
        <5>1. i - Len(u) \in DOMAIN v /\ (u \o v)[i] = v[i - Len(u)]
          BY <3>5, <3>6, <4>2
        <5>2. n + 1 \in 1 .. n + 1
          BY <2>1
        <5> QED BY <5>1, <5>2
      <4> QED BY <4>1, <4>2
    <3>7. ASSUME u \o v = <<>>, NEW m \in 1 .. n + 1 PROVE s[m] = <<>>
      <4>1. Len(u) = 0 /\ Len(v) = 0
        <5>1. Len(u \o v) = 0
          BY <3>7
        <5> QED BY <3>5, <5>1
      <4>2. u = <<>> /\ v = <<>>
        BY <3>4, <4>1, EmptySeq
      <4>3. m = n + 1 \/ m \in 1 .. n
        BY <2>1
      <4> QED BY <3>3, <4>2, <4>3
    <3>8. From(u \o v, n + 1)
      <4> HIDE DEF v
      <4> QED BY <3>5, <3>6, <3>7
    <3> HIDE DEF From, v
    <3>9. From(flat[n + 1], n + 1)
      BY <3>2, <3>8, Zenon
    <3> QED BY <2>1, <3>9
  <2> QED BY <2>2, <2>3
<1>9. N \in P
  <2>1. \A n \in 0 .. N : n \in P
    <3> HIDE DEF P
    <3> QED BY <1>0, <1>7, <1>8, InductUpTo
  <2> QED BY SMTT(30), <1>0, <2>1
<1>10. CASE N = 0
  <2>1. s = <<>> /\ FlattenSeq(s) = s
    BY <1>10, EmptySeq DEF FlattenSeq
  <2>2. <<>> \in Seq(T) /\ DOMAIN s = {}
    BY <1>0, <1>10
  <2> QED BY <2>1, <2>2
<1>11. CASE N # 0
  <2>1. From(flat[N], N)
    BY <1>0, <1>9, <1>11
  <2>2. FlattenSeq(s) = flat[N]
    BY <1>5, <1>11
  <2> HIDE DEF From
  <2>3. From(FlattenSeq(s), N)
    BY <2>1, <2>2, Zenon
  <2> QED BY <1>0, <2>3, Zenon DEF From
<1> QED BY <1>10, <1>11

-----------------------------------------------------------------------------
(* The reconcile command.  Lines are only appended, so what it has read is *)
(* a beginning of the file, no shorter than the file it began with; its    *)
(* rows and its divergences are made from exactly that beginning.          *)
Numbered(records) ==
    /\ records = [n \in 1 .. Len(records) |-> records[n]] /\ Len(records) \in Nat
    /\ \A n \in 1 .. Len(records) : records[n].seq = n - 1 /\ records[n].ev.optimistic \in Int

ReadUpTo(k, rows) ==
    /\ rows = [i \in 1 .. k |-> ProjectPaperRow(lines[i])]
    /\ \A i \in 1 .. k : lines[i] # Malformed

Judged ==
    /\ lines \in Seq(Lines)
    /\ run.stage \in {"idle", "report", "paper", "judged", "done"}
    /\ run = [stage |-> run.stage, report |-> run.report, paper |-> run.paper,
              before |-> run.before, output |-> run.output]
    /\ report # <<>> => Numbered(report[1].records)
    /\ run.stage # "idle" =>
          /\ report # <<>> /\ run.report = report
          /\ run.before \in Seq(Lines) /\ Len(run.before) <= Len(lines)
          /\ \A i \in 1 .. Len(run.before) : run.before[i] = lines[i]
    /\ run.stage \in {"paper", "judged", "done"} =>
          \E k \in Len(run.before) .. Len(lines) : ReadUpTo(k, run.paper)
    /\ run.stage \in {"judged", "done"} =>
          run.output[1].paper = PaperVsPaper(JoinByCycleHash(run.report[1].records, run.paper))
    /\ run.stage = "done" => out = run.output /\ verdict = Classify(run.output[1])

(* Lines that are appended change nothing that was read. *)
LEMMA AppendedLines ==
  ASSUME lines \in Seq(Lines), NEW l \in Lines, lines' = Append(lines, l)
  PROVE  /\ lines' \in Seq(Lines) /\ Len(lines') = Len(lines) + 1
         /\ \A i \in 1 .. Len(lines) : lines'[i] = lines[i]
BY AppendProperties

LEMMA JudgedStep == Judged /\ [Next]_vars => Judged'
<1> SUFFICES ASSUME Judged, [Next]_vars PROVE Judged'
  OBVIOUS
<1>1. Len(lines) \in Nat
  BY LenProperties DEF Judged
<1>2. ASSUME NEW l \in Lines, AppendLine(l) PROVE Judged'
  <2>1. lines' = Append(lines, l) /\ UNCHANGED <<report, run, out, verdict>>
    BY <1>2 DEF AppendLine
  <2>2. /\ lines' \in Seq(Lines) /\ Len(lines') = Len(lines) + 1
        /\ \A i \in 1 .. Len(lines) : lines'[i] = lines[i]
    BY <2>1, AppendedLines DEF Judged
  <2>3. ASSUME run.stage # "idle"
        PROVE  /\ run.before \in Seq(Lines) /\ Len(run.before) <= Len(lines')
               /\ \A i \in 1 .. Len(run.before) : run.before[i] = lines'[i]
    <3>1. /\ run.before \in Seq(Lines) /\ Len(run.before) <= Len(lines)
          /\ \A i \in 1 .. Len(run.before) : run.before[i] = lines[i]
      BY <2>3 DEF Judged
    <3>2. Len(run.before) \in Nat
      BY <3>1, LenProperties
    <3> QED BY <1>1, <2>2, <3>1, <3>2
  <2>4. ASSUME run.stage \in {"paper", "judged", "done"}
        PROVE  \E k \in Len(run.before) .. Len(lines') :
                  /\ run.paper = [i \in 1 .. k |-> ProjectPaperRow(lines'[i])]
                  /\ \A i \in 1 .. k : lines'[i] # Malformed
    <3>1. PICK k \in Len(run.before) .. Len(lines) : ReadUpTo(k, run.paper)
      BY <2>4 DEF Judged
    <3>2. Len(run.before) \in Nat
      BY <2>3, <2>4, LenProperties
    <3>3. k \in Len(run.before) .. Len(lines') /\ 1 .. k \subseteq 1 .. Len(lines)
      BY <1>1, <2>2, <3>2
    <3>4. \A i \in 1 .. k : lines'[i] = lines[i]
      BY <2>2, <3>3
    <3>5. [i \in 1 .. k |-> ProjectPaperRow(lines'[i])] = [i \in 1 .. k |-> ProjectPaperRow(lines[i])]
      BY <3>4
    <3> QED BY <3>1, <3>3, <3>4, <3>5 DEF ReadUpTo
  <2> QED BY <2>1, <2>2, <2>3, <2>4 DEF Judged, ReadUpTo
<1>3. ASSUME UNCHANGED <<lines, report>>, run' = Idle PROVE Judged'
  BY <1>3 DEF Judged, Idle
<1>4. ASSUME NEW n \in 0 .. MaxRecords, NEW cycles \in [1 .. n -> Cycles],
             NEW found \in [1 .. n -> Evaluations], NEW pools, ReplayTo(cycles, found, pools)
      PROVE  Judged'
  <2> DEFINE records == [i \in DOMAIN cycles |-> Entry(i - 1, cycles[i], found[i])]
  <2>1. n \in Nat /\ DOMAIN cycles = 1 .. n
    BY BooksAssumption
  <2>2. records = [i \in 1 .. n |-> records[i]]
    BY <2>1
  <2>3. \A i \in 1 .. n : records[i].seq = i - 1 /\ records[i].ev.optimistic \in Int
    BY <2>1, BooksAssumption DEF Entry
  <2>4. report = <<>> /\ report'[1].records = records /\ UNCHANGED <<lines, run, out, verdict>>
    BY <1>4 DEF ReplayTo, ReportOf
  <2>5. Numbered(records)
    <3> HIDE DEF records
    <3>1. Len(records) = n
      BY <2>1, <2>2
    <3> QED BY <2>1, <2>2, <2>3, <3>1 DEF Numbered
  <2>6. run.stage = "idle"
    BY <2>4 DEF Judged
  <2> HIDE DEF records
  <2> QED BY <2>4, <2>5, <2>6 DEF Judged
<1>5. CASE ReadReport
  <2>1. CASE report = <<>>
    BY <1>3, <1>5, <2>1 DEF ReadReport
  <2>2. CASE report # <<>>
    <3>1. /\ run' = [stage |-> "report", report |-> report, paper |-> <<>>, before |-> lines,
                     output |-> <<>>]
          /\ UNCHANGED <<lines, report>>
      BY <1>5, <2>2 DEF ReadReport, Idle
    <3> QED BY <1>1, <2>2, <3>1 DEF Judged
  <2> QED BY <2>1, <2>2
<1>6. CASE ReadPaper
  <2> DEFINE paper == LoadCyclesJsonl(lines)
  <2>1. CASE paper.ok
    <3>1. /\ run' = [run EXCEPT !.stage = "paper", !.paper = paper.rows]
          /\ UNCHANGED <<lines, report>> /\ run.stage = "report"
      BY <1>6, <2>1 DEF ReadPaper
    <3>2. run' = [stage |-> "paper", report |-> run.report, paper |-> paper.rows,
                  before |-> run.before, output |-> run.output]
      BY <3>1 DEF Judged
    <3>3. DOMAIN lines = 1 .. Len(lines)
      BY LenProperties DEF Judged
    <3>4. ReadUpTo(Len(lines), paper.rows)
      BY <2>1, <3>3 DEF ReadUpTo, LoadCyclesJsonl
    <3>5. Len(run.before) \in Nat /\ Len(run.before) <= Len(lines)
      BY <3>1, LenProperties DEF Judged
    <3>6. \E k \in Len(run.before) .. Len(lines) : ReadUpTo(k, paper.rows)
      BY <1>1, <3>4, <3>5
    <3> HIDE DEF paper
    <3>7. /\ run'.stage = "paper" /\ run'.report = run.report /\ run'.paper = paper.rows
          /\ run'.before = run.before /\ run'.output = run.output
      BY <3>2
    <3>8. \E k \in Len(run'.before) .. Len(lines') : ReadUpTo(k, run.paper)'
      BY <3>1, <3>6, <3>7 DEF ReadUpTo
    <3>9. run' = [stage |-> run'.stage, report |-> run'.report, paper |-> run'.paper,
                  before |-> run'.before, output |-> run'.output]
      BY <3>2
    <3> QED BY <3>1, <3>7, <3>8, <3>9 DEF Judged
  <2>2. CASE ~ paper.ok
    BY <1>3, <1>6, <2>2 DEF ReadPaper
  <2> QED BY <2>1, <2>2
<1>7. ASSUME NEW anchors, Judge(anchors) PROVE Judged'
  <2> DEFINE loaded == IF anchors = <<>> THEN [ok |-> TRUE, entries |-> <<>>]
                       ELSE LoadAnchors(anchors[1])
             o == ReconcileOutput(run.report[1], run.paper, loaded.entries)
  <2>1. CASE loaded.ok
    <3>1. /\ run' = [run EXCEPT !.stage = "judged", !.output = <<o>>]
          /\ UNCHANGED <<lines, report>> /\ run.stage = "paper"
      BY <1>7, <2>1 DEF Judge
    <3>2. run' = [stage |-> "judged", report |-> run.report, paper |-> run.paper,
                  before |-> run.before, output |-> <<o>>]
      BY <3>1 DEF Judged
    <3>3. o.paper = PaperVsPaper(JoinByCycleHash(run.report[1].records, run.paper))
      BY DEF ReconcileOutput
    <3> HIDE DEF o
    <3>4. /\ run'.stage = "judged" /\ run'.report = run.report /\ run'.paper = run.paper
          /\ run'.before = run.before /\ run'.output[1] = o
      BY <3>2
    <3>5. \E k \in Len(run'.before) .. Len(lines') : ReadUpTo(k, run.paper)'
      BY <3>1, <3>4 DEF Judged, ReadUpTo
    <3>6. run' = [stage |-> run'.stage, report |-> run'.report, paper |-> run'.paper,
                  before |-> run'.before, output |-> run'.output]
      BY <3>2
    <3> QED BY <3>1, <3>3, <3>4, <3>5, <3>6 DEF Judged
  <2>2. CASE ~ loaded.ok
    BY <1>3, <1>7, <2>2 DEF Judge
  <2> QED BY <2>1, <2>2
<1>8. ASSUME NEW ok \in BOOLEAN, WriteOutput(ok) PROVE Judged'
  <2>1. CASE ok
    <3>1. /\ run' = [run EXCEPT !.stage = "done"] /\ run.stage = "judged"
          /\ out' = run.output /\ verdict' = Classify(run.output[1])
          /\ UNCHANGED <<lines, report>>
      BY <1>8, <2>1 DEF WriteOutput
    <3>2. run' = [stage |-> "done", report |-> run.report, paper |-> run.paper,
                  before |-> run.before, output |-> run.output]
      BY <3>1 DEF Judged
    <3> QED BY <3>1, <3>2 DEF Judged, ReadUpTo
  <2>2. CASE ~ ok
    BY <1>3, <1>8, <2>2 DEF WriteOutput
  <2> QED BY <2>1, <2>2
<1>9. ASSUME NEW a, NEW b, Recon(a, b) \/ Sweep(a) PROVE Judged'
  BY <1>3, <1>9 DEF Recon, Sweep
<1>10. CASE UNCHANGED vars
  BY <1>10 DEF vars, Judged, ReadUpTo
<1> QED
  BY <1>2, <1>4, <1>5, <1>6, <1>7, <1>8, <1>9, <1>10 DEF Next

LEMMA JudgedHolds == Spec => []Judged
<1>1. Init => Judged
  BY DEF Init, Idle, Judged
<1> QED BY <1>1, JudgedStep, PTL DEF Spec

(* What a record is joined with: the first row that has its hash. *)
LEMMA PaperOfIs ==
  ASSUME NEW k \in Nat, NEW rows, DOMAIN rows = 1 .. k, NEW key
  PROVE  \/ /\ PaperOf(rows, key) = <<>>
            /\ \A i \in 1 .. k : rows[i].key # key
         \/ \E i \in 1 .. k :
               /\ PaperOf(rows, key) = <<rows[i]>> /\ rows[i].key = key
               /\ \A j \in 1 .. k : rows[j].key = key => i <= j
<1> DEFINE same == {i \in DOMAIN rows : rows[i].key = key}
<1>1. CASE same = {}
  BY <1>1 DEF PaperOf
<1>2. CASE same # {}
  <2>1. same \in SUBSET Nat
    OBVIOUS
  <2>2. \E m \in same : \A j \in same : m <= j
    <3> HIDE DEF same
    <3> QED BY <1>2, <2>1, Least
  <2> DEFINE m == CHOOSE i \in same : \A j \in same : i <= j
  <2>3. m \in same /\ \A j \in same : m <= j
    <3> HIDE DEF same
    <3> QED BY <2>2, Zenon
  <2>4. PaperOf(rows, key) = <<rows[m]>>
    BY <1>2, Zenon DEF PaperOf
  <2> HIDE DEF m
  <2> QED BY <2>3, <2>4
<1> QED BY <1>1, <1>2

(* What one join tells. *)
LEMMA DivergencesAre ==
  ASSUME NEW j
  PROVE  LET d == DivergencesOf(j)
         IN  /\ \E T : d \in Seq(T)
             /\ \A i \in DOMAIN d :
                   d[i].seq = j.re.seq /\ (d[i].kind = "cycle_hash_missing" => j.paper = <<>>)
             /\ d = <<>> =>
                   /\ j.paper # <<>> /\ j.paper[1].decision \in {"none", j.re.decision}
                   /\ ~ (Magnitude(j.paper[1].bps - ReGrossBps(j)) > GrossBpsTolerance)
<1> DEFINE div(kind) == [seq |-> j.re.seq, kind |-> kind, re |-> j.re.decision,
                         paper |-> IF j.paper = <<>> THEN "none" ELSE j.paper[1].decision]
           decided == j.paper[1].decision \notin {"none", j.re.decision}
           apart == Magnitude(j.paper[1].bps - ReGrossBps(j)) > GrossBpsTolerance
           T == {div(kind) : kind \in {"cycle_hash_missing", "decision", "e_pnl"}}
           u == IF decided THEN << div("decision") >> ELSE <<>>
           v == IF apart THEN << div("e_pnl") >> ELSE <<>>
           d == DivergencesOf(j)
<1>1. d = IF j.paper = <<>> THEN << div("cycle_hash_missing") >> ELSE u \o v
  BY Zenon DEF DivergencesOf
<1>2. \A kind \in {"cycle_hash_missing", "decision", "e_pnl"} :
         div(kind) \in T /\ div(kind).seq = j.re.seq /\ div(kind).kind = kind
  OBVIOUS
<1>3. CASE j.paper = <<>>
  <2>1. d = << div("cycle_hash_missing") >>
    BY <1>1, <1>3
  <2> HIDE DEF d, div, T
  <2>2. d \in Seq(T) /\ d # <<>> /\ DOMAIN d = {1} /\ d[1] = div("cycle_hash_missing")
    BY <1>2, <2>1
  <2> QED BY <1>2, <1>3, <2>2 DEF d
<1>4. CASE j.paper # <<>>
  <2>1. d = u \o v
    BY <1>1, <1>4
  <2>2. /\ u \in Seq(T) /\ v \in Seq(T)
        /\ \A i \in DOMAIN u : u[i] = div("decision")
        /\ \A i \in DOMAIN v : v[i] = div("e_pnl")
        /\ (u = <<>> => ~ decided) /\ (v = <<>> => ~ apart)
    <3> HIDE DEF div, T, decided, apart
    <3> QED BY <1>2
  <2> HIDE DEF u, v, d
  <2>3. /\ d \in Seq(T) /\ Len(d) = Len(u) + Len(v)
        /\ Len(u) \in Nat /\ Len(v) \in Nat
        /\ DOMAIN u = 1 .. Len(u) /\ DOMAIN v = 1 .. Len(v) /\ DOMAIN d = 1 .. Len(u) + Len(v)
        /\ \A i \in 1 .. Len(u) + Len(v) : d[i] = IF i <= Len(u) THEN u[i] ELSE v[i - Len(u)]
    <3> HIDE DEF T
    <3> QED BY <2>1, <2>2, ConcatProperties, LenProperties
  <2>4. ASSUME NEW i \in DOMAIN d PROVE d[i] = div("decision") \/ d[i] = div("e_pnl")
    <3> HIDE DEF div, T
    <3>1. CASE i <= Len(u)
      <4>1. i \in DOMAIN u /\ d[i] = u[i]
        BY <2>3, <2>4, <3>1
      <4> QED BY <2>2, <4>1
    <3>2. CASE ~ (i <= Len(u))
      <4>1. i - Len(u) \in DOMAIN v /\ d[i] = v[i - Len(u)]
        BY <2>3, <2>4, <3>2
      <4> QED BY <2>2, <4>1
    <3> QED BY <3>1, <3>2
  <2>5. ASSUME d = <<>> PROVE ~ decided /\ ~ apart
    <3>1. Len(u) = 0 /\ Len(v) = 0
      <4>1. Len(d) = 0
        BY <2>5
      <4> QED BY <2>3, <4>1
    <3>2. u = <<>> /\ v = <<>>
      <4> HIDE DEF T
      <4> QED BY <2>2, <3>1, EmptySeq
    <3> QED BY <2>2, <3>2
  <2>6. \A i \in DOMAIN d : d[i].seq = j.re.seq /\ d[i].kind # "cycle_hash_missing"
    BY <1>2, <2>4
  <2> HIDE DEF T
  <2> QED BY <1>4, <2>3, <2>5, <2>6 DEF d
<1> QED BY <1>3, <1>4

(* What is told of a whole report: each divergence belongs to one of its   *)
(* records, and none at all means that no join had one.                    *)
LEMMA PaperVsPaperIs ==
  ASSUME NEW joins, NEW N \in Nat, DOMAIN joins = 1 .. N
  PROVE  LET divs == PaperVsPaper(joins)
         IN  /\ \A i \in DOMAIN divs :
                   \E n \in 1 .. N : \E k \in DOMAIN DivergencesOf(joins[n]) :
                      divs[i] = DivergencesOf(joins[n])[k]
             /\ divs = <<>> => \A n \in 1 .. N : DivergencesOf(joins[n]) = <<>>
<1> DEFINE s == [n \in DOMAIN joins |-> DivergencesOf(joins[n])]
           T == UNION {{s[n][k] : k \in DOMAIN s[n]} : n \in 1 .. N}
<1>1. DOMAIN s = 1 .. N /\ \A n \in 1 .. N : s[n] = DivergencesOf(joins[n])
  OBVIOUS
<1>2. PaperVsPaper(joins) = FlattenSeq(s)
  BY Zenon DEF PaperVsPaper
<1> HIDE DEF s
<1>3. ASSUME NEW n \in 1 .. N PROVE s[n] \in Seq(T)
  <2>1. PICK T0 : s[n] \in Seq(T0)
    BY <1>1, DivergencesAre
  <2>2. Len(s[n]) \in Nat /\ s[n] \in [1 .. Len(s[n]) -> T0]
    BY <2>1, LenProperties
  <2>3. \A k \in 1 .. Len(s[n]) : s[n][k] \in T
    BY <2>2
  <2> HIDE DEF T
  <2>4. s[n] \in [1 .. Len(s[n]) -> T]
    BY <2>2, <2>3
  <2> QED BY <2>2, <2>4
<1>4. s \in Seq(Seq(T))
  <2> HIDE DEF T
  <2>1. s \in [1 .. N -> Seq(T)]
    <3>1. s = [n \in 1 .. N |-> s[n]]
      BY <1>1 DEF s
    <3> QED BY <1>3, <3>1
  <2> QED BY <2>1
<1> HIDE DEF T
<1> DEFINE f == FlattenSeq(s)
<1>5. /\ \A i \in DOMAIN f : \E n \in DOMAIN s : \E k \in DOMAIN s[n] : f[i] = s[n][k]
      /\ f = <<>> => \A n \in DOMAIN s : s[n] = <<>>
  BY <1>4, FlattenIs, Zenon
<1> HIDE DEF f
<1>6. /\ \A i \in DOMAIN f : \E n \in 1 .. N : \E k \in DOMAIN DivergencesOf(joins[n]) :
            f[i] = DivergencesOf(joins[n])[k]
      /\ f = <<>> => \A n \in 1 .. N : DivergencesOf(joins[n]) = <<>>
  <2>1. ASSUME NEW i \in DOMAIN f
        PROVE  \E n \in 1 .. N : \E k \in DOMAIN DivergencesOf(joins[n]) :
                  f[i] = DivergencesOf(joins[n])[k]
    <3>1. PICK n \in DOMAIN s : \E k \in DOMAIN s[n] : f[i] = s[n][k]
      BY <1>5
    <3>2. n \in 1 .. N /\ s[n] = DivergencesOf(joins[n])
      BY <1>1
    <3> QED BY <3>1, <3>2
  <2>2. ASSUME f = <<>>, NEW n \in 1 .. N PROVE DivergencesOf(joins[n]) = <<>>
    BY <1>1, <1>5, <2>2
  <2> QED BY <2>1, <2>2
<1> QED BY <1>2, <1>6 DEF f

(* For any cycles, evaluations and lines, and any lines appended while the *)
(* command runs: a cycle is reported missing only if no line with its hash *)
(* stood in the file when the command began (dl-app reconcile.rs           *)
(* load_cycles_jsonl, join_by_cycle_hash).                                 *)
THEOREM MissingIsTrue == Spec => []MissingWasMissing
<1>1. Judged => MissingWasMissing
  <2> SUFFICES ASSUME Judged, run.stage \in {"judged", "done"},
                      NEW i \in DOMAIN run.output[1].paper,
                      run.output[1].paper[i].kind = "cycle_hash_missing",
                      NEW j \in DOMAIN run.before, run.before[j] # Malformed
               PROVE  \/ run.before[j].writes # "ledger_hash"
                      \/ run.before[j].cycle
                           # run.report[1].records[run.output[1].paper[i].seq + 1].cycle
    BY DEF MissingWasMissing
  <2> DEFINE records == run.report[1].records
             rows == run.paper
             joins == JoinByCycleHash(records, rows)
             N == Len(records)
  <2>1. /\ N \in Nat /\ DOMAIN records = 1 .. N
        /\ \A n \in 1 .. N : records[n].seq = n - 1
    BY DEF Judged, Numbered
  <2>2. PICK k \in Len(run.before) .. Len(lines) : ReadUpTo(k, rows)
    BY DEF Judged
  <2>3. run.output[1].paper = PaperVsPaper(joins)
    BY DEF Judged
  <2>4. /\ DOMAIN joins = 1 .. N
        /\ \A n \in 1 .. N : /\ joins[n].re = records[n]
                             /\ joins[n].paper = PaperOf(rows, <<"ledger_hash", records[n].cycle>>)
    BY <2>1 DEF JoinByCycleHash, CycleHashToHex
  <2>5. /\ run.before \in Seq(Lines) /\ DOMAIN run.before = 1 .. Len(run.before)
        /\ run.before[j] = lines[j]
    BY LenProperties DEF Judged
  <2> HIDE DEF records, rows, joins, N
  <2>6. PICK n \in 1 .. N : \E m \in DOMAIN DivergencesOf(joins[n]) :
               run.output[1].paper[i] = DivergencesOf(joins[n])[m]
    <3> DEFINE divs == PaperVsPaper(joins)
    <3>1. /\ \A x \in DOMAIN divs : \E n \in 1 .. N : \E m \in DOMAIN DivergencesOf(joins[n]) :
                divs[x] = DivergencesOf(joins[n])[m]
          /\ divs = <<>> => \A n \in 1 .. N : DivergencesOf(joins[n]) = <<>>
      <4>1. N \in Nat /\ DOMAIN joins = 1 .. N
        BY <2>1, <2>4
      <4> QED BY <4>1, PaperVsPaperIs, Zenon
    <3> HIDE DEF divs
    <3>2. divs = run.output[1].paper
      BY <2>3 DEF divs
    <3> QED BY <3>1, <3>2
  <2>7. /\ run.output[1].paper[i].seq = joins[n].re.seq
        /\ joins[n].paper = <<>>
    BY <2>6, DivergencesAre
  <2>8. run.output[1].paper[i].seq + 1 = n
    <3>1. joins[n].re = records[n] /\ records[n].seq = n - 1
      BY <2>1, <2>4
    <3> QED BY <2>1, <2>7, <3>1
  <2>9. /\ k \in Nat /\ DOMAIN rows = 1 .. k /\ j \in 1 .. k
        /\ rows[j] = ProjectPaperRow(lines[j])
    <3>1. Len(run.before) \in Nat /\ Len(lines) \in Nat
      BY LenProperties DEF Judged
    <3>2. k \in Nat /\ j \in 1 .. k
      BY <2>2, <2>5, <3>1
    <3> QED BY <2>2, <3>2 DEF ReadUpTo
  <2>10. rows[j].key # <<"ledger_hash", records[n].cycle>>
    <3> DEFINE key == <<"ledger_hash", records[n].cycle>>
    <3>1. PaperOf(rows, key) = <<>>
      BY <2>4, <2>7
    <3> HIDE DEF key
    <3>2. \A x : <<>> # <<x>>
      OBVIOUS
    <3>3. \A x \in 1 .. k : rows[x].key # key
      <4>1. \/ /\ PaperOf(rows, key) = <<>>
               /\ \A x \in 1 .. k : rows[x].key # key
            \/ \E x \in 1 .. k :
                  /\ PaperOf(rows, key) = <<rows[x]>> /\ rows[x].key = key
                  /\ \A y \in 1 .. k : rows[y].key = key => x <= y
        <5>1. k \in Nat /\ DOMAIN rows = 1 .. k
          BY <2>9
        <5> QED BY <5>1, PaperOfIs
      <4> QED BY <3>1, <3>2, <4>1
    <3> QED BY <2>9, <3>3 DEF key
  <2>11. rows[j].key = <<run.before[j].writes, run.before[j].cycle>>
    BY <2>5, <2>9 DEF ProjectPaperRow
  <2> QED BY <2>8, <2>10, <2>11 DEF records
<1> QED BY <1>1, JudgedHolds, PTL

(* Within the tolerance, for integers. *)
LEMMA Close == \A x, y \in Int : ~ (Magnitude(x - y) > GrossBpsTolerance) => x - y \in -5 .. 5
BY DEF Magnitude, GrossBpsTolerance

(* For any cycles, evaluations, lines and anchors: a run that exits 0 has  *)
(* found for every record of the report a line with its hash, the first    *)
(* one of the file as it is now, whose decision is the same or none and    *)
(* whose gain is within the tolerance; and no anchor is off (reconcile.rs  *)
(* join_by_cycle_hash, paper_vs_paper, ReconcileOutput::classify).         *)
THEOREM CleanIsAgreement == Spec => []CleanMeansAgree
<1>1. Judged => CleanMeansAgree
  <2> SUFFICES ASSUME Judged, run.stage = "done", verdict = 0
               PROVE  CleanMeansAgree
    BY DEF CleanMeansAgree
  <2> DEFINE records == run.report[1].records
             rows == run.paper
             joins == JoinByCycleHash(records, rows)
             N == Len(records)
  <2>1. /\ N \in Nat /\ DOMAIN records = 1 .. N
        /\ \A n \in 1 .. N : records[n].ev.optimistic \in Int
    BY DEF Judged, Numbered
  <2>2. PICK k \in Len(run.before) .. Len(lines) : ReadUpTo(k, rows)
    BY DEF Judged
  <2>3. /\ k \in Nat /\ k <= Len(lines) /\ Len(lines) \in Nat
        /\ DOMAIN rows = 1 .. k /\ DOMAIN lines = 1 .. Len(lines)
        /\ \A i \in 1 .. k : /\ rows[i] = ProjectPaperRow(lines[i])
                             /\ lines[i] \in Lines \ {Malformed}
    <3>1. Len(run.before) \in Nat /\ Len(lines) \in Nat /\ DOMAIN lines = 1 .. Len(lines)
      BY LenProperties DEF Judged
    <3>2. \A i \in 1 .. Len(lines) : lines[i] \in Lines
      BY ElementOfSeq DEF Judged
    <3> QED BY <2>2, <3>1, <3>2 DEF ReadUpTo
  <2>4. /\ DOMAIN joins = 1 .. N
        /\ \A n \in 1 .. N : /\ joins[n].re = records[n]
                             /\ joins[n].paper = PaperOf(rows, <<"ledger_hash", records[n].cycle>>)
    BY <2>1 DEF JoinByCycleHash, CycleHashToHex
  <2>5. /\ Exceeding(out[1].anchors) = <<>>
        /\ PaperVsPaper(joins) = <<>>
    <3>1. out = run.output /\ Classify(run.output[1]) = 0
          /\ run.output[1].paper = PaperVsPaper(joins)
      BY DEF Judged
    <3> HIDE DEF joins
    <3> QED BY <3>1 DEF Classify
  <2> HIDE DEF records, rows, joins, N
  <2>6. \A n \in 1 .. N : DivergencesOf(joins[n]) = <<>>
    <3> DEFINE divs == PaperVsPaper(joins)
    <3>1. /\ \A x \in DOMAIN divs : \E n \in 1 .. N : \E m \in DOMAIN DivergencesOf(joins[n]) :
                divs[x] = DivergencesOf(joins[n])[m]
          /\ divs = <<>> => \A n \in 1 .. N : DivergencesOf(joins[n]) = <<>>
      <4>1. N \in Nat /\ DOMAIN joins = 1 .. N
        BY <2>1, <2>4
      <4> QED BY <4>1, PaperVsPaperIs, Zenon
    <3> QED BY <2>5, <3>1
  <2>7. ASSUME NEW n \in 1 .. N PROVE AgreesWith(records[n])
    <3> DEFINE r == records[n]
               j == joins[n]
               key == <<"ledger_hash", r.cycle>>
               same == WithHash(r)
               chosen == CHOOSE i \in same : \A x \in same : i <= x
               first == FirstWith(r)
               gain == GainBps(r, first.input)
    <3>0. first = lines[chosen]
      BY Zenon DEF FirstWith
    <3> HIDE DEF first
    <3>1. /\ j.re = r /\ j.paper = PaperOf(rows, key) /\ r.ev.optimistic \in Int
      BY <2>1, <2>4
    <3>2. /\ j.paper # <<>> /\ j.paper[1].decision \in {"none", j.re.decision}
          /\ ~ (Magnitude(j.paper[1].bps - ReGrossBps(j)) > GrossBpsTolerance)
      BY <2>6, DivergencesAre
    <3> HIDE DEF j
    <3>3. PICK m \in 1 .. k : /\ PaperOf(rows, key) = <<rows[m]>> /\ rows[m].key = key
                              /\ \A x \in 1 .. k : rows[x].key = key => m <= x
      <4> HIDE DEF key
      <4>1. k \in Nat /\ DOMAIN rows = 1 .. k
        BY <2>3
      <4>2. \/ /\ PaperOf(rows, key) = <<>>
               /\ \A x \in 1 .. k : rows[x].key # key
            \/ \E x \in 1 .. k :
                  /\ PaperOf(rows, key) = <<rows[x]>> /\ rows[x].key = key
                  /\ \A y \in 1 .. k : rows[y].key = key => x <= y
        BY <4>1, PaperOfIs
      <4> QED BY <3>1, <3>2, <4>2
    <3>4. /\ m \in 1 .. Len(lines) /\ m \in Nat
          /\ \A x \in 1 .. Len(lines) : x \in 1 .. k \/ m <= x
      BY <2>3
    <3>5. \A x \in 1 .. k : rows[x].key = <<lines[x].writes, lines[x].cycle>>
      BY <2>3 DEF ProjectPaperRow
    <3>6. m \in same
      <4>1. lines[m] # Malformed /\ rows[m].key = <<lines[m].writes, lines[m].cycle>>
        BY <2>3, <3>5
      <4> QED BY <2>3, <3>3, <3>4, <4>1 DEF WithHash
    <3>7. ASSUME NEW x \in same PROVE m <= x
      <4>1. CASE x \in 1 .. k
        <5>1. rows[x].key = key
          BY <3>5, <3>7, <4>1 DEF WithHash
        <5> QED BY <3>3, <4>1, <5>1
      <4>2. CASE x \notin 1 .. k
        BY <2>3, <3>4, <3>7, <4>2 DEF WithHash
      <4> QED BY <4>1, <4>2
    <3>8. chosen = m
      <4>1. same \subseteq Nat
        BY <2>3 DEF WithHash
      <4> HIDE DEF same
      <4>2. chosen \in same /\ \A x \in same : chosen <= x
        BY <3>6, <3>7, Zenon
      <4>3. chosen <= m /\ m <= chosen /\ chosen \in Nat
        BY <3>6, <3>7, <4>1, <4>2
      <4> HIDE DEF chosen
      <4> QED BY <3>4, <4>3
    <3>9. /\ j.paper[1].decision = first.decision /\ j.paper[1].bps = first.bps
          /\ j.paper[1].input = first.input
          /\ first.bps \in Int /\ first.input \in Nat
      <4>1. j.paper[1] = rows[m]
        BY <3>1, <3>3
      <4>2. first = lines[m]
        <5> HIDE DEF chosen
        <5> QED BY <3>0, <3>8
      <4>3. rows[m] = ProjectPaperRow(lines[m]) /\ lines[m] \in Lines \ {Malformed}
        BY <2>3
      <4> QED BY <4>1, <4>2, <4>3, BooksAssumption DEF ProjectPaperRow
    <3>10. ReGrossBps(j) = gain
      BY <3>1, <3>9 DEF ReGrossBps, GainBps
    <3>11. gain \in Int
      <4>1. \A a \in Int : \A b \in Nat \ {0} : (a * 10000) \div b \in Int
        OBVIOUS
      <4> QED BY <3>1, <3>9, <4>1 DEF GainBps
    <3>12. first.bps - gain \in -5 .. 5
      <4>1. ~ (Magnitude(first.bps - gain) > GrossBpsTolerance)
        BY <3>2, <3>9, <3>10
      <4> HIDE DEF gain
      <4> QED BY <3>9, <3>11, <4>1, Close
    <3>13. first.decision \in {"none", r.decision}
      BY <3>1, <3>2, <3>9
    <3> QED BY <3>6, <3>12, <3>13 DEF first, AgreesWith
  <2>8. \A n \in DOMAIN run.report[1].records : AgreesWith(run.report[1].records[n])
    BY <2>1, <2>7 DEF records
  <2> QED BY <2>5, <2>8 DEF CleanMeansAgree
<1> QED BY <1>1, JudgedHolds, PTL
=============================================================================
