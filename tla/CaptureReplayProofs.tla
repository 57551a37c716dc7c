------------------------- MODULE CaptureReplayProofs -------------------------
(***************************************************************************)
(* A capture or ledger file implements a log, for any events, any sizes of *)
(* their payloads and any number of writes, failures and stops.            *)
(* A replay through any fault layer is given what was captured, as the     *)
(* layer bends it, and assembles its pools of that.                        *)
(***************************************************************************)
EXTENDS CaptureReplay, SequenceTheorems, FiniteSetTheorems, WellFoundedInduction, TLAPS

-----------------------------------------------------------------------------
(* Induction over the numbers, for sets: the least number outside a set    *)
(* that holds 0 and is closed under successor does not exist.              *)
LEMMA Induct ==
  ASSUME NEW S, 0 \in S, \A n \in Nat : n \in S => n + 1 \in S
  PROVE  Nat \subseteq S
<1> DEFINE Less == OpToRel(<, Nat)
<1>1. IsWellFoundedOn(Less, Nat)
  BY NatLessThanWellFounded
<1>2. \A m, n \in Nat : m < n => <<m, n>> \in Less
  BY DEF OpToRel
<1> HIDE DEF Less
<1>3. SUFFICES ASSUME Nat \ S # {} PROVE FALSE
  OBVIOUS
<1>4. PICK m \in Nat \ S : \A k \in Nat \ S : ~ (<<k, m>> \in Less)
  <2> DEFINE T == Nat \ S
  <2>1. T \subseteq Nat /\ T # {}
    BY <1>3
  <2> HIDE DEF T
  <2>2. \E x \in T : \A y \in T : ~ (<<y, x>> \in Less)
    BY <1>1, <2>1, WFMin
  <2> QED BY <2>2 DEF T
<1>5. m - 1 \in Nat /\ m - 1 < m
  BY <1>4
<1>6. m - 1 \in S
  BY <1>2, <1>4, <1>5
<1> QED BY <1>4, <1>5, <1>6

-----------------------------------------------------------------------------
(* Cells and frames. *)

CellSet == [event : Event, part : {"len", "payload"}, at : Nat]
FrameLen(e) == LenCells + Size[e]

LEMMA FrameIs ==
  ASSUME NEW e \in Event
  PROVE  /\ Frame(e) \in Seq(CellSet) /\ FrameLen(e) \in Nat \ {0} /\ Len(Frame(e)) = FrameLen(e)
         /\ LenCells \in Nat \ {0} /\ Size[e] \in Nat \ {0}
         /\ \A k \in 1..LenCells : Frame(e)[k] = Cell(e, "len", k)
         /\ \A k \in LenCells + 1..FrameLen(e) : Frame(e)[k] = Cell(e, "payload", k - LenCells)
<1>1. LenCells \in Nat \ {0} /\ Size[e] \in Nat \ {0}
  BY FrameConstants DEF FrameConstants
<1> DEFINE a == [k \in 1..LenCells |-> Cell(e, "len", k)]
           b == [k \in 1..Size[e] |-> Cell(e, "payload", k)]
<1>2. a \in Seq(CellSet) /\ Len(a) = LenCells
  <2>1. \A k \in 1..LenCells : Cell(e, "len", k) \in CellSet
    BY <1>1 DEF Cell, CellSet
  <2>2. a \in [1..LenCells -> CellSet]
    BY <2>1
  <2>3. a \in Seq(CellSet)
    BY <1>1, <2>2, SeqDef
  <2> QED BY <1>1, <2>3, LenProperties
<1>3. b \in Seq(CellSet) /\ Len(b) = Size[e]
  <2>1. \A k \in 1..Size[e] : Cell(e, "payload", k) \in CellSet
    BY <1>1 DEF Cell, CellSet
  <2>2. b \in [1..Size[e] -> CellSet]
    BY <2>1
  <2>3. b \in Seq(CellSet)
    BY <1>1, <2>2, SeqDef
  <2> QED BY <1>1, <2>3, LenProperties
<1>4. \A k \in 1..LenCells : a[k] = Cell(e, "len", k)
  OBVIOUS
<1>5. \A k \in 1..Size[e] : b[k] = Cell(e, "payload", k)
  OBVIOUS
<1>6. Frame(e) = a \o b
  BY DEF Frame
<1> HIDE DEF a, b
<1>7. /\ Frame(e) \in Seq(CellSet) /\ Len(Frame(e)) = LenCells + Size[e]
      /\ \A k \in 1..LenCells + Size[e] :
            Frame(e)[k] = IF k <= LenCells THEN a[k] ELSE b[k - LenCells]
  <2>1. /\ a \o b \in Seq(CellSet) /\ Len(a \o b) = Len(a) + Len(b)
        /\ \A k \in 1..Len(a) + Len(b) : (a \o b)[k] = IF k <= Len(a) THEN a[k] ELSE b[k - Len(a)]
    BY <1>2, <1>3, ConcatProperties
  <2> QED BY <1>2, <1>3, <1>6, <2>1
<1>8. \A k \in 1..LenCells : Frame(e)[k] = Cell(e, "len", k)
  BY <1>1, <1>4, <1>7
<1>9. ASSUME NEW k \in LenCells + 1..LenCells + Size[e] PROVE Frame(e)[k] = Cell(e, "payload", k - LenCells)
  <2>1. k \in 1..LenCells + Size[e] /\ ~ (k <= LenCells) /\ k - LenCells \in 1..Size[e]
    BY <1>1
  <2> QED BY <1>5, <1>7, <2>1
<1> QED BY <1>1, <1>7, <1>8, <1>9 DEF FrameLen

(* Every cell of a frame is of its event, and only the first begins one.   *)
LEMMA CellOfFrame ==
  ASSUME NEW e \in Event, NEW k \in 1..FrameLen(e)
  PROVE  /\ Frame(e)[k].event = e
         /\ (Frame(e)[k].part = "len" /\ Frame(e)[k].at = 1) <=> k = 1
<1>1. CASE k <= LenCells
  <2>1. Frame(e)[k] = Cell(e, "len", k)
    BY <1>1, FrameIs
  <2>2. LenCells \in Nat /\ k \in Nat
    BY FrameIs
  <2> QED BY <2>1, <2>2 DEF Cell
<1>2. CASE k > LenCells
  <2>1. k \in LenCells + 1..FrameLen(e) /\ k # 1
    BY <1>2, FrameIs
  <2>2. Frame(e)[k] = Cell(e, "payload", k - LenCells)
    BY <2>1, FrameIs
  <2> QED BY <2>1, <2>2 DEF Cell
<1>3. LenCells \in Nat /\ k \in Nat
  BY FrameIs
<1> QED BY <1>1, <1>2, <1>3

-----------------------------------------------------------------------------
(* Where frames stand in a file. *)

(* A whole frame behind the first n cells, or the first k cells of one.    *)
Begins(f, n, e, k) == n + k <= Len(f) /\ \A j \in 1..k : f[n + j] = Frame(e)[j]
Stands(f, n, e) == Begins(f, n, e, FrameLen(e))

LEMMA StandsIs ==
  ASSUME NEW f \in Seq(CellSet), NEW n \in Nat, NEW e \in Event
  PROVE  Stands(f, n, e) <=> /\ n + Len(Frame(e)) <= Len(f)
                             /\ SubSeq(f, n + 1, n + Len(Frame(e))) = Frame(e)
<1>1. /\ Frame(e) \in Seq(CellSet) /\ FrameLen(e) \in Nat /\ Len(Frame(e)) = FrameLen(e)
  BY FrameIs
<1>2. Len(f) \in Nat
  BY LenProperties
<1>3. ASSUME n + FrameLen(e) <= Len(f)
      PROVE  (SubSeq(f, n + 1, n + FrameLen(e)) = Frame(e))
                <=> \A j \in 1..FrameLen(e) : f[n + j] = Frame(e)[j]
  <2> DEFINE g == SubSeq(f, n + 1, n + FrameLen(e))
  <2>1. \A i \in n + 1..n + FrameLen(e) : f[i] \in CellSet
    <3>1. \A i \in n + 1..n + FrameLen(e) : i \in 1..Len(f)
      BY <1>1, <1>2, <1>3
    <3> QED BY <3>1, ElementOfSeq
  <2>2. /\ g \in Seq(CellSet)
        /\ Len(g) = IF n + 1 <= n + FrameLen(e) THEN (n + FrameLen(e)) - (n + 1) + 1 ELSE 0
        /\ \A i \in 1..(n + FrameLen(e)) - (n + 1) + 1 : g[i] = f[(n + 1) + i - 1]
    BY <1>1, <2>1, SubSeqProperties
  <2> HIDE DEF g
  <2>3. Len(g) = FrameLen(e) /\ \A i \in 1..FrameLen(e) : g[i] = f[n + i]
    <3>1. \A i \in 1..FrameLen(e) : i \in 1..(n + FrameLen(e)) - (n + 1) + 1 /\ (n + 1) + i - 1 = n + i
      BY <1>1
    <3>2. Len(g) = FrameLen(e)
      BY <1>1, <2>2
    <3> QED BY <2>2, <3>1, <3>2
  <2>4. (\A j \in 1..FrameLen(e) : g[j] = Frame(e)[j]) => g = Frame(e)
    BY <1>1, <2>2, <2>3, SeqEqual
  <2>5. (g = Frame(e)) <=> \A j \in 1..FrameLen(e) : f[n + j] = Frame(e)[j]
    BY <2>3, <2>4
  <2> QED BY <2>5 DEF g
<1> QED BY <1>1, <1>3 DEF Stands, Begins

(* One frame at most stands in one place. *)
LEMMA OneStands ==
  ASSUME NEW f \in Seq(CellSet), NEW n \in Nat, NEW e \in Event, Stands(f, n, e)
  PROVE  n < Len(f) /\ f[n + 1].event = e
<1>1. FrameLen(e) \in Nat \ {0} /\ Len(f) \in Nat
  BY FrameIs, LenProperties
<1>2. 1 \in 1..FrameLen(e)
  BY <1>1
<1>3. f[n + 1] = Frame(e)[1] /\ n + FrameLen(e) <= Len(f)
  BY <1>2 DEF Stands, Begins
<1> QED BY <1>1, <1>2, <1>3, CellOfFrame

(* The frames of s stand one behind the other from the start of f, the     *)
(* first i of them in at[i] cells.                                         *)
Whole(f, s, at) ==
    /\ s \in Seq(Event) /\ at \in [0..Len(s) -> Nat] /\ at[0] = 0
    /\ \A i \in 1..Len(s) : /\ Stands(f, at[i - 1], s[i])
                            /\ at[i] = at[i - 1] + FrameLen(s[i])

Final(f, n) == \A e \in Event : ~ Stands(f, n, e)

(* The recursion that IntactOf defines has a solution. *)
LEMMA IntactDefined ==
  ASSUME NEW f \in Seq(CellSet)
  PROVE  \E w : /\ IntactOf(f) = w[0]
                /\ \A n \in 0..Len(f) :
                     w[n] = IF n = Len(f) THEN <<>>
                            ELSE IF Stands(f, n, f[n + 1].event)
                            THEN <<f[n + 1].event>> \o w[n + FrameLen(f[n + 1].event)] ELSE <<>>
<1> DEFINE L == Len(f)
           E(n) == f[n + 1].event
           Body(g, n) == IF n = L THEN <<>>
                         ELSE LET e == f[n + 1].event
                                  frame == Frame(e)
                              IN  IF n + Len(frame) <= Len(f) /\ SubSeq(f, n + 1, n + Len(frame)) = frame
                                  THEN <<e>> \o g[n + Len(frame)] ELSE <<>>
           Plain(g, n) == IF n = L THEN <<>>
                          ELSE IF Stands(f, n, E(n)) THEN <<E(n)>> \o g[n + FrameLen(E(n))] ELSE <<>>
<1>1. L \in Nat
  BY LenProperties
<1>2. \A n \in 0..L : n # L => E(n) \in Event
  <2>1. \A n \in 0..L : n # L => n + 1 \in 1..Len(f)
    BY <1>1
  <2>2. \A i \in 1..Len(f) : f[i] \in CellSet
    BY ElementOfSeq
  <2> QED BY <2>1, <2>2 DEF CellSet
<1>3. \A g : \A n \in 0..L : Body(g, n) = Plain(g, n)
  <2>1. ASSUME NEW g, NEW n \in 0..L PROVE Body(g, n) = Plain(g, n)
    <3>1. CASE n = L
      BY <3>1
    <3>2. CASE n # L
      <4>1. n \in Nat /\ E(n) \in Event
        BY <1>1, <1>2, <3>2
      <4>2. Len(Frame(E(n))) = FrameLen(E(n))
        BY <4>1, FrameIs
      <4>3. Stands(f, n, E(n)) <=> /\ n + Len(Frame(E(n))) <= Len(f)
                                   /\ SubSeq(f, n + 1, n + Len(Frame(E(n)))) = Frame(E(n))
        BY <4>1, StandsIs
      <4> QED BY <3>2, <4>2, <4>3
    <3> QED BY <3>1, <3>2
  <2> QED BY <2>1
<1>4. \A n \in 0..L : n # L /\ Stands(f, n, E(n)) =>
         n + FrameLen(E(n)) \in n + 1..L
  <2>1. \A n \in 0..L : n # L => FrameLen(E(n)) \in Nat \ {0}
    BY <1>2, FrameIs
  <2>2. \A n \in 0..L : Stands(f, n, E(n)) => n + FrameLen(E(n)) <= L
    BY DEF Stands, Begins
  <2> QED BY <1>1, <2>1, <2>2
<1> DEFINE Solves(g, k) == \A n \in 0..L : L - k <= n => g[n] = Plain(g, n)
           S == {k \in Nat : k <= L => \E g : Solves(g, k)}
<1> HIDE DEF E, Body
<1>5. Nat \subseteq S
  <2>1. 0 \in S
    <3> DEFINE g == [n \in 0..L |-> <<>>]
    <3>1. Solves(g, 0)
      BY <1>1
    <3> QED BY <3>1
  <2>2. ASSUME NEW k \in Nat, k \in S PROVE k + 1 \in S
    <3>1. SUFFICES ASSUME k + 1 <= L PROVE \E h : Solves(h, k + 1)
      OBVIOUS
    <3>2. PICK g : Solves(g, k)
      BY <1>1, <2>2, <3>1
    <3> DEFINE m == L - (k + 1)
               h == [n \in 0..L |-> IF n = m THEN Plain(g, n) ELSE g[n]]
    <3>3. m \in 0..L /\ m # L
      BY <1>1, <3>1
    <3>4. \A n \in 0..L : n # m => h[n] = g[n]
      OBVIOUS
    <3>5. h[m] = Plain(g, m)
      BY <3>3
    <3>6. ASSUME NEW n \in 0..L, m <= n PROVE Plain(h, n) = Plain(g, n)
      <4>1. CASE n # L /\ Stands(f, n, E(n))
        <5>1. n + FrameLen(E(n)) \in n + 1..L
          BY <1>4, <4>1
        <5>2. n + FrameLen(E(n)) \in 0..L /\ n + FrameLen(E(n)) # m
          <6>1. m \in Nat /\ n \in Nat
            BY <1>1, <3>3
          <6> HIDE DEF m
          <6> QED BY <1>1, <3>6, <5>1, <6>1
        <5>3. h[n + FrameLen(E(n))] = g[n + FrameLen(E(n))]
          BY <3>4, <5>2
        <5> HIDE DEF h
        <5> QED BY <4>1, <5>3
      <4>2. CASE ~ (n # L /\ Stands(f, n, E(n)))
        BY <4>2
      <4> QED BY <4>1, <4>2
    <3>7. ASSUME NEW n \in 0..L, m <= n PROVE h[n] = Plain(h, n)
      <4>1. CASE n = m
        BY <3>5, <3>6, <3>7, <4>1
      <4>2. CASE n # m
        <5>1. L - k <= n
          BY <1>1, <3>7, <4>2
        <5>2. g[n] = Plain(g, n)
          BY <3>2, <5>1
        <5> QED BY <3>4, <3>6, <3>7, <4>2, <5>2
      <4> QED BY <4>1, <4>2
    <3> HIDE DEF h, Plain
    <3>8. Solves(h, k + 1)
      BY <3>7
    <3> QED BY <3>8
  <2> HIDE DEF S
  <2> QED BY <2>1, <2>2, Induct
<1>6. PICK g : \A n \in 0..L : g[n] = Plain(g, n)
  <2> HIDE DEF Plain
  <2>1. L \in S
    <3> HIDE DEF S
    <3> QED BY <1>1, <1>5
  <2>2. L <= L /\ \A n \in 0..L : L - L <= n
    BY <1>1
  <2>3. PICK g : Solves(g, L)
    BY <2>1, <2>2
  <2> QED BY <2>2, <2>3
<1> DEFINE w == [n \in 0..L |-> g[n]]
<1>7. \A n \in 0..L : Plain(w, n) = Plain(g, n)
  <2>1. ASSUME NEW n \in 0..L, n # L, Stands(f, n, E(n))
        PROVE  w[n + FrameLen(E(n))] = g[n + FrameLen(E(n))]
    <3>1. n + FrameLen(E(n)) \in 0..L
      BY <1>1, <1>4, <2>1
    <3> QED BY <3>1
  <2> HIDE DEF w
  <2> QED BY <2>1
<1>8. w = [n \in 0..L |-> Body(w, n)]
  <2>1. \A n \in 0..L : w[n] = Body(w, n)
    <3>1. \A n \in 0..L : w[n] = g[n]
      OBVIOUS
    <3> HIDE DEF w, Plain
    <3> QED BY <1>3, <1>6, <1>7, <3>1
  <2> HIDE DEF Plain
  <2> QED BY <2>1
<1> DEFINE c == CHOOSE v : v = [n \in 0..L |-> Body(v, n)]
<1>9. c = [n \in 0..L |-> Body(c, n)]
  <2> HIDE DEF w, Plain
  <2> QED BY <1>8, Zenon
<1>10. IntactOf(f) = c[0]
  BY DEF IntactOf, Body, c
<1>11. \A n \in 0..L : c[n] = Plain(c, n)
  <2> HIDE DEF c, Plain
  <2>1. \A n \in 0..L : c[n] = Body(c, n)
    BY <1>9
  <2> QED BY <1>3, <2>1
<1> HIDE DEF c
<1> QED BY <1>10, <1>11 DEF E

(* What stands whole in f is s. *)
LEMMA IntactIs ==
  ASSUME NEW f \in Seq(CellSet), NEW s, NEW at, Whole(f, s, at), Final(f, at[Len(s)])
  PROVE  /\ IntactOf(f) = s /\ at[Len(s)] \in 0..Len(f)
         /\ \A i \in 0..Len(s) : at[i] \in 0..Len(f)
<1> DEFINE N == Len(s)
           L == Len(f)
<1>1. /\ N \in Nat /\ L \in Nat /\ s \in Seq(Event) /\ at[0] = 0
      /\ \A i \in 0..N : at[i] \in Nat
      /\ \A i \in 1..N : s[i] \in Event /\ i - 1 \in 0..N /\ at[i - 1] \in Nat
  <2>1. s \in Seq(Event) /\ at[0] = 0 /\ at \in [0..N -> Nat]
    BY DEF Whole
  <2>2. N \in Nat /\ L \in Nat /\ \A i \in 1..N : s[i] \in Event
    BY <2>1, LenProperties, ElementOfSeq
  <2>3. \A i \in 0..N : at[i] \in Nat
    BY <2>1
  <2>4. \A i \in 1..N : i - 1 \in 0..N
    BY <2>2
  <2> HIDE DEF N, L
  <2> QED BY <2>1, <2>2, <2>3, <2>4
<1>2. \A i \in 1..N : /\ Stands(f, at[i - 1], s[i]) /\ at[i] = at[i - 1] + FrameLen(s[i])
                      /\ at[i - 1] \in 0..L - 1 /\ f[at[i - 1] + 1].event = s[i]
                      /\ at[i] \in 0..L
  <2>1. ASSUME NEW i \in 1..N
        PROVE  /\ Stands(f, at[i - 1], s[i]) /\ at[i] = at[i - 1] + FrameLen(s[i])
               /\ at[i - 1] \in 0..L - 1 /\ f[at[i - 1] + 1].event = s[i]
               /\ at[i] \in 0..L
    <3>1. Stands(f, at[i - 1], s[i]) /\ at[i] = at[i - 1] + FrameLen(s[i])
      BY DEF Whole
    <3>2. at[i - 1] < L /\ f[at[i - 1] + 1].event = s[i]
      BY <1>1, <3>1, OneStands
    <3>3. at[i] <= L
      BY <3>1 DEF Stands, Begins
    <3>4. at[i] \in Nat /\ at[i - 1] \in Nat
      BY <1>1
    <3> QED BY <1>1, <3>1, <3>2, <3>3, <3>4
  <2> QED BY <2>1
<1>3. \A i \in 0..N : at[i] \in 0..L
  <2>1. ASSUME NEW i \in 0..N PROVE at[i] \in 0..L
    <3>1. i = 0 \/ i \in 1..N
      BY <1>1
    <3> QED BY <1>1, <1>2, <3>1
  <2> QED BY <2>1
<1>4. PICK w : /\ IntactOf(f) = w[0]
               /\ \A n \in 0..L :
                    w[n] = IF n = L THEN <<>>
                           ELSE IF Stands(f, n, f[n + 1].event)
                           THEN <<f[n + 1].event>> \o w[n + FrameLen(f[n + 1].event)] ELSE <<>>
  BY IntactDefined
<1> DEFINE Held(k) == w[at[N - k]] = SubSeq(s, N - k + 1, N)
           S == {k \in Nat : k <= N => Held(k)}
<1>5. 0 \in S
  <2>1. SubSeq(s, N - 0 + 1, N) = <<>>
    BY <1>1, SubSeqEmpty
  <2>2. at[N] \in 0..L /\ N - 0 = N
    BY <1>1, <1>3
  <2>3. at[N] # L => f[at[N] + 1].event \in Event
    <3>1. at[N] # L => at[N] + 1 \in 1..L
      BY <1>1, <2>2
    <3>2. \A i \in 1..L : f[i] \in CellSet
      BY ElementOfSeq
    <3> QED BY <3>1, <3>2 DEF CellSet
  <2>4. w[at[N]] = <<>>
    BY <1>4, <2>2, <2>3 DEF Final
  <2> QED BY <2>1, <2>2, <2>4
<1>6. ASSUME NEW k \in Nat, k \in S PROVE k + 1 \in S
  <2>1. SUFFICES ASSUME k + 1 <= N PROVE Held(k + 1)
    <3> HIDE DEF Held, N
    <3> QED OBVIOUS
  <2>2. Held(k)
    <3>1. k <= N
      BY <1>1, <2>1
    <3> HIDE DEF Held, N
    <3> QED BY <1>6, <3>1
  <2> DEFINE i == N - k
  <2>3. i \in 1..N /\ N - (k + 1) = i - 1 /\ N - (k + 1) + 1 = i /\ N \in i..N
    BY <1>1, <2>1
  <2> HIDE DEF i, N, L
  <2>4. w[at[i]] = SubSeq(s, i + 1, N)
    BY <2>2 DEF i
  <2>5. /\ Stands(f, at[i - 1], s[i]) /\ at[i] = at[i - 1] + FrameLen(s[i])
        /\ at[i - 1] \in 0..L - 1 /\ f[at[i - 1] + 1].event = s[i]
    BY <1>2, <2>3
  <2> DEFINE b == at[i - 1]
  <2>6. w[b] = <<s[i]>> \o w[at[i]]
    <3>1. b \in 0..L - 1
      BY <2>5
    <3> HIDE DEF b
    <3>2. b \in 0..L /\ b # L
      BY <1>1, <3>1
    <3>3. Stands(f, b, f[b + 1].event) /\ f[b + 1].event = s[i] /\ at[i] = b + FrameLen(s[i])
      BY <2>5 DEF b
    <3> QED BY <1>4, <3>2, <3>3
  <2>7. SubSeq(s, i, N) = <<s[i]>> \o SubSeq(s, i + 1, N)
    BY <1>1, <2>3, SubSeqRecursiveFirst DEF N
  <2> QED BY <2>3, <2>4, <2>6, <2>7
<1>7. Nat \subseteq S
  <2> HIDE DEF S
  <2> QED BY <1>5, <1>6, Induct
<1>8. Held(N)
  <2>1. N \in S /\ N <= N
    <3> HIDE DEF S
    <3> QED BY <1>1, <1>7
  <2> QED BY <2>1
<1>9. IntactOf(f) = SubSeq(s, 1, Len(s))
  BY <1>1, <1>4, <1>8
<1> QED BY <1>1, <1>3, <1>9, SubSeqFull

-----------------------------------------------------------------------------
(* Folding over the places of a sequence, the last one first. *)

LEMMA MaxIs ==
  ASSUME NEW n \in Nat, NEW T \in SUBSET (1..n), T # {}
  PROVE  Max(T) \in T /\ \A y \in T : y <= Max(T)
<1> DEFINE S == {k \in Nat : \A U \in SUBSET (1..k) : U # {} => \E x \in U : \A y \in U : y <= x}
<1>1. 0 \in S
  <2>1. 1..0 = {}
    OBVIOUS
  <2> QED BY <2>1
<1>2. ASSUME NEW k \in Nat, k \in S PROVE k + 1 \in S
  <2>1. SUFFICES ASSUME NEW U \in SUBSET (1..k + 1), U # {} PROVE \E x \in U : \A y \in U : y <= x
    OBVIOUS
  <2>2. CASE k + 1 \in U
    BY <2>2
  <2>3. CASE k + 1 \notin U
    <3>1. U \in SUBSET (1..k)
      BY <2>3
    <3> QED BY <1>2, <2>1, <3>1
  <2> QED BY <2>2, <2>3
<1>3. n \in S
  <2> HIDE DEF S
  <2> QED BY <1>1, <1>2, Induct
<1>4. \E x \in T : \A y \in T : y <= x
  BY <1>3
<1>5. \E x \in T : \A y \in T : x >= y
  BY <1>4
<1>6. Max(T) \in T /\ \A y \in T : Max(T) >= y
  BY <1>5, Zenon DEF Max
<1> QED BY <1>6

Folds(g, n, D, base, step) ==
    /\ \A T \in SUBSET (1..n) : g[T] \in D
    /\ g = [T \in SUBSET (1..n) |->
              IF T = {} THEN base ELSE step[<<g[T \ {Max(T)}], Max(T)>>]]

LEMMA FoldExists ==
  ASSUME NEW n \in Nat, NEW D, NEW base \in D, NEW step \in [D \X (1..n) -> D]
  PROVE  \E g : Folds(g, n, D, base, step)
<1> DEFINE Body(g, T) == IF T = {} THEN base ELSE step[<<g[T \ {Max(T)}], Max(T)>>]
           Solves(g, k) == \A T \in SUBSET (1..n) : T \subseteq 1..k => g[T] \in D /\ g[T] = Body(g, T)
           S == {k \in Nat : \E g : Solves(g, k)}
<1>1. 0 \in S
  <2>1. Solves([T \in SUBSET (1..n) |-> base], 0)
    OBVIOUS
  <2> QED BY <2>1
<1>2. ASSUME NEW k \in Nat, k \in S PROVE k + 1 \in S
  <2>1. PICK g : Solves(g, k)
    BY <1>2
  <2> DEFINE h == [T \in SUBSET (1..n) |-> IF T \subseteq 1..k THEN g[T] ELSE Body(g, T)]
  <2>2. \A T \in SUBSET (1..n) : T \subseteq 1..k => h[T] = g[T]
    OBVIOUS
  <2>3. ASSUME NEW T \in SUBSET (1..n), T \subseteq 1..k + 1, T # {}
        PROVE  /\ T \ {Max(T)} \in SUBSET (1..n) /\ T \ {Max(T)} \subseteq 1..k /\ Max(T) \in 1..n
    <3>1. Max(T) \in T /\ \A y \in T : y <= Max(T)
      BY <2>3, MaxIs
    <3>2. Max(T) \in Nat /\ Max(T) <= k + 1
      <4>1. Max(T) \in 1..k + 1
        BY <2>3, <3>1
      <4> HIDE DEF S
      <4> QED BY <4>1
    <3> HIDE DEF S
    <3>3. ASSUME NEW y \in T, y # Max(T) PROVE y \in 1..k
      BY <2>3, <3>1, <3>2, <3>3
    <3> QED BY <3>1, <3>3
  <2>4. ASSUME NEW T \in SUBSET (1..n), T \subseteq 1..k + 1
        PROVE  Body(h, T) = Body(g, T) /\ Body(g, T) \in D
    <3>1. CASE T = {}
      BY <3>1
    <3>2. CASE T # {}
      <4>1. /\ T \ {Max(T)} \in SUBSET (1..n) /\ T \ {Max(T)} \subseteq 1..k /\ Max(T) \in 1..n
        BY <2>3, <2>4, <3>2
      <4>2. g[T \ {Max(T)}] \in D /\ h[T \ {Max(T)}] = g[T \ {Max(T)}]
        <5> HIDE DEF h, Body
        <5> QED BY <2>1, <2>2, <4>1
      <4> HIDE DEF h
      <4> QED BY <3>2, <4>1, <4>2
    <3> QED BY <3>1, <3>2
  <2>5. Solves(h, k + 1)
    <3>1. ASSUME NEW T \in SUBSET (1..n), T \subseteq 1..k + 1
          PROVE  h[T] \in D /\ h[T] = Body(h, T)
      <4>1. CASE T \subseteq 1..k
        <5>1. h[T] = g[T] /\ g[T] \in D /\ g[T] = Body(g, T)
          <6> HIDE DEF h, Body
          <6> QED BY <2>1, <2>2, <4>1
        <5> HIDE DEF h, Body
        <5> QED BY <2>4, <3>1, <5>1
      <4>2. CASE ~ (T \subseteq 1..k)
        <5>1. h[T] = Body(g, T)
          <6> HIDE DEF Body
          <6> QED BY <4>2
        <5> HIDE DEF h, Body
        <5> QED BY <2>4, <3>1, <5>1
      <4> QED BY <4>1, <4>2
    <3> HIDE DEF h, Body
    <3> QED BY <3>1
  <2> HIDE DEF h, Solves
  <2> QED BY <2>5
<1>3. n \in S
  <2> HIDE DEF S
  <2> QED BY <1>1, <1>2, Induct
<1>4. PICK g : Solves(g, n)
  BY <1>3
<1> DEFINE w == [T \in SUBSET (1..n) |-> g[T]]
<1>5. \A T \in SUBSET (1..n) : w[T] \in D /\ w[T] = Body(w, T)
  <2>1. \A T \in SUBSET (1..n) : w[T] = g[T]
    OBVIOUS
  <2>2. \A T \in SUBSET (1..n) : Body(w, T) = Body(g, T)
    <3> HIDE DEF w
    <3> QED BY <2>1
  <2> HIDE DEF w, Body
  <2> QED BY <1>4, <2>1, <2>2
<1>6. w = [T \in SUBSET (1..n) |-> Body(w, T)]
  <2>1. w = [T \in SUBSET (1..n) |-> w[T]]
    OBVIOUS
  <2> HIDE DEF w, Body
  <2> QED BY <1>5, <2>1
<1> HIDE DEF w
<1> QED BY <1>5, <1>6 DEF Folds

(* The cells of the whole frames are those before the last of their ends.  *)
LEMMA CellsIs ==
  ASSUME NEW f, NEW s, NEW at, Whole(f, s, at)
  PROVE  CellsOf(s) = at[Len(s)]
<1> DEFINE N == Len(s)
           Step == [p \in Nat \X (1..N) |-> p[1] + LenCells + Size[s[p[2]]]]
           Body(g, T) == IF T = {} THEN 0 ELSE g[T \ {Max(T)}] + LenCells + Size[s[Max(T)]]
           c == CHOOSE g : g = [T \in SUBSET (DOMAIN s) |-> Body(g, T)]
<1>1. /\ N \in Nat /\ DOMAIN s = 1..N /\ at[0] = 0
      /\ \A i \in 1..N : /\ s[i] \in Event /\ at[i] = at[i - 1] + FrameLen(s[i])
                         /\ LenCells \in Nat /\ Size[s[i]] \in Nat
  <2>1. s \in Seq(Event) /\ at[0] = 0 /\ \A i \in 1..N : at[i] = at[i - 1] + FrameLen(s[i])
    BY DEF Whole
  <2>2. \A i \in 1..N : s[i] \in Event
    BY <2>1, ElementOfSeq
  <2> QED BY <2>1, <2>2, LenProperties, FrameIs
<1>2. Step \in [Nat \X (1..N) -> Nat]
  BY <1>1
<1>3. PICK g : Folds(g, N, Nat, 0, Step)
  <2>1. N \in Nat /\ 0 \in Nat
    BY <1>1
  <2> HIDE DEF Step, N
  <2> QED BY <1>2, <2>1, FoldExists
<1>4. g = [T \in SUBSET (1..N) |-> Body(g, T)]
  <2>1. ASSUME NEW T \in SUBSET (1..N), T # {}
        PROVE  Step[<<g[T \ {Max(T)}], Max(T)>>] = Body(g, T)
    <3>1. Max(T) \in 1..N
      BY <1>1, <2>1, MaxIs
    <3>2. T \ {Max(T)} \in SUBSET (1..N)
      OBVIOUS
    <3>3. g[T \ {Max(T)}] \in Nat
      BY <1>3, <3>2 DEF Folds
    <3> QED BY <2>1, <3>1, <3>3
  <2>2. \A T \in SUBSET (1..N) : (IF T = {} THEN 0 ELSE Step[<<g[T \ {Max(T)}], Max(T)>>]) = Body(g, T)
    <3> HIDE DEF Step
    <3> QED BY <2>1
  <2> HIDE DEF Step, Body
  <2> QED BY <1>3, <2>2 DEF Folds
<1>5. c = [T \in SUBSET (1..N) |-> Body(c, T)]
  <2> HIDE DEF Body
  <2>1. c = [T \in SUBSET (DOMAIN s) |-> Body(c, T)]
    BY <1>1, <1>4, Zenon
  <2> QED BY <1>1, <2>1
<1>6. CellsOf(s) = c[1..N]
  BY <1>1 DEF CellsOf, FoldLeft, MapThenFoldSet
<1> HIDE DEF c
<1>7. \A T \in SUBSET (1..N) : c[T] = Body(c, T)
  <2> HIDE DEF Body
  <2> QED BY <1>5
<1> DEFINE S == {i \in Nat : i <= N => c[1..i] = at[i]}
<1>8. 0 \in S
  <2>1. 1..0 = {}
    OBVIOUS
  <2> QED BY <1>1, <1>7, <2>1
<1>9. ASSUME NEW i \in Nat, i \in S PROVE i + 1 \in S
  <2>1. SUFFICES ASSUME i + 1 <= N PROVE c[1..i + 1] = at[i + 1]
    OBVIOUS
  <2>2. c[1..i] = at[i]
    BY <1>1, <1>9, <2>1
  <2>3. i + 1 \in 1..N /\ 1..i + 1 \in SUBSET (1..N) /\ 1..i + 1 # {} /\ (i + 1) - 1 = i
    <3>1. i + 1 \in 1..N /\ (i + 1) - 1 = i
      BY <1>1, <2>1
    <3>2. i + 1 \in 1..i + 1 /\ \A y \in 1..i + 1 : y \in 1..N
      BY <1>1, <2>1
    <3> QED BY <3>1, <3>2
  <2>4. Max(1..i + 1) = i + 1
    <3>1. Max(1..i + 1) \in 1..i + 1 /\ \A y \in 1..i + 1 : y <= Max(1..i + 1)
      BY <1>1, <2>3, MaxIs
    <3>2. i + 1 \in 1..i + 1
      OBVIOUS
    <3> QED BY <3>1, <3>2
  <2>5. (1..i + 1) \ {i + 1} = 1..i
    OBVIOUS
  <2>6. c[1..i + 1] = at[i] + LenCells + Size[s[i + 1]]
    BY <1>7, <2>2, <2>3, <2>4, <2>5
  <2>7. at[i + 1] = at[i] + FrameLen(s[i + 1]) /\ LenCells \in Nat /\ Size[s[i + 1]] \in Nat
    BY <1>1, <2>3
  <2>8. at[i] \in Nat
    <3>1. at \in [0..N -> Nat] /\ i \in 0..N
      BY <1>1, <2>1 DEF Whole
    <3> QED BY <3>1
  <2> QED BY <2>6, <2>7, <2>8 DEF FrameLen
<1>10. N \in S
  <2> HIDE DEF S
  <2> QED BY <1>1, <1>8, <1>9, Induct
<1> QED BY <1>1, <1>6, <1>10

-----------------------------------------------------------------------------
(* What the processes keep. *)

(* The first cells of a frame that was not written to its end, and perhaps *)
(* the beginning of another behind them.                                   *)
Cut(f, n) ==
    \E e \in Event : \E k \in 1..FrameLen(e) - 1 : Begins(f, n, e, k) /\ n + k = Len(f)

Broken(f, n) ==
    \E e \in Event : \E k \in 1..FrameLen(e) - 1 :
        /\ Begins(f, n, e, k)
        /\ n + k < Len(f) => f[n + k + 1].part = "len" /\ f[n + k + 1].at = 1

Typed ==
    /\ kind \in {"capture", "ledger"} /\ writing \in BOOLEAN
    /\ file \in Seq(CellSet) /\ frames \in Nat /\ failures \in Nat
    /\ out \in Seq(Event \cup {Garbage})
    /\ answer \in {"more", "eof", "truncated", "decode"}

(* The file is its whole frames s and, behind them, nothing or a torn      *)
(* frame; more behind a torn frame only where a capture goes on.           *)
Written(s, at) ==
    /\ Whole(file, s, at)
    /\ at[Len(s)] = Len(file) \/ Broken(file, at[Len(s)])
    /\ failures = 0 => Len(s) = frames
    /\ failures = 0 \/ kind = "ledger" =>
          at[Len(s)] = Len(file) \/ (~writing /\ Cut(file, at[Len(s)]))

(* The reader is in step with the frames up to the last whole one; behind  *)
(* it, it goes on only in a capture that went on after a failure.          *)
InStep(s, at) ==
    /\ Len(out) <= Len(s) /\ pos = at[Len(out)]
    /\ answer # "more" => Len(out) = Len(s)
    /\ answer # "more" /\ kind = "ledger" => (answer = "eof" <=> at[Len(s)] = Len(file))

Beyond(s, at) ==
    Len(out) > Len(s) /\ at[Len(s)] < Len(file) /\ failures # 0 /\ kind = "capture"

Reading(s, at) ==
    /\ writing => out = <<>> /\ pos = 0 /\ answer = "more"
    /\ \A i \in DOMAIN out : i <= Len(s) => out[i] = s[i]
    /\ InStep(s, at) \/ Beyond(s, at)

Holds(s, at) == Written(s, at) /\ Reading(s, at)

FileInv == Typed /\ \E s, at : Holds(s, at)

-----------------------------------------------------------------------------
(* What an append does to the frames. *)

LEMMA Joined ==
  ASSUME NEW f \in Seq(CellSet), NEW g \in Seq(CellSet)
  PROVE  /\ f \o g \in Seq(CellSet) /\ Len(f) \in Nat /\ Len(g) \in Nat
         /\ Len(f \o g) = Len(f) + Len(g)
         /\ \A i \in 1..Len(f) : (f \o g)[i] = f[i]
         /\ \A i \in 1..Len(g) : (f \o g)[Len(f) + i] = g[i]
<1>1. Len(f) \in Nat /\ Len(g) \in Nat
  BY LenProperties
<1>2. /\ f \o g \in Seq(CellSet) /\ Len(f \o g) = Len(f) + Len(g)
      /\ \A i \in 1..Len(f) + Len(g) : (f \o g)[i] = IF i <= Len(f) THEN f[i] ELSE g[i - Len(f)]
  BY ConcatProperties
<1>3. ASSUME NEW i \in 1..Len(f) PROVE (f \o g)[i] = f[i]
  <2>1. i \in 1..Len(f) + Len(g) /\ i <= Len(f)
    BY <1>1
  <2> QED BY <1>2, <2>1
<1>4. ASSUME NEW i \in 1..Len(g) PROVE (f \o g)[Len(f) + i] = g[i]
  <2>1. Len(f) + i \in 1..Len(f) + Len(g) /\ ~ (Len(f) + i <= Len(f)) /\ (Len(f) + i) - Len(f) = i
    BY <1>1
  <2> QED BY <1>2, <2>1
<1> QED BY <1>1, <1>2, <1>3, <1>4

LEMMA BeginsStays ==
  ASSUME NEW f \in Seq(CellSet), NEW g \in Seq(CellSet), NEW n \in Nat, NEW e, NEW k \in Nat,
         Begins(f, n, e, k)
  PROVE  Begins(f \o g, n, e, k)
<1>1. ASSUME NEW j \in 1..k PROVE (f \o g)[n + j] = Frame(e)[j]
  <2>1. n + j \in 1..Len(f)
    <3>1. n + k <= Len(f) /\ Len(f) \in Nat
      BY LenProperties DEF Begins
    <3> QED BY <3>1
  <2> QED BY <2>1, Joined DEF Begins
<1>2. n + k <= Len(f \o g)
  <2>1. Len(f \o g) = Len(f) + Len(g) /\ Len(f) \in Nat /\ Len(g) \in Nat
    BY Joined
  <2> QED BY <2>1 DEF Begins
<1> QED BY <1>1, <1>2 DEF Begins

(* The first cells of a frame at the end of a file. *)
LEMMA BeginsAtEnd ==
  ASSUME NEW f \in Seq(CellSet), NEW e \in Event, NEW k \in 0..FrameLen(e)
  PROVE  LET g == SubSeq(Frame(e), 1, k)
         IN  /\ g \in Seq(CellSet) /\ Len(g) = k
             /\ Begins(f \o g, Len(f), e, k)
             /\ k # 0 => g[1].part = "len" /\ g[1].at = 1
<1> DEFINE g == SubSeq(Frame(e), 1, k)
<1>1. /\ Frame(e) \in Seq(CellSet) /\ FrameLen(e) \in Nat \ {0} /\ Len(Frame(e)) = FrameLen(e)
  BY FrameIs
<1>2. \A i \in 1..k : Frame(e)[i] \in CellSet
  <2>1. \A i \in 1..k : i \in 1..Len(Frame(e))
    BY <1>1
  <2> QED BY <1>1, <2>1, ElementOfSeq
<1>3. /\ g \in Seq(CellSet) /\ Len(g) = IF 1 <= k THEN k - 1 + 1 ELSE 0
      /\ \A i \in 1..k - 1 + 1 : g[i] = Frame(e)[1 + i - 1]
  BY <1>1, <1>2, SubSeqProperties
<1> HIDE DEF g
<1>4. k \in Nat
  BY <1>1
<1>5. Len(g) = k
  BY <1>3, <1>4
<1>6. \A i \in 1..k : g[i] = Frame(e)[i]
  <2>1. \A i \in 1..k : i \in 1..k - 1 + 1 /\ 1 + i - 1 = i
    BY <1>4
  <2> QED BY <1>3, <2>1
<1>7. /\ Len(f) \in Nat /\ Len(f \o g) = Len(f) + Len(g)
      /\ \A i \in 1..Len(g) : (f \o g)[Len(f) + i] = g[i]
  BY <1>3, Joined
<1>8. Begins(f \o g, Len(f), e, k)
  BY <1>4, <1>5, <1>6, <1>7 DEF Begins
<1>9. k # 0 => g[1].part = "len" /\ g[1].at = 1
  <2>1. ASSUME k # 0 PROVE 1 \in 1..k /\ 1 \in 1..FrameLen(e)
    BY <1>1, <1>4, <2>1
  <2> QED BY <1>6, <2>1, CellOfFrame
<1> QED BY <1>3, <1>5, <1>8, <1>9 DEF g

LEMMA WholeStays ==
  ASSUME NEW f \in Seq(CellSet), NEW g \in Seq(CellSet), NEW s, NEW at, Whole(f, s, at)
  PROVE  Whole(f \o g, s, at)
<1>1. ASSUME NEW i \in 1..Len(s) PROVE Stands(f \o g, at[i - 1], s[i])
  <2>1. s \in Seq(Event) /\ Len(s) \in Nat /\ at \in [0..Len(s) -> Nat]
    BY LenProperties DEF Whole
  <2>2. i - 1 \in 0..Len(s) /\ s[i] \in Event
    BY <2>1, ElementOfSeq
  <2>3. at[i - 1] \in Nat /\ FrameLen(s[i]) \in Nat
    BY <2>1, <2>2, FrameIs
  <2>4. Begins(f, at[i - 1], s[i], FrameLen(s[i]))
    BY DEF Whole, Stands
  <2> QED BY <2>3, <2>4, BeginsStays DEF Stands
<1> QED BY <1>1 DEF Whole

(* One more whole frame. *)
Longer(s, at, e) == [i \in 0..Len(s) + 1 |-> IF i <= Len(s) THEN at[i] ELSE at[Len(s)] + FrameLen(e)]

LEMMA WholeGrows ==
  ASSUME NEW f \in Seq(CellSet), NEW s, NEW at, Whole(f, s, at), at[Len(s)] = Len(f), NEW e \in Event
  PROVE  /\ Whole(f \o Frame(e), Append(s, e), Longer(s, at, e))
         /\ Longer(s, at, e)[Len(Append(s, e))] = Len(f \o Frame(e))
         /\ Len(Append(s, e)) = Len(s) + 1
         /\ \A i \in 0..Len(s) : Longer(s, at, e)[i] = at[i]
         /\ \A i \in 1..Len(s) : Append(s, e)[i] = s[i]
<1> DEFINE h == f \o Frame(e)
           t == Append(s, e)
           b == Longer(s, at, e)
<1>1. /\ s \in Seq(Event) /\ Len(s) \in Nat /\ at \in [0..Len(s) -> Nat] /\ at[0] = 0
      /\ Frame(e) \in Seq(CellSet) /\ Len(Frame(e)) = FrameLen(e) /\ FrameLen(e) \in Nat
  BY LenProperties, FrameIs DEF Whole
<1>2. /\ t \in Seq(Event) /\ Len(t) = Len(s) + 1
      /\ \A i \in 1..Len(s) : t[i] = s[i]
      /\ t[Len(s) + 1] = e
  BY <1>1, AppendProperties
<1>3. /\ \A i \in 0..Len(s) : b[i] = at[i]
      /\ b[Len(s) + 1] = at[Len(s)] + FrameLen(e)
      /\ b \in [0..Len(s) + 1 -> Nat]
  BY <1>1 DEF Longer
<1>4. Whole(h, s, at)
  BY <1>1, WholeStays
<1>5. Stands(h, at[Len(s)], e) /\ Len(h) = Len(f) + FrameLen(e)
  <2>1. SubSeq(Frame(e), 1, FrameLen(e)) = Frame(e)
    BY <1>1, SubSeqFull
  <2>2. FrameLen(e) \in 0..FrameLen(e)
    BY <1>1
  <2>3. Begins(h, Len(f), e, FrameLen(e))
    BY <2>1, <2>2, BeginsAtEnd
  <2>4. Len(h) = Len(f) + FrameLen(e)
    <3>1. Len(f \o Frame(e)) = Len(f) + Len(Frame(e))
      BY <1>1, Joined
    <3> QED BY <1>1, <3>1
  <2> QED BY <2>3, <2>4 DEF Stands
<1> HIDE DEF h, t, b
<1>6. ASSUME NEW i \in 1..Len(t)
      PROVE  Stands(h, b[i - 1], t[i]) /\ b[i] = b[i - 1] + FrameLen(t[i])
  <2>1. CASE i <= Len(s)
    <3>1. i \in 1..Len(s) /\ i \in 0..Len(s) /\ i - 1 \in 0..Len(s)
      BY <1>1, <2>1
    <3>2. b[i] = at[i] /\ b[i - 1] = at[i - 1] /\ t[i] = s[i]
      BY <1>2, <1>3, <3>1
    <3> QED BY <1>4, <3>1, <3>2 DEF Whole
  <2>2. CASE ~ (i <= Len(s))
    <3>1. i = Len(s) + 1 /\ i - 1 = Len(s) /\ Len(s) \in 0..Len(s)
      BY <1>1, <1>2, <2>2
    <3>2. b[i] = at[Len(s)] + FrameLen(e) /\ b[i - 1] = at[Len(s)] /\ t[i] = e
      BY <1>2, <1>3, <3>1
    <3> QED BY <1>5, <3>2
  <2> QED BY <2>1, <2>2
<1>7. b \in [0..Len(t) -> Nat] /\ b[0] = 0
  BY <1>1, <1>2, <1>3
<1>8. Whole(h, t, b) /\ b[Len(t)] = Len(h)
  BY <1>2, <1>3, <1>5, <1>6, <1>7 DEF Whole
<1> QED BY <1>2, <1>3, <1>8 DEF h, t, b

(* A torn frame stays torn, and no frame stands where one is torn. *)
LEMMA BrokenStays ==
  ASSUME NEW f \in Seq(CellSet), NEW g \in Seq(CellSet), NEW n \in Nat, Broken(f, n),
         g # <<>> => g[1].part = "len" /\ g[1].at = 1
  PROVE  Broken(f \o g, n)
<1>a. PICK e \in Event : \E k \in 1..FrameLen(e) - 1 :
         /\ Begins(f, n, e, k)
         /\ n + k < Len(f) => f[n + k + 1].part = "len" /\ f[n + k + 1].at = 1
  BY DEF Broken
<1>1. PICK k \in 1..FrameLen(e) - 1 :
         /\ Begins(f, n, e, k)
         /\ n + k < Len(f) => f[n + k + 1].part = "len" /\ f[n + k + 1].at = 1
  BY <1>a
<1>2. k \in Nat /\ n + k <= Len(f)
  BY <1>1, FrameIs DEF Begins
<1>3. /\ Len(f) \in Nat /\ Len(g) \in Nat /\ Len(f \o g) = Len(f) + Len(g)
      /\ \A i \in 1..Len(f) : (f \o g)[i] = f[i]
      /\ \A i \in 1..Len(g) : (f \o g)[Len(f) + i] = g[i]
  BY Joined
<1>4. Begins(f \o g, n, e, k)
  BY <1>1, <1>2, BeginsStays
<1>5. CASE n + k < Len(f)
  <2>1. n + k + 1 \in 1..Len(f)
    BY <1>2, <1>3, <1>5
  <2>2. (f \o g)[n + k + 1] = f[n + k + 1]
    BY <1>3, <2>1
  <2> QED BY <1>1, <1>4, <1>5, <2>2 DEF Broken
<1>6. CASE n + k = Len(f)
  <2>1. ASSUME n + k < Len(f \o g)
        PROVE  (f \o g)[n + k + 1].part = "len" /\ (f \o g)[n + k + 1].at = 1
    <3>1. Len(g) # 0
      BY <1>2, <1>3, <1>6, <2>1
    <3>2. 1 \in 1..Len(g)
      BY <1>3, <3>1
    <3>3. (f \o g)[n + k + 1] = g[1]
      BY <1>3, <1>6, <3>2
    <3>4. g # <<>>
      BY <3>1, EmptySeq
    <3> QED BY <3>3, <3>4
  <2> QED BY <1>1, <1>4, <2>1 DEF Broken
<1> QED BY <1>2, <1>3, <1>5, <1>6

LEMMA CutIsBroken ==
  ASSUME NEW f \in Seq(CellSet), NEW n \in Nat, Cut(f, n)
  PROVE  Broken(f, n) /\ n < Len(f)
<1>a. PICK e \in Event : \E k \in 1..FrameLen(e) - 1 : Begins(f, n, e, k) /\ n + k = Len(f)
  BY DEF Cut
<1>1. PICK k \in 1..FrameLen(e) - 1 : Begins(f, n, e, k) /\ n + k = Len(f)
  BY <1>a
<1>2. k \in Nat \ {0} /\ Len(f) \in Nat
  BY <1>1, FrameIs, LenProperties
<1>3. n < Len(f) /\ ~ (n + k < Len(f))
  BY <1>1, <1>2
<1> QED BY <1>1, <1>3 DEF Broken

LEMMA BrokenIsFinal ==
  ASSUME NEW f \in Seq(CellSet), NEW n \in Nat, n = Len(f) \/ Broken(f, n)
  PROVE  Final(f, n) /\ (n = Len(f) \/ n < Len(f))
<1>1. CASE n = Len(f)
  <2>1. ASSUME NEW e \in Event, Stands(f, n, e) PROVE FALSE
    BY <1>1, <2>1, OneStands
  <2> QED BY <1>1, <2>1 DEF Final
<1>2. CASE Broken(f, n)
  <2>a. PICK e \in Event : \E k \in 1..FrameLen(e) - 1 :
           /\ Begins(f, n, e, k)
           /\ n + k < Len(f) => f[n + k + 1].part = "len" /\ f[n + k + 1].at = 1
    BY <1>2 DEF Broken
  <2>1. PICK k \in 1..FrameLen(e) - 1 :
           /\ Begins(f, n, e, k)
           /\ n + k < Len(f) => f[n + k + 1].part = "len" /\ f[n + k + 1].at = 1
    BY <2>a
  <2>2. k \in Nat \ {0} /\ Len(f) \in Nat /\ FrameLen(e) \in Nat /\ 1 \in 1..k /\ n + k <= Len(f)
    BY <2>1, FrameIs, LenProperties DEF Begins
  <2>3. f[n + 1].event = e
    <3>1. f[n + 1] = Frame(e)[1] /\ 1 \in 1..FrameLen(e)
      BY <2>1, <2>2 DEF Begins
    <3> QED BY <3>1, CellOfFrame
  <2>4. ASSUME NEW d \in Event, Stands(f, n, d) PROVE FALSE
    <3>1. d = e
      BY <2>3, <2>4, OneStands
    <3>2. k + 1 \in 1..FrameLen(e) /\ k + 1 # 1
      BY <2>2
    <3>3. f[n + (k + 1)] = Frame(e)[k + 1] /\ n + FrameLen(e) <= Len(f)
      BY <2>4, <3>1, <3>2 DEF Stands, Begins
    <3>4. n + k < Len(f) /\ n + (k + 1) = n + k + 1
      BY <2>2, <3>2, <3>3
    <3>5. ~ (Frame(e)[k + 1].part = "len" /\ Frame(e)[k + 1].at = 1)
      BY <3>2, CellOfFrame
    <3> QED BY <2>1, <3>3, <3>4, <3>5
  <2>5. n < Len(f)
    BY <2>2
  <2> QED BY <2>4, <2>5 DEF Final
<1> QED BY <1>1, <1>2

-----------------------------------------------------------------------------
(* What the reader sees. *)

LEMMA RestIs ==
  ASSUME file \in Seq(CellSet), pos \in 0..Len(file)
  PROVE  /\ Rest \in Seq(CellSet) /\ Len(Rest) = Len(file) - pos
         /\ Len(file) \in Nat /\ Len(Rest) \in Nat
         /\ \A j \in 1..Len(file) - pos : Rest[j] = file[pos + j]
<1>1. Len(file) \in Nat /\ pos \in Nat
  BY LenProperties
<1>2. \A i \in pos + 1..Len(file) : file[i] \in CellSet
  <2>1. \A i \in pos + 1..Len(file) : i \in 1..Len(file)
    BY <1>1
  <2> QED BY <2>1, ElementOfSeq
<1>3. /\ Rest \in Seq(CellSet)
      /\ Len(Rest) = IF pos + 1 <= Len(file) THEN Len(file) - (pos + 1) + 1 ELSE 0
      /\ \A i \in 1..Len(file) - (pos + 1) + 1 : Rest[i] = file[(pos + 1) + i - 1]
  BY <1>1, <1>2, SubSeqProperties DEF Rest
<1>4. Len(Rest) = Len(file) - pos
  BY <1>1, <1>3
<1>5. \A j \in 1..Len(file) - pos : j \in 1..Len(file) - (pos + 1) + 1 /\ (pos + 1) + j - 1 = pos + j
  BY <1>1
<1> QED BY <1>1, <1>3, <1>4, <1>5

LEMMA SameSubSeq ==
  ASSUME NEW a \in Seq(CellSet), NEW b \in Seq(CellSet), NEW m \in Nat \ {0}, NEW n \in Nat,
         n <= Len(a), n <= Len(b), \A i \in m..n : a[i] = b[i]
  PROVE  SubSeq(a, m, n) = SubSeq(b, m, n)
<1>1. Len(a) \in Nat /\ Len(b) \in Nat
  BY LenProperties
<1>2. \A i \in m..n : a[i] \in CellSet /\ b[i] \in CellSet
  <2>1. \A i \in m..n : i \in 1..Len(a) /\ i \in 1..Len(b)
    BY <1>1
  <2> QED BY <2>1, ElementOfSeq
<1> DEFINE x == SubSeq(a, m, n)
           y == SubSeq(b, m, n)
<1>3. /\ x \in Seq(CellSet) /\ Len(x) = IF m <= n THEN n - m + 1 ELSE 0
      /\ \A i \in 1..n - m + 1 : x[i] = a[m + i - 1]
  BY <1>2, SubSeqProperties
<1>4. /\ y \in Seq(CellSet) /\ Len(y) = IF m <= n THEN n - m + 1 ELSE 0
      /\ \A i \in 1..n - m + 1 : y[i] = b[m + i - 1]
  BY <1>2, SubSeqProperties
<1>5. \A i \in 1..n - m + 1 : m + i - 1 \in m..n
  OBVIOUS
<1> HIDE DEF x, y
<1>6. \A i \in 1..Len(x) : x[i] = y[i]
  <2>1. \A i \in 1..Len(x) : i \in 1..n - m + 1
    BY <1>3
  <2> QED BY <1>3, <1>4, <1>5, <2>1
<1>7. x = y
  BY <1>3, <1>4, <1>6, SeqEqual
<1> QED BY <1>7 DEF x, y

(* The length of the frame that begins where the reader is. *)
LEMMA ReadsLength ==
  ASSUME file \in Seq(CellSet), pos \in 0..Len(file), NEW e \in Event, NEW k \in Nat,
         LenCells <= k, Begins(file, pos, e, k), k <= FrameLen(e)
  PROVE  LengthsRead = {Size[e]}
<1> DEFINE prefix == SubSeq(Rest, 1, LenCells)
<1>1. /\ Rest \in Seq(CellSet) /\ Len(Rest) = Len(file) - pos
      /\ Len(file) \in Nat /\ Len(Rest) \in Nat /\ pos \in Nat
      /\ \A j \in 1..Len(file) - pos : Rest[j] = file[pos + j]
  <2>1. Len(file) \in Nat
    BY RestIs
  <2>2. pos \in Nat
    BY <2>1
  <2> QED BY <2>2, RestIs
<1>2. /\ Frame(e) \in Seq(CellSet) /\ Len(Frame(e)) = FrameLen(e) /\ FrameLen(e) \in Nat
      /\ LenCells \in Nat \ {0}
  BY FrameIs
<1>3. pos + k <= Len(file) /\ \A j \in 1..k : file[pos + j] = Frame(e)[j]
  BY DEF Begins
<1>4. LenCells <= Len(Rest) /\ LenCells <= Len(Frame(e))
  BY <1>1, <1>2, <1>3
<1>5. \A i \in 1..LenCells : Rest[i] = Frame(e)[i]
  <2>1. \A i \in 1..LenCells : i \in 1..k /\ i \in 1..Len(file) - pos
    BY <1>1, <1>2, <1>3
  <2> QED BY <1>1, <1>3, <2>1
<1>6. prefix = SubSeq(Frame(e), 1, LenCells)
  BY <1>1, <1>2, <1>4, <1>5, SameSubSeq
<1>7. prefix[1].event = e
  <2>1. \A i \in 1..LenCells : Frame(e)[i] \in CellSet
    <3>1. \A i \in 1..LenCells : i \in 1..Len(Frame(e))
      BY <1>2, <1>4
    <3> QED BY <1>2, <3>1, ElementOfSeq
  <2>2. \A i \in 1..LenCells - 1 + 1 : SubSeq(Frame(e), 1, LenCells)[i] = Frame(e)[1 + i - 1]
    BY <1>2, <2>1, SubSeqProperties
  <2>3. 1 \in 1..LenCells - 1 + 1 /\ 1 + 1 - 1 = 1 /\ 1 \in 1..FrameLen(e)
    BY <1>2, <1>4
  <2>4. prefix[1] = Frame(e)[1]
    <3>1. SubSeq(Frame(e), 1, LenCells)[1] = Frame(e)[1 + 1 - 1]
      BY <2>2, <2>3
    <3> HIDE DEF prefix
    <3> QED BY <1>6, <2>3, <3>1
  <2> QED BY ZenonT(30), <2>3, <2>4, CellOfFrame
<1> HIDE DEF prefix
<1>8. LengthsRead = IF \E d \in Event : prefix = SubSeq(Frame(d), 1, LenCells)
                    THEN {Size[prefix[1].event]} ELSE 0..Len(Rest)
  BY DEF LengthsRead, prefix
<1> QED BY <1>6, <1>7, <1>8

(* The event of the frame that stands where the reader is. *)
LEMMA ReadsEvent ==
  ASSUME file \in Seq(CellSet), pos \in 0..Len(file), NEW e \in Event, Stands(file, pos, e)
  PROVE  /\ LengthsRead = {Size[e]} /\ Decoded(Size[e]) = {e}
         /\ LenCells <= Len(Rest) /\ LenCells + Size[e] <= Len(Rest)
<1>1. /\ Rest \in Seq(CellSet) /\ Len(Rest) = Len(file) - pos
      /\ Len(file) \in Nat /\ Len(Rest) \in Nat /\ pos \in Nat
      /\ \A j \in 1..Len(file) - pos : Rest[j] = file[pos + j]
  <2>1. Len(file) \in Nat
    BY RestIs
  <2>2. pos \in Nat
    BY <2>1
  <2> QED BY <2>2, RestIs
<1>2. \A d \in Event : /\ Frame(d) \in Seq(CellSet) /\ Len(Frame(d)) = FrameLen(d)
                       /\ FrameLen(d) \in Nat /\ FrameLen(d) = LenCells + Size[d]
                       /\ LenCells \in Nat \ {0} /\ Size[d] \in Nat \ {0}
  BY FrameIs DEF FrameLen
<1>3. Begins(file, pos, e, FrameLen(e))
  BY DEF Stands
<1>4. pos + FrameLen(e) <= Len(file) /\ \A j \in 1..FrameLen(e) : file[pos + j] = Frame(e)[j]
  BY <1>3 DEF Begins
<1>5. LenCells <= Len(Rest) /\ LenCells + Size[e] <= Len(Rest) /\ LenCells <= FrameLen(e)
  BY <1>1, <1>2, <1>4
<1>6. LengthsRead = {Size[e]}
  BY <1>2, <1>3, <1>5, ReadsLength
<1> DEFINE payload == SubSeq(Rest, LenCells + 1, LenCells + Size[e])
           stored(d) == SubSeq(Frame(d), LenCells + 1, LenCells + Size[d])
           whole == {d \in Event : payload = stored(d)}
<1>7. payload = stored(e)
  <2>1. \A i \in LenCells + 1..LenCells + Size[e] : Rest[i] = Frame(e)[i]
    <3>1. \A i \in LenCells + 1..LenCells + Size[e] : i \in 1..FrameLen(e) /\ i \in 1..Len(file) - pos
      BY <1>1, <1>2, <1>4
    <3> QED BY <1>1, <1>4, <3>1
  <2>2. LenCells + 1 \in Nat \ {0} /\ LenCells + Size[e] \in Nat /\ LenCells + Size[e] <= Len(Frame(e))
    BY <1>2
  <2> DEFINE m == LenCells + 1
             n == LenCells + Size[e]
  <2>3. m \in Nat \ {0} /\ n \in Nat /\ n <= Len(Rest) /\ n <= Len(Frame(e)) /\ \A i \in m..n : Rest[i] = Frame(e)[i]
    BY <1>5, <2>1, <2>2
  <2>4. Rest \in Seq(CellSet) /\ Frame(e) \in Seq(CellSet)
    BY <1>1, <1>2
  <2> HIDE DEF m, n
  <2>5. SubSeq(Rest, m, n) = SubSeq(Frame(e), m, n)
    BY <2>3, <2>4, SameSubSeq
  <2> QED BY <2>5 DEF m, n
<1>8. ASSUME NEW d \in Event PROVE stored(d)[1].event = d
  <2>1. LenCells + 1 \in 1..FrameLen(d) /\ LenCells + 1 \in Int /\ LenCells + Size[d] \in Int
    BY <1>2
  <2>2. \A i \in LenCells + 1..LenCells + Size[d] : Frame(d)[i] \in CellSet
    <3>1. \A i \in LenCells + 1..LenCells + Size[d] : i \in 1..Len(Frame(d))
      BY <1>2
    <3> QED BY <1>2, <3>1, ElementOfSeq
  <2>3. \A i \in 1..(LenCells + Size[d]) - (LenCells + 1) + 1 :
           stored(d)[i] = Frame(d)[(LenCells + 1) + i - 1]
    BY <2>1, <2>2, SubSeqProperties
  <2>4. /\ 1 \in 1..(LenCells + Size[d]) - (LenCells + 1) + 1
        /\ (LenCells + 1) + 1 - 1 = LenCells + 1
    BY <1>2
  <2>5. stored(d)[1] = Frame(d)[LenCells + 1]
    BY <2>3, <2>4
  <2> QED BY ZenonT(30), <2>1, <2>5, CellOfFrame
<1> HIDE DEF payload, stored
<1>9. whole = {e}
  BY <1>7, <1>8
<1>10. Decoded(Size[e]) = IF whole # {} THEN whole ELSE {Garbage, DecodeError}
  BY DEF Decoded, payload, stored
<1> HIDE DEF whole
<1> QED BY <1>5, <1>6, <1>9, <1>10

-----------------------------------------------------------------------------
(* The steps.  Each is a step of the log, whose events are s and whose     *)
(* whole frames end at c before it, t and d after it.                      *)

Moves(s, c, t, d) ==
    \/ /\ t = s /\ out' = out /\ (answer' # "more") = (answer # "more")
       /\ c < Len(file) => d < Len(file')
    \/ /\ c = Len(file) /\ d = Len(file') /\ out' = out /\ answer' = answer
       /\ \E e \in Event : t = Append(s, e)
    \/ /\ t = s /\ d = c /\ file' = file /\ answer = "more" /\ answer' = "more"
       /\ \E x \in Event \cup {Garbage} : /\ out' = Append(out, x)
                                        /\ IF Len(out) < Len(s) THEN x = s[Len(out) + 1]
                                                              ELSE c < Len(file)
    \/ /\ t = s /\ d = c /\ file' = file /\ out' = out /\ answer' # "more"
       /\ Len(out) >= Len(s)

(* What is known of the frames of any file.                                *)
LEMMA Ends0 ==
  ASSUME file \in Seq(CellSet), NEW s, NEW at, Written(s, at)
  PROVE  /\ s \in Seq(Event) /\ Len(s) \in Nat /\ at \in [0..Len(s) -> Nat] /\ at[0] = 0
         /\ at[Len(s)] \in 0..Len(file) /\ Len(file) \in Nat
         /\ Final(file, at[Len(s)]) /\ \A i \in 0..Len(s) : at[i] \in 0..Len(file)
<1>1. s \in Seq(Event) /\ at \in [0..Len(s) -> Nat] /\ at[0] = 0 /\ Whole(file, s, at)
  BY DEF Written, Whole
<1>2. Len(s) \in Nat /\ Len(file) \in Nat
  BY <1>1, LenProperties
<1>3. at[Len(s)] \in Nat
  BY <1>1, <1>2
<1>4. Final(file, at[Len(s)])
  BY <1>3, BrokenIsFinal DEF Written
<1> QED BY <1>1, <1>2, <1>4, IntactIs

(* A reader that has not begun is in step. *)
LEMMA NotBegun ==
  ASSUME NEW t, NEW b, t \in Seq(Event), b[0] = 0,
         out' = <<>>, pos' = 0, answer' = "more"
  PROVE  Reading(t, b)'
<1>1. Len(t) \in Nat /\ Len(<<>>) = 0 /\ 0 <= Len(t)
  BY LenProperties, EmptySeq
<1>2. Len(out') = 0 /\ DOMAIN (out') = {}
  <2>1. DOMAIN <<>> = {}
    OBVIOUS
  <2> QED BY <1>1, <2>1
<1>3. InStep(t, b)'
  BY <1>1, <1>2 DEF InStep
<1> QED BY <1>2, <1>3 DEF Reading

LEMMA WritesWhole ==
  ASSUME Typed, NEW s, NEW at, Holds(s, at), NEW e \in Event, WriteFrame(e)
  PROVE  Typed' /\ \E t, b : Holds(t, b)' /\ Moves(s, at[Len(s)], t, b[Len(t)])
<1>1. /\ file' = file \o Frame(e) /\ frames' = frames + 1 /\ writing
      /\ kind' = kind /\ failures' = failures /\ writing' = writing
      /\ pos' = pos /\ out' = out /\ answer' = answer
  BY DEF WriteFrame, readVars
<1>2. out = <<>> /\ pos = 0 /\ answer = "more"
  BY <1>1 DEF Holds, Reading
<1>3. /\ file \in Seq(CellSet) /\ Frame(e) \in Seq(CellSet) /\ Len(Frame(e)) \in Nat \ {0}
      /\ frames \in Nat
  BY FrameIs DEF Typed
<1>4. /\ s \in Seq(Event) /\ Len(s) \in Nat /\ at \in [0..Len(s) -> Nat] /\ at[0] = 0
      /\ at[Len(s)] \in 0..Len(file) /\ Len(file) \in Nat
  BY <1>3, Ends0 DEF Holds
<1>5. file' \in Seq(CellSet)
  BY <1>1, <1>3, Joined
<1>6. Typed'
  BY <1>1, <1>3, <1>5 DEF Typed
<1>7. CASE at[Len(s)] = Len(file)
  <2> DEFINE t == Append(s, e)
             b == Longer(s, at, e)
  <2>1. /\ Whole(file', t, b) /\ b[Len(t)] = Len(file') /\ Len(t) = Len(s) + 1
        /\ b[0] = at[0] /\ t \in Seq(Event)
    <3>1. /\ Whole(file', t, b) /\ b[Len(t)] = Len(file') /\ Len(t) = Len(s) + 1
          /\ \A i \in 0..Len(s) : b[i] = at[i]
      BY <1>1, <1>3, <1>7, WholeGrows DEF Holds, Written
    <3>2. 0 \in 0..Len(s)
      BY <1>4
    <3> QED BY <1>4, <3>1, <3>2, AppendProperties
  <2> HIDE DEF b
  <2>2. Written(t, b)'
    <3>1. failures' = 0 => Len(t) = frames'
      BY <1>1, <1>3, <1>4, <2>1 DEF Holds, Written
    <3> HIDE DEF t
    <3> QED BY <2>1, <3>1 DEF Written
  <2>3. Reading(t, b)'
    <3> HIDE DEF t
    <3> QED BY <1>1, <1>2, <1>4, <2>1, NotBegun
  <2>4. Moves(s, at[Len(s)], t, b[Len(t)])
    BY <1>1, <1>7, <2>1 DEF Moves
  <2> HIDE DEF t
  <2> QED BY <1>6, <2>2, <2>3, <2>4 DEF Holds
<1>8. CASE at[Len(s)] # Len(file)
  <2>1. Broken(file, at[Len(s)]) /\ ~ (failures = 0 \/ kind = "ledger")
    BY <1>1, <1>8 DEF Holds, Written
  <2>2. Frame(e)[1].part = "len" /\ Frame(e)[1].at = 1
    <3>1. 1 \in 1..FrameLen(e)
      BY FrameIs
    <3> QED BY <3>1, CellOfFrame
  <2>3. Broken(file', at[Len(s)]) /\ Whole(file', s, at)
    BY <1>1, <1>3, <1>4, <2>1, <2>2, BrokenStays, WholeStays DEF Holds, Written
  <2>4. Written(s, at)'
    BY <1>1, <2>1, <2>3 DEF Written
  <2>5. Reading(s, at)'
    BY <1>1, <1>2, <1>4, NotBegun
  <2>6. at[Len(s)] < Len(file')
    <3>1. Len(file') = Len(file) + Len(Frame(e))
      BY <1>1, <1>3, Joined
    <3> QED BY <1>3, <1>4, <3>1
  <2>7. Moves(s, at[Len(s)], s, at[Len(s)])
    BY <1>1, <2>6 DEF Moves
  <2> QED BY <1>6, <2>4, <2>5, <2>7 DEF Holds
<1> QED BY <1>7, <1>8

(* A write that fails, or stops, after n cells. *)
LEMMA WritesPart ==
  ASSUME Typed, NEW s, NEW at, Holds(s, at), NEW e \in Event, NEW n \in Torn(e),
         writing, file' = file \o SubSeq(Frame(e), 1, n),
         kind' = kind, frames' = frames, pos' = pos, out' = out, answer' = answer,
         \/ failures' = failures /\ writing' = FALSE
         \/ failures' = failures + 1 /\ writing' = (kind = "capture")
  PROVE  Typed' /\ \E t, b : Holds(t, b)' /\ Moves(s, at[Len(s)], t, b[Len(t)])
<1> DEFINE g == SubSeq(Frame(e), 1, n)
           c == at[Len(s)]
<1>1. out = <<>> /\ pos = 0 /\ answer = "more"
  BY DEF Holds, Reading
<1>2. FrameLen(e) \in Nat \ {0} /\ n \in 0..FrameLen(e) - 1 /\ n \in Nat
  BY FrameIs DEF Torn, FrameLen
<1>3. file \in Seq(CellSet) /\ failures \in Nat
  BY DEF Typed
<1>4. /\ g \in Seq(CellSet) /\ Len(g) = n /\ Begins(file \o g, Len(file), e, n)
      /\ n # 0 => g[1].part = "len" /\ g[1].at = 1
  <2>1. n \in 0..FrameLen(e)
    BY <1>2
  <2> QED BY <1>3, <2>1, BeginsAtEnd
<1> HIDE DEF g
<1>5. /\ file' = file \o g /\ file' \in Seq(CellSet) /\ Len(file) \in Nat
      /\ Len(file') = Len(file) + n
  <2>1. file' = file \o g
    BY DEF g
  <2>2. file \o g \in Seq(CellSet) /\ Len(file \o g) = Len(file) + Len(g) /\ Len(file) \in Nat
    BY <1>3, <1>4, Joined
  <2> QED BY <1>4, <2>1, <2>2
<1>6. /\ s \in Seq(Event) /\ Len(s) \in Nat /\ at \in [0..Len(s) -> Nat] /\ at[0] = 0
      /\ c \in 0..Len(file) /\ c \in Nat
  BY <1>3, Ends0 DEF Holds
<1>7. Typed'
  <2>1. writing' \in BOOLEAN
    <3>1. (kind = "capture") \in BOOLEAN
      OBVIOUS
    <3> QED BY <3>1, Zenon
  <2>2. failures' \in Nat
    BY <1>3
  <2> QED BY <1>5, <2>1, <2>2 DEF Typed
<1>8. Whole(file', s, at)
  BY <1>3, <1>4, <1>5, WholeStays DEF Holds, Written
<1>9. CASE n = 0
  <2>1. file' = file
    <3>1. g = <<>>
      BY <1>4, <1>9, EmptySeq
    <3> QED BY <1>3, <1>5, <3>1, ConcatEmptySeq
  <2>2. Written(s, at)'
    <3>1. failures' = 0 => failures = 0 /\ Len(s) = frames'
      BY <1>3 DEF Holds, Written
    <3>2. failures = 0 \/ kind = "ledger" => c = Len(file)
      BY DEF Holds, Written
    <3>3. c = Len(file) \/ Broken(file', c)
      BY <2>1 DEF Holds, Written
    <3> QED BY <1>8, <2>1, <3>1, <3>2, <3>3 DEF Written
  <2>3. Reading(s, at)'
    BY <1>1, <1>6, NotBegun
  <2>4. Moves(s, c, s, at[Len(s)])
    BY <2>1 DEF Moves
  <2> QED BY <1>7, <2>2, <2>3, <2>4 DEF Holds
<1>10. CASE n # 0
  <2>1. c < Len(file')
    BY <1>2, <1>5, <1>6, <1>10
  <2>2. Broken(file', c) /\ (c = Len(file) => Cut(file', c))
    <3>1. CASE c = Len(file)
      <4>1. n \in 1..FrameLen(e) - 1 /\ c + n = Len(file')
        BY <1>2, <1>5, <1>6, <1>10, <3>1
      <4>2. Begins(file', c, e, n)
        BY <1>4, <1>5, <3>1
      <4>3. Cut(file', c)
        BY <4>1, <4>2 DEF Cut
      <4> QED BY <1>5, <1>6, <4>3, CutIsBroken
    <3>2. CASE c # Len(file)
      <4>1. Broken(file, c)
        BY <3>2 DEF Holds, Written
      <4>2. Broken(file \o g, c)
        BY <1>3, <1>4, <1>6, <1>10, <4>1, BrokenStays
      <4> QED BY <1>5, <3>2, <4>2
    <3> QED BY <3>1, <3>2
  <2>3. Written(s, at)'
    <3>1. failures' = 0 => Len(s) = frames' /\ failures = 0 /\ ~ writing'
      BY <1>3 DEF Holds, Written
    <3>2. kind' = "ledger" => ~ writing' /\ kind = "ledger"
      BY DEF Typed
    <3>3. failures = 0 \/ kind = "ledger" => c = Len(file)
      BY DEF Holds, Written
    <3>4. failures' = 0 \/ kind' = "ledger" => ~ writing' /\ Cut(file', c)
      BY <2>2, <3>1, <3>2, <3>3
    <3> QED BY <1>8, <2>2, <3>1, <3>4 DEF Written
  <2>4. Reading(s, at)'
    BY <1>1, <1>6, NotBegun
  <2>5. Moves(s, c, s, at[Len(s)])
    BY <2>1 DEF Moves
  <2> QED BY <1>7, <2>3, <2>4, <2>5 DEF Holds
<1> QED BY <1>9, <1>10

(* What reading once comes to, wherever the reader is. *)
LEMMA ReadsOnce ==
  ASSUME Typed, NextEvent \/ ReadEntry
  PROVE  /\ kind' = kind /\ file' = file /\ frames' = frames /\ failures' = failures
         /\ writing' = writing /\ ~ writing /\ answer = "more"
         /\ \/ \E x \in Event \cup {Garbage} : out' = Append(out, x) /\ answer' = answer
            \/ /\ out' = out /\ pos' = pos /\ answer' \in {"eof", "truncated", "decode"}
<1>1. \A n : \A e \in Decoded(n) : e # DecodeError => e \in Event \cup {Garbage}
  BY DEF Decoded
<1>2. CASE NextEvent
  BY <1>1, <1>2 DEF NextEvent, Ends, Returns, fileVars
<1>3. CASE ReadEntry
  BY <1>1, <1>3 DEF ReadEntry, Ends, Returns, fileVars
<1> QED BY <1>2, <1>3

(* Before the last whole frame the reader returns the next event.          *)
LEMMA ReadsNext ==
  ASSUME file \in Seq(CellSet), pos \in 0..Len(file), NEW e \in Event, Stands(file, pos, e),
         NextEvent \/ ReadEntry
  PROVE  out' = Append(out, e) /\ pos' = pos + FrameLen(e) /\ answer' = answer
<1>1. /\ LengthsRead = {Size[e]} /\ Decoded(Size[e]) = {e}
      /\ LenCells <= Len(Rest) /\ LenCells + Size[e] <= Len(Rest)
  BY ReadsEvent
<1>2. Len(Rest) \in Nat /\ LenCells \in Nat \ {0} /\ Size[e] \in Nat /\ pos \in Nat
  <2>1. Len(file) \in Nat
    BY RestIs
  <2> QED BY <2>1, RestIs, FrameIs
<1>3. /\ ~ (Len(Rest) < LenCells) /\ ~ (Len(Rest) < LenCells + Size[e])
      /\ Rest # <<>> /\ Len(Rest) \notin 1..(LenCells - 1)
  <2>1. Len(<<>>) = 0
    BY EmptySeq
  <2> QED BY <1>1, <1>2, <2>1
<1>4. e # DecodeError
  BY FrameConstants DEF FrameConstants
<1>5. pos + LenCells + Size[e] = pos + FrameLen(e)
  BY <1>2 DEF FrameLen
<1>6. CASE NextEvent
  <2>1. \E n \in LengthsRead :
           \/ Len(Rest) < LenCells + n /\ Ends("eof")
           \/ \E d \in Decoded(n) : (d # DecodeError /\ Returns(d, n)) \/ (d = DecodeError /\ Ends("eof"))
    BY <1>3, <1>6 DEF NextEvent
  <2>2. Returns(e, Size[e])
    BY <1>1, <1>3, <1>4, <2>1
  <2> QED BY <1>5, <2>2 DEF Returns
<1>7. CASE ReadEntry
  <2>1. \E n \in LengthsRead :
           \/ Len(Rest) < LenCells + n /\ Ends("truncated")
           \/ \E d \in Decoded(n) : (d # DecodeError /\ Returns(d, n)) \/ (d = DecodeError /\ Ends("decode"))
    BY <1>3, <1>7 DEF ReadEntry
  <2>2. Returns(e, Size[e])
    BY <1>1, <1>3, <1>4, <2>1
  <2> QED BY <1>5, <2>2 DEF Returns
<1> QED BY <1>6, <1>7

(* At the end of the file, and before a frame cut by it, the reader ends;  *)
(* a ledger reader tells the two apart.                                    *)
LEMMA ReadsEnd ==
  ASSUME file \in Seq(CellSet), pos \in 0..Len(file), pos = Len(file) \/ Cut(file, pos),
         NextEvent \/ ReadEntry
  PROVE  /\ out' = out /\ pos' = pos /\ answer' # "more"
         /\ kind = "ledger" => (answer' = "eof" <=> pos = Len(file))
<1>1. /\ Rest \in Seq(CellSet) /\ Len(Rest) = Len(file) - pos
      /\ Len(file) \in Nat /\ Len(Rest) \in Nat /\ pos \in Nat
  <2>1. Len(file) \in Nat
    BY RestIs
  <2> QED BY <2>1, RestIs
<1>2. LenCells \in Nat \ {0}
  BY FrameConstants DEF FrameConstants
<1>3. CASE pos = Len(file)
  <2>1. Len(Rest) = 0 /\ Len(Rest) < LenCells /\ ~ (Len(Rest) >= LenCells)
        /\ Len(Rest) \notin 1..(LenCells - 1)
    BY <1>1, <1>2, <1>3
  <2>2. CASE NextEvent
    <3>1. Ends("eof") /\ kind = "capture"
      BY <2>1, <2>2 DEF NextEvent
    <3> QED BY <3>1 DEF Ends
  <2>3. CASE ReadEntry
    <3>1. Ends("eof")
      BY <2>1, <2>3 DEF ReadEntry
    <3> QED BY <1>3, <3>1 DEF Ends
  <2> QED BY <2>2, <2>3
<1>4. CASE Cut(file, pos)
  <2>a. PICK e \in Event : \E k \in 1..FrameLen(e) - 1 : Begins(file, pos, e, k) /\ pos + k = Len(file)
    BY <1>4 DEF Cut
  <2>1. PICK k \in 1..FrameLen(e) - 1 : Begins(file, pos, e, k) /\ pos + k = Len(file)
    BY <2>a
  <2>2. FrameLen(e) \in Nat /\ k \in Nat \ {0} /\ k < FrameLen(e) /\ Len(Rest) = k
    <3>1. FrameLen(e) \in Nat
      BY FrameIs
    <3>2. k \in Nat \ {0} /\ k < FrameLen(e)
      BY <2>1, <3>1
    <3> QED BY <1>1, <2>1, <3>1, <3>2
  <2>3. Len(Rest) < LenCells + Size[e] /\ pos # Len(file) /\ Rest # <<>>
    <3>1. Len(<<>>) = 0
      BY EmptySeq
    <3> QED BY <1>1, <2>1, <2>2, <3>1 DEF FrameLen
  <2>4. Len(Rest) >= LenCells => LengthsRead = {Size[e]}
    <3>1. Len(Rest) >= LenCells => LenCells <= k /\ k <= FrameLen(e)
      BY <1>2, <2>2
    <3> QED BY <2>1, <2>2, <3>1, ReadsLength
  <2>5. Size[e] \in Nat
    BY FrameIs
  <2>6. CASE NextEvent
    <3>1. Ends("eof") /\ kind = "capture"
      <4>1. ASSUME Len(Rest) >= LenCells, NEW n \in LengthsRead PROVE ~ (Len(Rest) >= LenCells + n)
        BY <1>1, <1>2, <2>3, <2>4, <2>5, <4>1
      <4> QED BY <2>6, <4>1 DEF NextEvent
    <3> QED BY <3>1 DEF Ends
  <2>7. CASE ReadEntry
    <3>1. Ends("truncated")
      <4>1. ASSUME Len(Rest) >= LenCells, NEW n \in LengthsRead PROVE ~ (Len(Rest) >= LenCells + n)
        BY <1>1, <1>2, <2>3, <2>4, <2>5, <4>1
      <4> QED BY <2>3, <2>7, <4>1 DEF ReadEntry
    <3> QED BY <2>3, <3>1 DEF Ends
  <2> QED BY <2>6, <2>7
<1> QED BY <1>3, <1>4

LEMMA Reads ==
  ASSUME Typed, NEW s, NEW at, Holds(s, at), NextEvent \/ ReadEntry
  PROVE  Typed' /\ \E t, b : Holds(t, b)' /\ Moves(s, at[Len(s)], t, b[Len(t)])
<1> DEFINE c == at[Len(s)]
<1>1. /\ s \in Seq(Event) /\ Len(s) \in Nat /\ at \in [0..Len(s) -> Nat] /\ at[0] = 0
      /\ c \in 0..Len(file) /\ Len(file) \in Nat /\ file \in Seq(CellSet)
      /\ \A i \in 0..Len(s) : at[i] \in 0..Len(file)
  BY Ends0 DEF Holds, Typed
<1>2. /\ kind' = kind /\ file' = file /\ frames' = frames /\ failures' = failures
      /\ writing' = writing /\ ~ writing /\ answer = "more"
      /\ \/ \E x \in Event \cup {Garbage} : out' = Append(out, x) /\ answer' = answer
         \/ /\ out' = out /\ pos' = pos /\ answer' \in {"eof", "truncated", "decode"}
  BY ReadsOnce
<1>3. out \in Seq(Event \cup {Garbage}) /\ Len(out) \in Nat /\ DOMAIN out = 1..Len(out)
  BY LenProperties DEF Typed
<1>4. ASSUME NEW x \in Event \cup {Garbage}
      PROVE  /\ Append(out, x) \in Seq(Event \cup {Garbage}) /\ Len(Append(out, x)) = Len(out) + 1
             /\ DOMAIN Append(out, x) = 1..Len(out) + 1 /\ Append(out, x)[Len(out) + 1] = x
             /\ \A i \in 1..Len(out) : Append(out, x)[i] = out[i]
  <2>1. /\ Append(out, x) \in Seq(Event \cup {Garbage}) /\ Len(Append(out, x)) = Len(out) + 1
        /\ Append(out, x)[Len(out) + 1] = x
        /\ \A i \in 1..Len(out) : Append(out, x)[i] = out[i]
    BY <1>3, AppendProperties
  <2>2. DOMAIN Append(out, x) = 1..Len(Append(out, x))
    BY <2>1, LenProperties
  <2> QED BY <2>1, <2>2
<1>5. Typed'
  <2>1. out' \in Seq(Event \cup {Garbage})
    BY <1>2, <1>3, <1>4
  <2>2. answer' \in {"more", "eof", "truncated", "decode"}
    BY <1>2
  <2> QED BY <1>2, <2>1, <2>2 DEF Typed
<1>6. Written(s, at)'
  BY <1>2 DEF Holds, Written
<1>7. \A i \in DOMAIN out : i <= Len(s) => out[i] = s[i]
  BY DEF Holds, Reading
<1>8. CASE InStep(s, at) /\ Len(out) < Len(s)
  <2> DEFINE i == Len(out) + 1
  <2>1. /\ i \in 1..Len(s) /\ i - 1 = Len(out) /\ Len(out) \in 0..Len(s)
        /\ pos = at[i - 1] /\ pos \in 0..Len(file)
    <3>1. i \in 1..Len(s) /\ i - 1 = Len(out) /\ Len(out) \in 0..Len(s)
      BY <1>1, <1>3, <1>8
    <3> QED BY <1>1, <1>8, <3>1 DEF InStep
  <2> HIDE DEF i
  <2>2. s[i] \in Event /\ Stands(file, pos, s[i]) /\ at[i] = pos + FrameLen(s[i])
    <3>1. s[i] \in Event
      BY <1>1, <2>1, ElementOfSeq
    <3> QED BY <2>1, <3>1 DEF Holds, Written, Whole
  <2>3. out' = Append(out, s[i]) /\ pos' = at[i] /\ answer' = answer
    BY <1>1, <2>1, <2>2, ReadsNext
  <2>4. Len(out') = i /\ DOMAIN (out') = 1..i /\ out'[i] = s[i]
        /\ \A k \in 1..Len(out) : out'[k] = out[k]
    BY <1>4, <2>2, <2>3 DEF i
  <2>5. InStep(s, at)'
    BY <1>1, <1>2, <2>1, <2>3, <2>4 DEF InStep
  <2>6. \A k \in DOMAIN (out') : k <= Len(s) => out'[k] = s[k]
    <3>1. ASSUME NEW k \in 1..i PROVE k = i \/ k \in 1..Len(out)
      BY <1>3 DEF i
    <3> QED BY <1>3, <1>7, <2>4, <3>1
  <2>7. Reading(s, at)'
    BY <1>2, <2>5, <2>6 DEF Reading
  <2>8. Moves(s, c, s, at[Len(s)])
    BY <1>2, <1>8, <2>2, <2>3 DEF Moves, i
  <2> QED BY <1>5, <1>6, <2>7, <2>8 DEF Holds
<1>9. CASE InStep(s, at) /\ Len(out) = Len(s) /\ (c = Len(file) \/ Cut(file, c))
  <2>1. pos = c
    BY <1>9 DEF InStep
  <2>2. /\ out' = out /\ pos' = pos /\ answer' # "more"
        /\ kind = "ledger" => (answer' = "eof" <=> pos = Len(file))
    BY <1>1, <1>9, <2>1, ReadsEnd
  <2>3. InStep(s, at)'
    BY <1>2, <1>9, <2>1, <2>2 DEF InStep
  <2>4. Reading(s, at)'
    BY <1>2, <1>7, <2>2, <2>3 DEF Reading
  <2>5. Moves(s, c, s, at[Len(s)])
    BY <1>1, <1>2, <1>9, <2>2 DEF Moves
  <2> QED BY <1>5, <1>6, <2>4, <2>5 DEF Holds
<1>10. CASE /\ Len(out) >= Len(s) /\ c < Len(file) /\ failures # 0 /\ kind = "capture"
            /\ InStep(s, at) \/ Beyond(s, at)
  <2>1. CASE out' = out /\ pos' = pos /\ answer' \in {"eof", "truncated", "decode"}
    <3>3. (InStep(s, at) \/ Beyond(s, at))'
      <4>1. CASE InStep(s, at)
        <5>1. Len(out) = Len(s)
          BY <1>1, <1>3, <1>10, <4>1 DEF InStep
        <5>2. InStep(s, at)'
          BY <1>2, <1>10, <2>1, <4>1, <5>1 DEF InStep
        <5> QED BY <5>2
      <4>2. CASE Beyond(s, at)
        BY <1>2, <2>1, <4>2 DEF Beyond
      <4> QED BY <1>10, <4>1, <4>2
    <3>4. Reading(s, at)'
      BY <1>2, <1>7, <2>1, <3>3 DEF Reading
    <3>5. Moves(s, c, s, at[Len(s)])
      BY <1>2, <1>10, <2>1 DEF Moves
    <3> QED BY <1>5, <1>6, <3>4, <3>5 DEF Holds
  <2>2. ASSUME NEW x \in Event \cup {Garbage}, out' = Append(out, x), answer' = answer
        PROVE  \E t, b : Holds(t, b)' /\ Moves(s, at[Len(s)], t, b[Len(t)])
    <3>1. Len(out') = Len(out) + 1 /\ DOMAIN (out') = 1..Len(out) + 1
          /\ \A k \in 1..Len(out) : out'[k] = out[k]
      BY <1>4, <2>2
    <3>2. Beyond(s, at)'
      <4>1. Len(out') > Len(s)
        BY <1>1, <1>3, <1>10, <3>1
      <4> QED BY <1>2, <1>10, <4>1 DEF Beyond
    <3>3. \A k \in DOMAIN (out') : k <= Len(s) => out'[k] = s[k]
      <4>1. ASSUME NEW k \in 1..Len(out) + 1, k <= Len(s) PROVE k \in 1..Len(out)
        BY <1>1, <1>3, <1>10, <4>1
      <4> QED BY <1>3, <1>7, <3>1, <4>1
    <3>4. Reading(s, at)'
      BY <1>2, <3>2, <3>3 DEF Reading
    <3>5. Moves(s, c, s, at[Len(s)])
      <4>1. ~ (Len(out) < Len(s))
        BY <1>1, <1>3, <1>10
      <4> QED BY <1>2, <1>10, <2>2, <4>1 DEF Moves
    <3> QED BY <1>6, <3>4, <3>5 DEF Holds
  <2> QED BY <1>2, <1>5, <2>1, <2>2
<1>11. \/ InStep(s, at) /\ Len(out) < Len(s)
       \/ InStep(s, at) /\ Len(out) = Len(s) /\ (c = Len(file) \/ Cut(file, c))
       \/ /\ Len(out) >= Len(s) /\ c < Len(file) /\ failures # 0 /\ kind = "capture"
          /\ InStep(s, at) \/ Beyond(s, at)
  <2>1. CASE InStep(s, at)
    <3>1. Len(out) < Len(s) \/ Len(out) = Len(s)
      BY <1>1, <1>3, <2>1 DEF InStep
    <3>2. failures = 0 \/ kind = "ledger" => c = Len(file) \/ Cut(file, c)
      BY DEF Holds, Written
    <3>3. c = Len(file) \/ c < Len(file)
      BY <1>1
    <3>4. kind # "ledger" => kind = "capture"
      BY DEF Typed
    <3>5. Len(out) = Len(s) => Len(out) >= Len(s)
      BY <1>1, <1>3
    <3> QED BY <2>1, <3>1, <3>2, <3>3, <3>4, <3>5
  <2>2. CASE Beyond(s, at)
    <3>1. Len(out) >= Len(s)
      BY <1>1, <1>3, <2>2 DEF Beyond
    <3> QED BY <2>2, <3>1 DEF Beyond
  <2> QED BY <2>1, <2>2 DEF Holds, Reading
<1> QED BY <1>8, <1>9, <1>10, <1>11

-----------------------------------------------------------------------------
(* Every step of the file keeps the invariant, and is one of the moves.    *)
LEMMA StepMoves ==
  ASSUME Typed, NEW s, NEW at, Holds(s, at), FileNext \/ UNCHANGED vars
  PROVE  Typed' /\ \E t, b : Holds(t, b)' /\ Moves(s, at[Len(s)], t, b[Len(t)])
<1>1. CASE \E e \in Event : WriteFrame(e)
  BY <1>1, WritesWhole
<1>2. ASSUME NEW e \in Event, NEW n \in Torn(e), WriteFails(e, n)
      PROVE  Typed' /\ \E t, b : Holds(t, b)' /\ Moves(s, at[Len(s)], t, b[Len(t)])
  <2>1. /\ writing /\ file' = file \o SubSeq(Frame(e), 1, n)
        /\ kind' = kind /\ frames' = frames /\ pos' = pos /\ out' = out /\ answer' = answer
        /\ failures' = failures + 1 /\ writing' = (kind = "capture")
    BY <1>2 DEF WriteFails, readVars
  <2> QED BY <2>1, WritesPart
<1>3. ASSUME NEW e \in Event, NEW n \in Torn(e), StopInFrame(e, n)
      PROVE  Typed' /\ \E t, b : Holds(t, b)' /\ Moves(s, at[Len(s)], t, b[Len(t)])
  <2>1. /\ writing /\ file' = file \o SubSeq(Frame(e), 1, n)
        /\ kind' = kind /\ frames' = frames /\ pos' = pos /\ out' = out /\ answer' = answer
        /\ failures' = failures /\ writing' = FALSE
    BY <1>3 DEF StopInFrame, readVars
  <2> QED BY <2>1, WritesPart
<1>4. CASE Stop \/ UNCHANGED vars
  <2>1. /\ kind' = kind /\ file' = file /\ frames' = frames /\ failures' = failures
        /\ pos' = pos /\ out' = out /\ answer' = answer
        /\ writing' = writing \/ (writing' = FALSE)
    BY <1>4 DEF Stop, vars, readVars
  <2>2. Typed'
    BY <2>1 DEF Typed
  <2>3. Written(s, at)'
    BY <2>1 DEF Holds, Written
  <2>4. InStep(s, at)' = InStep(s, at) /\ Beyond(s, at)' = Beyond(s, at)
    BY <2>1 DEF InStep, Beyond
  <2>5. Reading(s, at)'
    BY <2>1, <2>4 DEF Holds, Reading
  <2>6. Moves(s, at[Len(s)], s, at[Len(s)])
    BY <2>1 DEF Moves
  <2> QED BY <2>2, <2>3, <2>5, <2>6 DEF Holds
<1>5. CASE NextEvent \/ ReadEntry
  BY <1>5, Reads
<1> QED BY <1>1, <1>2, <1>3, <1>4, <1>5 DEF FileNext

(* The steps of the replay itself leave the file and its reader alone.     *)
LEMMA ReplayLeavesFile ==
  ASSUME [Next]_allVars
  PROVE  FileNext \/ UNCHANGED vars
<1>1. CASE OpenReplay
  BY <1>1 DEF OpenReplay
<1>2. CASE BoundedDrop
  BY <1>2 DEF BoundedDrop
<1>3. CASE BoundedCorrupt
  BY <1>3 DEF BoundedCorrupt, Ended
<1>4. CASE JitteredSlot
  BY <1>4 DEF JitteredSlot, Ended
<1>5. CASE Reordered
  BY <1>5 DEF Reordered, Ended
<1>6. CASE Capped
  BY <1>6 DEF Capped
<1>7. CASE UNCHANGED allVars
  BY <1>7 DEF allVars
<1> QED BY <1>1, <1>2, <1>3, <1>4, <1>5, <1>6, <1>7 DEF Next

LEMMA FileInvInit == ReplayInit => FileInv
<1> SUFFICES ASSUME ReplayInit PROVE FileInv
  OBVIOUS
<1>1. /\ kind \in {"capture", "ledger"} /\ file = <<>> /\ frames = 0 /\ failures = 0
      /\ writing = TRUE /\ pos = 0 /\ out = <<>> /\ answer = "more"
  BY DEF ReplayInit, Init
<1>2. Typed
  BY <1>1, EmptySeq DEF Typed
<1> DEFINE at == [i \in 0..0 |-> 0]
<1>3. at \in [0..0 -> Nat] /\ at[0] = 0 /\ 0..0 = {0}
  OBVIOUS
<1> HIDE DEF at
<1>4. Len(<<>>) = 0 /\ <<>> \in Seq(Event) /\ 1..0 = {} /\ DOMAIN <<>> = {}
  BY EmptySeq
<1>5. Whole(file, <<>>, at)
  BY <1>1, <1>3, <1>4 DEF Whole
<1>6. Written(<<>>, at)
  BY <1>1, <1>3, <1>4, <1>5 DEF Written
<1>7. InStep(<<>>, at)
  BY <1>1, <1>3, <1>4 DEF InStep
<1>8. Reading(<<>>, at)
  BY <1>1, <1>4, <1>7 DEF Reading
<1> QED BY <1>2, <1>6, <1>8 DEF FileInv, Holds

LEMMA FileInvStep == FileInv /\ [Next]_allVars => FileInv'
<1> SUFFICES ASSUME FileInv, [Next]_allVars PROVE FileInv'
  OBVIOUS
<1>1. PICK s, at : Holds(s, at)
  BY DEF FileInv
<1>2. Typed' /\ \E t, b : Holds(t, b)' /\ Moves(s, at[Len(s)], t, b[Len(t)])
  BY <1>1, ReplayLeavesFile, StepMoves DEF FileInv
<1> QED BY <1>2 DEF FileInv

(* FileHolds: at every moment a capture or ledger file is a sequence of    *)
(* whole frames with nothing or one torn frame behind them (more only      *)
(* where the tee of capturing.rs goes on after a failure), and the reader  *)
(* of capture.rs or reader.rs is at the end of one of those frames, having *)
(* returned the events before it, or behind the last of them.              *)
THEOREM FileHolds == Spec => []FileInv
<1> QED BY FileInvInit, FileInvStep, PTL DEF Spec

(* What the recursion and the fold of FrameFile come to in such a file.    *)
LEMMA IntactIn ==
  ASSUME NEW f \in Seq(CellSet), NEW s, NEW at, Whole(f, s, at),
         at[Len(s)] = Len(f) \/ Broken(f, at[Len(s)])
  PROVE  /\ IntactOf(f) = s /\ CellsOf(IntactOf(f)) = at[Len(s)]
         /\ s \in Seq(Event) /\ at[Len(s)] \in 0..Len(f) /\ Len(f) \in Nat
<1>1. s \in Seq(Event) /\ at \in [0..Len(s) -> Nat]
  BY DEF Whole
<1>2. Len(s) \in Nat /\ Len(f) \in Nat
  BY <1>1, LenProperties
<1>3. at[Len(s)] \in Nat
  BY <1>1, <1>2
<1>4. Final(f, at[Len(s)])
  BY <1>3, BrokenIsFinal
<1>5. IntactOf(f) = s /\ at[Len(s)] \in 0..Len(f)
  BY <1>4, IntactIs
<1>6. CellsOf(s) = at[Len(s)]
  BY CellsIs
<1> QED BY <1>1, <1>2, <1>5, <1>6

LEMMA IntactNow ==
  ASSUME Typed, NEW s, NEW at, Holds(s, at)
  PROVE  /\ Intact = s /\ IntactCells = at[Len(s)]
         /\ s \in Seq(Event) /\ at[Len(s)] \in 0..Len(file) /\ Len(file) \in Nat
<1>1. file \in Seq(CellSet) /\ Whole(file, s, at)
      /\ (at[Len(s)] = Len(file) \/ Broken(file, at[Len(s)]))
  BY DEF Typed, Holds, Written
<1> QED BY <1>1, IntactIn DEF Intact, IntactCells

LEMMA IntactNext ==
  ASSUME Typed', NEW s, NEW at, Holds(s, at)'
  PROVE  /\ Intact' = s /\ IntactCells' = at[Len(s)]
         /\ s \in Seq(Event) /\ at[Len(s)] \in 0..Len(file') /\ Len(file') \in Nat
<1>1. file' \in Seq(CellSet) /\ Whole(file', s, at)
      /\ (at[Len(s)] = Len(file') \/ Broken(file', at[Len(s)]))
  BY DEF Typed, Holds, Written
<1> QED BY <1>1, IntactIn DEF Intact, IntactCells

(* EndIsToldAlways: if no write failed, a reader that says it is at the    *)
(* end has returned all frames, and a ledger reader says so exactly when   *)
(* the file does not end inside a frame (reader.rs, read_entry).           *)
THEOREM EndIsToldAlways == Spec => []EndIsTold
<1>1. FileInv => EndIsTold
  <2> SUFFICES ASSUME FileInv PROVE EndIsTold
    OBVIOUS
  <2>1. PICK s, at : Holds(s, at)
    BY DEF FileInv
  <2>2. /\ Intact = s /\ IntactCells = at[Len(s)] /\ Len(file) \in Nat
    BY <2>1, IntactNow DEF FileInv
  <2>3. (failures # 0 /\ kind = "capture") \/ InStep(s, at)
    BY <2>1 DEF Holds, Reading, Beyond
  <2>4. failures = 0 => Len(s) = frames
    BY <2>1 DEF Holds, Written
  <2>5. ASSUME failures = 0, answer # "more" PROVE Len(out) = frames
    BY <2>3, <2>4, <2>5 DEF InStep
  <2>6. ASSUME kind = "ledger", answer # "more"
        PROVE  (answer = "eof") = (IntactCells = Len(file))
    <3>1. answer = "eof" <=> at[Len(s)] = Len(file)
      BY <2>3, <2>6 DEF InStep
    <3> QED BY <2>2, <3>1
  <2> QED BY <2>5, <2>6 DEF EndIsTold
<1> QED BY <1>1, FileHolds, PTL

(* A move of the file is a step of the log, or none.                       *)
LEMMA MoveIsStep ==
  ASSUME Typed, Typed', NEW s, NEW at, Holds(s, at), NEW t, NEW b, Holds(t, b)',
         Moves(s, at[Len(s)], t, b[Len(t)])
  PROVE  [Log!Next]_(Log!logVars)
<1> DEFINE c == at[Len(s)]
           d == b[Len(t)]
<1>1. /\ Intact = s /\ IntactCells = c /\ c \in 0..Len(file) /\ Len(file) \in Nat
  BY IntactNow
<1>2. /\ Intact' = t /\ IntactCells' = d /\ d \in 0..Len(file') /\ Len(file') \in Nat
  BY IntactNext
<1>3. out \in Seq(Event \cup {Garbage}) /\ Len(out) \in Nat
  BY LenProperties DEF Typed
<1> HIDE DEF c, d
<1>4. CASE /\ t = s /\ out' = out /\ (answer' # "more") = (answer # "more")
           /\ c < Len(file) => d < Len(file')
  <2>1. CASE d < Len(file')
    <3>1. (IntactCells < Len(file))' = TRUE
      BY <1>2, <2>1
    <3> QED BY <1>1, <1>2, <1>4, <3>1 DEF Log!Next, Log!Tear
  <2>2. CASE ~ (d < Len(file'))
    <3>1. (IntactCells < Len(file))' = (IntactCells < Len(file))
      BY <1>1, <1>2, <1>4, <2>2
    <3> QED BY <1>1, <1>2, <1>4, <3>1 DEF Log!logVars
  <2> QED BY <2>1, <2>2
<1>5. CASE /\ c = Len(file) /\ d = Len(file') /\ out' = out /\ answer' = answer
           /\ \E e \in Event : t = Append(s, e)
  <2>1. ~ (IntactCells < Len(file)) /\ ~ (IntactCells < Len(file))'
    BY <1>1, <1>2, <1>5
  <2>2. (IntactCells < Len(file))' = (IntactCells < Len(file))
    BY <2>1
  <2> QED BY <1>1, <1>2, <1>5, <2>1, <2>2 DEF Log!Next, Log!Append1
<1>6. CASE /\ t = s /\ d = c /\ file' = file /\ answer = "more" /\ answer' = "more"
           /\ \E x \in Event \cup {Garbage} : /\ out' = Append(out, x)
                                            /\ IF Len(out) < Len(s) THEN x = s[Len(out) + 1]
                                                                  ELSE c < Len(file)
  <2>1. PICK x \in Event \cup {Garbage} : /\ out' = Append(out, x)
                                         /\ IF Len(out) < Len(s) THEN x = s[Len(out) + 1]
                                                               ELSE c < Len(file)
    BY <1>6
  <2>2. Len(out') = Len(out) + 1 /\ out'[Len(out) + 1] = x
    BY <1>3, <2>1, AppendProperties
  <2>3. out' = Append(out, out'[Len(out')])
    BY <2>1, <2>2
  <2>4. (IntactCells < Len(file))' = (IntactCells < Len(file))
    BY <1>1, <1>2, <1>6
  <2>5. IF Len(out) < Len(Intact) THEN out'[Len(out')] = Intact[Len(out')] ELSE IntactCells < Len(file)
    BY <1>1, <2>1, <2>2
  <2>6. (answer' # "more") = (answer # "more")
    BY <1>6
  <2> QED BY <1>1, <1>2, <1>6, <2>2, <2>3, <2>4, <2>5, <2>6 DEF Log!Next, Log!Read1
<1>7. CASE /\ t = s /\ d = c /\ file' = file /\ out' = out /\ answer' # "more"
           /\ Len(out) >= Len(s)
  <2>1. (IntactCells < Len(file))' = (IntactCells < Len(file))
    BY <1>1, <1>2, <1>7
  <2>2. (answer' # "more") = TRUE
    BY <1>7
  <2> QED BY <1>1, <1>2, <1>7, <2>1, <2>2 DEF Log!Next, Log!End
<1> QED BY <1>4, <1>5, <1>6, <1>7 DEF Moves, c, d

LEMMA LogInit == ReplayInit => Log!Init
<1> SUFFICES ASSUME ReplayInit PROVE Log!Init
  OBVIOUS
<1>1. FileInv /\ file = <<>> /\ out = <<>> /\ answer = "more" /\ failures = 0 /\ frames = 0
  BY FileInvInit DEF ReplayInit, Init
<1>2. PICK s, at : Holds(s, at)
  BY <1>1 DEF FileInv
<1>3. /\ Intact = s /\ IntactCells = at[Len(s)] /\ s \in Seq(Event)
      /\ at[Len(s)] \in 0..Len(file)
  BY <1>1, <1>2, IntactNow DEF FileInv
<1>4. Len(s) = 0 /\ Len(file) = 0
  <2>1. Len(<<>>) = 0
    BY EmptySeq
  <2> QED BY <1>1, <1>2, <2>1 DEF Holds, Written
<1>5. s = <<>>
  BY <1>3, <1>4, EmptySeq
<1>6. (IntactCells < Len(file)) = FALSE
  BY <1>3, <1>4
<1> QED BY <1>1, <1>3, <1>5, <1>6 DEF Log!Init

(* FileImplementsLog: a capture or ledger file is a log: the reader        *)
(* returns the events written whole, in order, whatever write failed and   *)
(* wherever the process stopped, and other events only behind a torn frame *)
(* (capture.rs next_event, reader.rs read_entry).                          *)
THEOREM FileImplementsLog == Spec => ImplementsLog
<1>1. FileInv /\ [Next]_allVars => [Log!Next]_(Log!logVars)
  <2> SUFFICES ASSUME FileInv, [Next]_allVars PROVE [Log!Next]_(Log!logVars)
    OBVIOUS
  <2>1. PICK s, at : Holds(s, at)
    BY DEF FileInv
  <2>2. Typed' /\ \E t, b : Holds(t, b)' /\ Moves(s, at[Len(s)], t, b[Len(t)])
    BY <2>1, ReplayLeavesFile, StepMoves DEF FileInv
  <2>3. PICK t, b : Holds(t, b)' /\ Moves(s, at[Len(s)], t, b[Len(t)])
    BY <2>2
  <2> QED BY <2>1, <2>2, <2>3, MoveIsStep DEF FileInv
<1> QED BY <1>1, LogInit, FileHolds, PTL DEF Spec, ImplementsLog, LogSpec, Log!Spec

-----------------------------------------------------------------------------
(* The replay: what the caches and the pools come from. *)

Data(s) == {e.data : e \in {g \in ToSet(s) : Account(g)}}

BackedBy(p, D) ==
    \E amm, b, q \in D :
       /\ DecoderOf(amm) = "amm_info" /\ DecoderOf(b) = "token" /\ DecoderOf(q) = "token"
       /\ <<p.base, p.quote>> = <<amm.base_vault, amm.quote_vault>>
       /\ <<b.mint, q.mint>> = <<amm.base_mint, amm.quote_mint>>
       /\ <<p.rb, p.rq>> = <<b.amount, q.amount>>

Cached ==
    result # "error" =>
      /\ \E D : given \in Seq(D)
      /\ \E D : pools \in Seq(D)
      /\ \A e \in ToSet(given) : Account(e) => DecoderOf(e.data) # "none"
      /\ IsFiniteSet(DOMAIN amms)
      /\ \A k \in DOMAIN amms : amms[k] \in Data(given) /\ DecoderOf(amms[k]) = "amm_info"
      /\ \A k \in DOMAIN vaults : vaults[k] \in Data(given) /\ DecoderOf(vaults[k]) = "token"
      /\ \A p \in ToSet(pools) : BackedBy(p, Data(given))

LEMMA AppendIs ==
  ASSUME NEW D, NEW s \in Seq(D), NEW e
  PROVE  /\ \E E : Append(s, e) \in Seq(E)
         /\ Len(Append(s, e)) = Len(s) + 1 /\ Append(s, e)[Len(s) + 1] = e
         /\ \A i \in 1..Len(s) : Append(s, e)[i] = s[i]
         /\ ToSet(Append(s, e)) = ToSet(s) \cup {e}
<1> DEFINE E == D \cup {e}
           t == Append(s, e)
           n == Len(s)
<1>1. s \in Seq(E) /\ e \in E
  BY SeqMonotonic
<1>2. n \in Nat /\ DOMAIN s = 1..n
  BY LenProperties
<1> HIDE DEF E
<1>3. t \in Seq(E) /\ Len(t) = n + 1 /\ t[n + 1] = e /\ \A i \in 1..n : t[i] = s[i]
  BY <1>1, AppendProperties
<1>4. DOMAIN t = 1..n + 1
  BY <1>3, LenProperties
<1> HIDE DEF t, n
<1>5. 1..n + 1 = 1..n \cup {n + 1}
  BY <1>2
<1>6. ToSet(t) = ToSet(s) \cup {e}
  BY <1>2, <1>3, <1>4, <1>5 DEF ToSet
<1> QED BY <1>3, <1>6 DEF t, n

LEMMA SetToSeqIs ==
  ASSUME NEW S, IsFiniteSet(S)
  PROVE  SetToSeq(S) \in Seq(S)
<1> DEFINE n == Cardinality(S)
<1>1. n \in Nat /\ ExistsBijection(1..n, S)
  BY FS_CardinalityType
<1>2. \E f \in [1..n -> S] : IsInjective(f)
  BY <1>1 DEF ExistsBijection, Bijection, Injection
<1>3. SetToSeq(S) \in [1..n -> S]
  BY <1>2 DEF SetToSeq
<1> HIDE DEF n
<1> QED BY <1>1, <1>3, SeqDef

LEMMA JoinedSet ==
  ASSUME NEW D, NEW s \in Seq(D), NEW E, NEW t \in Seq(E)
  PROVE  s \o t \in Seq(D \cup E) /\ \A x \in ToSet(s \o t) : x \in ToSet(s) \/ x \in E
<1>1. s \in Seq(D \cup E) /\ t \in Seq(D \cup E)
  BY SeqMonotonic
<1>2. /\ s \o t \in Seq(D \cup E) /\ Len(s \o t) = Len(s) + Len(t)
      /\ \A i \in 1..Len(s) + Len(t) : (s \o t)[i] = IF i <= Len(s) THEN s[i] ELSE t[i - Len(s)]
  BY <1>1, ConcatProperties
<1>3. Len(s) \in Nat /\ Len(t) \in Nat /\ DOMAIN s = 1..Len(s)
      /\ DOMAIN (s \o t) = 1..Len(s \o t)
  BY <1>2, LenProperties
<1>4. ASSUME NEW x \in ToSet(s \o t) PROVE x \in ToSet(s) \/ x \in E
  <2>1. PICK i \in 1..Len(s) + Len(t) : (s \o t)[i] = x
    BY <1>2, <1>3 DEF ToSet
  <2>2. CASE i <= Len(s)
    BY <1>2, <1>3, <2>1, <2>2 DEF ToSet
  <2>3. CASE ~(i <= Len(s))
    <3> DEFINE j == i - Len(s)
    <3>1. j \in 1..Len(t)
      BY <1>3, <2>1, <2>3
    <3> HIDE DEF j
    <3>2. t[j] \in E
      BY <3>1, ElementOfSeq
    <3> QED BY <1>2, <2>1, <2>3, <3>2 DEF j
  <2> QED BY <2>2, <2>3
<1> QED BY <1>2, <1>4

LEMMA TakeKeeps ==
  ASSUME Cached, result = "open", NEW e, Gives(e)
  PROVE  Cached'
<1> SUFFICES ASSUME result' # "error" PROVE Cached'
  BY DEF Cached
<1> DEFINE D == Data(given)
           E == Data(given')
<1>1. PICK C : given \in Seq(C)
  BY DEF Cached
<1>2. (\E C2 : given' \in Seq(C2)) /\ ToSet(given') = ToSet(given) \cup {e}
  BY <1>1, AppendIs DEF Gives
<1>3. D \subseteq E /\ (Account(e) => e.data \in E)
  BY <1>2 DEF Data
<1> HIDE DEF D, E
<1>4. ASSUME NEW p, BackedBy(p, D) PROVE BackedBy(p, E)
  BY <1>3, <1>4 DEF BackedBy
<1>5. Take(e)
  BY DEF Gives
<1>6. CASE ~Account(e)
  <2>1. amms' = amms /\ vaults' = vaults /\ pools' = pools
    BY <1>5, <1>6 DEF Take, poolVars
  <2>2. \A g \in ToSet(given') : Account(g) => DecoderOf(g.data) # "none"
    BY <1>2, <1>6 DEF Cached
  <2> QED BY <1>2, <1>3, <1>4, <2>1, <2>2 DEF Cached, D, E
<1>7. CASE Account(e) /\ DecoderOf(e.data) = "none"
  BY <1>5, <1>7 DEF Take
<1>8. CASE Account(e) /\ DecoderOf(e.data) # "none"
  <2> DEFINE d == DecoderOf(e.data)
             a == IF d = "amm_info" THEN With(amms, e.data.base_vault, e.data) ELSE amms
             v == IF d = "token" THEN With(vaults, CacheKey(e), e.data) ELSE vaults
             ready == Complete(a, v)
             S == {Assembled(a[k], v) : k \in ready}
  <2>1. /\ vaults' = v /\ amms' = [k \in DOMAIN a \ ready |-> a[k]]
        /\ pools' = pools \o SetToSeq(S)
        /\ \A k \in ready : Assembles(a[k], v)
    BY <1>5, <1>8 DEF Take
  <2>2. /\ IsFiniteSet(DOMAIN a)
        /\ \A k \in DOMAIN a : a[k] \in E /\ DecoderOf(a[k]) = "amm_info"
    <3>1. CASE d = "amm_info"
      <4>1. a = With(amms, e.data.base_vault, e.data)
        BY <3>1
      <4> DEFINE bv == e.data.base_vault
      <4> HIDE DEF a
      <4>2. DOMAIN a = DOMAIN amms \cup {bv} /\ a[bv] = e.data
            /\ \A k \in DOMAIN amms : k # bv => a[k] = amms[k]
        BY <4>1 DEF With
      <4> HIDE DEF bv
      <4>3. IsFiniteSet(DOMAIN a)
        BY <4>2, FS_AddElement DEF Cached
      <4>4. \A k \in DOMAIN amms : amms[k] \in E /\ DecoderOf(amms[k]) = "amm_info"
        BY <1>3 DEF Cached, D
      <4> QED BY <1>3, <1>8, <3>1, <4>2, <4>3, <4>4
    <3>2. CASE d # "amm_info"
      BY <1>3, <3>2 DEF Cached, D
    <3> QED BY <3>1, <3>2
  <2>3. \A k \in DOMAIN v : v[k] \in E /\ DecoderOf(v[k]) = "token"
    <3>1. CASE d = "token"
      <4>1. v = With(vaults, CacheKey(e), e.data)
        BY <3>1
      <4> DEFINE m == CacheKey(e)
      <4> HIDE DEF v
      <4>2. DOMAIN v = DOMAIN vaults \cup {m} /\ v[m] = e.data
            /\ \A k \in DOMAIN vaults : k # m => v[k] = vaults[k]
        BY <4>1 DEF With
      <4> HIDE DEF m
      <4>3. \A k \in DOMAIN vaults : vaults[k] \in E /\ DecoderOf(vaults[k]) = "token"
        BY <1>3 DEF Cached, D
      <4> QED BY <1>3, <1>8, <3>1, <4>2, <4>3
    <3>2. CASE d # "token"
      BY <1>3, <3>2 DEF Cached, D
    <3> QED BY <3>1, <3>2
  <2> HIDE DEF a, v, d
  <2>4. \A k \in ready : /\ k \in DOMAIN a
                         /\ a[k].base_vault \in DOMAIN v /\ a[k].quote_vault \in DOMAIN v
    BY DEF Complete
  <2>5. SetToSeq(S) \in Seq(S)
    <3>1. IsFiniteSet(ready)
      BY <2>2, <2>4, FS_Subset
    <3> DEFINE f == [k \in ready |-> Assembled(a[k], v)]
    <3>2. f \in Surjection(ready, S)
      BY DEF Surjection
    <3>3. IsFiniteSet(S)
      BY <3>1, <3>2, FS_Surjection DEF ExistsSurjection
    <3> QED BY <3>3, SetToSeqIs
  <2>6. ASSUME NEW p \in S PROVE BackedBy(p, E)
    <3>1. PICK k \in ready : p = Assembled(a[k], v)
      BY <2>6
    <3> DEFINE amm == a[k]
               b == v[amm.base_vault]
               q == v[amm.quote_vault]
    <3>2. amm \in E /\ b \in E /\ q \in E /\ DecoderOf(amm) = "amm_info"
          /\ DecoderOf(b) = "token" /\ DecoderOf(q) = "token"
      BY <2>2, <2>3, <2>4
    <3>3. b.mint = amm.base_mint /\ q.mint = amm.quote_mint
      BY <2>1, <3>1 DEF Assembles
    <3>4. /\ p.base = amm.base_vault /\ p.quote = amm.quote_vault
          /\ p.rb = b.amount /\ p.rq = q.amount
      BY <3>1 DEF Assembled
    <3> HIDE DEF amm, b, q
    <3> QED BY <3>2, <3>3, <3>4 DEF BackedBy
  <2>7. PICK P : pools \in Seq(P)
    BY DEF Cached
  <2> HIDE DEF S, ready
  <2>8. (\E Q : pools' \in Seq(Q)) /\ \A p \in ToSet(pools') : p \in ToSet(pools) \/ p \in S
    BY <2>1, <2>5, <2>7, JoinedSet
  <2>9. \A p \in ToSet(pools') : BackedBy(p, E)
    BY <1>4, <2>6, <2>8 DEF Cached, D
  <2>10. IsFiniteSet(DOMAIN amms') /\ \A k \in DOMAIN amms' : k \in DOMAIN a /\ amms'[k] = a[k]
    <3>1. DOMAIN amms' = DOMAIN a \ ready /\ \A k \in DOMAIN amms' : amms'[k] = a[k]
      BY <2>1
    <3> QED BY <2>2, <3>1, FS_Subset
  <2>11. \A g \in ToSet(given') : Account(g) => DecoderOf(g.data) # "none"
    BY <1>2, <1>8 DEF Cached
  <2> QED BY <1>2, <2>1, <2>2, <2>3, <2>8, <2>9, <2>10, <2>11 DEF Cached, E
<1> QED BY <1>6, <1>7, <1>8

-----------------------------------------------------------------------------
(* The replay: what each layer has done to the events it took.             *)

Fed == Event \cup {Garbage}

(* What the captured feed still returns is the rest of it. *)
Remains ==
    /\ inner \in Seq(Fed) /\ Len(inner) <= Len(out)
    /\ \A k \in 1..Len(inner) : inner[k] = out[Len(out) - Len(inner) + k]

(* A rearrangement of t places that keeps each in its window of n. *)
Places(p, t, n) ==
    /\ p \in [1..t -> 1..t]
    /\ \A i, j \in 1..t : p[i] = p[j] => i = j
    /\ \A i \in 1..t : \E q \in Nat : \E j, k \in 1..n : i = q * n + k /\ p[i] = q * n + j

(* The events taken are those given and then those still in the buffer. *)
Shuffled(p, g, b, n) ==
    /\ Places(p, g + b, n)
    /\ \A i \in 1..g : given[i] = out[p[i]]
    /\ \A k \in 1..b : buffer[k] = out[p[g + k]]

Reorders(n) ==
    /\ buffer \in Seq(Fed)
    /\ Len(given) + Len(buffer) + Len(inner) = Len(out)
    /\ \E p : Shuffled(p, Len(given), Len(buffer), n)
    /\ inner # <<>> => \E q \in Nat : Len(given) + Len(buffer) = q * n
    /\ result = "ok" => buffer = <<>> /\ inner = <<>>

Drops(n) ==
    /\ dropped \in 0..n /\ Len(given) + dropped + Len(inner) = Len(out)
    /\ Len(given) # 0 => dropped = n
    /\ \A i \in 1..Len(given) : given[i] = out[n + i]
    /\ result = "ok" => inner = <<>>

Caps(n) ==
    /\ Len(given) + Len(inner) = Len(out) /\ Len(given) <= n
    /\ \A i \in 1..Len(given) : given[i] = out[i]
    /\ result = "ok" => inner = <<>> \/ Len(given) = n

Corrupts ==
    /\ Len(given) + Len(inner) = Len(out)
    /\ \A i \in 1..Len(given) : Same(out[i], given[i])
    /\ corrupted \in Nat /\ kept \in Nat /\ corrupted + kept >= Len(given) /\ kept <= Len(given)
    /\ result = "ok" => inner = <<>>

Jitters(n) ==
    /\ Len(given) + Len(inner) = Len(out)
    /\ \A i \in 1..Len(given) : given[i] # out[i] =>
          /\ given[i].slot \in out[i].slot .. out[i].slot + n
          /\ out[i].type = "slot"
    /\ result = "ok" => inner = <<>>

Layered ==
    /\ layer \in Layers
    /\ result = "closed" => /\ given = <<>> /\ buffer = <<>>
                            /\ dropped = 0 /\ corrupted = 0 /\ kept = 0
    /\ result # "closed" => answer # "more"
    /\ result \in {"open", "ok"} =>
          /\ Remains
          /\ \E D : given \in Seq(D)
          /\ layer.kind = "drop" => Drops(layer.n)
          /\ layer.kind = "cap" => Caps(layer.n)
          /\ layer.kind = "corrupt" => Corrupts
          /\ layer.kind = "jitter" => Jitters(layer.n)
          /\ layer.kind \in {"reverse", "permute"} => Reorders(layer.n)

LEMMA LayerIs ==
  ASSUME NEW l \in Layers
  PROVE  /\ l.n \in Nat
         /\ l.kind \in {"drop", "cap", "corrupt", "jitter", "reverse", "permute"}
         /\ l.kind \in {"reverse", "permute"} => l.n > 0
<1>1. l.n \in Nat
  BY ReplayConstants
<1>2. \/ l = Layer("drop", l.n) \/ l = Layer("corrupt", l.n) \/ l = Layer("jitter", l.n)
      \/ l = Layer("cap", l.n)
      \/ l = Layer("reverse", IF l.n > 1 THEN l.n ELSE 1)
      \/ l = Layer("permute", IF l.n > 1 THEN l.n ELSE 1)
  BY ReplayConstants DEF NewBoundedDrop, NewBoundedCorrupt, NewJitteredSlot, NewCapped, NewReorder
<1> QED BY <1>1, <1>2 DEF Layer

LEMMA TakeResult == ASSUME NEW e, Take(e) PROVE result' = result \/ result' = "error"
BY DEF Take, poolVars

(* The first n events the captured feed still has are taken. *)
LEMMA PullIs ==
  ASSUME Remains, out \in Seq(Fed), NEW n \in 1..Len(inner), Pulls(n), out' = out
  PROVE  /\ Remains' /\ Len(inner') = Len(inner) - n
         /\ \A k \in 1..n : inner[k] = out[Len(out) - Len(inner) + k] /\ inner[k] \in Fed
<1> DEFINE r == Len(inner)
           N == Len(out)
<1>1. r \in Nat /\ N \in Nat /\ n \in Nat /\ n <= r /\ r <= N
  BY LenProperties DEF Remains
<1>2. inner' = SubSeq(inner, n + 1, r)
  BY DEF Pulls
<1>3. \A i \in n + 1..r : inner[i] \in Fed
  BY <1>1, ElementOfSeq DEF Remains
<1> HIDE DEF r, N
<1>4. inner' \in Seq(Fed) /\ Len(inner') = r - n
      /\ \A i \in 1..r - n : inner'[i] = inner[n + i]
  <2>1. n + 1 \in Int /\ r \in Int /\ r - (n + 1) + 1 = r - n /\ (n + 1 <= r \/ r - n = 0)
    BY <1>1
  <2>2. /\ inner' \in Seq(Fed)
        /\ Len(inner') = IF n + 1 <= r THEN r - (n + 1) + 1 ELSE 0
        /\ \A i \in 1..r - (n + 1) + 1 : inner'[i] = inner[n + 1 + i - 1]
    BY <1>2, <1>3, <2>1, SubSeqProperties
  <2>3. \A i \in 1..r - n : inner'[i] = inner[n + i]
    BY <1>1, <2>1, <2>2
  <2> QED BY <1>1, <2>1, <2>2, <2>3
<1>5. \A k \in 1..r : inner[k] = out[N - r + k]
  BY DEF Remains, r, N
<1>6. ASSUME NEW k \in 1..r - n PROVE inner'[k] = out[N - (r - n) + k]
  <2> DEFINE i == n + k
  <2>1. i \in 1..r /\ N - r + i = N - (r - n) + k
    BY <1>1
  <2> HIDE DEF i
  <2>2. inner[i] = out[N - r + i]
    BY <1>5, <2>1
  <2>3. inner'[k] = inner[i]
    BY <1>4 DEF i
  <2> QED BY <2>1, <2>2, <2>3
<1>7. Remains'
  BY <1>1, <1>4, <1>6 DEF Remains, N
<1>8. \A k \in 1..n : k \in 1..r /\ inner[k] = out[N - r + k]
  BY <1>1, <1>5
<1>9. \A k \in 1..n : inner[k] \in Fed
  BY <1>8, ElementOfSeq DEF Remains, r
<1> QED BY <1>4, <1>7, <1>8, <1>9 DEF r, N

(* What is given becomes longer by one event. *)
LEMMA GivenGrows ==
  ASSUME NEW D, given \in Seq(D), NEW e, given' = Append(given, e)
  PROVE  /\ \E E : given' \in Seq(E)
         /\ Len(given') = Len(given) + 1 /\ given'[Len(given) + 1] = e
         /\ \A i \in 1..Len(given) : given'[i] = given[i]
<1> DEFINE E == D \cup {e}
<1>1. given \in Seq(E) /\ e \in E
  BY SeqMonotonic
<1> HIDE DEF E
<1>2. /\ Append(given, e) \in Seq(E) /\ Len(Append(given, e)) = Len(given) + 1
      /\ \A i \in 1..Len(given) : Append(given, e)[i] = given[i]
      /\ Append(given, e)[Len(given) + 1] = e
  BY <1>1, AppendProperties
<1> QED BY <1>2

(* The layers that take one event and give one. *)
LEMMA OneByOne ==
  ASSUME Remains, out \in Seq(Fed), NEW D, given \in Seq(D), inner # <<>>, Pulls(1), out' = out,
         NEW e, given' = Append(given, e), Len(given) + Len(inner) = Len(out)
  PROVE  /\ Remains' /\ Len(given') + Len(inner') = Len(out')
         /\ (\E E : given' \in Seq(E)) /\ Len(given') = Len(given) + 1
         /\ given'[Len(given) + 1] = e /\ \A i \in 1..Len(given) : given'[i] = given[i]
         /\ Head(inner) = out[Len(given) + 1] /\ Head(inner) \in Fed
<1>1. Len(inner) \in Nat /\ Len(inner) # 0 /\ Len(given) \in Nat /\ Len(out) \in Nat
  BY LenProperties, EmptySeq DEF Remains
<1> DEFINE r == Len(inner)
           g == Len(given)
           N == Len(out)
<1>2. 1 \in 1..r /\ N - r + 1 = g + 1
  <2> HIDE DEF r, g, N
  <2>1. r \in Nat /\ r # 0 /\ g \in Nat /\ N \in Nat /\ g + r = N
    BY <1>1 DEF r, g, N
  <2> QED BY <2>1
<1>3. /\ Remains' /\ Len(inner') = Len(inner) - 1
      /\ \A k \in 1..1 : inner[k] = out[Len(out) - Len(inner) + k] /\ inner[k] \in Fed
  BY <1>2, PullIs
<1>4. inner[1] = out[Len(given) + 1] /\ inner[1] \in Fed
  BY <1>2, <1>3
<1>5. Head(inner) = inner[1]
  BY DEF Remains
<1>6. /\ \E E : given' \in Seq(E)
      /\ Len(given') = Len(given) + 1 /\ given'[Len(given) + 1] = e
      /\ \A i \in 1..Len(given) : given'[i] = given[i]
  BY GivenGrows
<1>7. Len(given') + Len(inner') = Len(out')
  <2> HIDE DEF r, g, N
  <2>1. r \in Nat /\ g \in Nat /\ g + r = N
    BY <1>1 DEF r, g, N
  <2>2. Len(given') = g + 1 /\ Len(inner') = r - 1 /\ Len(out') = N
    BY <1>3, <1>6 DEF r, g, N
  <2>3. g + 1 + (r - 1) = N
    BY <2>1
  <2> QED BY <2>2, <2>3
<1>8. Head(inner) = out[Len(given) + 1] /\ Head(inner) \in Fed
  BY <1>4, <1>5
<1> QED BY <1>3, <1>6, <1>7, <1>8, Zenon

LEMMA CapStep ==
  ASSUME Layered, out \in Seq(Fed), Capped
  PROVE  Layered'
<1>1. /\ result = "open" /\ layer.kind = "cap" /\ layer.n \in Nat
      /\ answer' = answer /\ out' = out /\ layer' = layer
  BY LayerIs DEF Capped, Asked, vars, layerVars, Layered
<1>2. Remains /\ Caps(layer.n) /\ \E D : given \in Seq(D)
  BY <1>1 DEF Layered
<1>3. PICK D : given \in Seq(D)
  BY <1>2
<1>4. Len(inner) \in Nat /\ Len(given) \in Nat /\ Len(out) \in Nat
  BY <1>2, <1>3, LenProperties DEF Remains
<1>5. CASE (inner = <<>> \/ Len(given) >= layer.n) /\ NoMore /\ UNCHANGED <<vars, layerVars>>
  <2>1. /\ result' = "ok" /\ given' = given /\ inner' = inner /\ answer # "more"
    BY <1>1, <1>5 DEF NoMore, layerVars, Layered
  <2>2. Remains' /\ \E E : given' \in Seq(E)
    BY <1>1, <1>2, <2>1 DEF Remains
  <2>3. inner = <<>> \/ Len(given) = layer.n
    BY <1>1, <1>2, <1>4, <1>5 DEF Caps
  <2>4. Caps(layer.n)'
    BY <1>1, <1>2, <2>1, <2>3 DEF Caps
  <2> QED BY <1>1, <2>1, <2>2, <2>4 DEF Layered
<1>6. CASE inner # <<>> /\ Len(given) < layer.n /\ Gives(Head(inner)) /\ Pulls(1)
  <2>1. given' = Append(given, Head(inner)) /\ Take(Head(inner)) /\ answer # "more"
    BY <1>1, <1>6 DEF Gives, Layered
  <2>2. result' = "open" \/ result' = "error"
    BY <1>1, <2>1, TakeResult
  <2>3. Len(given) + Len(inner) = Len(out)
    BY <1>2 DEF Caps
  <2>4. /\ Remains' /\ Len(given') + Len(inner') = Len(out')
        /\ (\E E : given' \in Seq(E)) /\ Len(given') = Len(given) + 1
        /\ given'[Len(given) + 1] = Head(inner) /\ \A i \in 1..Len(given) : given'[i] = given[i]
        /\ Head(inner) = out[Len(given) + 1]
    BY <1>1, <1>2, <1>3, <1>6, <2>1, <2>3, OneByOne
  <2>5. ASSUME NEW i \in 1..Len(given') PROVE given'[i] = out'[i]
    <3>1. i \in 1..Len(given) \/ i = Len(given) + 1
      BY <1>4, <2>4
    <3> QED BY <1>1, <1>2, <2>4, <3>1 DEF Caps
  <2>6. Caps(layer.n)'
    BY <1>1, <1>4, <1>6, <2>2, <2>4, <2>5 DEF Caps
  <2> QED BY <1>1, <2>1, <2>2, <2>4, <2>6 DEF Layered
<1> QED BY <1>5, <1>6 DEF Capped

LEMMA JunkIsSame ==
  ASSUME NEW e \in Fed, Account(e)
  PROVE  Same(e, [e EXCEPT !.data = Junk])
<1> DEFINE f == [e EXCEPT !.data = Junk]
<1>1. e \in Event /\ e.type = "account"
  BY DEF Fed, Account
<1>2. e = [type |-> "account", slot |-> e.slot, key |-> e.key, data |-> e.data]
  BY <1>1, ReplayConstants
<1>3. f = [type |-> "account", slot |-> e.slot, key |-> e.key, data |-> Junk]
  BY <1>2
<1>4. f.type = "account"
  BY <1>3
<1> HIDE DEF f
<1>5. f # Garbage
  BY <1>4, ReplayConstants
<1> QED BY <1>4, <1>5 DEF Same, Account, f

LEMMA JitterIs ==
  ASSUME NEW e \in Fed, e # Garbage, e.type = "slot", NEW n \in Nat, NEW j \in 0..n
  PROVE  [e EXCEPT !.slot = @ + j].slot \in e.slot .. e.slot + n
<1>1. e \in Event
  BY DEF Fed
<1>2. e = [type |-> "slot", slot |-> e.slot] /\ e.slot \in Nat
  BY <1>1, ReplayConstants
<1> DEFINE s == e.slot
<1>3. [e EXCEPT !.slot = @ + j] = [type |-> "slot", slot |-> s + j]
  BY <1>2
<1>4. [e EXCEPT !.slot = @ + j].slot = s + j /\ s \in Nat
  BY <1>2, <1>3
<1> HIDE DEF s
<1>5. s + j \in s .. s + n
  BY <1>4
<1> QED BY <1>4, <1>5, Zenon DEF s

LEMMA CorruptStep ==
  ASSUME Layered, out \in Seq(Fed), BoundedCorrupt
  PROVE  Layered'
<1>1. /\ result = "open" /\ layer.kind = "corrupt" /\ answer # "more"
      /\ answer' = answer /\ out' = out /\ layer' = layer
  BY DEF BoundedCorrupt, Ended, Asked, vars, layerVars, Layered
<1>2. Remains /\ Corrupts /\ \E D : given \in Seq(D)
  BY <1>1 DEF Layered
<1>3. PICK D : given \in Seq(D)
  BY <1>2
<1>4. Len(inner) \in Nat /\ Len(given) \in Nat /\ Len(out) \in Nat
  BY <1>2, <1>3, LenProperties DEF Remains
<1>5. CASE Ended
  <2>1. /\ result' = "ok" /\ given' = given /\ inner' = inner /\ inner = <<>>
        /\ corrupted' = corrupted /\ kept' = kept
    BY <1>5 DEF Ended, NoMore, layerVars
  <2>2. Remains' /\ \E E : given' \in Seq(E)
    BY <1>1, <1>2, <2>1 DEF Remains
  <2>3. \A i \in 1..Len(given) : Same(out[i], given[i])'
    BY <1>1, <1>2, <2>1 DEF Corrupts, Same, Account, Junk
  <2>4. Corrupts'
    BY <1>1, <1>2, <2>1, <2>3 DEF Corrupts
  <2> QED BY <1>1, <2>1, <2>2, <2>4 DEF Layered
<1>6. ASSUME NEW e, inner # <<>>, Pulls(1), Gives(e), e = Head(inner) \/ Same(Head(inner), e),
             \/ kept' = kept + 1 /\ corrupted' = corrupted
             \/ kept' = kept /\ corrupted' = corrupted + 1
             \/ kept' = kept + 1 /\ corrupted' = corrupted + 1
      PROVE  Layered'
  <2>1. given' = Append(given, e) /\ Take(e)
    BY <1>6 DEF Gives
  <2>2. result' = "open" \/ result' = "error"
    BY <1>1, <2>1, TakeResult
  <2>3. Len(given) + Len(inner) = Len(out)
    BY <1>2 DEF Corrupts
  <2>4. /\ Remains' /\ Len(given') + Len(inner') = Len(out')
        /\ (\E E : given' \in Seq(E)) /\ Len(given') = Len(given) + 1
        /\ given'[Len(given) + 1] = e /\ \A i \in 1..Len(given) : given'[i] = given[i]
        /\ Head(inner) = out[Len(given) + 1]
    BY <1>1, <1>2, <1>3, <1>6, <2>1, <2>3, OneByOne
  <2>5. ASSUME NEW i \in 1..Len(given') PROVE Same(out'[i], given'[i])
    <3>1. CASE i \in 1..Len(given)
      BY <1>1, <1>2, <2>4, <3>1 DEF Corrupts
    <3>2. CASE i = Len(given) + 1
      BY <1>1, <1>6, <2>4, <3>2 DEF Same
    <3> QED BY <1>4, <2>4, <3>1, <3>2
  <2>6. /\ corrupted' \in Nat /\ kept' \in Nat
        /\ corrupted' + kept' >= Len(given') /\ kept' <= Len(given')
    BY <1>2, <1>4, <1>6, <2>4 DEF Corrupts
  <2>7. \A i \in 1..Len(given') : Same(out[i], given[i])'
    BY <1>1, <2>5 DEF Same, Account, Junk
  <2>8. Corrupts'
    BY <2>2, <2>4, <2>6, <2>7 DEF Corrupts
  <2> QED BY <1>1, <2>2, <2>4, <2>8 DEF Layered
<1>7. CASE inner # <<>> /\ Pulls(1) /\ kept' = kept + 1 /\ Gives(Head(inner)) /\ corrupted' = corrupted
  BY <1>6, <1>7
<1>8. CASE inner # <<>> /\ Pulls(1) /\ corrupted' = corrupted + 1 /\ ~Account(Head(inner))
           /\ Gives(Head(inner)) /\ kept' = kept + 1
  BY <1>6, <1>8
<1>9. CASE inner # <<>> /\ Pulls(1) /\ corrupted' = corrupted + 1 /\ Account(Head(inner))
           /\ Gives([Head(inner) EXCEPT !.data = Junk]) /\ kept' = kept
  <2> DEFINE e == [Head(inner) EXCEPT !.data = Junk]
  <2>1. Head(inner) \in Fed
    BY <1>2, <1>9, HeadTailProperties DEF Remains
  <2>2. Same(Head(inner), e)
    BY <1>9, <2>1, JunkIsSame
  <2>3. Gives(e)
    BY <1>9
  <2> HIDE DEF e
  <2> QED BY <1>6, <1>9, <2>2, <2>3
<1> QED BY <1>5, <1>7, <1>8, <1>9, Zenon DEF BoundedCorrupt

LEMMA JitterStep ==
  ASSUME Layered, out \in Seq(Fed), JitteredSlot
  PROVE  Layered'
<1>1. /\ result = "open" /\ layer.kind = "jitter" /\ answer # "more" /\ layer.n \in Nat
      /\ answer' = answer /\ out' = out /\ layer' = layer
  BY LayerIs DEF JitteredSlot, Ended, Asked, vars, layerVars, Layered
<1>2. Remains /\ Jitters(layer.n) /\ \E D : given \in Seq(D)
  BY <1>1 DEF Layered
<1>3. PICK D : given \in Seq(D)
  BY <1>2
<1>4. Len(inner) \in Nat /\ Len(given) \in Nat /\ Len(out) \in Nat
  BY <1>2, <1>3, LenProperties DEF Remains
<1>5. CASE Ended
  <2>1. /\ result' = "ok" /\ given' = given /\ inner' = inner /\ inner = <<>>
    BY <1>5 DEF Ended, NoMore, layerVars
  <2>2. Remains' /\ \E E : given' \in Seq(E)
    BY <1>1, <1>2, <2>1 DEF Remains
  <2>3. Jitters(layer.n)'
    BY <1>1, <1>2, <2>1 DEF Jitters
  <2> QED BY <1>1, <2>1, <2>2, <2>3 DEF Layered
<1>6. ASSUME NEW j \in 0..layer.n, inner # <<>>, Pulls(1),
             Gives(IF Head(inner) # Garbage /\ Head(inner).type = "slot"
                   THEN [Head(inner) EXCEPT !.slot = @ + j] ELSE Head(inner))
      PROVE  Layered'
  <2> DEFINE h == Head(inner)
             e == IF h # Garbage /\ h.type = "slot" THEN [h EXCEPT !.slot = @ + j] ELSE h
  <2>1. given' = Append(given, e) /\ Take(e)
    BY <1>6 DEF Gives
  <2>2. h \in Fed
    BY <1>2, <1>6, HeadTailProperties DEF Remains
  <2>3. e # h => e.slot \in h.slot .. h.slot + layer.n /\ h.type = "slot"
    <3> SUFFICES ASSUME h # Garbage, h.type = "slot" PROVE e.slot \in h.slot .. h.slot + layer.n
      OBVIOUS
    <3>1. e = [h EXCEPT !.slot = @ + j]
      OBVIOUS
    <3> HIDE DEF h, e
    <3> QED BY <1>1, <2>2, <3>1, JitterIs
  <2> HIDE DEF e
  <2>4. result' = "open" \/ result' = "error"
    BY <1>1, <2>1, TakeResult
  <2>5. Len(given) + Len(inner) = Len(out)
    BY <1>2 DEF Jitters
  <2>6. /\ Remains' /\ Len(given') + Len(inner') = Len(out')
        /\ (\E E : given' \in Seq(E)) /\ Len(given') = Len(given) + 1
        /\ given'[Len(given) + 1] = e /\ \A i \in 1..Len(given) : given'[i] = given[i]
        /\ h = out[Len(given) + 1]
    BY <1>1, <1>2, <1>3, <1>6, <2>1, <2>5, OneByOne
  <2> HIDE DEF h
  <2>7. ASSUME NEW i \in 1..Len(given'), given'[i] # out'[i]
        PROVE  given'[i].slot \in out'[i].slot .. out'[i].slot + layer.n /\ out'[i].type = "slot"
    <3>1. CASE i \in 1..Len(given)
      BY <1>1, <1>2, <2>6, <2>7, <3>1 DEF Jitters
    <3>2. CASE i = Len(given) + 1
      BY <1>1, <2>3, <2>6, <2>7, <3>2
    <3> QED BY <1>4, <2>6, <3>1, <3>2
  <2>8. Jitters(layer.n)'
    BY <1>1, <2>4, <2>6, <2>7 DEF Jitters
  <2> QED BY <1>1, <2>4, <2>6, <2>8 DEF Layered
<1> QED BY <1>5, <1>6 DEF JitteredSlot

LEMMA DropStep ==
  ASSUME Layered, out \in Seq(Fed), BoundedDrop
  PROVE  Layered'
<1>1. /\ result = "open" /\ layer.kind = "drop" /\ answer # "more" /\ layer.n \in Nat
      /\ answer' = answer /\ out' = out /\ layer' = layer
  BY LayerIs DEF BoundedDrop, Asked, vars, layerVars, Layered
<1>2. Remains /\ Drops(layer.n) /\ \E D : given \in Seq(D)
  BY <1>1 DEF Layered
<1>3. PICK D : given \in Seq(D)
  BY <1>2
<1> DEFINE n == layer.n
           k == n - dropped
           g == Len(given)
           r == Len(inner)
<1>4. r \in Nat /\ g \in Nat /\ Len(out) \in Nat /\ dropped \in 0..n /\ n \in Nat
      /\ g + dropped + r = Len(out) /\ (g # 0 => dropped = n) /\ k \in Nat
  BY <1>1, <1>2, <1>3, LenProperties DEF Remains, Drops
<1>5. CASE r <= k /\ NoMore /\ inner' = <<>> /\ dropped' = dropped + r /\ given' = given
  <2>1. Len(inner') = 0 /\ inner' \in Seq(Fed)
    BY <1>5, EmptySeq
  <2>2. Remains'
    BY <1>1, <1>4, <2>1 DEF Remains
  <2>3. dropped' \in 0..n /\ Len(given') + dropped' + Len(inner') = Len(out')
        /\ (Len(given') # 0 => dropped' = n)
    <3> HIDE DEF n, g, r
    <3>1. dropped' \in 0..n /\ g + dropped' = Len(out) /\ (g # 0 => dropped' = n)
      BY <1>4, <1>5
    <3> QED BY <1>1, <1>4, <1>5, <2>1, <3>1 DEF g
  <2>4. Drops(n)'
    BY <1>1, <1>2, <1>5, <2>3 DEF Drops
  <2> QED BY <1>1, <1>2, <1>5, <2>2, <2>4 DEF Layered, NoMore
<1>6. CASE r > k /\ Gives(inner[k + 1]) /\ Pulls(k + 1) /\ dropped' = n
  <2> DEFINE e == inner[k + 1]
  <2>1. given' = Append(given, e) /\ Take(e)
    BY <1>6 DEF Gives
  <2>2. result' = "open" \/ result' = "error"
    BY <1>1, <2>1, TakeResult
  <2>3. k + 1 \in 1..r /\ Len(out) - r + (k + 1) = n + (g + 1)
    <3>1. g = 0 \/ dropped = n
      BY <1>4
    <3>2. k + 1 \in 1..r
      BY <1>4, <1>6
    <3> HIDE DEF n, g, r
    <3> QED BY <1>4, <3>1, <3>2
  <2>4. /\ Remains' /\ Len(inner') = r - (k + 1)
        /\ \A i \in 1..k + 1 : inner[i] = out[Len(out) - r + i]
    BY <1>1, <1>2, <1>6, <2>3, PullIs
  <2>5. e = out[n + (g + 1)]
    BY <2>3, <2>4
  <2>6. (\E E : given' \in Seq(E)) /\ Len(given') = g + 1 /\ given'[g + 1] = e
        /\ \A i \in 1..g : given'[i] = given[i]
    BY <1>3, <2>1, GivenGrows
  <2>7. ASSUME NEW i \in 1..g + 1 PROVE given'[i] = out[n + i]
    <3>1. CASE i \in 1..g
      BY <1>2, <2>6, <3>1 DEF Drops
    <3>2. CASE i = g + 1
      BY <2>5, <2>6, <3>2
    <3> HIDE DEF g
    <3> QED BY <1>4, <3>1, <3>2
  <2>8. (g + 1) + n + (r - (k + 1)) = Len(out) /\ n \in 0..n
    <3> HIDE DEF n, g, r
    <3> QED BY <1>4
  <2>9. Drops(n)'
    <3> HIDE DEF e, k
    <3>1. Len(given') + dropped' + Len(inner') = Len(out')
      BY <1>1, <1>6, <2>4, <2>6, <2>8
    <3>2. \A i \in 1..Len(given') : given'[i] = out'[n + i]
      BY <1>1, <2>6, <2>7
    <3> QED BY <1>1, <1>6, <2>2, <2>8, <3>1, <3>2 DEF Drops
  <2> QED BY <1>1, <2>2, <2>4, <2>6, <2>9 DEF Layered
<1> QED BY <1>4, <1>5, <1>6 DEF BoundedDrop

(* A further window of m places behind whole windows. *)
Window(s, m, n) ==
    /\ m \in 1..n /\ s \in [1..m -> 1..m]
    /\ \A i, j \in 1..m : s[i] = s[j] => i = j

Behind(P, p, s, g, m) ==
    /\ P = [i \in 1..g + m |-> P[i]]
    /\ \A i \in 1..g : P[i] = p[i]
    /\ \A k \in 1..m : P[g + k] = g + s[k]

LEMMA PlacesGrow ==
  ASSUME NEW n \in Nat \ {0}, NEW q \in Nat, NEW g \in Nat, g = q * n, NEW p, Places(p, g, n),
         NEW m, NEW s, Window(s, m, n), NEW P, Behind(P, p, s, g, m)
  PROVE  Places(P, g + m, n)
<1> m \in 1..n /\ s \in [1..m -> 1..m] /\ \A i, j \in 1..m : s[i] = s[j] => i = j
  BY DEF Window
<1> /\ P = [i \in 1..g + m |-> P[i]] /\ \A i \in 1..g : P[i] = p[i]
    /\ \A k \in 1..m : P[g + k] = g + s[k]
  BY DEF Behind
<1>1. \A i \in 1..g + m : i \in 1..g \/ i - g \in 1..m
  OBVIOUS
<1>2. \A i \in 1..g : p[i] \in 1..g
  BY DEF Places
<1>3. \A i \in 1..m : s[i] \in 1..m
  OBVIOUS
<1>4. \A i \in 1..g : P[i] = p[i] /\ P[i] \in 1..g
  BY <1>2
<1>5. \A i \in 1..g + m : i - g \in 1..m => P[i] = g + s[i - g]
  <2> TAKE i \in 1..g + m
  <2> HAVE i - g \in 1..m
  <2> DEFINE k == i - g
  <2>1. k \in 1..m /\ g + k = i
    OBVIOUS
  <2> HIDE DEF k
  <2>2. P[g + k] = g + s[k]
    BY <2>1
  <2> QED BY <2>1, <2>2 DEF k
<1>6. ASSUME NEW i \in 1..g + m, i - g \in 1..m PROVE P[i] - g \in 1..m /\ P[i] - g = s[i - g] /\ P[i] \in Nat
  <2>1. s[i - g] \in 1..m
    BY <1>3, <1>6
  <2> DEFINE x == s[i - g]
  <2>2. P[i] = g + x /\ x \in 1..m
    BY <1>5, <1>6, <2>1
  <2> HIDE DEF x
  <2>3. P[i] - g \in 1..m /\ P[i] - g = x /\ P[i] \in Nat
    BY <2>2
  <2> QED BY <2>3 DEF x
<1>7. ASSUME NEW i \in 1..g + m PROVE P[i] \in 1..g + m
  <2>1. CASE i \in 1..g
    <3>1. P[i] \in 1..g
      BY <1>4, <2>1
    <3> QED BY <3>1
  <2>2. CASE i - g \in 1..m
    <3>1. P[i] - g \in 1..m /\ P[i] \in Nat
      BY <1>6, <2>2
    <3> QED BY <3>1
  <2> QED BY <1>1, <2>1, <2>2
<1>8. ASSUME NEW i \in 1..g + m, NEW j \in 1..g + m, P[i] = P[j] PROVE i = j
  <2>1. CASE i \in 1..g /\ j \in 1..g
    <3>1. p[i] = p[j]
      BY <1>4, <1>8, <2>1
    <3>2. \A k, l \in 1..g : p[k] = p[l] => k = l
      BY DEF Places
    <3> QED BY <2>1, <3>1, <3>2, Zenon
  <2>2. CASE i \in 1..g /\ j - g \in 1..m
    <3>1. P[i] \in 1..g /\ P[j] - g \in 1..m
      BY <1>4, <1>6, <2>2
    <3> QED BY <1>8, <3>1
  <2>3. CASE i - g \in 1..m /\ j \in 1..g
    <3>1. P[j] \in 1..g /\ P[i] - g \in 1..m
      BY <1>4, <1>6, <2>3
    <3> QED BY <1>8, <3>1
  <2>4. CASE i - g \in 1..m /\ j - g \in 1..m
    <3>1. s[i - g] = s[j - g]
      BY <1>6, <1>8, <2>4
    <3>2. i - g = j - g
      BY <2>4, <3>1
    <3> QED BY <3>2
  <2> QED BY <1>1, <2>1, <2>2, <2>3, <2>4
<1>9. ASSUME NEW i \in 1..g + m
       PROVE  \E u \in Nat : \E j, k \in 1..n : i = u * n + k /\ P[i] = u * n + j
  <2>1. CASE i \in 1..g
    <3>1. \E u \in Nat : \E j, k \in 1..n : i = u * n + k /\ p[i] = u * n + j
      <4>1. \A l \in 1..g : \E u \in Nat : \E j, k \in 1..n : l = u * n + k /\ p[l] = u * n + j
        BY Zenon DEF Places
      <4> QED BY <2>1, <4>1, Zenon
    <3>2. PICK u \in Nat, j \in 1..n, k \in 1..n : i = u * n + k /\ p[i] = u * n + j
      BY <3>1
    <3>3. P[i] = p[i]
      BY <1>4, <2>1
    <3>4. i = u * n + k /\ P[i] = u * n + j
      BY <3>2, <3>3, Zenon
    <3> QED BY <3>4, Zenon
  <2>2. CASE i - g \in 1..m
    <3> DEFINE k == i - g
               j == P[i] - g
    <3>1. k \in 1..m /\ j \in 1..m /\ i = g + k /\ P[i] = g + j
      BY <1>6, <2>2
    <3> HIDE DEF j, k
    <3>2. k \in 1..n /\ j \in 1..n
      BY <3>1
    <3>3. i = q * n + k /\ P[i] = q * n + j
      BY <3>1
    <3> QED BY <3>2, <3>3
  <2> QED BY <1>1, <2>1, <2>2
<1>10. P \in [1..g + m -> 1..g + m]
  BY <1>7
<1> QED BY <1>8, <1>9, <1>10 DEF Places

(* A window is a rearrangement of the first events of the captured feed. *)
LEMMA RefillIs ==
  ASSUME layer.n \in Nat \ {0}, inner \in Seq(Fed), inner # <<>>, NEW w \in Refill
  PROVE  \E m \in 1..layer.n : \E s \in [1..m -> 1..m] :
            /\ m \in 1..Len(inner) /\ (m = layer.n \/ m = Len(inner))
            /\ \A i, j \in 1..m : s[i] = s[j] => i = j
            /\ w \in Seq(Fed) /\ Len(w) = m /\ \A i \in 1..m : w[i] = inner[s[i]]
<1> DEFINE m == IF Len(inner) < layer.n THEN Len(inner) ELSE layer.n
           v == SubSeq(inner, 1, m)
<1>1. Len(inner) \in Nat /\ Len(inner) # 0
  BY LenProperties, EmptySeq
<1>2. m \in 1..layer.n /\ m \in 1..Len(inner) /\ (m = layer.n \/ m = Len(inner)) /\ m \in Nat
  BY <1>1
<1>3. v \in Seq(Fed) /\ Len(v) = m /\ \A i \in 1..m : v[i] = inner[i]
  <2> HIDE DEF m
  <2>1. \A i \in 1..m : inner[i] \in Fed
    BY <1>1, <1>2, ElementOfSeq
  <2>2. /\ v \in Seq(Fed) /\ Len(v) = IF 1 <= m THEN m - 1 + 1 ELSE 0
        /\ \A i \in 1..m - 1 + 1 : v[i] = inner[1 + i - 1]
    BY <1>2, <2>1, SubSeqProperties
  <2>3. m - 1 + 1 = m /\ 1 <= m /\ \A i \in 1..m : 1 + i - 1 = i
    BY <1>2
  <2> QED BY <2>2, <2>3
<1>4. w \in IF layer.kind = "reverse" THEN {Reverse(v)}
            ELSE {[i \in 1..m |-> v[p[i]]] : p \in {f \in [1..m -> 1..m] : IsInjective(f)}}
  BY DEF Refill
<1> HIDE DEF m, v
<1>5. CASE w = Reverse(v)
  <2> DEFINE s == [i \in 1..m |-> m - i + 1]
  <2>1. s \in [1..m -> 1..m] /\ \A i, j \in 1..m : s[i] = s[j] => i = j
    BY <1>2
  <2>2. w = [i \in 1..m |-> v[m - i + 1]]
    BY <1>3, <1>5 DEF Reverse
  <2>3. \A i \in 1..m : m - i + 1 \in 1..m
    BY <1>2
  <2>4. \A i \in 1..m : w[i] = v[s[i]] /\ s[i] \in 1..m
    BY <2>2, <2>3
  <2>5. w \in [1..m -> Fed]
    BY <1>2, <1>3, <2>2, <2>3, ElementOfSeq
  <2>6. w \in Seq(Fed) /\ Len(w) = m
    BY <1>2, <2>5, SeqDef, LenProperties
  <2> HIDE DEF s
  <2>7. \A i \in 1..m : w[i] = inner[s[i]]
    BY <1>3, <2>4
  <2> QED BY <1>2, <2>1, <2>6, <2>7, Zenon
<1>6. CASE \E p \in [1..m -> 1..m] : IsInjective(p) /\ w = [i \in 1..m |-> v[p[i]]]
  <2>1. PICK p \in [1..m -> 1..m] : IsInjective(p) /\ w = [i \in 1..m |-> v[p[i]]]
    BY <1>6
  <2>2. \A i, j \in 1..m : p[i] = p[j] => i = j
    BY <2>1 DEF IsInjective
  <2>3. \A i \in 1..m : w[i] = v[p[i]] /\ p[i] \in 1..m
    BY <2>1
  <2>4. w \in [1..m -> Fed]
    BY <1>2, <1>3, <2>1, ElementOfSeq
  <2>5. w \in Seq(Fed) /\ Len(w) = m
    BY <1>2, <2>4, SeqDef, LenProperties
  <2>6. \A i \in 1..m : w[i] = inner[p[i]]
    BY <1>3, <2>3
  <2> QED BY <1>2, <2>2, <2>5, <2>6, Zenon
<1> QED BY <1>4, <1>5, <1>6

LEMMA NextWindow ==
  ASSUME NEW g \in Nat, NEW n \in Nat, NEW q \in Nat, g = q * n
  PROVE  g + n = (q + 1) * n
OBVIOUS

LEMMA ReorderStep ==
  ASSUME Layered, out \in Seq(Fed), Reordered
  PROVE  Layered'
<1> DEFINE n == layer.n
           g == Len(given)
           b == Len(buffer)
           r == Len(inner)
<1>1. /\ result = "open" /\ layer.kind \in {"reverse", "permute"} /\ answer # "more"
      /\ layer.n \in Nat \ {0} /\ answer' = answer /\ out' = out /\ layer' = layer
  BY LayerIs DEF Reordered, Ended, Asked, vars, layerVars, Layered
<1>2. Remains /\ Reorders(layer.n) /\ \E D : given \in Seq(D)
  BY <1>1 DEF Layered
<1>3. PICK D : given \in Seq(D)
  BY <1>2
<1>4. g \in Nat /\ b \in Nat /\ r \in Nat /\ Len(out) \in Nat /\ g + b + r = Len(out)
  BY <1>2, <1>3, LenProperties DEF Remains, Reorders
<1>5. PICK p : Shuffled(p, g, b, n)
  BY <1>2 DEF Reorders
<1>6. ASSUME Remains', (\E E : given' \in Seq(E)), Reorders(n)', result' # "closed" PROVE Layered'
  <2>1. /\ (layer.kind = "drop")' = FALSE /\ (layer.kind = "cap")' = FALSE
        /\ (layer.kind = "corrupt")' = FALSE /\ (layer.kind = "jitter")' = FALSE
    BY <1>1
  <2> QED BY <1>1, <1>6, <2>1 DEF Layered
<1>7. CASE Ended
  <2>1. /\ result' = "ok" /\ given' = given /\ inner' = inner /\ buffer' = buffer
        /\ inner = <<>> /\ buffer = <<>>
    BY <1>7 DEF Ended, NoMore, layerVars
  <2>2. Remains' /\ \E E : given' \in Seq(E)
    BY <1>1, <1>2, <2>1 DEF Remains
  <2>3. Shuffled(p, g, b, n)'
    BY <1>1, <1>5, <2>1 DEF Shuffled, Places
  <2>4. Reorders(n)'
    BY <1>1, <1>2, <2>1, <2>3 DEF Reorders
  <2> QED BY <1>6, <2>1, <2>2, <2>4
<1>8. CASE buffer # <<>> /\ Gives(Head(buffer)) /\ buffer' = Tail(buffer) /\ inner' = inner
  <2>1. given' = Append(given, Head(buffer)) /\ Take(Head(buffer))
    BY <1>8 DEF Gives
  <2>2. result' = "open" \/ result' = "error"
    BY <1>1, <2>1, TakeResult
  <2>3. /\ b # 0 /\ Head(buffer) = buffer[1] /\ buffer' \in Seq(Fed) /\ Len(buffer') = b - 1
        /\ \A k \in 1..b - 1 : buffer'[k] = buffer[k + 1]
    BY <1>2, <1>8, HeadTailProperties, EmptySeq DEF Reorders
  <2>4. (\E E : given' \in Seq(E)) /\ Len(given') = g + 1 /\ given'[g + 1] = buffer[1]
        /\ \A i \in 1..g : given'[i] = given[i]
    BY <1>3, <2>1, <2>3, GivenGrows
  <2>5. /\ \A i \in 1..g : given[i] = out[p[i]]
        /\ \A k \in 1..b : buffer[k] = out[p[g + k]]
        /\ Places(p, g + b, n)
    BY <1>5 DEF Shuffled
  <2> HIDE DEF n, g, b, r
  <2>6. g + 1 + (b - 1) = g + b /\ 1 \in 1..b
        /\ (\A k \in 1..b - 1 : k + 1 \in 1..b /\ g + (k + 1) = g + 1 + k)
        /\ \A i \in 1..g + 1 : i \in 1..g \/ i = g + 1
    BY <1>4, <2>3
  <2>7. \A i \in 1..g + 1 : given'[i] = out[p[i]]
    BY <2>4, <2>5, <2>6
  <2>8. \A k \in 1..b - 1 : buffer'[k] = out[p[g + 1 + k]]
    <3> TAKE k \in 1..b - 1
    <3>1. buffer'[k] = buffer[k + 1] /\ k + 1 \in 1..b /\ g + (k + 1) = g + 1 + k
      BY <2>3, <2>6
    <3>2. buffer[k + 1] = out[p[g + (k + 1)]]
      BY <2>5, <3>1
    <3> QED BY <3>1, <3>2
  <2>9. Shuffled(p, Len(given), Len(buffer), n)'
    <3>1. Places(p, Len(given') + Len(buffer'), layer'.n)
      BY <1>1, <2>3, <2>4, <2>5, <2>6 DEF n
    <3> QED BY <1>1, <2>3, <2>4, <2>7, <2>8, <3>1 DEF Shuffled, n
  <2>10. Len(given') + Len(buffer') = g + b /\ Len(inner') = r
    BY <1>8, <2>3, <2>4, <2>6 DEF r
  <2>11. /\ Len(given') + Len(buffer') + Len(inner') = Len(out')
         /\ inner' # <<>> => \E q \in Nat : Len(given') + Len(buffer') = q * n
    BY <1>1, <1>2, <1>4, <1>8, <2>10 DEF Reorders, g, b, n
  <2>12. Reorders(n)'
    BY <1>1, <2>2, <2>3, <2>9, <2>11 DEF Reorders, n
  <2>13. Remains'
    BY <1>1, <1>2, <1>8 DEF Remains
  <2> QED BY <1>1, <1>6, <2>2, <2>4, <2>12, <2>13
<1>9. CASE buffer = <<>> /\ inner # <<>>
           /\ \E w \in Refill : Gives(Head(w)) /\ buffer' = Tail(w) /\ Pulls(Len(w))
  <2>1. PICK w \in Refill : Gives(Head(w)) /\ buffer' = Tail(w) /\ Pulls(Len(w))
    BY <1>9
  <2>2. inner \in Seq(Fed)
    BY <1>2 DEF Remains
  <2>m. PICK m \in 1..n : \E s \in [1..m -> 1..m] :
            /\ m \in 1..Len(inner) /\ (m = layer.n \/ m = Len(inner))
            /\ \A i, j \in 1..m : s[i] = s[j] => i = j
            /\ w \in Seq(Fed) /\ Len(w) = m /\ \A i \in 1..m : w[i] = inner[s[i]]
    BY <1>1, <1>9, <2>1, <2>2, RefillIs
  <2>3. PICK s \in [1..m -> 1..m] :
            /\ m \in 1..Len(inner) /\ (m = layer.n \/ m = Len(inner))
            /\ \A i, j \in 1..m : s[i] = s[j] => i = j
            /\ w \in Seq(Fed) /\ Len(w) = m /\ \A i \in 1..m : w[i] = inner[s[i]]
    BY <2>m
  <2>4. PICK q \in Nat : g + b = q * n
    BY <1>2, <1>9 DEF Reorders
  <2>5. b = 0
    BY <1>9, EmptySeq
  <2>6. given' = Append(given, Head(w)) /\ Take(Head(w))
    BY <2>1 DEF Gives
  <2>7. result' = "open" \/ result' = "error"
    BY <1>1, <2>6, TakeResult
  <2>8. /\ Remains' /\ Len(inner') = r - m
        /\ \A k \in 1..m : inner[k] = out[Len(out) - r + k]
    BY <1>1, <1>2, <2>1, <2>3, PullIs
  <2>9. /\ w # <<>> /\ Head(w) = w[1] /\ buffer' \in Seq(Fed) /\ Len(buffer') = m - 1
        /\ \A k \in 1..m - 1 : buffer'[k] = w[k + 1]
    <3>1. w # <<>>
      BY <2>3, EmptySeq
    <3> QED BY <2>1, <2>3, <3>1, HeadTailProperties
  <2>10. (\E E : given' \in Seq(E)) /\ Len(given') = g + 1 /\ given'[g + 1] = w[1]
        /\ \A i \in 1..g : given'[i] = given[i]
    BY <1>3, <2>6, <2>9, GivenGrows
  <2>P. PICK P : P = [i \in 1..g + m |-> IF i <= g THEN p[i] ELSE g + s[i - g]]
    OBVIOUS
  <2>11. Places(p, g, n) /\ \A i \in 1..g : given[i] = out[p[i]]
    <3>1. g + b = g
      BY <1>4, <2>5
    <3> QED BY <1>5, <3>1 DEF Shuffled
  <2>12. g = q * n
    <3> HIDE DEF g, n, b
    <3> QED BY <1>4, <2>4, <2>5
  <2>13. \A i \in 1..g : P[i] = p[i]
    BY <1>4, <2>3, <2>P
  <2>14. \A k \in 1..m : P[g + k] = g + s[k]
    <3> TAKE k \in 1..m
    <3>1. g + k \in 1..g + m /\ ~(g + k <= g) /\ g + k - g = k
      BY <1>4
    <3> QED BY <3>1, <2>P
  <2>15. Places(P, g + m, n)
    <3>1. n \in Nat \ {0} /\ q \in Nat /\ g \in Nat /\ g = q * n
      BY <1>1, <1>4, <2>12
    <3>2. Window(s, m, n)
      BY <2>3 DEF Window
    <3>3. Behind(P, p, s, g, m)
      BY <2>P, <2>13, <2>14 DEF Behind
    <3> HIDE DEF n, g
    <3> QED BY <2>11, <3>1, <3>2, <3>3, PlacesGrow, Zenon
  <2>16. \A k \in 1..m : w[k] = out[P[g + k]]
    <3> TAKE k \in 1..m
    <3>1. s[k] \in 1..m /\ w[k] = inner[s[k]]
      BY <2>3
    <3>2. inner[s[k]] = out[Len(out) - r + s[k]]
      BY <2>8, <3>1
    <3> DEFINE x == s[k]
    <3>3. x \in Nat /\ g + r = Len(out)
      BY <1>4, <2>5, <3>1
    <3> DEFINE N == Len(out)
    <3>4. N \in Nat /\ g \in Nat /\ r \in Nat /\ g + r = N
      BY <1>4, <3>3
    <3> HIDE DEF x, N, g, r
    <3>5. N - r + x = g + x
      BY <3>3, <3>4
    <3> QED BY <2>14, <3>1, <3>2, <3>5 DEF x, N, g, r
  <2> HIDE DEF n, g, b, r
  <2>17. g + 1 + (m - 1) = g + m /\ 1 \in 1..m
        /\ (\A k \in 1..m - 1 : k + 1 \in 1..m /\ g + (k + 1) = g + 1 + k)
        /\ \A i \in 1..g + 1 : i \in 1..g \/ i = g + 1
    <3>1. g \in Nat /\ m \in Nat /\ m # 0
      BY <1>4, <2>3
    <3> QED BY <3>1
  <2>18. \A i \in 1..g + 1 : given'[i] = out[P[i]]
    BY <2>10, <2>11, <2>13, <2>16, <2>17
  <2>19. \A k \in 1..m - 1 : buffer'[k] = out[P[g + 1 + k]]
    <3> TAKE k \in 1..m - 1
    <3>1. buffer'[k] = w[k + 1] /\ k + 1 \in 1..m /\ g + (k + 1) = g + 1 + k
      BY <2>9, <2>17
    <3>2. w[k + 1] = out[P[g + (k + 1)]]
      BY <2>16, <3>1
    <3> QED BY <3>1, <3>2
  <2>20. Shuffled(P, Len(given), Len(buffer), n)'
    <3>1. Places(P, Len(given') + Len(buffer'), layer'.n)
      BY <1>1, <2>9, <2>10, <2>15, <2>17 DEF n
    <3> QED BY <1>1, <2>9, <2>10, <2>18, <2>19, <3>1 DEF Shuffled, n
  <2>21. Len(given') + Len(buffer') = g + m /\ Len(inner') = r - m
    BY <2>8, <2>9, <2>10, <2>17 DEF r
  <2>22. inner' # <<>> => g + m = (q + 1) * n
    <3> SUFFICES ASSUME inner' # <<>> PROVE g + m = (q + 1) * n
      OBVIOUS
    <3>1. Len(inner') # 0
      BY <2>8, EmptySeq DEF Remains
    <3>2. m = n
      BY <1>4, <2>3, <2>21, <3>1 DEF r, n
    <3>3. n \in Nat
      BY <1>1 DEF n
    <3> QED BY <1>4, <2>12, <3>2, <3>3, NextWindow
  <2>23. /\ Len(given') + Len(buffer') + Len(inner') = Len(out')
         /\ inner' # <<>> => \E u \in Nat : Len(given') + Len(buffer') = u * n
    <3>1. g + r = Len(out) /\ m \in Nat
      BY <1>4, <2>3, <2>5
    <3> DEFINE N == Len(out)
    <3>2. N \in Nat /\ g \in Nat /\ r \in Nat /\ g + r = N /\ m \in Nat
      BY <1>4, <3>1
    <3> HIDE DEF N
    <3>4. g + m + (r - m) = N
      BY <3>2
    <3>3. q + 1 \in Nat
      OBVIOUS
    <3> QED BY <1>1, <2>21, <2>22, <3>3, <3>4 DEF N
  <2>24. Reorders(n)'
    <3>1. \E t : Shuffled(t, Len(given), Len(buffer), n)'
      BY <2>20
    <3> QED BY <1>1, <2>7, <2>9, <2>23, <3>1 DEF Reorders, n
  <2> QED BY <1>1, <1>6, <2>7, <2>8, <2>10, <2>24
<1>10. Ended \/ (buffer # <<>> /\ Gives(Head(buffer)) /\ buffer' = Tail(buffer) /\ inner' = inner)
       \/ (buffer = <<>> /\ inner # <<>>
           /\ \E w \in Refill : Gives(Head(w)) /\ buffer' = Tail(w) /\ Pulls(Len(w)))
  BY DEF Reordered
<1> QED BY <1>7, <1>8, <1>9, <1>10

(* The captured feed is opened behind its last event. *)
LEMMA OpenStep ==
  ASSUME Layered, out \in Seq(Fed), OpenReplay
  PROVE  Layered'
<1>1. /\ given = <<>> /\ buffer = <<>> /\ dropped = 0 /\ corrupted = 0 /\ kept = 0
      /\ answer # "more" /\ layer \in Layers /\ layer.n \in Nat
      /\ given' = given /\ buffer' = buffer /\ dropped' = dropped /\ corrupted' = corrupted
      /\ kept' = kept /\ layer' = layer /\ answer' = answer /\ out' = out
      /\ inner' = out /\ result' = "open"
  BY LayerIs DEF OpenReplay, Layered, vars
<1>2. Len(out) \in Nat /\ Len(<<>>) = 0 /\ <<>> \in Seq(Fed)
  BY EmptySeq, LenProperties
<1>3. Remains'
  BY <1>1, <1>2 DEF Remains
<1>4. Len(given') = 0 /\ Len(buffer') = 0 /\ Len(inner') = Len(out') /\ 1..0 = {}
      /\ given' \in Seq(Fed)
  BY <1>1, <1>2
<1>5. Drops(layer.n)'
  BY <1>1, <1>2, <1>4 DEF Drops
<1>6. Caps(layer.n)'
  BY <1>1, <1>2, <1>4 DEF Caps
<1>7. Corrupts'
  BY <1>1, <1>2, <1>4 DEF Corrupts
<1>8. Jitters(layer.n)'
  BY <1>1, <1>2, <1>4 DEF Jitters
<1>9. Reorders(layer.n)'
  <2> DEFINE p == [i \in 1..0 |-> i]
  <2>1. p \in [1..0 -> 1..0]
    OBVIOUS
  <2> HIDE DEF p
  <2>2. Shuffled(p, Len(given), Len(buffer), layer.n)'
    BY <1>4, <2>1 DEF Shuffled, Places
  <2>3. 0 = 0 * layer.n
    BY <1>1
  <2>4. \E q \in Nat : Len(given') + Len(buffer') = q * layer'.n
    BY <1>1, <1>4, <2>3
  <2> QED BY <1>1, <1>2, <1>4, <2>2, <2>4 DEF Reorders
<1> QED BY <1>1, <1>3, <1>4, <1>5, <1>6, <1>7, <1>8, <1>9 DEF Layered

(* What was read stays as it is once the reader has come to its end. *)
LEMMA ReadStays ==
  ASSUME answer # "more", FileNext \/ UNCHANGED vars
  PROVE  out' = out /\ answer' = answer
<1>1. CASE FileNext
  BY <1>1 DEF FileNext, WriteFrame, WriteFails, StopInFrame, Stop, NextEvent, ReadEntry, readVars
<1>2. CASE UNCHANGED vars
  BY <1>2 DEF vars
<1> QED BY <1>1, <1>2

LEMMA QuietStep ==
  ASSUME Layered, FileNext \/ UNCHANGED vars, Replaying
  PROVE  Layered'
<1>1. /\ layer' = layer /\ inner' = inner /\ buffer' = buffer /\ dropped' = dropped
      /\ corrupted' = corrupted /\ kept' = kept /\ given' = given /\ result' = result
  BY DEF Replaying, layerVars, poolVars
<1>2. CASE result \notin {"open", "ok"}
  BY <1>1, <1>2, ReadStays DEF Layered
<1>3. CASE result \in {"open", "ok"}
  <2>1. answer # "more"
    BY <1>3 DEF Layered
  <2>2. out' = out /\ answer' = answer
    BY <2>1, ReadStays
  <2>3. Remains' = Remains
    BY <1>1, <2>2 DEF Remains
  <2>4. Drops(layer.n)' = Drops(layer.n)
    BY <1>1, <2>2 DEF Drops
  <2>5. Caps(layer.n)' = Caps(layer.n)
    BY <1>1, <2>2 DEF Caps
  <2>6. Corrupts' = Corrupts
    BY <1>1, <2>2 DEF Corrupts, Same, Account, Junk
  <2>7. Jitters(layer.n)' = Jitters(layer.n)
    BY <1>1, <2>2 DEF Jitters
  <2>8. Reorders(layer.n)' = Reorders(layer.n)
    BY <1>1, <2>2 DEF Reorders, Shuffled
  <2> QED BY <1>1, <1>3, <2>2, <2>3, <2>4, <2>5, <2>6, <2>7, <2>8 DEF Layered
<1> QED BY <1>2, <1>3

LEMMA LayeredInit == ReplayInit => Layered
BY DEF ReplayInit, Layered

LEMMA LayeredStep ==
  ASSUME Layered, out \in Seq(Fed), [Next]_allVars
  PROVE  Layered'
<1>1. CASE FileNext /\ Replaying
  BY <1>1, QuietStep
<1>2. CASE UNCHANGED allVars
  BY <1>2, QuietStep DEF allVars, Replaying
<1>3. CASE OpenReplay
  BY <1>3, OpenStep
<1>4. CASE BoundedDrop \/ BoundedCorrupt \/ JitteredSlot \/ Reordered \/ Capped
  BY <1>4, DropStep, CorruptStep, JitterStep, ReorderStep, CapStep
<1> QED BY <1>1, <1>2, <1>3, <1>4 DEF Next

LEMMA CachedInit == ReplayInit => Cached
<1> SUFFICES ASSUME ReplayInit PROVE Cached
  OBVIOUS
<1>1. given = <<>> /\ pools = <<>> /\ amms = <<>> /\ vaults = <<>>
  BY DEF ReplayInit
<1>2. <<>> \in Seq({}) /\ DOMAIN <<>> = {} /\ IsFiniteSet({})
  BY EmptySeq, FS_EmptySet
<1>3. ToSet(<<>>) = {}
  BY <1>2 DEF ToSet
<1> QED BY <1>1, <1>2, <1>3 DEF Cached

LEMMA CachedStep ==
  ASSUME Cached, [Next]_allVars
  PROVE  Cached'
<1>1. CASE UNCHANGED <<amms, vaults, pools, given>> /\ (result' # "error" => result # "error")
  BY <1>1 DEF Cached, Data, Account
<1>2. CASE result = "open" /\ \E e : Gives(e)
  BY <1>2, TakeKeeps
<1>3. CASE FileNext /\ Replaying
  BY <1>1, <1>3 DEF Replaying, layerVars, poolVars
<1>4. CASE UNCHANGED allVars
  BY <1>1, <1>4 DEF allVars, layerVars, poolVars
<1>5. CASE OpenReplay
  BY <1>1, <1>5 DEF OpenReplay
<1>6. CASE NoMore /\ given' = given /\ result = "open"
  BY <1>1, <1>6 DEF NoMore
<1>7. CASE BoundedDrop
  BY <1>2, <1>6, <1>7 DEF BoundedDrop, Asked
<1>8. CASE BoundedCorrupt
  BY <1>2, <1>6, <1>8 DEF BoundedCorrupt, Asked, Ended, layerVars
<1>9. CASE JitteredSlot
  BY <1>2, <1>6, <1>9 DEF JitteredSlot, Asked, Ended, layerVars
<1>10. CASE Reordered
  BY <1>2, <1>6, <1>10 DEF Reordered, Asked, Ended, layerVars
<1>11. CASE Capped
  BY <1>2, <1>6, <1>11 DEF Capped, Asked, layerVars
<1> QED BY <1>3, <1>4, <1>5, <1>7, <1>8, <1>9, <1>10, <1>11 DEF Next

-----------------------------------------------------------------------------
(* What the layers promise follows. *)

LEMMA IsSubSeq ==
  ASSUME NEW D, NEW s \in Seq(D), NEW t \in Seq(Fed), NEW n \in Nat, n + Len(s) <= Len(t) \/ s = <<>>,
         \A i \in 1..Len(s) : s[i] = t[n + i]
  PROVE  s = SubSeq(t, n + 1, n + Len(s))
<1> DEFINE g == Len(s)
           u == SubSeq(t, n + 1, n + g)
<1>1. g \in Nat /\ Len(t) \in Nat
  BY LenProperties
<1>2. CASE s = <<>>
  <2>1. g = 0
    BY <1>2, EmptySeq
  <2>2. n + g < n + 1 /\ n + g \in Int /\ n + 1 \in Int
    BY <2>1
  <2>3. u = <<>>
    BY <2>2, SubSeqEmpty
  <2> QED BY <1>2, <2>3
<1>3. CASE n + g <= Len(t)
  <2> HIDE DEF g, u
  <2> DEFINE lo == n + 1
             hi == n + g
  <2>1. /\ lo \in Int /\ hi \in Int /\ \A i \in lo..hi : i \in 1..Len(t)
        /\ hi - lo + 1 = g /\ (lo <= hi \/ g = 0) /\ \A i \in 1..g : lo + i - 1 = n + i
    BY <1>1, <1>3
  <2>2. u = SubSeq(t, lo, hi)
    BY DEF u
  <2> HIDE DEF lo, hi
  <2>3. \A i \in lo..hi : t[i] \in Fed
    BY <2>1, ElementOfSeq
  <2>4. /\ u \in Seq(Fed) /\ Len(u) = IF lo <= hi THEN hi - lo + 1 ELSE 0
        /\ \A i \in 1..hi - lo + 1 : u[i] = t[lo + i - 1]
    BY <2>1, <2>2, <2>3, SubSeqProperties
  <2>5. Len(u) = g /\ \A i \in 1..g : u[i] = t[n + i]
    BY <2>1, <2>4
  <2>6. Len(u) = g /\ \A i \in 1..g : u[i] = s[i]
    BY <2>5 DEF g
  <2>7. s \in Seq(D \cup Fed) /\ u \in Seq(D \cup Fed)
    BY <2>4, SeqMonotonic
  <2>8. s = u
    BY <2>6, <2>7, SeqEqual DEF g
  <2> QED BY <2>8 DEF u, g
<1> QED BY <1>2, <1>3

(* After a rearrangement of all places every event came as often as before. *)
LEMMA SameCount ==
  ASSUME NEW N \in Nat, NEW p \in [1..N -> 1..N], \A i, j \in 1..N : p[i] = p[j] => i = j,
         DOMAIN given = 1..N, DOMAIN out = 1..N, \A i \in 1..N : given[i] = out[p[i]], NEW e
  PROVE  Count(given, e) = Count(out, e)
<1> DEFINE I == 1..N
           A == {i \in I : given[i] = e}
           B == {i \in I : out[i] = e}
           f == [i \in A |-> p[i]]
<1>1. IsFiniteSet(I)
  BY FS_Interval
<1>2. p \in Injection(I, I)
  BY DEF Injection, IsInjective
<1>3. p \in Surjection(I, I)
  <2> HIDE DEF I
  <2> QED BY <1>1, <1>2, FS_Injection
<1>4. IsFiniteSet(A)
  <2> HIDE DEF I
  <2> QED BY <1>1, FS_Subset
<1>5. \A i \in A : i \in I /\ given[i] = out[p[i]] /\ p[i] \in I /\ p[i] \in B
  OBVIOUS
<1>6. \A b \in B : \E i \in A : p[i] = b
  <2> TAKE b \in B
  <2>1. PICK i \in I : p[i] = b
    BY <1>3 DEF Surjection
  <2>2. given[i] = e
    BY <2>1
  <2> QED BY <2>1, <2>2
<1>7. \A i, j \in A : p[i] = p[j] => i = j
  OBVIOUS
<1> HIDE DEF A, B, I
<1>8. f \in [A -> B] /\ DOMAIN f = A /\ \A i \in A : f[i] = p[i]
  BY <1>5
<1> HIDE DEF f
<1>9. f \in Bijection(A, B)
  BY <1>6, <1>7, <1>8 DEF Bijection, Injection, Surjection, IsInjective
<1>10. Cardinality(A) = Cardinality(B)
  BY <1>4, <1>9, FS_Bijection DEF ExistsBijection
<1> QED BY <1>10 DEF Count, A, B, I

LEMMA WindowIs ==
  ASSUME NEW q \in Nat, NEW n \in Nat \ {0}, NEW k \in 1..n
  PROVE  (q * n + k - 1) \div n = q
OBVIOUS

LEMMA FaultsAreBounded ==
  ASSUME Layered, out \in Seq(Fed), result \in {"open", "ok"}
  PROVE  FaultsBounded
<1> DEFINE n == layer.n
           g == Len(given)
           r == Len(inner)
           N == Len(out)
<1>1. /\ layer.n \in Nat
      /\ layer.kind \in {"drop", "cap", "corrupt", "jitter", "reverse", "permute"}
      /\ layer.kind \in {"reverse", "permute"} => layer.n > 0
  BY LayerIs DEF Layered
<1>2. Remains /\ \E D : given \in Seq(D)
  BY DEF Layered
<1>3. PICK D : given \in Seq(D)
  BY <1>2
<1>4. g \in Nat /\ r \in Nat /\ N \in Nat /\ DOMAIN given = 1..g /\ DOMAIN out = 1..N
      /\ (inner = <<>> => r = 0)
  BY <1>2, <1>3, LenProperties, EmptySeq DEF Remains
<1>5. CASE layer.kind = "drop"
  <2>1. Drops(n)
    BY <1>5 DEF Layered
  <2>2. dropped \in 0..n /\ g + dropped + r = N /\ (g # 0 => dropped = n)
    BY <2>1 DEF Drops
  <2>3. n + g <= N \/ given = <<>>
    <3>1. CASE g = 0
      BY <1>3, <3>1, EmptySeq
    <3>2. CASE g # 0
      <4> HIDE DEF g, r, n, N
      <4> QED BY <1>4, <2>2, <3>2
    <3> QED BY <3>1, <3>2
  <2>4. given = SubSeq(out, n + 1, n + g)
    BY <1>1, <1>3, <2>1, <2>3, IsSubSeq DEF Drops
  <2>5. result = "ok" => g + dropped = N /\ dropped <= n
    <3>1. result = "ok" => r = 0
      BY <1>4, <2>1 DEF Drops
    <3> HIDE DEF g, r, N
    <3> QED BY <1>1, <1>4, <2>2, <3>1
  <2> QED BY <1>5, <2>4, <2>5 DEF FaultsBounded
<1>6. CASE layer.kind = "cap"
  <2>1. Caps(n)
    BY <1>6 DEF Layered
  <2>2. g + r = N /\ g <= n
    BY <2>1 DEF Caps
  <2>3. 0 + g <= N /\ \A i \in 1..g : given[i] = out[0 + i]
    <3>1. 0 + g <= N
      <4> HIDE DEF g, r, N
      <4> QED BY <1>4, <2>2
    <3> QED BY <1>4, <2>1, <3>1 DEF Caps
  <2>4. given = SubSeq(out, 0 + 1, 0 + g)
    BY <1>3, <2>3, IsSubSeq
  <2>5. given = SubSeq(out, 1, g)
    BY <1>4, <2>4
  <2>6. result = "ok" => g \in {n, N}
    <3>1. result = "ok" => r = 0 \/ g = n
      BY <1>4, <2>1 DEF Caps
    <3> HIDE DEF g, r, N
    <3> QED BY <1>4, <2>2, <3>1
  <2> QED BY <1>6, <2>2, <2>5, <2>6 DEF FaultsBounded
<1>7. CASE layer.kind = "corrupt"
  <2>1. Corrupts
    BY <1>7 DEF Layered
  <2>2. result = "ok" => g = N
    <3>1. g + r = N /\ (result = "ok" => r = 0)
      BY <1>4, <2>1 DEF Corrupts
    <3> HIDE DEF g, r, N
    <3> QED BY <1>4, <3>1
  <2> QED BY <1>4, <1>7, <2>1, <2>2 DEF FaultsBounded, Corrupts
<1>8. CASE layer.kind = "jitter"
  <2>1. Jitters(n)
    BY <1>8 DEF Layered
  <2>2. result = "ok" => g = N
    <3>1. g + r = N /\ (result = "ok" => r = 0)
      BY <1>4, <2>1 DEF Jitters
    <3> HIDE DEF g, r, N
    <3> QED BY <1>4, <3>1
  <2> QED BY <1>4, <1>8, <2>1, <2>2 DEF FaultsBounded, Jitters
<1>9. CASE layer.kind \in {"reverse", "permute"}
  <2>1. Reorders(n) /\ n \in Nat \ {0}
    BY <1>1, <1>9 DEF Layered
  <2> DEFINE b == Len(buffer)
  <2>2. PICK p : Shuffled(p, g, b, n)
    BY <2>1 DEF Reorders
  <2>3. b \in Nat /\ g + b + r = N /\ (buffer = <<>> => b = 0)
    BY <2>1, LenProperties, EmptySeq DEF Reorders
  <2>4. Places(p, g + b, n) /\ \A i \in 1..g : given[i] = out[p[i]]
    BY <2>2 DEF Shuffled
  <2>5. \A i \in 1..g : \E j \in 1..n : WindowOf(i) + j <= N /\ given[i] = out[WindowOf(i) + j]
    <3> TAKE i \in 1..g
    <3>1. i \in 1..g + b
      BY <1>4, <2>3
    <3>2. PICK q \in Nat, j \in 1..n, k \in 1..n : i = q * n + k /\ p[i] = q * n + j
      BY <2>4, <3>1 DEF Places
    <3>3. p[i] \in 1..g + b
      BY <2>4, <3>1 DEF Places
    <3>4. WindowOf(i) = q * n
      <4>1. (q * n + k - 1) \div n = q
        <5>1. n \in Nat \ {0} /\ q \in Nat /\ k \in 1..n
          BY <2>1
        <5> HIDE DEF n
        <5> QED BY <5>1, WindowIs
      <4>2. i - 1 = q * n + k - 1
        <5> DEFINE w == q * n
        <5>1. n \in Nat /\ q \in Nat /\ k \in 1..n
          BY <2>1
        <5>2. i = w + k
          BY <3>2
        <5> HIDE DEF n
        <5>3. w \in Nat /\ k \in Nat
          BY <5>1
        <5> HIDE DEF w
        <5>4. i - 1 = w + k - 1
          BY <5>2, <5>3
        <5> QED BY <5>4 DEF w
      <4>3. (i - 1) \div n = q
        BY <4>1, <4>2, Zenon
      <4> QED BY <4>3 DEF WindowOf
    <3>5. WindowOf(i) + j = p[i]
      BY <3>2, <3>4
    <3>6. p[i] <= N
      <4> HIDE DEF g, r, N, b
      <4> QED BY <1>4, <2>3, <3>3
    <3>7. given[i] = out[p[i]]
      BY <2>4
    <3> QED BY <3>5, <3>6, <3>7
  <2>6. ASSUME result = "ok", NEW e PROVE Count(given, e) = Count(out, e)
    <3>1. r = 0 /\ b = 0
      BY <1>4, <2>1, <2>3, <2>6 DEF Reorders
    <3>2. g = N /\ g + b = N /\ N \in Nat
      <4> HIDE DEF g, r, N, b
      <4> QED BY <1>4, <2>3, <3>1
    <3>3. /\ p \in [1..N -> 1..N] /\ \A i, j \in 1..N : p[i] = p[j] => i = j
          /\ DOMAIN given = 1..N /\ DOMAIN out = 1..N /\ \A i \in 1..N : given[i] = out[p[i]]
      BY <1>4, <2>4, <3>2 DEF Places
    <3> HIDE DEF N, g
    <3> QED BY <3>2, <3>3, SameCount
  <2>7. FaultsBounded <=>
          /\ \A i \in DOMAIN given :
                \E j \in 1..layer.n : WindowOf(i) + j <= Len(out) /\ given[i] = out[WindowOf(i) + j]
          /\ result = "ok" => \A e \in ToSet(out) : Count(given, e) = Count(out, e)
    BY <1>9 DEF FaultsBounded
  <2> QED BY <1>4, <2>5, <2>6, <2>7
<1> QED BY <1>1, <1>5, <1>6, <1>7, <1>8, <1>9

(* NothingIsSkipped: for any capture, any layer of any bound and any       *)
(* consumption, a replay that has not failed was given the captured events *)
(* as its layer bends them, understood each of them, and assembled pools   *)
(* of the reserves of vaults it was given (fault.rs next_event of each     *)
(* layer, pipeline.rs pools_from_feed).                                    *)
THEOREM NothingIsSkipped == Spec => []NothingSkipped
<1> DEFINE Inv == FileInv /\ Layered /\ Cached
<1>1. ReplayInit => Inv
  BY FileInvInit, LayeredInit, CachedInit
<1>2. Inv /\ [Next]_allVars => Inv'
  <2> SUFFICES ASSUME Inv, [Next]_allVars PROVE Inv'
    OBVIOUS
  <2>1. out \in Seq(Fed)
    BY DEF FileInv, Typed, Fed
  <2> QED BY <2>1, FileInvStep, LayeredStep, CachedStep
<1>3. Inv => NothingSkipped
  <2> SUFFICES ASSUME Inv, result \in {"open", "ok"} PROVE NothingSkipped
    BY DEF NothingSkipped
  <2>1. out \in Seq(Fed)
    BY DEF FileInv, Typed, Fed
  <2>2. FaultsBounded
    BY <2>1, FaultsAreBounded
  <2>3. /\ \A e \in ToSet(given) : Account(e) => DecoderOf(e.data) # "none"
        /\ \A p \in ToSet(pools) : BackedBy(p, Data(given))
    BY DEF Cached
  <2> QED BY <2>2, <2>3 DEF NothingSkipped, BackedBy, Data
<1> QED BY <1>1, <1>2, <1>3, PTL DEF Spec
=============================================================================
