---------------------------- MODULE Formats_proofs ----------------------------
(***************************************************************************)
(* That the codecs are faithful: whatever words, bytes, strings or cells an *)
(* encoder takes, its decoder gives back; and that a search index answers   *)
(* what its postings say.  From the bottom up: folds, sums and digits; bits *)
(* and bytes; varints, differences, run lengths; strings and dictionaries;  *)
(* the cells of a column, its metadata and its statistics; the choice of a  *)
(* codec; the sections of a posting list, the cursor through them, the skip *)
(* table, the dictionary of terms and the queries.  Loops of the code are   *)
(* functions and folds in the model; each is first unfolded into a table of *)
(* its states, and what a table holds is shown by induction over a set of   *)
(* numbers.                                                                 *)
(***************************************************************************)
EXTENDS FormatsTables, WellFoundedInduction, FiniteSetTheorems, SequenceTheorems, TLAPS


-----------------------------------------------------------------------------
(* Induction over the numbers up to a bound, for a set of numbers; the folds *)
(* of the community modules, unfolded.                                       *)

LEMMA LeastNatural ==
    ASSUME NEW T, T \subseteq Nat, T # {}
    PROVE  \E n \in T : \A m \in T : n <= m
<1>1. PICK n \in T : \A m \in T : <<m, n>> \notin OpToRel(<, Nat)
  BY WFMin, NatLessThanWellFounded, Zenon
<1>2. \A m \in T : ~ (m < n)  BY <1>1, Zenon DEF OpToRel
<1>3. \A m \in T : n <= m  BY <1>2
<1> QED BY <1>3

LEMMA Induction ==
    ASSUME NEW N \in Nat, NEW T, 0 \in T, \A n \in 0..N - 1 : n \in T => n + 1 \in T
    PROVE  0..N \subseteq T
<1> DEFINE missing == (0..N) \ T
<1> SUFFICES ASSUME missing # {}
             PROVE  FALSE
  OBVIOUS
<1>0. missing \subseteq Nat  OBVIOUS
<1>1. PICK n \in missing : \A m \in missing : n <= m
  <2> HIDE DEF missing
  <2> QED BY <1>0, LeastNatural
<1>2. n \in 0..N /\ n \notin T /\ n # 0  BY <1>1
<1>3. n - 1 \in 0..N - 1 /\ n - 1 \in 0..N /\ ~ (n <= n - 1) /\ (n - 1) + 1 = n
  BY <1>2
<1>4. n - 1 \in T  BY <1>1, <1>3
<1> QED BY <1>2, <1>3, <1>4

LEMMA MaxIs ==
    ASSUME NEW s \in SUBSET Nat, NEW m \in s, \A y \in s : y <= m
    PROVE  Max(s) = m
<1>1. \A y \in s : m >= y  OBVIOUS
<1>2. \A x \in s : (\A y \in s : x >= y) => x = m  OBVIOUS
<1> QED BY <1>1, <1>2 DEF Max

LEMMA MaxIn ==
    ASSUME NEW n \in Nat, NEW s \in SUBSET (1..n), s # {}
    PROVE  Max(s) \in s /\ \A y \in s : y <= Max(s)
<1> DEFINE T == {n - x : x \in s}
<1>1. T \subseteq Nat /\ T # {}
  <2>1. \A x \in s : x \in 1..n /\ n - x \in Nat  OBVIOUS
  <2>2. PICK x : x \in s  OBVIOUS
  <2> QED BY <2>1, <2>2
<1>2. PICK least \in T : \A y \in T : least <= y
  <2> HIDE DEF T
  <2> QED BY <1>1, LeastNatural
<1>3. PICK m \in s : least = n - m  BY <1>2
<1>4. \A y \in s : y <= m
  <2> SUFFICES ASSUME NEW y \in s
               PROVE  y <= m
    OBVIOUS
  <2>1. n - y \in T /\ y \in Nat /\ m \in Nat  BY <1>3
  <2>2. least <= n - y  BY <1>2, <2>1
  <2> QED BY <1>3, <2>1, <2>2
<1>5. s \in SUBSET Nat  OBVIOUS
<1> HIDE DEF T
<1> QED BY <1>4, <1>5, MaxIs

LEMMA PrefixSets ==
    ASSUME NEW n \in Nat, NEW k \in 1..n
    PROVE  /\ 1..k \in SUBSET (1..n) /\ 1..k # {}
           /\ Max(1..k) = k
           /\ (1..k) \ {k} = 1..k - 1
<1>1. k \in 1..k /\ (\A x \in 1..k : x \in 1..n) /\ 1..k \in SUBSET Nat
  OBVIOUS
<1>2. \A y \in 1..k : y <= k  OBVIOUS
<1>3. \A x : x \in (1..k) \ {k} <=> x \in 1..k - 1  OBVIOUS
<1>4. Max(1..k) = k  BY <1>1, <1>2, MaxIs
<1> QED BY <1>1, <1>3, <1>4

LEMMA FoldExists ==
    ASSUME NEW fold, NEW base, NEW seq, NEW n \in Nat
    PROVE  \E f : IsFold(f, fold, base, seq, n)
<1> DEFINE With(k, x) == FoldStep(fold, x, seq[k])
           solved == {m \in Nat : \E f : IsFold(f, fold, base, seq, m)}
<1>1. 0 \in solved
  <2> DEFINE f == [s \in SUBSET (1..0) |-> base]
             g == [s \in SUBSET (1..0) |-> IF s = {} THEN base ELSE With(Max(s), f[s \ {Max(s)}])]
  <2>1. \A s \in SUBSET (1..0) : s = {}  OBVIOUS
  <2>2. f = g  BY <2>1
  <2>3. IsFold(f, fold, base, seq, 0)  BY <2>2 DEF IsFold
  <2> QED BY <2>3
<1>2. ASSUME NEW m \in 0..n - 1, m \in solved
      PROVE  m + 1 \in solved
  <2>1. PICK f : IsFold(f, fold, base, seq, m)  BY <1>2
  <2>2. \A s \in SUBSET (1..m) : f[s] = IF s = {} THEN base ELSE With(Max(s), f[s \ {Max(s)}])
    BY <2>1 DEF IsFold
  <2> HIDE DEF With
  <2> DEFINE g == [s \in SUBSET (1..m + 1) |->
                       IF m + 1 \in s THEN With(m + 1, f[s \ {m + 1}]) ELSE f[s]]
  <2>3. ASSUME NEW s \in SUBSET (1..m)
        PROVE  g[s] = f[s]
    <3>1. m + 1 \notin s /\ s \in SUBSET (1..m + 1)  OBVIOUS
    <3> QED BY <3>1
  <2>4. ASSUME NEW s \in SUBSET (1..m + 1)
        PROVE  g[s] = IF s = {} THEN base ELSE With(Max(s), g[s \ {Max(s)}])
    <3>1. CASE m + 1 \in s
      <4>1. g[s] = With(m + 1, f[s \ {m + 1}])  BY <3>1
      <4>2. s \ {m + 1} \in SUBSET (1..m)  OBVIOUS
      <4>3. Max(s) = m + 1  BY <3>1, MaxIs
      <4>4. g[s \ {m + 1}] = f[s \ {m + 1}]  BY <2>3, <4>2
      <4> HIDE DEF g
      <4> QED BY <3>1, <4>1, <4>3, <4>4
    <3>2. CASE m + 1 \notin s
      <4>1. s \in SUBSET (1..m)  BY <3>2
      <4>2. s \ {Max(s)} \in SUBSET (1..m)  BY <4>1
      <4>3. g[s] = f[s] /\ g[s \ {Max(s)}] = f[s \ {Max(s)}]  BY <2>3, <4>1, <4>2
      <4> HIDE DEF g
      <4> QED BY <2>2, <4>1, <4>3
    <3> QED BY <3>1, <3>2
  <2>5. IsFold(g, fold, base, seq, m + 1)
    <3> DEFINE S == SUBSET (1..m + 1)
               h == [s \in S |-> IF s = {} THEN base ELSE With(Max(s), g[s \ {Max(s)}])]
    <3>1. g = [s \in S |-> g[s]]  OBVIOUS
    <3>2. \A s \in S : g[s] = IF s = {} THEN base ELSE With(Max(s), g[s \ {Max(s)}])  BY <2>4
    <3> HIDE DEF g, S
    <3>3. g = h  BY <3>1, <3>2
    <3> QED BY <3>3 DEF IsFold, With, S
  <2>6. m + 1 \in Nat  OBVIOUS
  <2> HIDE DEF g
  <2> QED BY <2>5, <2>6
<1>3. n \in solved
  <2> HIDE DEF solved
  <2>1. 0..n \subseteq solved  BY <1>1, <1>2, Induction
  <2> QED BY <2>1
<1> QED BY <1>3

(* What the fold comes to, place by place. *)
LEMMA FoldRuns ==
    ASSUME NEW fold, NEW base, NEW seq, NEW n \in Nat, NEW f, IsFold(f, fold, base, seq, n)
    PROVE  \E t : FoldSteps(t, fold, base, seq, n) /\ t[n] = f[1..n]
<1> DEFINE t == [k \in 0..n |-> f[1..k]]
<1>1. \A s \in SUBSET (1..n) :
          f[s] = IF s = {} THEN base ELSE FoldStep(fold, f[s \ {Max(s)}], seq[Max(s)])
  BY DEF IsFold
<1>2. f[1..0] = base
  <2>1. 1..0 = {} /\ {} \in SUBSET (1..n)  OBVIOUS
  <2> QED BY <1>1, <2>1
<1>3. ASSUME NEW k \in 1..n
      PROVE  t[k] = FoldStep(fold, t[k - 1], seq[k])
  <2>1. 1..k \in SUBSET (1..n) /\ 1..k # {} /\ Max(1..k) = k /\ (1..k) \ {k} = 1..k - 1
    BY PrefixSets
  <2>2. f[1..k] = FoldStep(fold, f[(1..k) \ {Max(1..k)}], seq[Max(1..k)])  BY <1>1, <2>1
  <2>3. t[k] = f[1..k] /\ t[k - 1] = f[1..k - 1]  OBVIOUS
  <2> HIDE DEF t
  <2> QED BY <2>1, <2>2, <2>3
<1>4. t[0] = base /\ t[n] = f[1..n] /\ t = [k \in 0..n |-> t[k]]  BY <1>2
<1> HIDE DEF t
<1>5. FoldSteps(t, fold, base, seq, n)  BY <1>3, <1>4 DEF FoldSteps
<1> QED BY <1>4, <1>5

LEMMA FlattenIs ==
    ASSUME NEW n \in Nat, n # 0, NEW seqs, Len(seqs) = n, NEW f, Flattens(f, seqs, n)
    PROVE  FlattenSeq(seqs) = f[n]
<1> USE DEF Flattens
<1> DEFINE Solves(h) == h = [i \in 1..Len(seqs) |->
                                IF i = 1 THEN seqs[i] ELSE h[i - 1] \o seqs[i]]
           g == CHOOSE h : Solves(h)
<1>1. FlattenSeq(seqs) = g[Len(seqs)]
  <2>1. Len(seqs) # 0  OBVIOUS
  <2> QED BY <2>1, Zenon DEF FlattenSeq
<1>2. Solves(f)  OBVIOUS
<1>3. Solves(g)  BY <1>2, Zenon
<1> HIDE DEF g
<1>4. g = [i \in 1..n |-> IF i = 1 THEN seqs[i] ELSE g[i - 1] \o seqs[i]]
  BY <1>3
<1> HIDE DEF Solves
<1> DEFINE same == {k \in Nat : k = 0 \/ f[k] = g[k]}
<1>5. 0 \in same  OBVIOUS
<1>6. ASSUME NEW k \in 0..n - 1, k \in same
      PROVE  k + 1 \in same
  <2>1. k + 1 \in 1..n /\ (k + 1) - 1 = k /\ k + 1 \in Nat  OBVIOUS
  <2>2. f[k + 1] = IF k + 1 = 1 THEN seqs[k + 1] ELSE f[(k + 1) - 1] \o seqs[k + 1]
    BY <2>1
  <2>3. g[k + 1] = IF k + 1 = 1 THEN seqs[k + 1] ELSE g[(k + 1) - 1] \o seqs[k + 1]
    BY <1>4, <2>1
  <2>4. k # 0 => f[k] = g[k]  BY <1>6
  <2>5. f[k + 1] = g[k + 1]  BY <2>1, <2>2, <2>3, <2>4
  <2> QED BY <2>1, <2>5
<1>7. 0..n \subseteq same
  <2> HIDE DEF same
  <2> QED BY <1>5, <1>6, Induction
<1>8. f[n] = g[n]
  <2>1. n \in 0..n  OBVIOUS
  <2> QED BY <1>7, <2>1
<1> QED BY <1>1, <1>8

LEMMA NoElements ==
    ASSUME NEW X, NEW s \in Seq(X)
    PROVE  /\ Len(s) = 0 => s = << >>
           /\ << >> \o s = s /\ s \o << >> = s
OBVIOUS

LEMMA FlattenUnfolds ==
    ASSUME NEW X
    PROVE  /\ FlattenSeq(<< >>) = << >>
           /\ \A gs \in Seq(Seq(X)) :
                  /\ FlattenSeq(gs) \in Seq(X)
                  /\ \A g \in Seq(X) : FlattenSeq(Append(gs, g)) = FlattenSeq(gs) \o g
<1>1. FlattenSeq(<< >>) = << >>
  <2>1. Len(<< >>) = 0  OBVIOUS
  <2> QED BY <2>1, Zenon DEF FlattenSeq
<1>2. ASSUME NEW gs \in Seq(Seq(X)), Len(gs) # 0
      PROVE  \E f : Flattens(f, gs, Len(gs)) /\ f[Len(gs)] \in Seq(X)
  <2> DEFINE n == Len(gs)
             solved == {m \in Nat : m = 0 \/ \E f : Flattens(f, gs, m) /\ f[m] \in Seq(X)}
  <2>1. n \in Nat /\ n # 0 /\ \A i \in 1..n : gs[i] \in Seq(X)  BY <1>2
  <2> HIDE DEF n
  <2>2. 0 \in solved  OBVIOUS
  <2>3. ASSUME NEW m \in 0..n - 1, m \in solved
        PROVE  m + 1 \in solved
    <3>1. m + 1 \in 1..n /\ gs[m + 1] \in Seq(X) /\ m + 1 \in Nat  BY <2>1
    <3>2. CASE m = 0
      <4> DEFINE f == [i \in 1..1 |-> gs[i]]
      <4>1. Flattens(f, gs, 1) /\ f[1] = gs[1]  BY DEF Flattens
      <4> HIDE DEF f
      <4>2. \E g : Flattens(g, gs, 1) /\ g[1] \in Seq(X)  BY <3>1, <3>2, <4>1
      <4> QED BY <3>2, <4>2
    <3>3. CASE m # 0
      <4>1. PICK f : Flattens(f, gs, m) /\ f[m] \in Seq(X)  BY <2>3, <3>3
      <4> DEFINE g == [i \in 1..m + 1 |-> IF i = m + 1 THEN f[m] \o gs[m + 1] ELSE f[i]]
      <4>2. ASSUME NEW i \in 1..m + 1
            PROVE  g[i] = IF i = 1 THEN gs[i] ELSE g[i - 1] \o gs[i]
        <5>1. CASE i = m + 1
          <6>1. i # 1 /\ i - 1 = m /\ m \in 1..m + 1 /\ m # m + 1
            BY <3>3, <5>1
          <6>2. g[i] = f[m] \o gs[m + 1] /\ g[m] = f[m]  BY <5>1, <6>1
          <6> HIDE DEF g
          <6> QED BY <5>1, <6>1, <6>2
        <5>2. CASE i # m + 1
          <6>1. i \in 1..m /\ g[i] = f[i]  BY <5>2
          <6>2. i # 1 => g[i - 1] = f[i - 1]  BY <6>1
          <6>3. f[i] = IF i = 1 THEN gs[i] ELSE f[i - 1] \o gs[i]
            BY <4>1, <6>1 DEF Flattens
          <6> HIDE DEF g
          <6> QED BY <6>1, <6>2, <6>3
        <5> QED BY <5>1, <5>2
      <4>3. Flattens(g, gs, m + 1)
        <5> DEFINE h == [i \in 1..m + 1 |-> IF i = 1 THEN gs[i] ELSE g[i - 1] \o gs[i]]
        <5>1. DOMAIN g = 1..m + 1 /\ g = [i \in DOMAIN g |-> g[i]]  OBVIOUS
        <5> HIDE DEF g
        <5>2. g = h  BY <4>2, <5>1
        <5> QED BY <5>2 DEF Flattens
      <4>4. g[m + 1] = f[m] \o gs[m + 1]
        <5>1. m + 1 \in 1..m + 1  OBVIOUS
        <5> QED BY <5>1
      <4> HIDE DEF g
      <4>5. g[m + 1] \in Seq(X)  BY <3>1, <4>1, <4>4
      <4> QED BY <3>1, <4>3, <4>5
    <3> QED BY <3>2, <3>3
  <2>4. n \in solved
    <3> HIDE DEF solved
    <3>1. 0..n \subseteq solved  BY <2>1, <2>2, <2>3, Induction
    <3> QED BY <2>1, <3>1
  <2> QED BY <2>1, <2>4 DEF n
<1>3. ASSUME NEW gs \in Seq(Seq(X))
      PROVE  FlattenSeq(gs) \in Seq(X)
  <2>1. CASE Len(gs) = 0
    <3>1. gs = << >>
      <4> DEFINE Y == Seq(X)
      <4>1. gs \in Seq(Y)  OBVIOUS
      <4> HIDE DEF Y
      <4> QED BY <2>1, <4>1, NoElements
    <3>2. << >> \in Seq(X)  OBVIOUS
    <3> QED BY <1>1, <3>1, <3>2
  <2>2. CASE Len(gs) # 0
    <3> DEFINE n == Len(gs)
    <3>1. n \in Nat /\ n # 0 /\ Len(gs) = n  BY <2>2
    <3> HIDE DEF n
    <3>2. PICK f : Flattens(f, gs, n) /\ f[n] \in Seq(X)  BY <1>2, <2>2 DEF n
    <3>3. FlattenSeq(gs) = f[n]  BY <3>1, <3>2, FlattenIs
    <3> QED BY <3>2, <3>3
  <2> QED BY <2>1, <2>2
<1>4. ASSUME NEW gs \in Seq(Seq(X)), NEW g \in Seq(X)
      PROVE  FlattenSeq(Append(gs, g)) = FlattenSeq(gs) \o g
  <2> DEFINE n == Len(gs)
             m == n + 1
             more == Append(gs, g)
  <2>1. /\ n \in Nat /\ m \in Nat /\ m # 0 /\ Len(more) = m /\ more[m] = g /\ m - 1 = n
        /\ m \in 1..m
        /\ \A i \in 1..n : more[i] = gs[i] /\ i \in 1..m /\ i # m
    OBVIOUS
  <2>2. CASE n = 0
    <3>1. gs = << >> /\ FlattenSeq(gs) = << >> /\ m = 1 /\ << >> \o g = g
      <4> DEFINE Y == Seq(X)
      <4>1. gs \in Seq(Y)  OBVIOUS
      <4> HIDE DEF Y
      <4>2. gs = << >> /\ << >> \o g = g /\ m = 1  BY <2>2, <4>1, NoElements
      <4> QED BY <1>1, <4>2
    <3> DEFINE f == [i \in 1..1 |-> more[i]]
    <3>2. Flattens(f, more, m) /\ f[1] = more[1]  BY <3>1 DEF Flattens
    <3> HIDE DEF f, more, m, n
    <3>3. FlattenSeq(more) = f[1]  BY <2>1, <3>1, <3>2, FlattenIs
    <3> QED BY <2>1, <3>1, <3>2, <3>3 DEF more
  <2>3. CASE n # 0
    <3> HIDE DEF more, m, n
    <3>1. PICK f : Flattens(f, gs, n)  BY <1>2, <2>3 DEF n
    <3>2. FlattenSeq(gs) = f[n]  BY <2>1, <2>3, <3>1, FlattenIs DEF n
    <3> DEFINE h == [i \in 1..m |-> IF i = m THEN f[n] \o g ELSE f[i]]
    <3>3. ASSUME NEW i \in 1..m
          PROVE  h[i] = IF i = 1 THEN more[i] ELSE h[i - 1] \o more[i]
      <4>1. CASE i = m
        <5>1. i # 1 /\ i - 1 = n /\ n \in 1..m /\ n # m  BY <2>1, <2>3, <4>1
        <5>2. h[i] = f[n] \o g /\ h[n] = f[n]  BY <4>1, <5>1
        <5> HIDE DEF h
        <5> QED BY <2>1, <4>1, <5>1, <5>2
      <4>2. CASE i # m
        <5>1. i \in 1..n /\ h[i] = f[i] /\ more[i] = gs[i]  BY <2>1, <4>2
        <5>2. i # 1 => h[i - 1] = f[i - 1]  BY <2>1, <5>1
        <5>3. f[i] = IF i = 1 THEN gs[i] ELSE f[i - 1] \o gs[i]
          BY <3>1, <5>1 DEF Flattens
        <5> HIDE DEF h
        <5> QED BY <5>1, <5>2, <5>3
      <4> QED BY <4>1, <4>2
    <3>4. Flattens(h, more, m)
      <4> DEFINE r == [i \in 1..m |-> IF i = 1 THEN more[i] ELSE h[i - 1] \o more[i]]
      <4>1. DOMAIN h = 1..m /\ h = [i \in DOMAIN h |-> h[i]]  OBVIOUS
      <4> HIDE DEF h
      <4>2. h = r  BY <3>3, <4>1
      <4> QED BY <4>2 DEF Flattens
    <3>5. h[m] = f[n] \o g  BY <2>1
    <3> HIDE DEF h
    <3>6. FlattenSeq(more) = h[m]  BY <2>1, <3>4, FlattenIs
    <3> QED BY <3>2, <3>5, <3>6 DEF more
  <2> QED BY <2>2, <2>3
<1> QED BY <1>1, <1>3, <1>4

LEMMA ArrayIs ==
    ASSUME NEW X, NEW n \in Nat, NEW f, IsArray(f, n, X)
    PROVE  f \in Seq(X) /\ Len(f) = n /\ DOMAIN f = 1..n
BY DEF IsArray

-----------------------------------------------------------------------------
(* Powers of two. *)

LEMMA Widths ==
    /\ ByteBits \in Nat /\ WordBits \in Nat /\ GroupBits \in Nat
    /\ ByteBits > 1 /\ GroupBits >= 1 /\ GroupBits + 1 = ByteBits
    /\ WordBits >= ByteBits /\ LastPower \in Nat
<1>1. /\ ByteBits \in Nat /\ ByteBits > 1
      /\ WordBits \in Nat /\ WordBits > 0 /\ WordBits % ByteBits = 0
  BY WidthAssumption
<1>2. WordBits >= ByteBits  BY <1>1
<1> QED BY <1>1, <1>2 DEF GroupBits, LastPower

LEMMA Power0 == 2^0 = 1
OBVIOUS

LEMMA PowerIs ==
    ASSUME NEW n \in 0..LastPower
    PROVE  /\ 2^n \in Nat /\ 2^n > 0
           /\ n < LastPower => 2^(n + 1) = 2 * 2^n
<1> DEFINE good == {k \in 0..LastPower : 2^k \in Nat /\ 2^k > 0}
<1>1. LastPower \in Nat /\ 0 \in 0..LastPower  BY Widths
<1>2. \A k \in 0..LastPower - 1 : 2^(k + 1) = 2 * 2^k
  BY PowersAssumption, Widths DEF LastPower
<1>3. 0 \in good  BY <1>1, Power0
<1>4. ASSUME NEW k \in 0..LastPower - 1, k \in good
      PROVE  k + 1 \in good
  <2>1. k + 1 \in 0..LastPower  BY <1>1
  <2> QED BY <1>2, <1>4, <2>1
<1>5. 0..LastPower \subseteq good
  <2> HIDE DEF good
  <2> QED BY <1>1, <1>3, <1>4, Induction
<1> QED BY <1>1, <1>2, <1>5

LEMMA PowerAdds ==
    ASSUME NEW a \in Nat, NEW b \in Nat, a + b <= LastPower
    PROVE  2^(a + b) = 2^a * 2^b
<1> DEFINE good == {k \in 0..b : 2^(a + k) = 2^a * 2^k}
<1>0. LastPower \in Nat  BY Widths
<1>1. a \in 0..LastPower /\ 2^a \in Nat  BY <1>0, PowerIs
<1>2. 0 \in good
  <2>1. 2^a * 1 = 2^a /\ a + 0 = a /\ 0 \in 0..b  BY <1>1
  <2> QED BY <2>1, Power0
<1>3. ASSUME NEW k \in 0..b - 1, k \in good
      PROVE  k + 1 \in good
  <2>1. /\ a + k \in 0..LastPower /\ a + k < LastPower /\ a + (k + 1) = (a + k) + 1
        /\ k \in 0..LastPower /\ k < LastPower /\ k + 1 \in 0..b
    BY <1>0
  <2>2. 2^(a + (k + 1)) = 2 * 2^(a + k) /\ 2^(k + 1) = 2 * 2^k /\ 2^k \in Nat
    BY <2>1, PowerIs
  <2>3. 2^(a + k) = 2^a * 2^k  BY <1>3
  <2> DEFINE x == 2^a
             y == 2^k
  <2>4. x \in Nat /\ y \in Nat  BY <1>1, <2>2
  <2> HIDE DEF x, y
  <2>5. 2 * (x * y) = x * (2 * y)  BY <2>4
  <2>6. 2^(a + (k + 1)) = 2^a * 2^(k + 1)  BY <2>2, <2>3, <2>5 DEF x, y
  <2> QED BY <2>1, <2>6
<1>4. b \in good
  <2> HIDE DEF good
  <2>1. 0..b \subseteq good /\ b \in 0..b  BY <1>2, <1>3, Induction
  <2> QED BY <2>1
<1> QED BY <1>4

LEMMA PowersGrow ==
    ASSUME NEW a \in Nat, NEW b \in Nat, b <= LastPower
    PROVE  /\ a <= b => 2^a <= 2^b
           /\ a < b => 2^a < 2^b
<1>0. LastPower \in Nat  BY Widths
<1>1. ASSUME a <= b
      PROVE  2^a <= 2^b /\ (a < b => 2^a < 2^b)
  <2> DEFINE c == b - a
  <2>1. c \in Nat /\ a + c = b /\ a \in 0..LastPower /\ c \in 0..LastPower
    BY <1>0, <1>1
  <2> HIDE DEF c
  <2>2. 2^b = 2^a * 2^c /\ 2^a \in Nat /\ 2^c \in Nat /\ 2^c > 0 /\ 2^a > 0
    BY <2>1, PowerAdds, PowerIs
  <2>3. c > 0 => 2^c >= 2
    <3> SUFFICES ASSUME c > 0
                 PROVE  2^c >= 2
      OBVIOUS
    <3>1. c - 1 \in 0..LastPower /\ c - 1 < LastPower /\ (c - 1) + 1 = c
      BY <1>0, <2>1
    <3>2. 2^c = 2 * 2^(c - 1) /\ 2^(c - 1) \in Nat /\ 2^(c - 1) > 0
      BY <3>1, PowerIs
    <3> QED BY <3>2
  <2> DEFINE x == 2^a
             y == 2^c
  <2>4. x \in Nat /\ y \in Nat /\ x > 0 /\ y >= 1 /\ 2^b = x * y /\ (c > 0 => y >= 2)
    BY <2>2, <2>3
  <2> HIDE DEF x, y
  <2>5. x <= x * y /\ (y >= 2 => x < x * y)  BY <2>4
  <2> QED BY <2>1, <2>4, <2>5 DEF x
<1> QED BY <1>1

-----------------------------------------------------------------------------
(* Sums. *)

LEMMA SumTable ==
    ASSUME NEW terms \in Seq(Int), NEW n \in Nat, Len(terms) = n
    PROVE  \E t \in [0..n -> Int] : SumSteps(t, terms, n) /\ SumOf(terms) = t[n]
<1> DEFINE Solves(f) == f = [s \in SUBSET (1..n) |->
               IF s = {} THEN 0 ELSE f[s \ {Max(s)}] + terms[Max(s)]]
           iter == CHOOSE f : Solves(f)
<1>1. DOMAIN terms = 1..n  OBVIOUS
<1>2. \A f : Solves(f) <=> IsFold(f, "sum", 0, terms, n)  BY DEF IsFold, FoldStep
<1>3. \E f : Solves(f)  BY <1>2, FoldExists
<1>4. Solves(iter)  BY <1>3, Zenon
<1>5. SumOf(terms) = iter[1..n]
  BY <1>1, Zenon DEF SumOf, FoldLeft, MapThenFoldSet
<1> HIDE DEF Solves, iter
<1>6. PICK t : FoldSteps(t, "sum", 0, terms, n) /\ t[n] = iter[1..n]
  BY <1>2, <1>4, FoldRuns
<1>7. SumSteps(t, terms, n) /\ t = [k \in 0..n |-> t[k]]
  BY <1>6 DEF FoldSteps, FoldStep, SumSteps
<1> DEFINE typed == {k \in 0..n : t[k] \in Int}
<1>8. 0 \in typed  BY <1>7 DEF SumSteps
<1>9. ASSUME NEW k \in 0..n - 1, k \in typed
      PROVE  k + 1 \in typed
  <2>1. k + 1 \in 1..n /\ (k + 1) - 1 = k /\ k + 1 \in 0..n /\ t[k] \in Int
    BY <1>9
  <2>2. t[k + 1] = t[k] + terms[k + 1]  BY <1>7, <2>1 DEF SumSteps
  <2> QED BY <2>1, <2>2
<1>10. 0..n \subseteq typed
  <2> HIDE DEF typed
  <2> QED BY <1>8, <1>9, Induction
<1>11. t \in [0..n -> Int]  BY <1>7, <1>10
<1> QED BY <1>5, <1>6, <1>7, <1>11

LEMMA SumUnfolds ==
    /\ SumOf(<< >>) = 0
    /\ \A terms \in Seq(Int) :
           /\ SumOf(terms) \in Int
           /\ \A c \in Int :
                  SumOf(Append(terms, c)) = SumOf(terms) + c
<1>1. SumOf(<< >>) = 0
  <2> DEFINE n == 0
             none == << >>
  <2>1. none \in Seq(Int) /\ n \in Nat /\ Len(none) = n  OBVIOUS
  <2> HIDE DEF n, none
  <2>2. PICK t : SumSteps(t, none, n) /\ SumOf(none) = t[n]  BY <2>1, SumTable
  <2> QED BY <2>2 DEF n, none, SumSteps
<1>2. ASSUME NEW terms \in Seq(Int)
      PROVE  SumOf(terms) \in Int
  <2>1. Len(terms) \in Nat /\ Len(terms) \in 0..Len(terms)  OBVIOUS
  <2> DEFINE n == Len(terms)
  <2>2. PICK t \in [0..n -> Int] : SumOf(terms) = t[n]  BY <2>1, SumTable
  <2> QED BY <2>1, <2>2
<1>3. ASSUME NEW terms \in Seq(Int), NEW c \in Int
      PROVE  SumOf(Append(terms, c)) = SumOf(terms) + c
  <2> DEFINE n == Len(terms)
             m == n + 1
             more == Append(terms, c)
  <2>1. /\ more \in Seq(Int) /\ Len(more) = m /\ n \in Nat /\ m \in Nat
        /\ \A k \in 1..n : more[k] = terms[k]
        /\ more[m] = c /\ m \in 1..m /\ m - 1 = n
        /\ \A k \in 1..n : k \in 1..m
    OBVIOUS
  <2> HIDE DEF n, m, more
  <2>2. PICK t : SumSteps(t, terms, n) /\ SumOf(terms) = t[n]
    BY <2>1, SumTable DEF n
  <2>3. PICK u : SumSteps(u, more, m) /\ SumOf(more) = u[m]  BY <2>1, SumTable
  <2> DEFINE same == {k \in Nat : u[k] = t[k]}
  <2>4. 0 \in same  BY <2>2, <2>3 DEF SumSteps
  <2>5. ASSUME NEW k \in 0..n - 1, k \in same
        PROVE  k + 1 \in same
    <3>1. k + 1 \in 1..n /\ (k + 1) - 1 = k /\ k + 1 \in Nat /\ k + 1 \in 1..m
      BY <2>1
    <3> DEFINE j == k + 1
    <3>2. u[j] = u[k] + more[j] /\ t[j] = t[k] + terms[j] /\ more[j] = terms[j]
      <4>1. j \in 1..n /\ j \in 1..m /\ j - 1 = k  BY <3>1
      <4> HIDE DEF j
      <4> QED BY <2>1, <2>2, <2>3, <4>1 DEF SumSteps
    <3>3. u[k] = t[k]  BY <2>5
    <3> HIDE DEF j
    <3>4. u[j] = t[j]  BY <3>2, <3>3
    <3> QED BY <3>1, <3>4 DEF j
  <2>6. n \in same
    <3> HIDE DEF same
    <3>1. 0..n \subseteq same  BY <2>1, <2>4, <2>5, Induction
    <3> QED BY <2>1, <3>1
  <2>7. u[m] = u[n] + c /\ u[n] = t[n]  BY <2>1, <2>3, <2>6 DEF SumSteps
  <2> QED BY <2>2, <2>3, <2>7 DEF more
<1> QED BY <1>1, <1>2, <1>3

LEMMA OneGroupMore ==
    ASSUME NEW X, NEW groups \in Seq(Seq(X)), NEW m \in 0..Len(groups) - 1
    PROVE  /\ SubSeq(groups, 1, m) \in Seq(Seq(X))
           /\ SubSeq(groups, 1, m + 1) = Append(SubSeq(groups, 1, m), groups[m + 1])
           /\ groups[m + 1] \in Seq(X)
           /\ FlattenSeq(SubSeq(groups, 1, m + 1))
                  = FlattenSeq(SubSeq(groups, 1, m)) \o groups[m + 1]
           /\ FlattenSeq(SubSeq(groups, 1, m)) \in Seq(X)
<1> DEFINE Y == Seq(X)
           front == SubSeq(groups, 1, m)
           g == groups[m + 1]
<1>1. groups \in Seq(Y)  OBVIOUS
<1> HIDE DEF Y
<1>2. front \in Seq(Y) /\ g \in Y /\ SubSeq(groups, 1, m + 1) = Append(front, g)
  BY <1>1
<1> HIDE DEF front, g
<1>3. FlattenSeq(Append(front, g)) = FlattenSeq(front) \o g /\ FlattenSeq(front) \in Seq(X)
  BY <1>2, FlattenUnfolds DEF Y
<1> QED BY <1>2, <1>3 DEF Y, front, g

LEMMA NoGroups ==
    ASSUME NEW X, NEW groups \in Seq(Seq(X))
    PROVE  /\ SubSeq(groups, 1, 0) = << >>
           /\ FlattenSeq(SubSeq(groups, 1, 0)) = << >>
           /\ SubSeq(groups, 1, Len(groups)) = groups
<1>1. SubSeq(groups, 1, 0) = << >>  OBVIOUS
<1>2. SubSeq(groups, 1, Len(groups)) = groups  OBVIOUS
<1> QED BY <1>1, <1>2, FlattenUnfolds, Zenon

LEMMA JoinedAt ==
    ASSUME NEW X, NEW a \in Seq(X), NEW b \in Seq(X)
    PROVE  /\ a \o b \in Seq(X) /\ Len(a \o b) = Len(a) + Len(b)
           /\ \A i \in 1..Len(a) : (a \o b)[i] = a[i]
           /\ \A i \in 1..Len(b) : (a \o b)[Len(a) + i] = b[i]
OBVIOUS

LEMMA FlattenJoins ==
    ASSUME NEW X, NEW a \in Seq(Seq(X)), NEW b \in Seq(Seq(X))
    PROVE  FlattenSeq(a \o b) = FlattenSeq(a) \o FlattenSeq(b)
<1> DEFINE Y == Seq(X)
           n == Len(b)
           B(m) == SubSeq(b, 1, m)
           F(m) == FlattenSeq(B(m))
           flat == FlattenSeq(a)
           joined == {m \in 0..n : FlattenSeq(a \o B(m)) = flat \o F(m)}
<1>1. /\ a \in Seq(Y) /\ flat \in Seq(X) /\ n \in Nat
      /\ B(0) = << >> /\ F(0) = << >> /\ B(n) = b
  <2>1. flat \in Seq(X)  BY FlattenUnfolds
  <2> QED BY <2>1, NoGroups
<1>2. \A m \in 0..n - 1 :
          /\ B(m) \in Seq(Y) /\ b[m + 1] \in Y /\ B(m + 1) = Append(B(m), b[m + 1])
          /\ F(m + 1) = F(m) \o b[m + 1] /\ F(m) \in Seq(X)
  BY OneGroupMore
<1>3. \A gs \in Seq(Y), g \in Y : FlattenSeq(Append(gs, g)) = FlattenSeq(gs) \o g
  BY FlattenUnfolds
<1> HIDE DEF Y, n, B, F, flat
<1>5. a \o << >> = a /\ flat \o << >> = flat  BY <1>1, NoElements
<1>6. 0 \in joined
  <2>1. a \o B(0) = a /\ flat \o F(0) = flat  BY <1>1, <1>5
  <2>2. FlattenSeq(a \o B(0)) = flat \o F(0)  BY <2>1 DEF flat
  <2> QED BY <1>1, <2>2
<1>7. ASSUME NEW m \in 0..n - 1, m \in joined
      PROVE  m + 1 \in joined
  <2> DEFINE front == B(m)
             g == b[m + 1]
             both == a \o front
  <2>1. /\ front \in Seq(Y) /\ g \in Y /\ B(m + 1) = Append(front, g)
        /\ F(m + 1) = F(m) \o g /\ F(m) \in Seq(X)
        /\ FlattenSeq(both) = flat \o F(m)
    BY <1>2, <1>7
  <2> HIDE DEF front, g
  <2>2. both \in Seq(Y) /\ a \o Append(front, g) = Append(both, g)
    <3>1. a \in Seq(Y) /\ front \in Seq(Y) /\ g \in Y  BY <1>1, <2>1
    <3>2. a \o Append(front, g) = Append(a \o front, g)  BY ONLY <3>1
    <3>3. a \o front \in Seq(Y)  BY ONLY <3>1, JoinedAt, Zenon
    <3> QED BY <3>2, <3>3
  <2> HIDE DEF both
  <2>3. FlattenSeq(Append(both, g)) = (flat \o F(m)) \o g  BY <1>3, <2>1, <2>2
  <2>4. (flat \o F(m)) \o g = flat \o F(m + 1)
    <3>1. flat \in Seq(X) /\ F(m) \in Seq(X) /\ g \in Seq(X)  BY <1>1, <2>1 DEF Y
    <3>2. (flat \o F(m)) \o g = flat \o (F(m) \o g)
      BY ONLY <3>1
    <3> QED BY <2>1, <3>2
  <2>5. FlattenSeq(a \o B(m + 1)) = flat \o F(m + 1)
    BY <2>1, <2>2, <2>3, <2>4
  <2>6. m + 1 \in 0..n  BY <1>1
  <2> QED BY <2>5, <2>6
<1>8. 0..n \subseteq joined
  <2> HIDE DEF joined
  <2> QED BY <1>1, <1>6, <1>7, Induction
<1>9. FlattenSeq(a \o B(n)) = flat \o F(n)  BY <1>1, <1>8
<1> QED BY <1>1, <1>9 DEF flat, F

-----------------------------------------------------------------------------
(* Sums and digits. *)

LEMMA SumEnds ==
    ASSUME NEW s \in Seq(Int)
    PROVE  /\ SumOf(s) \in Int
           /\ SubSeq(s, 1, 0) = << >> /\ SumOf(SubSeq(s, 1, 0)) = 0
           /\ SubSeq(s, 1, Len(s)) = s
<1>1. SubSeq(s, 1, 0) = << >> /\ SubSeq(s, 1, Len(s)) = s  OBVIOUS
<1> QED BY <1>1, SumUnfolds, Zenon

LEMMA SumOneMore ==
    ASSUME NEW s \in Seq(Int), NEW n \in 0..Len(s) - 1
    PROVE  /\ SumOf(SubSeq(s, 1, n)) \in Int
           /\ SumOf(SubSeq(s, 1, n + 1)) = SumOf(SubSeq(s, 1, n)) + s[n + 1]
<1> DEFINE front == SubSeq(s, 1, n)
           x == s[n + 1]
<1>1. front \in Seq(Int) /\ x \in Int /\ SubSeq(s, 1, n + 1) = Append(front, x)
  OBVIOUS
<1> HIDE DEF front, x
<1>2. SumOf(front) \in Int /\ SumOf(Append(front, x)) = SumOf(front) + x
  BY <1>1, SumUnfolds
<1> QED BY <1>1, <1>2 DEF front, x

(* A sum, from a table of what its first terms come to. *)
LEMMA SumIs ==
    ASSUME NEW s \in Seq(Int), NEW t, t[0] = 0, \A k \in 1..Len(s) : t[k] = t[k - 1] + s[k]
    PROVE  /\ \A k \in 0..Len(s) : SumOf(SubSeq(s, 1, k)) = t[k]
           /\ SumOf(s) = t[Len(s)]
<1> DEFINE n == Len(s)
           good == {k \in Nat : SumOf(SubSeq(s, 1, k)) = t[k]}
<1>1. n \in Nat /\ n \in 0..n  OBVIOUS
<1>2. 0 \in good  BY SumEnds
<1>3. ASSUME NEW k \in 0..n - 1, k \in good
      PROVE  k + 1 \in good
  <2>1. SumOf(SubSeq(s, 1, k + 1)) = SumOf(SubSeq(s, 1, k)) + s[k + 1]
    BY SumOneMore
  <2>2. k + 1 \in 1..n /\ (k + 1) - 1 = k /\ k + 1 \in Nat  BY <1>1
  <2>3. t[k + 1] = t[k] + s[k + 1]  BY <2>2
  <2>4. SumOf(SubSeq(s, 1, k)) = t[k]  BY <1>3
  <2> HIDE DEF n
  <2> QED BY <2>1, <2>2, <2>3, <2>4
<1>4. 0..n \subseteq good
  <2> HIDE DEF good, n
  <2> QED BY <1>1, <1>2, <1>3, Induction
<1>5. \A k \in 0..n : SumOf(SubSeq(s, 1, k)) = t[k]  BY <1>4
<1>6. SumOf(SubSeq(s, 1, n)) = t[n] /\ SubSeq(s, 1, n) = s
  BY <1>1, <1>5, SumEnds
<1> QED BY <1>5, <1>6

-----------------------------------------------------------------------------
(* Digits. *)

LEMMA DivMod ==
    ASSUME NEW v \in Nat, NEW u \in Nat, u > 0
    PROVE  /\ v \div u \in Nat /\ v % u \in 0..u - 1
           /\ v = u * (v \div u) + (v % u)
OBVIOUS

LEMMA Divides ==
    ASSUME NEW v \in Nat, NEW u \in Nat, u > 0, NEW q \in Nat, NEW r \in 0..u - 1, v = u * q + r
    PROVE  v \div u = q /\ v % u = r
OBVIOUS

(* The remainder by one digit more. *)
LEMMA OneDigitMore ==
    ASSUME NEW v \in Nat, NEW u \in Nat, u > 0, NEW M \in Nat, M > 0
    PROVE  /\ v % (M * u) = (v % u) + ((v \div u) % M) * u
           /\ v \div (M * u) = (v \div u) \div M
<1> DEFINE x == v \div u
           r == v % u
           q == x \div M
           d == x % M
<1>1. x \in Nat /\ r \in 0..u - 1 /\ v = u * x + r  BY DivMod
<1> HIDE DEF x, r
<1>2. q \in Nat /\ d \in 0..M - 1 /\ x = M * q + d  BY <1>1, DivMod
<1> HIDE DEF q, d
<1>3. v = (M * u) * q + (d * u + r)
  <2>1. u * (M * q + d) = (M * u) * q + d * u  BY <1>1, <1>2
  <2> QED BY <1>1, <1>2, <2>1
<1>4. d * u + r \in 0..(M * u) - 1 /\ M * u \in Nat /\ M * u > 0
  <2>1. d * u <= (M - 1) * u /\ (M - 1) * u = M * u - u /\ d * u \in Nat /\ M * u \in Nat
    BY <1>2
  <2>2. M * u > 0  OBVIOUS
  <2> QED BY <1>1, <2>1, <2>2
<1> DEFINE w == M * u
           e == d * u + r
<1>5. w \in Nat /\ w > 0 /\ e \in 0..w - 1 /\ v = w * q + e  BY <1>3, <1>4
<1> HIDE DEF w, e
<1>6. v \div w = q /\ v % w = e  BY <1>2, <1>5, Divides
<1>7. e = r + d * u  BY <1>1, <1>2 DEF e
<1> QED BY <1>6, <1>7 DEF w, q, d, x, r

LEMMA UnitsAre ==
    ASSUME NEW U, NEW M, NEW n, Units(U, M, n)
    PROVE  \A k \in 0..n : U[k] \in Nat /\ U[k] > 0
<1> DEFINE good == {k \in Nat : U[k] \in Nat /\ U[k] > 0}
<1>1. n \in Nat /\ M \in Nat /\ M > 0 /\ U[0] = 1  BY DEF Units
<1>2. 0 \in good  BY <1>1
<1>3. ASSUME NEW k \in 0..n - 1, k \in good
      PROVE  k + 1 \in good
  <2>1. k + 1 \in 1..n /\ (k + 1) - 1 = k /\ k + 1 \in Nat  BY <1>1
  <2>2. U[k + 1] = M * U[k]  BY <2>1 DEF Units
  <2> DEFINE u == U[k]
  <2>3. u \in Nat /\ u > 0  BY <1>3
  <2> HIDE DEF u
  <2>4. M * u \in Nat /\ M * u > 0  BY <1>1, <2>3
  <2> QED BY <2>1, <2>2, <2>4 DEF u
<1>4. 0..n \subseteq good
  <2> HIDE DEF good
  <2> QED BY <1>1, <1>2, <1>3, Induction
<1> QED BY <1>4

(* The digits of a number, each times its unit, are its remainder. *)
LEMMA DigitsSum ==
    ASSUME NEW U, NEW M, NEW n, Units(U, M, n), NEW v \in Nat,
           NEW s \in Seq(Int), Len(s) = n,
           \A i \in 1..n : s[i] = Digit(v, U[i - 1], M) * U[i - 1]
    PROVE  SumOf(s) = v % U[n]
<1>1. n \in Nat /\ M \in Nat /\ M > 0 /\ U[0] = 1  BY DEF Units
<1>2. \A k \in 0..n : U[k] \in Nat /\ U[k] > 0  BY UnitsAre
<1>3. ASSUME NEW i \in 1..n
      PROVE  s[i] = ((v \div U[i - 1]) % M) * U[i - 1] /\ s[i] \in Int
  <2>1. i - 1 \in 0..n  BY <1>1
  <2>2. s[i] = ((v \div U[i - 1]) % M) * U[i - 1]  BY Zenon DEF Digit
  <2> DEFINE u == U[i - 1]
  <2>3. u \in Nat /\ u > 0  BY <1>2, <2>1
  <2> HIDE DEF u
  <2>4. v \div u \in Nat  BY <2>3, DivMod
  <2>5. (v \div u) % M \in Nat  BY <1>1, <2>4
  <2>6. ((v \div u) % M) * u \in Int  BY <2>3, <2>5
  <2> QED BY <2>2, <2>6 DEF u
<1>4. s \in Seq(Int) /\ Len(s) = n  OBVIOUS
<1> DEFINE t == [k \in 0..n |-> v % U[k]]
<1>5. t[0] = 0
  <2>1. v % 1 = 0  OBVIOUS
  <2> QED BY <1>1, <2>1
<1>6. ASSUME NEW k \in 1..Len(s)
      PROVE  t[k] = t[k - 1] + s[k]
  <2>1. k \in 1..n /\ k \in 0..n /\ k - 1 \in 0..n  BY <1>1, <1>4
  <2> DEFINE u == U[k - 1]
  <2>2. u \in Nat /\ u > 0 /\ U[k] = M * u  BY <1>2, <2>1 DEF Units
  <2>3. t[k] = v % U[k] /\ t[k - 1] = v % u  BY <2>1
  <2>4. s[k] = ((v \div u) % M) * u  BY <1>3, <2>1
  <2> HIDE DEF u
  <2>5. v % (M * u) = (v % u) + ((v \div u) % M) * u
    BY <1>1, <2>2, OneDigitMore
  <2> HIDE DEF t
  <2> QED BY <2>2, <2>3, <2>4, <2>5
<1>7. t[n] = v % U[n]  BY <1>1
<1> HIDE DEF t
<1>8. SumOf(s) = t[Len(s)]  BY <1>4, <1>5, <1>6, SumIs
<1> QED BY <1>4, <1>7, <1>8

-----------------------------------------------------------------------------
(* Digits of a sum of digits. *)

LEMMA UnitsDivide ==
    ASSUME NEW U, NEW M, NEW n, Units(U, M, n), NEW i \in 0..n
    PROVE  \A k \in i..n : \E c \in Nat : U[k] = U[i] * c
<1> DEFINE good == {j \in Nat : \E c \in Nat : U[i + j] = U[i] * c}
<1>1. n \in Nat /\ M \in Nat /\ i \in Nat /\ U[i] \in Nat /\ n - i \in Nat
  <2>1. n \in Nat /\ M \in Nat  BY DEF Units
  <2>2. U[i] \in Nat  BY UnitsAre
  <2> QED BY <2>1, <2>2
<1>2. 0 \in good
  <2>1. U[i] * 1 = U[i] /\ i + 0 = i  BY <1>1
  <2> QED BY <2>1
<1>3. ASSUME NEW j \in 0..(n - i) - 1, j \in good
      PROVE  j + 1 \in good
  <2>1. PICK c \in Nat : U[i + j] = U[i] * c  BY <1>3
  <2>2. i + (j + 1) \in 1..n /\ (i + (j + 1)) - 1 = i + j /\ j + 1 \in Nat
    BY <1>1
  <2> DEFINE k == i + (j + 1)
             u == U[i]
  <2>3. U[k] = M * U[k - 1] /\ k - 1 = i + j  BY <2>2 DEF Units
  <2>4. u \in Nat  BY <1>1
  <2> HIDE DEF k, u
  <2>5. M * (u * c) = u * (M * c) /\ M * c \in Nat  BY <1>1, <2>4
  <2>6. U[k] = u * (M * c)  BY <2>1, <2>3, <2>5 DEF u
  <2> QED BY <2>2, <2>5, <2>6 DEF k, u
<1>4. 0..n - i \subseteq good
  <2> HIDE DEF good
  <2> QED BY <1>1, <1>2, <1>3, Induction
<1> QED
  <2> TAKE k \in i..n
  <2>1. k - i \in 0..n - i /\ i + (k - i) = k  BY <1>1
  <2> QED BY <1>4, <2>1

(* Higher digits are behind the lower ones. *)
LEMMA DivShifts ==
    ASSUME NEW v \in Nat, NEW u \in Nat, u > 0, NEW x \in Nat
    PROVE  (v + u * x) \div u = (v \div u) + x
<1> DEFINE q == v \div u
           r == v % u
<1>1. q \in Nat /\ r \in 0..u - 1 /\ v = u * q + r  BY DivMod
<1> HIDE DEF q, r
<1>2. v + u * x = u * (q + x) + r /\ q + x \in Nat  BY <1>1
<1> DEFINE w == v + u * x
<1>3. w \in Nat /\ w = u * (q + x) + r  BY <1>1, <1>2
<1> HIDE DEF w
<1>4. w \div u = q + x  BY <1>1, <1>2, <1>3, Divides
<1> QED BY <1>4 DEF q, w

LEMMA ModShifts ==
    ASSUME NEW q \in Nat, NEW M \in Nat, M > 0, NEW z \in Nat
    PROVE  (q + M * z) % M = q % M
<1> DEFINE d == q % M
           h == q \div M
<1>1. d \in 0..M - 1 /\ h \in Nat /\ q = M * h + d  BY DivMod
<1> HIDE DEF d, h
<1> DEFINE p == q + M * z
<1>2. p = M * (h + z) + d /\ h + z \in Nat /\ p \in Nat  BY <1>1
<1> HIDE DEF p
<1>3. p % M = d  BY <1>1, <1>2, Divides
<1> QED BY <1>3 DEF d, p

LEMMA DigitsOf ==
    ASSUME NEW U, NEW M, NEW n, Units(U, M, n),
           NEW d, \A i \in 1..n : d[i] \in 0..M - 1,
           NEW s, s = Terms(d, U, n)
    PROVE  /\ s \in Seq(Int)
           /\ \A k \in 0..n : SumOf(SubSeq(s, 1, k)) \in 0..U[k] - 1
           /\ SumOf(s) \in 0..U[n] - 1
           /\ \A i \in 1..n : Digit(SumOf(s), U[i - 1], M) = d[i]
<1>1. n \in Nat /\ M \in Nat /\ M > 0 /\ U[0] = 1  BY DEF Units
<1>2. \A k \in 0..n : U[k] \in Nat /\ U[k] > 0  BY UnitsAre
<1>3. ASSUME NEW i \in 1..n
      PROVE  s[i] = d[i] * U[i - 1] /\ s[i] \in Int /\ d[i] \in Nat /\ i - 1 \in 0..n
  <2>1. i - 1 \in 0..n /\ d[i] \in 0..M - 1  BY <1>1
  <2>2. U[i - 1] \in Nat /\ d[i] \in Nat  BY <1>1, <1>2, <2>1
  <2>3. s[i] = d[i] * U[i - 1]  BY DEF Terms
  <2> QED BY <2>1, <2>2, <2>3
<1>4. s \in Seq(Int) /\ Len(s) = n
  <2>1. s = [i \in 1..n |-> d[i] * U[i - 1]]  BY DEF Terms
  <2> QED BY <1>1, <1>3, <2>1
<1> DEFINE S(k) == SumOf(SubSeq(s, 1, k))
           good == {k \in 0..n : /\ S(k) \in 0..U[k] - 1
                                 /\ \A i \in 1..k : (S(k) \div U[i - 1]) % M = d[i]}
<1>5. 0 \in good
  <2>1. S(0) = 0 /\ U[0] = 1 /\ 0 \in 0..n  BY <1>1, <1>4, SumEnds
  <2> HIDE DEF S
  <2>2. S(0) \in 0..U[0] - 1 /\ \A i \in 1..0 : (S(0) \div U[i - 1]) % M = d[i]
    BY <2>1
  <2> QED BY <2>1, <2>2
<1>6. ASSUME NEW k \in 0..n - 1, k \in good
      PROVE  k + 1 \in good
  <2>1. k + 1 \in 0..n /\ k + 1 \in 1..n /\ k \in 0..n /\ (k + 1) - 1 = k /\ k \in 0..Len(s) - 1
    BY <1>1, <1>4
  <2>2. S(k + 1) = S(k) + s[k + 1]  BY <1>4, <2>1, SumOneMore
  <2> DEFINE u == U[k]
             x == d[k + 1]
             low == S(k)
  <2>3. s[k + 1] = x * u /\ x \in 0..M - 1  BY <1>3, <2>1
  <2>4. u \in Nat /\ u > 0 /\ U[k + 1] = M * u  BY <1>2, <2>1 DEF Units
  <2>5. low \in 0..u - 1  BY <1>6
  <2>6. ASSUME NEW i \in 1..k
        PROVE  (low \div U[i - 1]) % M = d[i]
    BY <1>6
  <2> HIDE DEF S, good
  <2>7. S(k + 1) = low + x * u  BY <2>2, <2>3
  <2> HIDE DEF u, x, low
  <2>8. low + x * u \in 0..(M * u) - 1
    <3>1. x * u <= (M - 1) * u /\ (M - 1) * u = M * u - u /\ x * u \in Nat /\ M * u \in Nat
      BY <1>1, <2>3, <2>4
    <3> QED BY <2>4, <2>5, <3>1
  <2>9. ASSUME NEW i \in 1..k + 1
        PROVE  ((low + x * u) \div U[i - 1]) % M = d[i]
    <3>1. CASE i = k + 1
      <4>1. (low + x * u) \div u = x
        <5>0. x \in Nat /\ u \in Nat /\ low \in Nat  BY <1>1, <2>3, <2>4, <2>5
        <5>1. low + x * u = u * x + low /\ low + x * u \in Nat /\ x \in Nat
          BY <5>0
        <5> DEFINE w == low + x * u
        <5>2. w = u * x + low /\ w \in Nat  BY <5>1
        <5> HIDE DEF w
        <5>3. w \div u = x  BY <2>4, <2>5, <5>1, <5>2, Divides
        <5> QED BY <5>3 DEF w
      <4>2. x % M = x
        <5>1. x \in 0..M - 1 /\ x \in Nat /\ x = M * 0 + x  BY <1>1, <2>3
        <5> QED BY <1>1, <5>1, Divides
      <4>3. U[i - 1] = u /\ d[i] = x  BY <2>1, <3>1 DEF u, x
      <4> QED BY <4>1, <4>2, <4>3
    <3>2. CASE i # k + 1
      <4>1. i \in 1..k /\ i \in 1..n /\ i \in 0..n /\ i - 1 \in 0..n /\ k \in i..n
        BY <1>1, <2>1, <3>2
      <4>2. PICK c \in Nat : U[k] = U[i] * c  BY <4>1, UnitsDivide
      <4> DEFINE y == U[i - 1]
      <4>3. y \in Nat /\ y > 0 /\ U[i] = M * y  BY <1>2, <4>1 DEF Units
      <4>4. (low \div y) % M = d[i]  BY <2>6, <4>1
      <4>5. u = (M * y) * c  BY <4>2, <4>3 DEF u
      <4> HIDE DEF y
      <4>6. x * ((M * y) * c) = (M * y) * (x * c) /\ x * c \in Nat /\ low \in Nat
        BY <1>1, <2>3, <2>4, <2>5, <4>3
      <4> DEFINE z == x * c
                 w == low + x * u
                 q == low \div y
                 p == w \div y
                 t == M * z
      <4>7. z \in Nat /\ low \in Nat /\ M * z \in Nat /\ w = low + y * t /\ t \in Nat
        <5>1. z \in Nat /\ low \in Nat /\ w = low + (M * y) * z  BY <4>5, <4>6
        <5> HIDE DEF z
        <5>2. (M * y) * z = y * (M * z) /\ M * z \in Nat  BY <1>1, <4>3, <5>1
        <5> QED BY <5>1, <5>2
      <4> HIDE DEF z, w
      <4>8. q \in Nat  BY <4>3, <4>7, DivMod
      <4> HIDE DEF t
      <4>9. (low + y * t) \div y = (low \div y) + t
        BY <4>3, <4>7, DivShifts, Zenon
      <4>10. p = q + M * z  BY <4>7, <4>9 DEF t
      <4> HIDE DEF p, q
      <4>11. (q + M * z) % M = q % M  BY <1>1, <4>7, <4>8, ModShifts, Zenon
      <4>12. p % M = q % M  BY <4>10, <4>11, Zenon
      <4> QED BY <4>4, <4>12, Zenon DEF w, p, q, y
    <3> QED BY <3>1, <3>2
  <2> QED BY <2>1, <2>4, <2>7, <2>8, <2>9 DEF good
<1>7. 0..n \subseteq good
  <2> HIDE DEF good
  <2> QED BY <1>1, <1>5, <1>6, Induction
<1>8. \A k \in 0..n : S(k) \in 0..U[k] - 1  BY <1>7
<1>9. n \in good /\ S(n) = SumOf(s)
  <2>1. n \in 0..n /\ SubSeq(s, 1, n) = s  BY <1>1, <1>4, SumEnds
  <2> HIDE DEF good
  <2> QED BY <1>7, <2>1
<1>10. SumOf(s) \in 0..U[n] - 1 /\ \A i \in 1..n : (SumOf(s) \div U[i - 1]) % M = d[i]
  BY <1>9
<1>11. \A i \in 1..n : Digit(SumOf(s), U[i - 1], M) = d[i]
  BY <1>10, Zenon DEF Digit
<1> QED BY <1>4, <1>8, <1>10, <1>11

LEMMA DigitsBack ==
    ASSUME NEW U, NEW M, NEW n, NEW d, NEW s, AreTerms(s, d, U, M, n)
    PROVE  /\ SumOf(s) \in 0..U[n] - 1
           /\ \A i \in 1..n : Digit(SumOf(s), U[i - 1], M) = d[i]
<1>1. s = Terms(d, U, n) /\ Units(U, M, n) /\ \A i \in 1..n : d[i] \in 0..M - 1
  BY DEF Terms, AreTerms
<1> QED BY <1>1, DigitsOf

LEMMA SequencesAreApart ==
    ASSUME ErrIsApart, NEW X, NEW s \in Seq(X)
    PROVE  s # Err
<1>1. s = [i \in DOMAIN s |-> s[i]]  OBVIOUS
<1> QED BY <1>1 DEF ErrIsApart

-----------------------------------------------------------------------------
(* Bits and bytes. *)

LEMMA BitUnits ==
    ASSUME NEW n \in 0..LastPower
    PROVE  Units([k \in 0..n |-> 2^k], 2, n)
<1> DEFINE U == [k \in 0..n |-> 2^k]
<1>1. LastPower \in Nat /\ n \in Nat  BY Widths
<1>2. U[0] = 1  BY <1>1, Power0
<1>3. ASSUME NEW k \in 1..n
      PROVE  U[k] = 2 * U[k - 1]
  <2>1. k - 1 \in 0..LastPower /\ k - 1 < LastPower /\ (k - 1) + 1 = k /\ k \in 0..n /\ k - 1 \in 0..n
    BY <1>1
  <2>2. 2^((k - 1) + 1) = 2 * 2^(k - 1)  BY <2>1, PowerIs
  <2>3. U[k] = 2^k /\ U[k - 1] = 2^(k - 1)  BY <2>1
  <2> HIDE DEF U
  <2> QED BY <2>1, <2>2, <2>3
<1> HIDE DEF U
<1>4. Units(U, 2, n)  BY <1>1, <1>2, <1>3 DEF Units
<1> QED BY <1>4 DEF U

LEMMA Ceiling ==
    ASSUME NEW a \in Nat, NEW b \in Nat, b > 0
    PROVE  /\ CeilDiv(a, b) \in Nat
           /\ a <= CeilDiv(a, b) * b
           /\ CeilDiv(a, b) * b < a + b
           /\ CeilDiv(a, b) <= a
           /\ a > 0 => CeilDiv(a, b) > 0
<1> DEFINE c == a + b - 1
           q == c \div b
           r == c % b
<1>1. c \in Nat  OBVIOUS
<1>2. q \in Nat /\ r \in 0..b - 1 /\ c = b * q + r
  <2> HIDE DEF c
  <2> QED BY <1>1, DivMod
<1>3. CeilDiv(a, b) = q  BY DEF CeilDiv
<1> HIDE DEF q, r
<1>4. a + b - 1 = b * q + r /\ b * q \in Nat /\ q * b = b * q  BY <1>2
<1>5. a <= q * b /\ q * b < a + b  BY <1>2, <1>4
<1>6. q <= a
  <2> SUFFICES ASSUME q >= a + 1
               PROVE  FALSE
    BY <1>2
  <2>1. q * b >= (a + 1) * b /\ (a + 1) * b = a * b + b /\ a * b >= a  BY <1>2
  <2> QED BY <1>4, <1>5, <2>1
<1>7. a > 0 => q > 0
  <2> SUFFICES ASSUME a > 0, q = 0
               PROVE  FALSE
    BY <1>2
  <2>1. q * b = 0  OBVIOUS
  <2> QED BY <1>5, <2>1
<1> QED BY <1>2, <1>3, <1>5, <1>6, <1>7

(* The place of a bit among the bytes, and back. *)
LEMMA PlaceOfBit ==
    ASSUME NEW b \in Nat, b > 0, NEW m \in Nat, NEW n \in 1..m * b
    PROVE  /\ (n - 1) \div b \in Nat
           /\ ((n - 1) \div b) + 1 \in 1..m
           /\ (n - 1) % b \in 0..b - 1
           /\ ((n - 1) \div b) * b + (((n - 1) % b) + 1) = n
<1> DEFINE q == (n - 1) \div b
           r == (n - 1) % b
           p == n - 1
<1>0. p \in Nat /\ n = p + 1  OBVIOUS
<1>1. q \in Nat /\ r \in 0..b - 1 /\ p = b * q + r
  <2> HIDE DEF p
  <2> QED BY <1>0, DivMod DEF p
<1> HIDE DEF q, r, p
<1>2. b * q \in Nat /\ q * b = b * q  BY <1>1
<1>3. q < m
  <2> SUFFICES ASSUME q >= m
               PROVE  FALSE
    BY <1>1
  <2>1. q * b >= m * b  BY <1>1
  <2> QED BY <1>0, <1>1, <1>2, <2>1
<1>4. q + 1 \in 1..m /\ q * b + (r + 1) = n  BY <1>0, <1>1, <1>2, <1>3
<1> QED BY <1>1, <1>4 DEF q, r

LEMMA PlaceInBytes ==
    ASSUME NEW b \in Nat, b > 0, NEW m \in Nat, NEW k \in 1..m, NEW i \in 1..b
    PROVE  /\ (k - 1) * b + i \in 1..m * b
           /\ (((k - 1) * b + i) - 1) \div b = k - 1
           /\ (((k - 1) * b + i) - 1) % b = i - 1
<1> DEFINE q == k - 1
           r == i - 1
           n == (k - 1) * b + i
           p == n - 1
<1>1. q \in Nat /\ r \in 0..b - 1 /\ q + 1 <= m  OBVIOUS
<1>2. q * b \in Nat /\ q * b = b * q /\ (q + 1) * b = q * b + b /\ (q + 1) * b <= m * b /\ m * b \in Nat
  <2> HIDE DEF q
  <2>1. (m - (q + 1)) * b >= 0 /\ (m - (q + 1)) * b = m * b - (q + 1) * b
    BY <1>1
  <2> QED BY <1>1, <2>1
<1>3. n = q * b + i /\ n \in Nat /\ n \in 1..m * b
  <2>1. n = q * b + i  OBVIOUS
  <2> HIDE DEF q, n
  <2> QED BY <1>1, <1>2, <2>1
<1>4. p = b * q + r /\ p \in Nat
  <2>1. p = n - 1 /\ r = i - 1  OBVIOUS
  <2> HIDE DEF p, q, r, n
  <2> QED BY <1>2, <1>3, <2>1
<1>5. p \div b = q /\ p % b = r
  <2> HIDE DEF p, q, r
  <2> QED BY <1>1, <1>4, Divides
<1> QED BY <1>3, <1>5

(* Digits that are bits. *)
LEMMA BitsBack ==
    ASSUME NEW n \in 0..LastPower, NEW d, \A i \in 1..n : d[i] \in Bit,
           NEW s \in Seq(Int), Len(s) = n, \A i \in 1..n : s[i] = d[i] * 2^(i - 1)
    PROVE  /\ SumOf(s) \in 0..2^n - 1
           /\ \A i \in 1..n : BitOf(SumOf(s), i - 1) = d[i]
<1> DEFINE U == [k \in 0..n |-> 2^k]
           M == 2
<1>1. Units(U, M, n) /\ n \in Nat  BY BitUnits, Widths
<1>2. \A i \in 1..n : i - 1 \in 0..n /\ U[i - 1] = 2^(i - 1)  BY <1>1
<1>3. U[n] = 2^n  BY <1>1
<1> HIDE DEF U
<1>4. \A i \in 1..n : d[i] \in 0..M - 1  BY DEF Bit
<1>5. \A i \in 1..n : s[i] = d[i] * U[i - 1]  BY <1>2
<1> HIDE DEF M
<1>6. /\ SumOf(s) \in 0..U[n] - 1
      /\ \A i \in 1..n : Digit(SumOf(s), U[i - 1], M) = d[i]
  <2>1. AreTerms(s, d, U, M, n)  BY <1>1, <1>4, <1>5 DEF AreTerms
  <2> QED BY <2>1, DigitsBack
<1>7. ASSUME NEW i \in 1..n
      PROVE  BitOf(SumOf(s), i - 1) = d[i]
  <2>1. Digit(SumOf(s), U[i - 1], M) = d[i] /\ U[i - 1] = 2^(i - 1)
    BY <1>2, <1>6
  <2> QED BY <2>1, Zenon DEF BitOf, Digit, M
<1> QED BY <1>3, <1>6, <1>7

LEMMA BitsSum ==
    ASSUME NEW n \in 0..LastPower, NEW v \in 0..2^n - 1,
           NEW s \in Seq(Int), Len(s) = n, \A i \in 1..n : s[i] = BitOf(v, i - 1) * 2^(i - 1)
    PROVE  SumOf(s) = v
<1> DEFINE U == [k \in 0..n |-> 2^k]
           M == 2
<1>1. Units(U, M, n) /\ n \in Nat  BY BitUnits, Widths
<1>2. \A i \in 1..n : i - 1 \in 0..n /\ U[i - 1] = 2^(i - 1)  BY <1>1
<1>3. U[n] = 2^n /\ 2^n \in Nat /\ 2^n > 0  BY <1>1, PowerIs
<1> HIDE DEF U
<1>4. v \in Nat  BY <1>3
<1>5. \A i \in 1..n : s[i] = Digit(v, U[i - 1], M) * U[i - 1]
  <2> TAKE i \in 1..n
  <2>1. U[i - 1] = 2^(i - 1) /\ s[i] = BitOf(v, i - 1) * 2^(i - 1)  BY <1>2
  <2> QED BY <2>1, Zenon DEF BitOf, Digit
<1> HIDE DEF M
<1>6. SumOf(s) = v % U[n]  BY <1>1, <1>4, <1>5, DigitsSum
<1> DEFINE u == 2^n
<1>7. u \in Nat /\ u > 0 /\ v \in 0..u - 1 /\ v = u * 0 + v  BY <1>3, <1>4
<1> HIDE DEF u
<1>8. v % u = v  BY <1>4, <1>7, Divides
<1> QED BY <1>3, <1>6, <1>8 DEF u

LEMMA BitIs ==
    ASSUME NEW v \in Nat, NEW i \in 0..LastPower
    PROVE  BitOf(v, i) \in Bit
<1> DEFINE u == 2^i
<1>1. u \in Nat /\ u > 0  BY PowerIs
<1> HIDE DEF u
<1>2. v \div u \in Nat  BY <1>1, DivMod
<1>3. (v \div u) % 2 \in {0, 1}  BY <1>2
<1> QED BY <1>3 DEF u, Bit, BitOf

LEMMA ByteIs ==
    /\ 2^ByteBits \in Nat /\ 2^ByteBits >= 4
    /\ ByteBits \in 0..LastPower
    /\ Byte \subseteq Nat
<1>1. ByteBits \in 0..LastPower /\ 2 \in 0..LastPower /\ 2 <= ByteBits /\ ByteBits <= LastPower
  BY Widths DEF LastPower
<1>2. 2^ByteBits \in Nat  BY <1>1, PowerIs
<1>3. 2^2 <= 2^ByteBits  BY <1>1, Widths, PowersGrow
<1>4. 2^2 = 4  OBVIOUS
<1> QED BY <1>1, <1>2, <1>3, <1>4 DEF Byte

LEMMA PackedByte ==
    ASSUME NEW bits \in Seq(Bit), NEW k \in 1..CeilDiv(Len(bits), ByteBits)
    PROVE  /\ PackBits(bits)[k] \in Byte
           /\ \A i \in 1..ByteBits : BitOf(PackBits(bits)[k], i - 1)
                  = IF (k - 1) * ByteBits + i <= Len(bits)
                    THEN bits[(k - 1) * ByteBits + i] ELSE 0
<1> DEFINE At(i) == (k - 1) * ByteBits + i
           d == [i \in 1..ByteBits |-> IF At(i) <= Len(bits) THEN bits[At(i)] ELSE 0]
           s == [i \in 1..ByteBits |-> IF At(i) <= Len(bits) THEN bits[At(i)] * 2^(i - 1) ELSE 0]
<1>1. ByteBits \in Nat /\ ByteBits \in 0..LastPower /\ k \in Nat /\ k >= 1 /\ Len(bits) \in Nat
  BY Widths, ByteIs, Ceiling
<1>2. ASSUME NEW i \in 1..ByteBits
      PROVE  At(i) \in Nat /\ At(i) > 0
  <2>1. (k - 1) * ByteBits \in Nat  BY <1>1
  <2> QED BY <1>1, <2>1
<1>3. PackBits(bits)[k] = SumOf(s)  BY Zenon DEF PackBits
<1> HIDE DEF At
<1>4. ASSUME NEW i \in 1..ByteBits
      PROVE  /\ d[i] = (IF At(i) <= Len(bits) THEN bits[At(i)] ELSE 0)
             /\ d[i] \in Bit
             /\ s[i] = d[i] * 2^(i - 1)
  <2>1. i - 1 \in 0..LastPower  BY <1>1, Widths DEF LastPower
  <2>2. 2^(i - 1) \in Nat  BY <2>1, PowerIs
  <2>3. CASE At(i) <= Len(bits)
    <3> DEFINE at == At(i)
    <3>1. at \in 1..Len(bits)  BY <1>1, <1>2, <2>3
    <3> HIDE DEF at
    <3>2. bits[at] \in Bit  BY <3>1
    <3> QED BY <2>3, <3>2 DEF at
  <2>4. CASE ~ (At(i) <= Len(bits))
    <3>1. d[i] = 0 /\ s[i] = 0 /\ 0 * 2^(i - 1) = 0  BY <2>2, <2>4
    <3> QED BY <2>4, <3>1 DEF Bit
  <2> QED BY <2>3, <2>4
<1>5. s \in Seq(Int) /\ Len(s) = ByteBits /\ \A i \in 1..ByteBits : s[i] = d[i] * 2^(i - 1)
  <2>1. s = [i \in 1..ByteBits |-> s[i]]  OBVIOUS
  <2> HIDE DEF s, d
  <2>2. ASSUME NEW i \in 1..ByteBits
        PROVE  s[i] \in Int
    <3>1. i - 1 \in 0..LastPower  BY <1>1, Widths DEF LastPower
    <3>2. 2^(i - 1) \in Int  BY <3>1, PowerIs
    <3>3. d[i] \in Int /\ s[i] = d[i] * 2^(i - 1)  BY <1>4 DEF Bit
    <3> QED BY <3>2, <3>3
  <2>3. s \in Seq(Int) /\ Len(s) = ByteBits
    <3> DEFINE X == Int
    <3>1. IsArray(s, ByteBits, X)  BY <2>1, <2>2 DEF IsArray
    <3> HIDE DEF X
    <3>2. s \in Seq(X) /\ Len(s) = ByteBits  BY <1>1, <3>1, ArrayIs
    <3> QED BY <3>2 DEF X
  <2> QED BY <1>4, <2>3
<1> HIDE DEF s, d
<1>6. SumOf(s) \in 0..2^ByteBits - 1 /\ \A i \in 1..ByteBits : BitOf(SumOf(s), i - 1) = d[i]
  BY <1>1, <1>4, <1>5, BitsBack
<1> QED BY <1>3, <1>4, <1>6 DEF At, Byte

-----------------------------------------------------------------------------
(* Bits packed into bytes, and back. *)

LEMMA UnpackIs ==
    ASSUME NEW data, NEW count
    PROVE  UnpackBits(data, count)
               = IF Refused(data, count) THEN Err ELSE [n \in 1..count |-> BitAt(data, n)]
BY Zenon DEF UnpackBits, BitAt, Refused

LEMMA PackedBits ==
    ASSUME NEW bits \in Seq(Bit)
    PROVE  /\ PackBits(bits) \in Seq(Byte)
           /\ Len(PackBits(bits)) = CeilDiv(Len(bits), ByteBits)
           /\ Len(bits) <= Len(PackBits(bits)) * ByteBits
           /\ \A n \in 1..Len(PackBits(bits)) * ByteBits :
                  BitAt(PackBits(bits), n) = IF n <= Len(bits) THEN bits[n] ELSE 0
<1> DEFINE size == CeilDiv(Len(bits), ByteBits)
           data == PackBits(bits)
<1>1. size \in Nat /\ Len(bits) \in Nat /\ ByteBits \in Nat /\ ByteBits > 0
      /\ Len(bits) <= size * ByteBits
  <2>1. Len(bits) \in Nat /\ ByteBits \in Nat /\ ByteBits > 0  BY Widths
  <2> QED BY <2>1, Ceiling
<1>2. ASSUME NEW k \in 1..size
      PROVE  /\ data[k] \in Byte
             /\ \A i \in 1..ByteBits : BitOf(data[k], i - 1)
                  = IF (k - 1) * ByteBits + i <= Len(bits)
                    THEN bits[(k - 1) * ByteBits + i] ELSE 0
  BY PackedByte
<1>3. data \in Seq(Byte) /\ Len(data) = size
  <2>1. data = [k \in 1..size |-> data[k]]  BY DEF PackBits
  <2> HIDE DEF data, size
  <2> QED BY <1>1, <1>2, <2>1
<1> HIDE DEF size, data
<1>4. ASSUME NEW n \in 1..size * ByteBits
      PROVE  BitAt(data, n) = IF n <= Len(bits) THEN bits[n] ELSE 0
  <2> DEFINE q == (n - 1) \div ByteBits
             r == (n - 1) % ByteBits
             k == q + 1
             i == r + 1
  <2>1. q \in Nat /\ k \in 1..size /\ r \in 0..ByteBits - 1 /\ q * ByteBits + i = n
    BY <1>1, PlaceOfBit
  <2>2. BitAt(data, n) = BitOf(data[k], r)  BY DEF BitAt
  <2> HIDE DEF q
  <2>3. k - 1 = q  BY <2>1
  <2> HIDE DEF k, r
  <2>4. i \in 1..ByteBits /\ i - 1 = r  BY <1>1, <2>1
  <2> HIDE DEF i
  <2>5. BitOf(data[k], i - 1) = IF (k - 1) * ByteBits + i <= Len(bits)
                    THEN bits[(k - 1) * ByteBits + i] ELSE 0
    BY <1>2, <2>1, <2>4
  <2> QED BY <2>1, <2>2, <2>3, <2>4, <2>5
<1> QED BY <1>1, <1>3, <1>4 DEF size, data

LEMMA UnpackPacked ==
    ASSUME NEW bits \in Seq(Bit)
    PROVE  UnpackBits(PackBits(bits), Len(bits)) = bits
<1> DEFINE data == PackBits(bits)
           count == Len(bits)
<1>1. /\ data \in Seq(Byte) /\ Len(data) = CeilDiv(count, ByteBits)
      /\ count <= Len(data) * ByteBits
      /\ \A n \in 1..Len(data) * ByteBits :
             BitAt(data, n) = IF n <= count THEN bits[n] ELSE 0
      /\ count \in Nat /\ ByteBits \in Nat
  BY PackedBits, Widths
<1>2. bits = [n \in 1..count |-> bits[n]]  OBVIOUS
<1> HIDE DEF data, count
<1> DEFINE last == Len(data) * ByteBits
<1>3. last \in Nat  BY <1>1
<1> HIDE DEF last
<1>4. ~ Refused(data, count)
  <2>1. ASSUME NEW n \in count + 1..last
        PROVE  BitAt(data, n) = 0
    <3>1. n \in 1..last /\ ~ (n <= count)  BY <1>1, <1>3
    <3> QED BY <1>1, <3>1 DEF last
  <2> QED BY <1>1, <2>1 DEF Refused, last
<1>5. ASSUME NEW n \in 1..count
      PROVE  BitAt(data, n) = bits[n]
  <2>1. n \in 1..last /\ n <= count  BY <1>1, <1>3 DEF last
  <2> QED BY <1>1, <2>1 DEF last
<1>6. UnpackBits(data, count) = [n \in 1..count |-> BitAt(data, n)]
  BY <1>4, UnpackIs
<1> QED BY <1>2, <1>5, <1>6 DEF data, count

LEMMA PackUnpacked ==
    ASSUME NEW data \in Seq(Byte), NEW count \in Nat, UnpackBits(data, count) # Err
    PROVE  /\ UnpackBits(data, count) \in Seq(Bit)
           /\ Len(UnpackBits(data, count)) = count
           /\ PackBits(UnpackBits(data, count)) = data
<1> DEFINE bits == [n \in 1..count |-> BitAt(data, n)]
           size == Len(data)
<1>1. UnpackBits(data, count) = bits /\ ~ Refused(data, count)  BY UnpackIs
<1>2. /\ size = CeilDiv(count, ByteBits) /\ size \in Nat /\ ByteBits \in Nat /\ ByteBits > 0
      /\ count <= size * ByteBits /\ size * ByteBits \in Nat
      /\ \A n \in count + 1..size * ByteBits : BitAt(data, n) = 0
  <2>1. size = CeilDiv(count, ByteBits) /\ size \in Nat /\ ByteBits \in Nat /\ ByteBits > 0
    BY <1>1, Widths DEF Refused
  <2>2. count <= size * ByteBits  BY <2>1, Ceiling
  <2>3. \A n \in count + 1..size * ByteBits : BitAt(data, n) = 0
    BY <1>1, Zenon DEF Refused
  <2> QED BY <2>1, <2>2, <2>3
<1>3. \A k \in 1..size : data[k] \in Byte /\ data[k] \in Nat
  <2>1. \A k \in 1..size : data[k] \in Byte  OBVIOUS
  <2> QED BY <2>1, ByteIs
<1>4. data = [k \in 1..size |-> data[k]]  OBVIOUS
<1> HIDE DEF size
<1>5. ASSUME NEW k \in 1..size, NEW i \in 1..ByteBits
      PROVE  /\ (k - 1) * ByteBits + i \in 1..size * ByteBits
             /\ BitAt(data, (k - 1) * ByteBits + i) = BitOf(data[k], i - 1)
             /\ BitOf(data[k], i - 1) \in Bit
  <2>1. /\ (k - 1) * ByteBits + i \in 1..size * ByteBits
        /\ (((k - 1) * ByteBits + i) - 1) \div ByteBits = k - 1
        /\ (((k - 1) * ByteBits + i) - 1) % ByteBits = i - 1
    <3>1. ByteBits \in Nat /\ ByteBits > 0 /\ size \in Nat  BY <1>2
    <3> HIDE DEF bits
    <3> QED BY <3>1, PlaceInBytes, Zenon
  <2>2. (k - 1) + 1 = k /\ i - 1 \in 0..LastPower
    BY <1>2, Widths DEF LastPower
  <2>3. BitAt(data, (k - 1) * ByteBits + i) = BitOf(data[(k - 1) + 1], i - 1)
    BY <2>1, Zenon DEF BitAt
  <2> QED BY <1>3, <2>1, <2>2, <2>3, BitIs
<1>6. ASSUME NEW n \in 1..count
      PROVE  BitAt(data, n) \in Bit
  <2>1. n \in 1..size * ByteBits  BY <1>2
  <2>2. ((n - 1) \div ByteBits) + 1 \in 1..size /\ (n - 1) % ByteBits \in 0..ByteBits - 1
    BY <1>2, <2>1, PlaceOfBit
  <2>3. (n - 1) % ByteBits \in 0..LastPower
    BY <1>2, <2>2, Widths DEF LastPower
  <2> QED BY <1>3, <2>2, <2>3, BitIs DEF BitAt
<1>7. bits \in Seq(Bit) /\ Len(bits) = count /\ DOMAIN bits = 1..count
      /\ \A n \in 1..count : bits[n] = BitAt(data, n)
  BY <1>6
<1> HIDE DEF bits
<1>8. ASSUME NEW k \in 1..size
      PROVE  PackBits(bits)[k] = data[k]
  <2> DEFINE At(i) == (k - 1) * ByteBits + i
             s == [i \in 1..ByteBits |-> IF At(i) <= Len(bits) THEN bits[At(i)] * 2^(i - 1) ELSE 0]
  <2>1. PackBits(bits)[k] = SumOf(s)  BY <1>2, <1>7, Zenon DEF PackBits
  <2>2. ASSUME NEW i \in 1..ByteBits
        PROVE  s[i] = BitOf(data[k], i - 1) * 2^(i - 1) /\ s[i] \in Int
    <3>1. i - 1 \in 0..LastPower  BY <1>2, Widths DEF LastPower
    <3>2. 2^(i - 1) \in Nat  BY <3>1, PowerIs
    <3>3. /\ At(i) \in 1..size * ByteBits
          /\ BitAt(data, At(i)) = BitOf(data[k], i - 1)
          /\ BitOf(data[k], i - 1) \in Bit
      BY <1>5
    <3>4. s[i] = IF At(i) <= Len(bits) THEN bits[At(i)] * 2^(i - 1) ELSE 0
      OBVIOUS
    <3> DEFINE at == At(i)
               x == BitOf(data[k], i - 1)
               y == 2^(i - 1)
    <3>5. s[i] = IF at <= count THEN bits[at] * y ELSE 0  BY <1>7, <3>4
    <3> HIDE DEF At, s, x, y
    <3>6. at \in 1..size * ByteBits /\ BitAt(data, at) = x /\ x \in Int /\ y \in Int
      BY <3>2, <3>3 DEF Bit, x, y
    <3> HIDE DEF at
    <3>7. CASE at <= count
      <4>1. at \in 1..count  BY <1>2, <3>6, <3>7
      <4>2. bits[at] = x  BY <1>7, <3>6, <4>1
      <4>3. s[i] = x * y  BY <3>5, <3>7, <4>2
      <4> QED BY <3>6, <4>3 DEF x, y
    <3>8. CASE ~ (at <= count)
      <4>1. at \in count + 1..size * ByteBits  BY <1>2, <3>6, <3>8
      <4>2. x = 0  BY <1>2, <3>6, <4>1
      <4>3. s[i] = x * y /\ x * y \in Int  BY <3>5, <3>6, <3>8, <4>2
      <4> QED BY <4>3 DEF x, y
    <3> QED BY <3>7, <3>8
  <2>3. s \in Seq(Int) /\ Len(s) = ByteBits
    <3>1. s = [i \in 1..ByteBits |-> s[i]]  OBVIOUS
    <3>2. \A i \in 1..ByteBits : s[i] \in Int  BY <2>2
    <3> DEFINE X == Int
    <3> HIDE DEF s
    <3>3. IsArray(s, ByteBits, X)  BY <3>1, <3>2 DEF IsArray
    <3> HIDE DEF X
    <3>4. s \in Seq(X) /\ Len(s) = ByteBits  BY <1>2, <3>3, ArrayIs
    <3> QED BY <3>4 DEF X
  <2> DEFINE v == data[k]
  <2>4. v \in 0..2^ByteBits - 1  BY <1>3 DEF Byte
  <2>5. \A i \in 1..ByteBits : s[i] = BitOf(v, i - 1) * 2^(i - 1)  BY <2>2
  <2> HIDE DEF s, v
  <2>6. SumOf(s) = v  BY <2>3, <2>4, <2>5, ByteIs, BitsSum
  <2> QED BY <2>1, <2>6 DEF v
<1>9. PackBits(bits) = [k \in 1..size |-> PackBits(bits)[k]]
  BY <1>2, <1>7 DEF PackBits
<1>10. PackBits(bits) = data
  <2> DEFINE x == PackBits(bits)
  <2>1. x = [k \in 1..size |-> x[k]] /\ \A k \in 1..size : x[k] = data[k]
    BY <1>8, <1>9
  <2> HIDE DEF x
  <2>2. x = data  BY <1>4, <2>1
  <2> QED BY <2>2 DEF x
<1> QED BY <1>1, <1>7, <1>10

-----------------------------------------------------------------------------
(* Flags and packed values. *)

LEMMA BitmapBits ==
    ASSUME NEW flags \in Seq(BOOLEAN)
    PROVE  /\ [i \in DOMAIN flags |-> Flag(flags, i)] \in Seq(Bit)
           /\ Len([i \in DOMAIN flags |-> Flag(flags, i)]) = Len(flags)
<1> DEFINE bits == [i \in DOMAIN flags |-> Flag(flags, i)]
<1>1. DOMAIN flags = 1..Len(flags) /\ Len(flags) \in Nat  OBVIOUS
<1>2. \A i \in 1..Len(flags) : Flag(flags, i) \in Bit  BY DEF Flag, Bit
<1>3. bits \in Seq(Bit) /\ Len(bits) = Len(flags)  BY <1>1, <1>2
<1> QED BY <1>3

LEMMA BitmapBack ==
    ASSUME ErrIsApart, NEW flags \in Seq(BOOLEAN)
    PROVE  /\ EncodeBitmap(flags) \in Seq(Byte)
           /\ Len(EncodeBitmap(flags)) = CeilDiv(Len(flags), ByteBits)
           /\ DecodeBitmap(EncodeBitmap(flags), Len(flags)) = flags
<1> DEFINE bits == [i \in DOMAIN flags |-> Flag(flags, i)]
           data == PackBits(bits)
           count == Len(flags)
<1>1. bits \in Seq(Bit) /\ Len(bits) = count  BY BitmapBits
<1>2. \A i \in 1..count : bits[i] = Flag(flags, i)  OBVIOUS
<1>3. EncodeBitmap(flags) = data  BY DEF EncodeBitmap, Flag
<1>4. flags = [i \in 1..count |-> flags[i]] /\ \A i \in 1..count : flags[i] \in BOOLEAN
  OBVIOUS
<1> HIDE DEF bits
<1>5. data \in Seq(Byte) /\ Len(data) = CeilDiv(count, ByteBits) /\ UnpackBits(data, count) = bits
  BY <1>1, PackedBits, UnpackPacked
<1>6. bits # Err  BY <1>1, SequencesAreApart
<1> HIDE DEF data, count
<1>7. DecodeBitmap(data, count) = [i \in 1..count |-> bits[i] = 1]
  BY <1>5, <1>6 DEF DecodeBitmap, Try
<1>8. \A i \in 1..count : (bits[i] = 1) = flags[i]  BY <1>2, <1>4 DEF Flag
<1>9. [i \in 1..count |-> bits[i] = 1] = [i \in 1..count |-> flags[i]]
  BY <1>8, Zenon
<1> QED BY <1>3, <1>4, <1>5, <1>7, <1>9 DEF count

LEMMA BitmapForth ==
    ASSUME ErrIsApart, NEW data \in Seq(Byte), NEW count \in Nat, DecodeBitmap(data, count) # Err
    PROVE  /\ DecodeBitmap(data, count) \in Seq(BOOLEAN)
           /\ Len(DecodeBitmap(data, count)) = count
           /\ EncodeBitmap(DecodeBitmap(data, count)) = data
<1> DEFINE bits == UnpackBits(data, count)
           flags == [i \in 1..count |-> bits[i] = 1]
<1>1. bits # Err /\ DecodeBitmap(data, count) = flags
  BY DEF DecodeBitmap, Try
<1>2. bits \in Seq(Bit) /\ Len(bits) = count /\ PackBits(bits) = data
  BY <1>1, PackUnpacked
<1> HIDE DEF bits
<1>3. flags \in Seq(BOOLEAN) /\ Len(flags) = count /\ DOMAIN flags = 1..count
  OBVIOUS
<1>4. \A i \in 1..count : Flag(flags, i) = bits[i]
  <2>1. \A i \in 1..count : flags[i] = (bits[i] = 1)  OBVIOUS
  <2>2. \A i \in 1..count : bits[i] \in {0, 1}  BY <1>2 DEF Bit
  <2> HIDE DEF flags
  <2> QED BY <2>1, <2>2 DEF Flag
<1>5. bits = [i \in 1..count |-> bits[i]]  BY <1>2
<1> HIDE DEF flags
<1>6. [i \in DOMAIN flags |-> Flag(flags, i)] = bits  BY <1>3, <1>4, <1>5
<1>7. EncodeBitmap(flags) = PackBits(bits)  BY <1>6 DEF EncodeBitmap, Flag
<1> QED BY <1>1, <1>2, <1>3, <1>7

LEMMA PackedAre ==
    ASSUME NEW width \in 0..WordBits, NEW values \in Seq(Nat)
    PROVE  /\ Len(values) * width \in Nat
           /\ [n \in 1..Len(values) * width |-> PackedAt(values, width, n)] \in Seq(Bit)
           /\ Len([n \in 1..Len(values) * width |-> PackedAt(values, width, n)]) = Len(values) * width
<1> DEFINE last == Len(values) * width
           bits == [n \in 1..last |-> PackedAt(values, width, n)]
<1>1. width \in Nat /\ Len(values) \in Nat /\ WordBits \in Nat  BY Widths
<1>2. last \in Nat  BY <1>1
<1>3. ASSUME NEW n \in 1..last
      PROVE  PackedAt(values, width, n) \in Bit
  <2>1. width > 0
    <3> SUFFICES ASSUME width = 0
                 PROVE  FALSE
      BY <1>1
    <3>1. last = 0  BY <1>1
    <3> HIDE DEF last
    <3> QED BY <3>1
  <2>2. ((n - 1) \div width) + 1 \in 1..Len(values) /\ (n - 1) % width \in 0..width - 1
    BY <1>1, <2>1, PlaceOfBit
  <2> DEFINE k == ((n - 1) \div width) + 1
             i == (n - 1) % width
  <2>3. k \in 1..Len(values) /\ i \in 0..LastPower
    BY <1>1, <2>2, Widths DEF LastPower
  <2> HIDE DEF k, i
  <2>4. values[k] \in Nat  BY <2>3
  <2>5. BitOf(values[k], i) \in Bit  BY <2>3, <2>4, BitIs
  <2> QED BY <2>5 DEF PackedAt, k, i
<1> HIDE DEF last
<1>4. bits \in Seq(Bit) /\ Len(bits) = last  BY <1>2, <1>3
<1> QED BY <1>2, <1>4 DEF last

LEMMA BitpackBack ==
    ASSUME ErrIsApart, NEW width \in 0..WordBits, NEW values \in Seq(Nat),
           \A i \in 1..Len(values) : values[i] < 2^width
    PROVE  /\ EncodeBitpack(values, width) \in Seq(Byte)
           /\ Len(EncodeBitpack(values, width)) = CeilDiv(Len(values) * width, ByteBits)
           /\ DecodeBitpack(EncodeBitpack(values, width), width, Len(values))
                  = IF Len(values) > MaxDecodedValues THEN Err ELSE values
<1> DEFINE count == Len(values)
           last == count * width
           bits == [n \in 1..last |-> PackedAt(values, width, n)]
           data == PackBits(bits)
<1>1. count \in Nat /\ width \in Nat /\ last \in Nat /\ WordBits \in Nat /\ width <= WordBits
      /\ DOMAIN values = 1..count
  BY Widths, PackedAre
<1>2. bits \in Seq(Bit) /\ Len(bits) = last  BY PackedAre
<1>3. EncodeBitpack(values, width) = data
  <2>1. ~ \E i \in DOMAIN values : values[i] >= 2^width
    <3>1. width \in 0..LastPower  BY <1>1, Widths DEF LastPower
    <3>2. 2^width \in Nat  BY <3>1, PowerIs
    <3>3. \A i \in 1..count : values[i] \in Nat /\ values[i] < 2^width
      OBVIOUS
    <3> QED BY <1>1, <3>2, <3>3
  <2> QED BY <2>1, Zenon DEF EncodeBitpack, PackedAt
<1>4. values = [i \in 1..count |-> values[i]] /\ \A i \in 1..count : values[i] \in Nat /\ values[i] < 2^width
  OBVIOUS
<1>5. \A n \in 1..last : bits[n] = PackedAt(values, width, n)  OBVIOUS
<1> HIDE DEF bits
<1>6. data \in Seq(Byte) /\ Len(data) = CeilDiv(last, ByteBits) /\ UnpackBits(data, last) = bits
  BY <1>2, PackedBits, UnpackPacked
<1>7. bits # Err  BY <1>2, SequencesAreApart
<1> HIDE DEF data
<1>8. DecodeBitpack(data, width, count)
          = IF count > MaxDecodedValues THEN Err ELSE [i \in 1..count |-> UnpackedAt(bits, width, i)]
  <2>1. ~ (width > WordBits)  BY <1>1
  <2> QED BY <1>6, <1>7, <2>1 DEF DecodeBitpack, Try, UnpackedAt
<1>9. ASSUME NEW i \in 1..count
      PROVE  UnpackedAt(bits, width, i) = values[i]
  <2> DEFINE s == [b \in 1..width |-> bits[(i - 1) * width + b] * 2^(b - 1)]
             v == values[i]
  <2>1. UnpackedAt(bits, width, i) = SumOf(s)  BY Zenon DEF UnpackedAt
  <2>2. v \in Nat /\ v \in 0..2^width - 1 /\ width \in 0..LastPower
    <3>1. width \in 0..LastPower  BY <1>1, Widths DEF LastPower
    <3>2. 2^width \in Nat  BY <3>1, PowerIs
    <3>3. v \in Nat /\ v < 2^width  BY <1>4
    <3> HIDE DEF v
    <3> QED BY <3>1, <3>2, <3>3
  <2>3. ASSUME NEW b \in 1..width
        PROVE  s[b] = BitOf(v, b - 1) * 2^(b - 1) /\ s[b] \in Int
    <3> DEFINE n == (i - 1) * width + b
    <3>1. n \in 1..last /\ (n - 1) \div width = i - 1 /\ (n - 1) % width = b - 1
      <4>1. width \in Nat /\ width > 0 /\ count \in Nat  BY <1>1
      <4> HIDE DEF count
      <4> QED BY <4>1, PlaceInBytes
    <3>2. b - 1 \in 0..LastPower /\ (i - 1) + 1 = i
      BY <1>1, Widths DEF LastPower
    <3>3. s[b] = bits[n] * 2^(b - 1)  OBVIOUS
    <3> HIDE DEF n, s, v
    <3>4. bits[n] = BitOf(values[(i - 1) + 1], b - 1)
      BY <1>5, <3>1, Zenon DEF PackedAt
    <3>5. bits[n] = BitOf(v, b - 1)  BY <3>2, <3>4 DEF v
    <3>6. BitOf(v, b - 1) \in Int /\ 2^(b - 1) \in Int
      BY <2>2, <3>2, BitIs, PowerIs DEF Bit
    <3> QED BY <3>3, <3>5, <3>6
  <2>4. s \in Seq(Int) /\ Len(s) = width
    <3>1. s = [b \in 1..width |-> s[b]]  OBVIOUS
    <3>2. \A b \in 1..width : s[b] \in Int  BY <2>3
    <3>3. width \in Nat  BY <1>1
    <3> HIDE DEF s, last, count, v
    <3> QED BY <3>1, <3>2, <3>3
  <2>5. \A b \in 1..width : s[b] = BitOf(v, b - 1) * 2^(b - 1)  BY <2>3
  <2> HIDE DEF s, v
  <2>6. SumOf(s) = v  BY <2>2, <2>4, <2>5, BitsSum
  <2> QED BY <2>1, <2>6 DEF v
<1>10. [i \in 1..count |-> UnpackedAt(bits, width, i)] = values
  <2> HIDE DEF count
  <2> QED BY <1>4, <1>9
<1> QED BY <1>3, <1>6, <1>8, <1>10

LEMMA BitpackForth ==
    ASSUME ErrIsApart, NEW width \in Nat, width > 0, NEW data \in Seq(Byte), NEW count \in Nat,
           DecodeBitpack(data, width, count) # Err
    PROVE  /\ DecodeBitpack(data, width, count) \in Seq(Nat)
           /\ Len(DecodeBitpack(data, width, count)) = count
           /\ EncodeBitpack(DecodeBitpack(data, width, count), width) = data
<1> DEFINE last == count * width
           bits == UnpackBits(data, last)
           values == [i \in 1..count |-> UnpackedAt(bits, width, i)]
<1>1. width <= WordBits /\ bits # Err /\ DecodeBitpack(data, width, count) = values
  <2>1. ~ (width > WordBits) /\ bits # Err /\ DecodeBitpack(data, width, count) = values
    BY DEF DecodeBitpack, Try, UnpackedAt
  <2> QED BY <2>1, Widths
<1>2. last \in Nat /\ width \in 0..LastPower /\ WordBits \in Nat /\ LastPower \in Nat
  BY <1>1, Widths DEF LastPower
<1>3. bits \in Seq(Bit) /\ Len(bits) = last /\ PackBits(bits) = data
  <2> HIDE DEF last
  <2> QED BY <1>1, <1>2, PackUnpacked
<1> HIDE DEF bits
<1>4. ASSUME NEW i \in 1..count
      PROVE  /\ values[i] \in 0..2^width - 1
             /\ \A b \in 1..width : BitOf(values[i], b - 1) = bits[(i - 1) * width + b]
  <2> DEFINE s == [b \in 1..width |-> bits[(i - 1) * width + b] * 2^(b - 1)]
             d == [b \in 1..width |-> bits[(i - 1) * width + b]]
  <2>1. values[i] = SumOf(s)  BY Zenon DEF UnpackedAt
  <2>2. ASSUME NEW b \in 1..width
        PROVE  d[b] \in Bit /\ s[b] = d[b] * 2^(b - 1) /\ s[b] \in Int
    <3> DEFINE n == (i - 1) * width + b
    <3>1. n \in 1..last
      <4>1. n \in 1..count * width  BY PlaceInBytes, Zenon
      <4> QED BY <4>1
    <3>2. d[b] = bits[n] /\ s[b] = bits[n] * 2^(b - 1)  OBVIOUS
    <3> HIDE DEF n, d, s
    <3>3. bits[n] \in Bit  BY <1>2, <1>3, <3>1
    <3>4. b - 1 \in 0..LastPower  BY <1>2
    <3>5. 2^(b - 1) \in Int /\ bits[n] \in Int  BY <3>3, <3>4, PowerIs DEF Bit
    <3> QED BY <3>2, <3>3, <3>5
  <2>3. s \in Seq(Int) /\ Len(s) = width
    <3>1. s = [b \in 1..width |-> s[b]]  OBVIOUS
    <3>2. \A b \in 1..width : s[b] \in Int  BY <2>2
    <3> HIDE DEF s
    <3> QED BY <3>1, <3>2
  <2>4. \A b \in 1..width : d[b] = bits[(i - 1) * width + b]  OBVIOUS
  <2> HIDE DEF s, d
  <2>5. SumOf(s) \in 0..2^width - 1 /\ \A b \in 1..width : BitOf(SumOf(s), b - 1) = d[b]
    BY <1>2, <2>2, <2>3, BitsBack
  <2> HIDE DEF values
  <2> QED BY <2>1, <2>4, <2>5
<1>5. 2^width \in Nat  BY <1>2, PowerIs
<1>6. values \in Seq(Nat) /\ Len(values) = count /\ DOMAIN values = 1..count
  <2>1. values = [i \in 1..count |-> values[i]]  OBVIOUS
  <2>2. \A i \in 1..count : values[i] \in Nat  BY <1>4, <1>5
  <2> HIDE DEF values
  <2> QED BY <2>1, <2>2
<1> HIDE DEF values
<1>7. \A i \in DOMAIN values : ~ (values[i] >= 2^width)  BY <1>4, <1>5, <1>6
<1>8. EncodeBitpack(values, width) = PackBits([n \in 1..Len(values) * width |-> PackedAt(values, width, n)])
  BY <1>7, Zenon DEF EncodeBitpack, PackedAt
<1>9. ASSUME NEW n \in 1..last
      PROVE  PackedAt(values, width, n) = bits[n]
  <2> DEFINE q == (n - 1) \div width
             r == (n - 1) % width
             k == q + 1
             i == r + 1
  <2>1. q \in Nat /\ k \in 1..count /\ r \in 0..width - 1 /\ q * width + i = n
    BY PlaceOfBit
  <2>2. PackedAt(values, width, n) = BitOf(values[k], r)  BY DEF PackedAt
  <2> HIDE DEF q, r
  <2>3. k - 1 = q /\ i \in 1..width /\ i - 1 = r  BY <2>1
  <2> HIDE DEF k, i
  <2>4. BitOf(values[k], i - 1) = bits[(k - 1) * width + i]
    BY <1>4, <2>1, <2>3
  <2> QED BY <2>1, <2>2, <2>3, <2>4
<1>10. [n \in 1..Len(values) * width |-> PackedAt(values, width, n)] = bits
  <2>1. bits = [n \in 1..last |-> bits[n]]  BY <1>2, <1>3
  <2>2. Len(values) * width = last  BY <1>6
  <2> HIDE DEF last
  <2> QED BY <1>9, <2>1, <2>2
<1>11. EncodeBitpack(values, width) = data  BY <1>3, <1>8, <1>10
<1> QED BY <1>1, <1>6, <1>11

-----------------------------------------------------------------------------
(* Differences and zigzag. *)

LEMMA DividesInt ==
    ASSUME NEW v \in Int, NEW u \in Nat, u > 0, NEW q \in Int, NEW r \in 0..u - 1, v = u * q + r
    PROVE  v % u = r
OBVIOUS

LEMMA SubsetSeq ==
    ASSUME NEW X, NEW Y, X \subseteq Y, NEW s \in Seq(X)
    PROVE  /\ s \in Seq(Y) /\ Len(s) \in Nat /\ DOMAIN s = 1..Len(s)
           /\ s = [i \in 1..Len(s) |-> s[i]]
           /\ \A i \in 1..Len(s) : s[i] \in X
<1>1. s = [i \in 1..Len(s) |-> s[i]] /\ Len(s) \in Nat  OBVIOUS
<1>2. \A i \in 1..Len(s) : s[i] \in X  OBVIOUS
<1> QED BY <1>1, <1>2

LEMMA DifferencesAre ==
    ASSUME NEW values \in Seq(Int)
    PROVE  /\ Differences(values) \in Seq(Int)
           /\ Len(Differences(values)) = Len(values)
           /\ \A i \in 1..Len(values) :
                  SumOf(SubSeq(Differences(values), 1, i)) = values[i]
<1> DEFINE d == Differences(values)
           n == Len(values)
           t == [k \in 0..n |-> IF k = 0 THEN 0 ELSE values[k]]
<1>1. n \in Nat /\ DOMAIN values = 1..n /\ \A i \in 1..n : values[i] \in Int
  OBVIOUS
<1> HIDE DEF n
<1>2. ASSUME NEW i \in 1..n
      PROVE  d[i] = (IF i = 1 THEN values[1] ELSE values[i] - values[i - 1]) /\ d[i] \in Int
  <2>1. d[i] = IF i = 1 THEN values[1] ELSE values[i] - values[i - 1]
    BY <1>1 DEF Differences
  <2>2. 1 \in 1..n /\ (i # 1 => i - 1 \in 1..n)  BY <1>1
  <2> HIDE DEF d
  <2> QED BY <1>1, <2>1, <2>2
<1>3. d = [i \in 1..n |-> d[i]]  BY <1>1 DEF Differences
<1> HIDE DEF d
<1>4. d \in Seq(Int) /\ Len(d) = n
  <2>1. IsArray(d, n, Int)  BY <1>2, <1>3 DEF IsArray
  <2> QED BY ONLY <1>1, <2>1, ArrayIs
<1>5. t[0] = 0  BY <1>1
<1>6. ASSUME NEW k \in 1..Len(d)
      PROVE  t[k] = t[k - 1] + d[k]
  <2>1. k \in 1..n /\ t[k] = values[k] /\ values[k] \in Int  BY <1>1, <1>4
  <2>2. CASE k = 1
    BY <1>2, <1>5, <2>1, <2>2
  <2>3. CASE k # 1
    <3>1. k - 1 \in 1..n /\ k - 1 \in 0..n /\ k - 1 # 0  BY <1>1, <2>1, <2>3
    <3>2. t[k - 1] = values[k - 1] /\ values[k - 1] \in Int  BY <1>1, <3>1
    <3>3. d[k] = values[k] - values[k - 1]  BY <1>2, <2>1, <2>3
    <3> HIDE DEF t
    <3> QED BY <2>1, <3>2, <3>3
  <2> QED BY <2>2, <2>3
<1>7. \A k \in 1..n : k \in 0..Len(d) /\ t[k] = values[k]  BY <1>1, <1>4
<1> HIDE DEF t
<1>8. \A k \in 0..Len(d) : SumOf(SubSeq(d, 1, k)) = t[k]
  BY <1>4, <1>5, <1>6, SumIs
<1> QED BY <1>4, <1>7, <1>8 DEF d, n

LEMMA SumsAre ==
    ASSUME NEW deltas \in Seq(Int), NEW values,
           values = [i \in DOMAIN deltas |-> SumOf(SubSeq(deltas, 1, i))]
    PROVE  /\ values \in Seq(Int) /\ Len(values) = Len(deltas)
           /\ Differences(values) = deltas
<1> DEFINE n == Len(deltas)
           S(k) == SumOf(SubSeq(deltas, 1, k))
<1>1. n \in Nat /\ DOMAIN deltas = 1..n /\ deltas = [i \in 1..n |-> deltas[i]] /\ \A i \in 1..n : deltas[i] \in Int
  OBVIOUS
<1>2. S(0) = 0  BY SumEnds
<1>3. ASSUME NEW i \in 1..n
      PROVE  S(i) \in Int /\ S(i) = S(i - 1) + deltas[i] /\ S(i - 1) \in Int
  <2> DEFINE j == i - 1
  <2>1. j \in 0..Len(deltas) - 1 /\ j + 1 = i  BY <1>1
  <2> HIDE DEF j
  <2>2. S(j) \in Int /\ S(j + 1) = S(j) + deltas[j + 1]  BY <2>1, SumOneMore
  <2>3. deltas[i] \in Int  BY <1>1
  <2> HIDE DEF S
  <2> QED BY <2>1, <2>2, <2>3 DEF j
<1>4. \A i \in 1..n : values[i] = S(i)  BY <1>1
<1>5. values = [i \in 1..n |-> values[i]]  BY <1>1
<1> HIDE DEF S, n
<1>6. values \in Seq(Int) /\ Len(values) = n /\ DOMAIN values = 1..n
  <2>1. \A i \in 1..n : values[i] \in Int  BY <1>3, <1>4
  <2>2. IsArray(values, n, Int)  BY <1>5, <2>1 DEF IsArray
  <2> QED BY <1>1, <2>2, ArrayIs
<1>7. ASSUME NEW i \in 1..n
      PROVE  (IF i = 1 THEN values[1] ELSE values[i] - values[i - 1]) = deltas[i]
  <2>1. deltas[i] \in Int /\ S(i) = S(i - 1) + deltas[i] /\ S(i - 1) \in Int /\ values[i] = S(i)
    BY <1>1, <1>3, <1>4
  <2>2. CASE i = 1
    BY <1>2, <2>1, <2>2
  <2>3. CASE i # 1
    <3>1. i - 1 \in 1..n  BY <1>1, <2>3
    <3>2. values[i - 1] = S(i - 1)  BY <1>4, <3>1
    <3> QED BY <2>1, <2>3, <3>2
  <2> QED BY <2>2, <2>3
<1>8. Differences(values) = [i \in 1..n |-> IF i = 1 THEN values[1] ELSE values[i] - values[i - 1]]
  BY <1>6 DEF Differences
<1>9. Differences(values) = deltas
  <2>1. [i \in 1..n |-> IF i = 1 THEN values[1] ELSE values[i] - values[i - 1]]
            = [i \in 1..n |-> deltas[i]]
    BY ONLY <1>7, Zenon
  <2> QED BY ONLY <1>1, <1>8, <2>1, Zenon
<1> QED BY ONLY <1>6, <1>9, Zenon DEF n

LEMMA DeltaBack ==
    ASSUME NEW type, type \subseteq Int, NEW values \in Seq(type), EncodeDelta(type, values) # Err
    PROVE  /\ EncodeDelta(type, values) = Differences(values)
           /\ EncodeDelta(type, values) \in Seq(type)
           /\ Len(EncodeDelta(type, values)) = Len(values)
           /\ DecodeDelta(type, EncodeDelta(type, values)) = values
<1> DEFINE d == Differences(values)
           n == Len(values)
<1>1. values \in Seq(Int) /\ DOMAIN values = 1..n /\ n \in Nat /\ values = [i \in 1..n |-> values[i]]
      /\ \A i \in 1..n : values[i] \in type
  OBVIOUS
<1>2. d \in Seq(Int) /\ Len(d) = n /\ \A i \in 1..n : SumOf(SubSeq(d, 1, i)) = values[i]
  BY <1>1, DifferencesAre
<1>3. EncodeDelta(type, values) = d /\ \A i \in DOMAIN d : d[i] \in type
  BY Zenon DEF EncodeDelta, InType
<1> HIDE DEF d
<1>4. DOMAIN d = 1..n  BY <1>2
<1>5. d \in Seq(type)  BY <1>2, <1>3, <1>4
<1>6. [i \in DOMAIN d |-> SumOf(SubSeq(d, 1, i))] = values
  BY <1>1, <1>2, <1>4
<1>7. DecodeDelta(type, d) = values  BY <1>1, <1>6 DEF DecodeDelta, InType
<1> QED BY <1>2, <1>3, <1>5, <1>7 DEF d

LEMMA DeltaForth ==
    ASSUME NEW type, type \subseteq Int, NEW deltas \in Seq(type), DecodeDelta(type, deltas) # Err
    PROVE  /\ DecodeDelta(type, deltas) \in Seq(type)
           /\ EncodeDelta(type, DecodeDelta(type, deltas)) = deltas
<1> DEFINE values == [i \in DOMAIN deltas |-> SumOf(SubSeq(deltas, 1, i))]
<1>1. deltas \in Seq(Int) /\ \A i \in DOMAIN deltas : deltas[i] \in type
  BY SubsetSeq
<1>2. DecodeDelta(type, deltas) = values /\ \A i \in DOMAIN values : values[i] \in type
  BY Zenon DEF DecodeDelta, InType
<1>3. values = [i \in DOMAIN deltas |-> SumOf(SubSeq(deltas, 1, i))]  OBVIOUS
<1> HIDE DEF values
<1>4. values \in Seq(Int) /\ Differences(values) = deltas
  BY <1>1, <1>3, SumsAre
<1>5. values \in Seq(type)  BY <1>2, <1>4
<1>6. EncodeDelta(type, values) = deltas
  BY <1>1, <1>4 DEF EncodeDelta, InType
<1> QED BY <1>2, <1>5, <1>6

LEMMA WordIs ==
    /\ WordBits \in 0..LastPower /\ 2^WordBits \in Nat /\ 2^WordBits > 0
    /\ Word \subseteq Nat /\ Word \subseteq Int /\ 0 \in Word
<1>1. WordBits \in 0..LastPower  BY Widths DEF LastPower
<1>2. 2^WordBits \in Nat /\ 2^WordBits > 0  BY <1>1, PowerIs
<1> QED BY <1>1, <1>2 DEF Word

LEMMA DeltaOfWords ==
    ASSUME ErrIsApart, NEW values \in Seq(Word)
    PROVE  EncodeDelta(Word, values) # Err <=> Rises(values)
<1> DEFINE d == Differences(values)
           n == Len(values)
<1>1. n \in Nat /\ DOMAIN values = 1..n /\ (\A i \in 1..n : values[i] \in Word) /\ values \in Seq(Int)
  BY WordIs, SubsetSeq
<1>2. DOMAIN d = 1..n /\ \A i \in 1..n : d[i] = IF i = 1 THEN values[1] ELSE values[i] - values[i - 1]
  BY <1>1 DEF Differences
<1>3. d \in Seq(Int)  BY <1>1, DifferencesAre
<1>4. d # Err  BY <1>3, SequencesAreApart
<1>5. EncodeDelta(Word, values) # Err <=> \A i \in DOMAIN d : d[i] \in Word
  <2> HIDE DEF d
  <2> QED BY <1>4, Zenon DEF EncodeDelta, InType, d
<1> HIDE DEF d, n
<1>6. ASSUME NEW i \in 1..n, i # 1
      PROVE  /\ i - 1 \in 1..n - 1 /\ (i - 1) + 1 = i
             /\ d[i] \in Word <=> values[i - 1] <= values[i]
  <2> DEFINE x == values[i - 1]
             y == values[i]
  <2>1. i - 1 \in 1..n - 1 /\ (i - 1) + 1 = i /\ i - 1 \in 1..n  BY <1>1, <1>6
  <2>2. x \in Word /\ y \in Word /\ d[i] = y - x  BY <1>1, <1>2, <1>6, <2>1
  <2> HIDE DEF x, y
  <2>3. y - x \in Word <=> x <= y  BY <2>2, WordIs DEF Word
  <2> QED BY <2>1, <2>2, <2>3 DEF x, y
<1>7. ASSUME \A i \in DOMAIN d : d[i] \in Word
      PROVE  Rises(values)
  <2> SUFFICES ASSUME NEW j \in 1..n - 1
               PROVE  values[j] <= values[j + 1]
    BY DEF Rises, n
  <2> DEFINE i == j + 1
  <2>1. i \in 1..n /\ i # 1 /\ i - 1 = j  BY <1>1
  <2> HIDE DEF i
  <2> QED BY <1>2, <1>6, <1>7, <2>1 DEF i
<1>8. ASSUME Rises(values), NEW i \in DOMAIN d
      PROVE  d[i] \in Word
  <2>1. i \in 1..n  BY <1>2
  <2>2. CASE i = 1
    BY <1>1, <1>2, <2>1, <2>2
  <2>3. CASE i # 1
    <3>1. /\ i - 1 \in 1..n - 1 /\ (i - 1) + 1 = i
          /\ d[i] \in Word <=> values[i - 1] <= values[i]
      BY <1>6, <2>1, <2>3
    <3> DEFINE j == i - 1
    <3>2. j \in 1..n - 1 /\ j + 1 = i  BY <3>1
    <3> HIDE DEF j
    <3>3. values[j] <= values[j + 1]  BY <1>8, <3>2 DEF Rises, n
    <3> QED BY <3>1, <3>2, <3>3 DEF j
  <2> QED BY <2>2, <2>3
<1> QED BY <1>5, <1>7, <1>8

LEMMA ZigZagBack ==
    ASSUME NEW v \in Signed
    PROVE  ZigZag(v) \in Word /\ UnZigZag(ZigZag(v)) = v
<1> DEFINE m == 2^WordBits
           h == 2^(WordBits - 1)
<1>1. h \in Nat /\ h > 0 /\ m = 2 * h
  <2>1. WordBits - 1 \in 0..LastPower /\ WordBits - 1 < LastPower /\ (WordBits - 1) + 1 = WordBits
    BY Widths DEF LastPower
  <2> QED BY <2>1, PowerIs
<1>2. v \in -h..h - 1 /\ Word = 0..m - 1  BY DEF Signed, Word
<1> HIDE DEF m, h
<1>3. CASE v >= 0
  <2>1. v \in Nat /\ m \in Nat /\ m > 0 /\ v \in 0..m - 1 /\ v = m * 0 + v
        /\ 2 * v \in 0..m - 1 /\ 2 * v = m * 0 + 2 * v /\ 2 * v \in Int
    BY <1>1, <1>2, <1>3
  <2>2. v % m = v /\ (2 * v) % m = 2 * v  BY <2>1, DividesInt
  <2>3. ~ (v < 0)  BY <2>1
  <2>4. ZigZag(v) = 2 * v  BY <2>2, <2>3, Zenon DEF ZigZag, m
  <2>5. (2 * v) % 2 = 0 /\ (2 * v) \div 2 = v  BY <2>1
  <2>6. UnZigZag(2 * v) = v  BY <2>5 DEF UnZigZag
  <2> QED BY <1>2, <2>1, <2>4, <2>6
<1>4. CASE v < 0
  <2> DEFINE w == v + m
             z == 2 * v + m
             u == m - 1 - z
  <2>1. v \in Int /\ m \in Nat /\ m > 0 /\ w \in 0..m - 1 /\ v = m * (-1) + w
        /\ z \in 0..m - 1 /\ 2 * w = m * 1 + z /\ 2 * w \in Int /\ -1 \in Int /\ 1 \in Int
    BY <1>1, <1>2, <1>4
  <2>2. u \in 0..m - 1 /\ u = 2 * (-v - 1) + 1 /\ u \in Nat /\ -v - 1 \in Nat
    BY <1>1, <1>2, <1>4
  <2> HIDE DEF w, z, u
  <2>3. v % m = w /\ (2 * w) % m = z  BY <2>1, DividesInt
  <2>4. ZigZag(v) = u  BY <1>4, <2>3, Zenon DEF ZigZag, m, u
  <2>5. u % 2 = 1 /\ u \div 2 = -v - 1  BY <2>2
  <2>6. UnZigZag(u) = -(-v - 1) - 1  BY <2>5 DEF UnZigZag
  <2>7. -(-v - 1) - 1 = v  BY <2>1
  <2> QED BY <1>2, <2>2, <2>4, <2>6, <2>7
<1> QED BY <1>1, <1>2, <1>3, <1>4

LEMMA RecordsAreApart ==
    ASSUME ErrIsApart, NEW a, NEW b, NEW c, NEW d
    PROVE  /\ [value |-> a, next |-> b] # Err /\ [values |-> a, next |-> b] # Err
           /\ [found |-> a, doc |-> b, freq |-> c, pos |-> d] # Err
           /\ [doc_id |-> a, positions |-> b] # Err
           /\ [width |-> a, bytes |-> b] # Err /\ [meta |-> a, payload |-> b] # Err
<1>1. \A r : r = [i \in DOMAIN r |-> r[i]] => r # Err  BY DEF ErrIsApart
<1> HIDE DEF ErrIsApart
<1>2. [value |-> a, next |-> b] # Err /\ [values |-> a, next |-> b] # Err
  BY <1>1
<1>3. [found |-> a, doc |-> b, freq |-> c, pos |-> d] # Err  BY <1>1
<1>4. [width |-> a, bytes |-> b] # Err /\ [meta |-> a, payload |-> b] # Err
  BY <1>1
<1> QED BY <1>1, <1>2, <1>3, <1>4

-----------------------------------------------------------------------------
(* Varints. *)

LEMMA Longest ==
    /\ LongestVarint \in Nat /\ LongestVarint >= 1
    /\ GroupBits * LongestVarint >= WordBits
    /\ GroupBits * LongestVarint <= LastPower
    /\ \A k \in 0..LongestVarint : GroupBits * k \in Nat /\ GroupBits * k <= LastPower
<1> DEFINE n == LongestVarint
           g == GroupBits
<1>1. g \in Nat /\ g >= 1 /\ g + 1 = ByteBits /\ WordBits \in Nat /\ WordBits > 0
      /\ LastPower = WordBits + ByteBits + 1 /\ ByteBits \in Nat
  BY Widths DEF LastPower
<1>2. n \in Nat /\ n > 0 /\ WordBits <= n * g /\ n * g < WordBits + g
  <2>1. GroupBits > 0 /\ GroupBits \in Nat /\ WordBits \in Nat /\ WordBits > 0
    BY <1>1
  <2> QED BY <2>1, Ceiling DEF LongestVarint
<1> HIDE DEF n, g
<1>3. g * n = n * g  BY <1>1, <1>2
<1>4. ASSUME NEW k \in 0..n
      PROVE  g * k \in Nat /\ g * k <= g * n
  BY <1>1, <1>2
<1>5. g * n <= LastPower  BY <1>1, <1>2, <1>3
<1>6. \A k \in 0..n : g * k \in Nat /\ g * k <= LastPower
  <2>1. g * n \in Nat /\ LastPower \in Nat  BY <1>1, <1>2
  <2> QED BY <1>4, <1>5, <2>1
<1> QED BY <1>1, <1>2, <1>3, <1>5, <1>6 DEF n, g

LEMMA VarintUnits ==
    /\ Units(VU, More, LongestVarint)
    /\ \A k \in 0..LongestVarint : VU[k] = 2^(GroupBits * k) /\ VU[k] \in Nat /\ VU[k] > 0
    /\ 2^WordBits <= VU[LongestVarint]
    /\ More \in Nat /\ More >= 2 /\ 2 * More = 2^ByteBits
<1> DEFINE n == LongestVarint
<1>1. n \in Nat /\ n >= 1 /\ GroupBits * n >= WordBits /\ GroupBits * n <= LastPower
      /\ \A k \in 0..n : GroupBits * k \in Nat /\ GroupBits * k <= LastPower
  BY Longest
<1>2. GroupBits \in Nat /\ GroupBits >= 1 /\ GroupBits + 1 = ByteBits /\ LastPower \in Nat
      /\ GroupBits <= LastPower /\ WordBits \in Nat /\ GroupBits < LastPower
  BY Widths DEF LastPower
<1>3. More \in Nat /\ More > 0 /\ 2 * More = 2^ByteBits
  <2>1. 2^(GroupBits + 1) = 2 * 2^GroupBits /\ 2^GroupBits \in Nat /\ 2^GroupBits > 0
    BY <1>2, PowerIs
  <2> QED BY <1>2, <2>1 DEF More
<1>4. More >= 2  BY <1>3, ByteIs
<1> HIDE DEF n
<1>5. \A k \in 0..n : VU[k] = 2^(GroupBits * k)  BY DEF VU, n
<1>6. ASSUME NEW k \in 0..n
      PROVE  VU[k] \in Nat /\ VU[k] > 0
  <2> DEFINE p == GroupBits * k
  <2>1. p \in 0..LastPower  BY <1>1, <1>2
  <2>2. VU[k] = 2^p  BY <1>5
  <2> HIDE DEF p
  <2> QED BY <2>1, <2>2, PowerIs
<1>7. VU[0] = 1
  <2>1. GroupBits * 0 = 0 /\ 0 \in 0..n  BY <1>1, <1>2
  <2> QED BY <1>5, <2>1, Power0
<1>8. ASSUME NEW k \in 1..n
      PROVE  VU[k] = More * VU[k - 1]
  <2> DEFINE p == GroupBits * (k - 1)
  <2>1. k \in 0..n /\ k - 1 \in 0..n  BY <1>1
  <2>2. p \in Nat /\ GroupBits * k = GroupBits + p /\ GroupBits * k <= LastPower
    BY <1>1, <1>2, <2>1
  <2>3. VU[k] = 2^(GroupBits * k) /\ VU[k - 1] = 2^p  BY <1>5, <2>1
  <2> HIDE DEF p
  <2>4. GroupBits + p <= LastPower  BY <2>2
  <2>5. 2^(GroupBits + p) = 2^GroupBits * 2^p  BY <1>2, <2>2, <2>4, PowerAdds
  <2> QED BY <2>2, <2>3, <2>5 DEF More
<1>9. Units(VU, More, n)  BY <1>1, <1>3, <1>7, <1>8 DEF Units
<1>10. 2^WordBits <= VU[n]
  <2> DEFINE p == GroupBits * n
  <2>1. n \in 0..n /\ p \in Nat /\ p <= LastPower /\ WordBits <= p
    BY <1>1, <1>2
  <2>2. VU[n] = 2^p  BY <1>5, <2>1
  <2> HIDE DEF p
  <2> QED BY <1>2, <2>1, <2>2, PowersGrow
<1> QED BY <1>3, <1>4, <1>5, <1>6, <1>9, <1>10 DEF n

LEMMA VarintUnitsGrow ==
    ASSUME NEW a \in 0..LongestVarint, NEW b \in 0..LongestVarint, a <= b
    PROVE  VU[a] <= VU[b]
<1> DEFINE p == GroupBits * a
           q == GroupBits * b
<1>1. LongestVarint \in Nat /\ GroupBits \in Nat  BY Longest, Widths
<1>2. p \in Nat /\ q \in Nat /\ q <= LastPower /\ VU[a] = 2^p /\ VU[b] = 2^q
  BY Longest, VarintUnits
<1>3. p <= q  BY <1>1
<1> HIDE DEF p, q
<1> QED BY <1>2, <1>3, PowersGrow

LEMMA VarintLenIs ==
    ASSUME NEW v \in Word
    PROVE  Fits(v, VarintLen(v))
<1> DEFINE T == {n \in 1..LongestVarint : v < VU[n]}
<1>1. LongestVarint \in Nat /\ LongestVarint \in 1..LongestVarint /\ v \in Nat
      /\ v < 2^WordBits /\ 2^WordBits \in Nat
  BY Longest, WordIs DEF Word
<1>2. 2^WordBits <= VU[LongestVarint] /\ VU[LongestVarint] \in Nat
  <2>1. LongestVarint \in 0..LongestVarint  BY <1>1
  <2> QED BY <2>1, VarintUnits
<1>3. LongestVarint \in T /\ T \subseteq Nat  BY <1>1, <1>2
<1>4. PICK n \in T : \A m \in T : n <= m
  <2> HIDE DEF T
  <2> QED BY <1>3, LeastNatural
<1>5. n = 1 \/ v >= VU[n - 1]
  <2> SUFFICES ASSUME n # 1, ~ (v >= VU[n - 1])
               PROVE  FALSE
    OBVIOUS
  <2>1. n - 1 \in 1..LongestVarint /\ n - 1 \in 0..LongestVarint /\ ~ (n <= n - 1)
    BY <1>1
  <2>2. VU[n - 1] \in Nat  BY <2>1, VarintUnits
  <2>3. n - 1 \in T  BY <1>1, <2>1, <2>2
  <2> QED BY <1>4, <2>1, <2>3
<1>6. Fits(v, n)  BY <1>5 DEF Fits
<1>7. \A m \in 1..LongestVarint : VU[m] = 2^(GroupBits * m) /\ (m # 1 => VU[m - 1] = 2^(GroupBits * (m - 1)))
  <2> TAKE m \in 1..LongestVarint
  <2>1. m \in 0..LongestVarint /\ m - 1 \in 0..LongestVarint  BY <1>1
  <2> QED BY <2>1, VarintUnits
<1>8. n \in 1..LongestVarint /\ v < 2^(GroupBits * n) /\ (n = 1 \/ v >= 2^(GroupBits * (n - 1)))
  BY <1>6, <1>7 DEF Fits
<1> DEFINE c == VarintLen(v)
<1>9. c \in 1..LongestVarint /\ v < 2^(GroupBits * c) /\ (c = 1 \/ v >= 2^(GroupBits * (c - 1)))
  BY <1>8, Zenon DEF VarintLen
<1> HIDE DEF c
<1>10. Fits(v, c)  BY <1>7, <1>9 DEF Fits
<1> QED BY <1>10 DEF c

-----------------------------------------------------------------------------
(* The bytes of a varint. *)

LEMMA DigitIs ==
    ASSUME NEW v \in Nat, NEW u \in Nat, u > 0, NEW M \in Nat, M > 0
    PROVE  Digit(v, u, M) \in 0..M - 1
<1> DEFINE q == v \div u
<1>1. q \in Nat  BY DivMod
<1> HIDE DEF q
<1>2. q % M \in 0..M - 1  BY <1>1
<1> QED BY <1>2 DEF Digit, q

LEMMA ContinuedIs ==
    ASSUME NEW x \in 0..More - 1, NEW n \in Nat, NEW i \in 1..n
    PROVE  /\ Continued(x, i, n) \in Byte
           /\ Continued(x, i, n) % More = x
           /\ Continued(x, i, n) < More <=> i = n
<1>1. More \in Nat /\ More >= 2 /\ Byte = 0..2 * More - 1
  BY VarintUnits DEF Byte
<1>2. CASE i = n
  <2>1. Continued(x, i, n) = x  BY <1>1, <1>2 DEF Continued
  <2>2. x = More * 0 + x /\ x \in Nat  BY <1>1
  <2>3. x % More = x  BY <1>1, <2>2, Divides
  <2> QED BY <1>1, <1>2, <2>1, <2>3
<1>3. CASE i # n
  <2> DEFINE y == Continued(x, i, n)
  <2>1. y = More * 1 + x /\ y \in Nat  BY <1>1, <1>3 DEF Continued
  <2> HIDE DEF y
  <2>2. y % More = x  BY <1>1, <2>1, Divides
  <2>3. y \in 0..2 * More - 1 /\ ~ (y < More)  BY <1>1, <2>1
  <2> QED BY <1>1, <1>3, <2>2, <2>3 DEF y
<1> QED BY <1>2, <1>3

LEMMA EncodedVarint ==
    ASSUME NEW v \in Word
    PROVE  /\ VarintLen(v) \in 1..LongestVarint
           /\ EncodeVarint(v) \in Seq(Byte)
           /\ Len(EncodeVarint(v)) = VarintLen(v)
           /\ \A i \in 1..VarintLen(v) :
                  /\ Digit(v, VU[i - 1], More) \in 0..More - 1
                  /\ EncodeVarint(v)[i] = Continued(Digit(v, VU[i - 1], More), i, VarintLen(v))
                  /\ EncodeVarint(v)[i] % More = Digit(v, VU[i - 1], More)
                  /\ EncodeVarint(v)[i] < More <=> i = VarintLen(v)
<1> DEFINE n == VarintLen(v)
           b == EncodeVarint(v)
<1>1. n \in 1..LongestVarint /\ LongestVarint \in Nat /\ v \in Nat /\ More \in Nat /\ More > 0
  BY VarintLenIs, Longest, WordIs, VarintUnits DEF Fits
<1>2. b = [i \in 1..n |-> ((v \div 2^(GroupBits * (i - 1))) % More)
                               + (IF i < n THEN More ELSE 0)]
  BY Zenon DEF EncodeVarint
<1> HIDE DEF n, b
<1>3. ASSUME NEW i \in 1..n
      PROVE  /\ Digit(v, VU[i - 1], More) \in 0..More - 1
             /\ b[i] = Continued(Digit(v, VU[i - 1], More), i, n)
  <2>1. i - 1 \in 0..LongestVarint  BY <1>1
  <2>2. VU[i - 1] = 2^(GroupBits * (i - 1)) /\ VU[i - 1] \in Nat /\ VU[i - 1] > 0
    BY <2>1, VarintUnits
  <2>3. b[i] = ((v \div 2^(GroupBits * (i - 1))) % More) + (IF i < n THEN More ELSE 0)
    BY <1>2, Zenon
  <2>4. b[i] = Continued(Digit(v, VU[i - 1], More), i, n)
    BY <2>2, <2>3, Zenon DEF Continued, Digit
  <2> QED BY <1>1, <2>2, <2>4, DigitIs
<1>4. n \in Nat  BY <1>1
<1>5. ASSUME NEW i \in 1..n
      PROVE  /\ b[i] \in Byte
             /\ b[i] % More = Digit(v, VU[i - 1], More)
             /\ b[i] < More <=> i = n
  <2> DEFINE x == Digit(v, VU[i - 1], More)
  <2>1. x \in 0..More - 1 /\ b[i] = Continued(x, i, n)  BY <1>3
  <2> HIDE DEF x
  <2>2. Continued(x, i, n) \in Byte /\ Continued(x, i, n) % More = x
        /\ (Continued(x, i, n) < More <=> i = n)
    BY <1>4, <2>1, ContinuedIs
  <2> QED BY <2>1, <2>2 DEF x
<1>6. IsArray(b, n, Byte)
  <2>1. b = [i \in 1..n |-> b[i]]  BY <1>2
  <2> QED BY <1>5, <2>1 DEF IsArray
<1>7. b \in Seq(Byte) /\ Len(b) = n  BY <1>4, <1>6, ArrayIs
<1> QED BY <1>1, <1>3, <1>5, <1>7 DEF n, b

LEMMA ValueBack ==
    ASSUME NEW v \in Word
    PROVE  ValueOf(EncodeVarint(v)) = v
<1> DEFINE n == VarintLen(v)
           b == EncodeVarint(v)
           s == [i \in DOMAIN b |-> GroupOf(b, i)]
<1>1. /\ n \in 1..LongestVarint /\ b \in Seq(Byte) /\ Len(b) = n
      /\ \A i \in 1..n : /\ Digit(v, VU[i - 1], More) \in 0..More - 1
                         /\ b[i] % More = Digit(v, VU[i - 1], More)
  BY EncodedVarint
<1>2. LongestVarint \in Nat /\ v \in Nat /\ More \in Nat /\ More > 0
  BY Longest, WordIs, VarintUnits
<1>3. ValueOf(b) = SumOf(s)  BY Zenon DEF ValueOf, GroupOf
<1>4. v < VU[n]  BY VarintLenIs DEF Fits
<1> HIDE DEF n, b
<1>5. DOMAIN b = 1..n /\ n \in Nat  BY <1>1, <1>2
<1>6. ASSUME NEW i \in 1..n
      PROVE  s[i] = Digit(v, VU[i - 1], More) * VU[i - 1] /\ s[i] \in Int
  <2>1. i - 1 \in 0..LongestVarint  BY <1>1, <1>2
  <2>2. VU[i - 1] = 2^(GroupBits * (i - 1)) /\ VU[i - 1] \in Nat
    BY <2>1, VarintUnits
  <2>3. s[i] = GroupOf(b, i)  BY <1>5
  <2>4. b[i] % More = Digit(v, VU[i - 1], More)  BY <1>1
  <2>5. s[i] = Digit(v, VU[i - 1], More) * VU[i - 1]
    BY <2>2, <2>3, <2>4, Zenon DEF GroupOf
  <2>6. Digit(v, VU[i - 1], More) \in Int
    <3> DEFINE x == Digit(v, VU[i - 1], More)
    <3>1. x \in 0..More - 1  BY <1>1
    <3> HIDE DEF x
    <3>2. x \in Int  BY <1>2, <3>1
    <3> QED BY <3>2 DEF x
  <2> QED BY <2>2, <2>5, <2>6
<1>7. IsArray(s, n, Int)
  <2>1. s = [i \in 1..n |-> s[i]]  BY <1>5
  <2> HIDE DEF s
  <2> QED BY <1>6, <2>1 DEF IsArray
<1> HIDE DEF s
<1>8. s \in Seq(Int) /\ Len(s) = n  BY <1>5, <1>7, ArrayIs
<1>9. Units(VU, More, n)
  <2>1. \A k \in 1..n : k \in 1..LongestVarint  BY <1>1, <1>2
  <2> QED BY <1>5, <2>1, VarintUnits DEF Units
<1>10. SumOf(s) = v % VU[n]  BY <1>2, <1>6, <1>8, <1>9, DigitsSum
<1> DEFINE u == VU[n]
<1>11. u \in Nat /\ u > 0
  <2>1. n \in 0..LongestVarint  BY <1>1, <1>2
  <2> QED BY <2>1, VarintUnits
<1>12. v < u  BY <1>4
<1> HIDE DEF u
<1>13. v \in 0..u - 1 /\ v = u * 0 + v  BY <1>2, <1>11, <1>12
<1>14. v % u = v  BY <1>2, <1>11, <1>13, Divides
<1> QED BY <1>3, <1>10, <1>14 DEF u, b

LEMMA DivBounds ==
    ASSUME NEW v \in Nat, NEW u \in Nat, u > 0, NEW c \in Nat
    PROVE  v < u * c <=> v \div u < c
<1> DEFINE q == v \div u
           r == v % u
<1>1. q \in Nat /\ r \in 0..u - 1 /\ v = u * q + r  BY DivMod
<1> HIDE DEF q, r
<1>2. ASSUME q < c
      PROVE  v < u * c
  <2>1. u * (q + 1) <= u * c /\ u * (q + 1) = u * q + u  BY <1>1, <1>2
  <2> QED BY <1>1, <2>1
<1>3. ASSUME ~ (q < c)
      PROVE  ~ (v < u * c)
  <2>1. u * c <= u * q /\ u * c \in Nat /\ u * q \in Nat  BY <1>1, <1>3
  <2> QED BY <1>1, <2>1
<1> QED BY <1>2, <1>3 DEF q

LEMMA LastGroup ==
    /\ (WordBits - 1) \div GroupBits \in Nat
    /\ LongestVarint = ((WordBits - 1) \div GroupBits) + 1
    /\ LastShift = GroupBits * (LongestVarint - 1)
    /\ LastShift \in Nat /\ LastShift < WordBits
    /\ WordBits - LastShift <= GroupBits
    /\ 2^WordBits = VU[LongestVarint - 1] * 2^(WordBits - LastShift)
    /\ 2^(WordBits - LastShift) \in Nat /\ 2^(WordBits - LastShift) <= More
<1> DEFINE g == GroupBits
           p == WordBits - 1
           q == p \div g
           r == p % g
           n == LongestVarint
<1>1. g \in Nat /\ g >= 1 /\ WordBits \in Nat /\ WordBits > 0 /\ p \in Nat /\ WordBits = p + 1
  BY Widths
<1>2. q \in Nat /\ r \in 0..g - 1 /\ p = g * q + r
  <2> HIDE DEF p, g
  <2> QED BY <1>1, DivMod
<1>3. n = (WordBits + g - 1) \div g  BY DEF LongestVarint, CeilDiv
<1>4. WordBits + g - 1 = p + g  BY <1>1
<1> HIDE DEF p, q, r, n
<1>5. n = q + 1
  <2> DEFINE w == p + g
  <2>1. w = g * (q + 1) + r /\ w \in Nat /\ q + 1 \in Nat /\ g > 0 /\ g \in Nat
    BY <1>1, <1>2
  <2> HIDE DEF w, g
  <2>2. w \div g = q + 1  BY <1>2, <2>1, Divides
  <2> QED BY <1>3, <1>4, <2>2 DEF w
<1>6. LastShift = g * q  BY DEF LastShift, q, p
<1> HIDE DEF g
<1>7. LastShift \in Nat /\ LastShift < WordBits /\ WordBits - LastShift <= g /\ n - 1 = q
  <2>1. g * q \in Nat  BY <1>1, <1>2
  <2> QED BY <1>1, <1>2, <1>5, <1>6, <2>1
<1> DEFINE rest == WordBits - LastShift
<1>8. rest \in Nat /\ LastShift + rest = WordBits /\ WordBits <= LastPower /\ g <= LastPower /\ LastPower \in Nat
  BY <1>1, <1>7, Widths DEF LastPower, g
<1>9. VU[n - 1] = 2^LastShift
  <2>1. q \in 0..LongestVarint  BY <1>2, <1>5 DEF n
  <2>2. VU[q] = 2^(GroupBits * q)  BY <2>1, VarintUnits
  <2> QED BY <1>6, <1>7, <2>2 DEF g
<1>10. 2^(LastShift + rest) = 2^LastShift * 2^rest
  <2> HIDE DEF rest
  <2>1. LastShift + rest <= LastPower  BY <1>1, <1>8
  <2> QED BY <1>7, <1>8, <2>1, PowerAdds
<1>11. 2^rest \in Nat /\ 2^rest <= 2^g
  <2>1. rest \in 0..LastPower /\ rest <= g /\ rest \in Nat
    BY <1>1, <1>7, <1>8
  <2> HIDE DEF rest
  <2> QED BY <1>1, <1>8, <2>1, PowerIs, PowersGrow
<1> QED
  BY <1>2, <1>5, <1>6, <1>7, <1>8, <1>9, <1>10, <1>11 DEF rest, n, q, p, g, More

-----------------------------------------------------------------------------
(* A varint that is somewhere in the data is read there. *)

LEMMA MinIs ==
    ASSUME NEW s \in SUBSET Nat, NEW m \in s, \A y \in s : m <= y
    PROVE  Min(s) = m
<1>1. \A x \in s : (\A y \in s : x <= y) => x = m  OBVIOUS
<1> QED BY <1>1 DEF Min

LEMMA MinIn ==
    ASSUME NEW s \in SUBSET Nat, s # {}
    PROVE  Min(s) \in s /\ \A y \in s : Min(s) <= y
<1>1. PICK m \in s : \A y \in s : m <= y  BY LeastNatural
<1>2. Min(s) = m  BY <1>1, MinIs
<1> QED BY <1>1, <1>2

LEMMA ShiftBelow ==
    ASSUME NEW n \in Nat, n > 0
    PROVE  /\ GroupBits * (n - 1) < LastShift <=> n < LongestVarint
           /\ GroupBits * (n - 1) = LastShift <=> n = LongestVarint
<1> DEFINE g == GroupBits
           m == LongestVarint
<1>1. g \in Nat /\ g >= 1 /\ m \in Nat /\ m >= 1 /\ LastShift = g * (m - 1)
  BY Widths, Longest, LastGroup
<1> HIDE DEF g, m
<1>2. ASSUME n < m
      PROVE  g * (n - 1) < g * (m - 1)
  <2>1. g * ((m - 1) - (n - 1)) >= 1 /\ g * ((m - 1) - (n - 1)) = g * (m - 1) - g * (n - 1)
    BY <1>1, <1>2
  <2>2. g * (m - 1) \in Nat /\ g * (n - 1) \in Nat  BY <1>1
  <2> QED BY <2>1, <2>2
<1>3. ASSUME m < n
      PROVE  g * (m - 1) < g * (n - 1)
  <2>1. g * ((n - 1) - (m - 1)) >= 1 /\ g * ((n - 1) - (m - 1)) = g * (n - 1) - g * (m - 1)
    BY <1>1, <1>3
  <2>2. g * (m - 1) \in Nat /\ g * (n - 1) \in Nat  BY <1>1
  <2> QED BY <2>1, <2>2
<1>4. g * (m - 1) \in Nat /\ g * (n - 1) \in Nat  BY <1>1
<1>5. n < m \/ n = m \/ m < n  BY <1>1
<1>6. CASE n < m
  BY <1>1, <1>2, <1>4, <1>6 DEF g, m
<1>7. CASE n = m
  BY <1>1, <1>4, <1>7 DEF g, m
<1>8. CASE m < n
  BY <1>1, <1>3, <1>4, <1>8 DEF g, m
<1> QED BY <1>5, <1>6, <1>7, <1>8

(* A word fits where there is room for it. *)
LEMMA FitsBack ==
    ASSUME NEW v \in Word
    PROVE  FitsWord(EncodeVarint(v))
<1> DEFINE n == VarintLen(v)
           b == EncodeVarint(v)
           x == b[n]
<1>1. /\ n \in 1..LongestVarint /\ b \in Seq(Byte) /\ Len(b) = n
      /\ Digit(v, VU[n - 1], More) \in 0..More - 1
      /\ x = Continued(Digit(v, VU[n - 1], More), n, n)
  <2>1. n \in 1..LongestVarint /\ b \in Seq(Byte) /\ Len(b) = n
    BY EncodedVarint
  <2>2. n \in 1..n  BY <2>1, Longest
  <2> QED BY <2>1, <2>2, EncodedVarint
<1>2. LongestVarint \in Nat /\ v \in Nat /\ More \in Nat /\ More > 0 /\ n \in Nat /\ n > 0
  BY <1>1, Longest, WordIs, VarintUnits
<1>3. v < VU[n]  BY VarintLenIs DEF Fits
<1>4. Last(b) = x  BY <1>1 DEF Last
<1>5. Digit(v, VU[n - 1], More) \in Nat
  <2> DEFINE d == Digit(v, VU[n - 1], More)
  <2>1. d \in 0..More - 1  BY <1>1
  <2> HIDE DEF d
  <2>2. d \in Nat  BY <1>2, <2>1
  <2> QED BY <2>2 DEF d
<1>6. x = Digit(v, VU[n - 1], More)
  <2>1. ~ (n < n)  BY <1>2
  <2>2. x = Digit(v, VU[n - 1], More) + 0  BY <1>1, <2>1, Zenon DEF Continued
  <2> QED BY <1>5, <2>2
<1> HIDE DEF n, b, x
<1>7. CASE n < LongestVarint
  <2>1. GroupBits * (n - 1) < LastShift  BY <1>2, <1>7, ShiftBelow
  <2> QED BY <1>1, <2>1, Zenon DEF FitsWord, b
<1>8. CASE n = LongestVarint
  <2>1. GroupBits * (n - 1) = LastShift  BY <1>2, <1>8, ShiftBelow
  <2> DEFINE u == VU[n - 1]
             c == 2^(WordBits - LastShift)
             q == v \div u
  <2>2. n - 1 \in 0..LongestVarint  BY <1>1, <1>2
  <2>3. u \in Nat /\ u > 0  BY <2>2, VarintUnits
  <2>4. c \in Nat /\ c <= More /\ 2^WordBits = u * c  BY <1>8, LastGroup
  <2>5. v < u * c
    <3>1. v < 2^WordBits  BY <1>2, WordIs DEF Word
    <3> HIDE DEF u, c
    <3> QED BY <2>4, <3>1
  <2> HIDE DEF u, c
  <2>6. q < c /\ q \in Nat  BY <1>2, <2>3, <2>4, <2>5, DivBounds, DivMod
  <2>7. Digit(v, u, More) = q % More  BY DEF Digit
  <2> HIDE DEF q
  <2>8. q \in 0..More - 1 /\ q = More * 0 + q  BY <1>2, <2>4, <2>6
  <2>9. q % More = q  BY <1>2, <2>6, <2>8, Divides
  <2>10. x < c  BY <1>6, <2>6, <2>7, <2>9 DEF u
  <2>11. Last(b) < 2^(WordBits - LastShift)  BY <1>4, <2>10 DEF c
  <2> QED BY <1>1, <2>1, <2>11, Zenon DEF FitsWord, b
<1> QED BY <1>1, <1>2, <1>7, <1>8

LEMMA PieceIs ==
    ASSUME NEW X, NEW data \in Seq(X), NEW from \in Nat, from > 0,
           NEW piece \in Seq(X), IsAt(data, from, piece)
    PROVE  SubSeq(data, from, from + Len(piece) - 1) = piece
<1> DEFINE n == Len(piece)
<1>1. n \in Nat /\ from + n <= Len(data) + 1 /\ piece = [i \in 1..n |-> piece[i]]
      /\ \A i \in 1..n : data[from + i - 1] = piece[i]
  BY DEF IsAt
<1>2. SubSeq(data, from, from + n - 1) = [i \in 1..n |-> data[from + i - 1]]
  <2> DEFINE w == from + n - 1
  <2>1. w - from + 1 = n /\ w \in Int  BY <1>1
  <2> HIDE DEF w, n
  <2>2. SubSeq(data, from, w) = [i \in 1..w - from + 1 |-> data[from + i - 1]]
    BY <2>1
  <2> QED BY ONLY <2>1, <2>2 DEF w
<1> QED BY <1>1, <1>2

LEMMA ReadBack ==
    ASSUME NEW data \in Seq(Byte), NEW from \in Nat, from > 0, NEW v \in Word,
           IsAt(data, from, EncodeVarint(v))
    PROVE  ReadVarint(data, from) = [value |-> v, next |-> from + VarintLen(v)]
<1> DEFINE n == VarintLen(v)
           b == EncodeVarint(v)
           ends == {i \in from..Len(data) : data[i] < More}
           end == from + n - 1
<1>1. /\ n \in 1..LongestVarint /\ b \in Seq(Byte) /\ Len(b) = n
      /\ \A i \in 1..n : b[i] < More <=> i = n
  BY EncodedVarint
<1>2. ValueOf(b) = v /\ FitsWord(b)  BY ValueBack, FitsBack
<1>3. LongestVarint \in Nat  BY Longest
<1>4. SubSeq(data, from, from + Len(b) - 1) = b  BY <1>1, PieceIs
<1> HIDE DEF n, b
<1>5. from + n <= Len(data) + 1 /\ (\A i \in 1..n : data[from + i - 1] = b[i]) /\ n \in Nat /\ n >= 1
  BY <1>1, <1>3 DEF IsAt, b
<1>6. SubSeq(data, from, end) = b  BY <1>1, <1>4
<1>7. end \in ends /\ ends \subseteq Nat
  <2>1. n \in 1..n  BY <1>5
  <2>2. data[from + n - 1] = b[n] /\ b[n] < More  BY <1>1, <1>5, <2>1
  <2>3. end \in from..Len(data)  BY <1>5
  <2> QED BY <2>2, <2>3
<1>8. ASSUME NEW j \in ends
      PROVE  end <= j
  <2> SUFFICES ASSUME j < end
               PROVE  FALSE
    BY <1>5
  <2> DEFINE i == j - from + 1
  <2>1. i \in 1..n /\ i # n /\ from + i - 1 = j  BY <1>5
  <2> HIDE DEF i
  <2>2. data[j] = b[i] /\ ~ (b[i] < More)  BY <1>1, <1>5, <2>1
  <2> QED BY <2>2
<1>9. Min(ends) = end
  <2> HIDE DEF ends, end
  <2> QED BY <1>7, <1>8, MinIs
<1>10. ends # {} /\ end + 1 = from + n  BY <1>5, <1>7
<1>11. VarintLen(ValueOf(b)) = Len(b)  BY <1>1, <1>2 DEF n
<1> DEFINE Then(bytes, last) ==
        IF ends = {} \/ ~FitsWord(bytes) \/ VarintLen(ValueOf(bytes)) # Len(bytes)
        THEN Err
        ELSE [value |-> ValueOf(bytes), next |-> last + 1]
<1>12. ReadVarint(data, from) = Then(SubSeq(data, from, Min(ends)), Min(ends))
  BY Zenon DEF ReadVarint
<1> HIDE DEF ends, end
<1>13. Then(b, end) = [value |-> v, next |-> from + n]  BY <1>2, <1>10, <1>11
<1> QED BY <1>6, <1>9, <1>12, <1>13 DEF n

-----------------------------------------------------------------------------
(* What is read as a varint is one. *)

LEMMA ContinuedBack ==
    ASSUME NEW x \in Byte, NEW n \in Nat, NEW i \in 1..n, x < More <=> i = n
    PROVE  x % More \in 0..More - 1 /\ Continued(x % More, i, n) = x
<1>1. More \in Nat /\ More >= 2 /\ Byte = 0..2 * More - 1
  BY VarintUnits DEF Byte
<1>2. CASE i = n
  <2>1. x = More * 0 + x /\ x \in Nat /\ x \in 0..More - 1  BY <1>1, <1>2
  <2>2. x % More = x  BY <1>1, <2>1, Divides
  <2>3. ~ (i < n)  BY <1>2
  <2> QED BY <2>1, <2>2, <2>3 DEF Continued
<1>3. CASE i # n
  <2> DEFINE r == x - More
  <2>1. x = More * 1 + r /\ x \in Nat /\ r \in 0..More - 1 /\ i < n
    BY <1>1, <1>3
  <2>2. r + More = x  BY <1>1
  <2> HIDE DEF r
  <2>3. x % More = r  BY <1>1, <2>1, Divides
  <2> QED BY <2>1, <2>2, <2>3 DEF Continued
<1> QED BY <1>2, <1>3

(* What the groups of a varint come to, and its digits again. *)
LEMMA GroupsAre ==
    ASSUME NEW bytes \in Seq(Byte), Len(bytes) \in 1..LongestVarint
    PROVE  /\ ValueOf(bytes) \in Nat /\ ValueOf(bytes) < VU[Len(bytes)]
           /\ \A i \in 1..Len(bytes) : Digit(ValueOf(bytes), VU[i - 1], More) = bytes[i] % More
<1> DEFINE n == Len(bytes)
           s == [i \in DOMAIN bytes |-> GroupOf(bytes, i)]
           d == [i \in 1..n |-> bytes[i] % More]
<1>1. ValueOf(bytes) = SumOf(s)  BY Zenon DEF ValueOf, GroupOf
<1>2. n \in Nat /\ n \in 1..LongestVarint /\ DOMAIN bytes = 1..n /\ LongestVarint \in Nat
      /\ \A i \in 1..n : bytes[i] \in Byte
  BY Longest
<1>3. More \in Nat /\ More > 0  BY VarintUnits
<1> HIDE DEF n
<1>4. ASSUME NEW i \in 1..n
      PROVE  d[i] \in 0..More - 1 /\ d[i] = bytes[i] % More /\ s[i] = d[i] * VU[i - 1] /\ s[i] \in Int
  <2>1. i - 1 \in 0..LongestVarint  BY <1>2
  <2>2. VU[i - 1] = 2^(GroupBits * (i - 1)) /\ VU[i - 1] \in Nat
    BY <2>1, VarintUnits
  <2>3. s[i] = GroupOf(bytes, i) /\ d[i] = bytes[i] % More  BY <1>2
  <2> DEFINE x == bytes[i]
  <2>4. x \in Nat  BY <1>2, ByteIs
  <2> HIDE DEF x
  <2>5. x % More \in 0..More - 1  BY <1>3, <2>4
  <2>6. s[i] = d[i] * VU[i - 1]  BY <2>2, <2>3, Zenon DEF GroupOf
  <2> HIDE DEF s, d
  <2>7. d[i] \in 0..More - 1 /\ d[i] \in Int  BY <1>3, <2>3, <2>5 DEF x
  <2> QED BY <2>2, <2>3, <2>6, <2>7
<1>5. IsArray(s, n, Int)
  <2>1. s = [i \in 1..n |-> s[i]]  BY <1>2
  <2> HIDE DEF s, d
  <2> QED BY <1>4, <2>1 DEF IsArray
<1> HIDE DEF s, d
<1>6. s \in Seq(Int) /\ Len(s) = n  BY <1>2, <1>5, ArrayIs
<1>7. Units(VU, More, n)
  <2>1. \A k \in 1..n : k \in 1..LongestVarint  BY <1>2
  <2> QED BY <1>2, <2>1, VarintUnits DEF Units
<1>8. AreTerms(s, d, VU, More, n)  BY <1>4, <1>6, <1>7 DEF AreTerms
<1>9. SumOf(s) \in 0..VU[n] - 1 /\ \A i \in 1..n : Digit(SumOf(s), VU[i - 1], More) = d[i]
  BY <1>8, DigitsBack
<1>10. VU[n] \in Nat
  <2>1. n \in 0..LongestVarint  BY <1>2
  <2> QED BY <2>1, VarintUnits
<1>11. SumOf(s) \in Nat /\ SumOf(s) < VU[n]
  <2> DEFINE v == SumOf(s)
             u == VU[n]
  <2>1. v \in 0..u - 1 /\ u \in Nat  BY <1>9, <1>10
  <2> HIDE DEF v, u
  <2>2. v \in Nat /\ v < u  BY <2>1
  <2> QED BY <2>2 DEF v, u
<1> QED BY <1>1, <1>4, <1>9, <1>11 DEF n

(* What fits is a word. *)
LEMMA FitsForth ==
    ASSUME NEW bytes \in Seq(Byte), Len(bytes) > 0, FitsWord(bytes), Last(bytes) < More
    PROVE  Len(bytes) \in 1..LongestVarint /\ ValueOf(bytes) \in Word
<1> DEFINE n == Len(bytes)
           x == bytes[n]
           v == ValueOf(bytes)
           L == LongestVarint
<1>1. n \in Nat /\ n > 0 /\ L \in Nat /\ L >= 1 /\ x \in Byte /\ Last(bytes) = x
  BY Longest DEF Last
<1>2. \/ n < L
      \/ n = L /\ x < 2^(WordBits - LastShift)
  BY <1>1, ShiftBelow DEF FitsWord
<1>3. n \in 1..L  BY <1>1, <1>2
<1>4. v \in Nat /\ v < VU[n] /\ Digit(v, VU[n - 1], More) = x % More
  <2>1. n \in 1..n  BY <1>1
  <2> QED BY <1>3, <2>1, GroupsAre
<1>5. More \in Nat /\ More > 0 /\ x \in Nat /\ x < More
  <2>1. More \in Nat /\ More > 0  BY VarintUnits
  <2>2. x \in Nat  BY <1>1, ByteIs
  <2>3. x < More
    <3>1. Last(bytes) = x  BY <1>1
    <3> HIDE DEF x
    <3> QED BY <3>1
  <2> QED BY <2>1, <2>2, <2>3
<1>6. /\ VU[L - 1] \in Nat /\ VU[L - 1] > 0 /\ 2^WordBits \in Nat
      /\ 2^WordBits = VU[L - 1] * 2^(WordBits - LastShift)
      /\ 2^(WordBits - LastShift) \in Nat /\ 2^(WordBits - LastShift) <= More
      /\ L - 1 \in 0..L
  <2>1. L - 1 \in 0..L  BY <1>1
  <2> QED BY <2>1, LastGroup, VarintUnits, WordIs
<1> HIDE DEF n, x, v, L
<1>7. v < 2^WordBits
  <2>1. CASE n < L
    <3>1. n \in 0..L /\ n <= L - 1  BY <1>1, <2>1
    <3>2. VU[n] <= VU[L - 1] /\ VU[n] \in Nat
      BY <1>6, <3>1, VarintUnitsGrow, VarintUnits DEF L
    <3> DEFINE u == VU[L - 1]
               c == 2^(WordBits - LastShift)
               w == 2^WordBits
    <3>3. u \in Nat /\ u > 0 /\ c \in Nat /\ w = u * c /\ w > 0 /\ w \in Nat
      BY <1>6, WordIs
    <3> HIDE DEF u, c, w
    <3>4. c > 0
      <4> SUFFICES ASSUME c = 0
                   PROVE  FALSE
        BY <3>3
      <4>1. u * c = 0  BY <3>3
      <4> QED BY <3>3, <4>1
    <3>5. u <= w  BY <3>3, <3>4
    <3>6. v < w  BY <1>4, <3>2, <3>3, <3>5 DEF u
    <3> QED BY <3>6 DEF w
  <2>2. CASE n = L
    <3> DEFINE u == VU[L - 1]
               c == 2^(WordBits - LastShift)
               w == 2^WordBits
               q == v \div u
    <3>1. u \in Nat /\ u > 0 /\ c \in Nat /\ w = u * c /\ x < c
      BY <1>1, <1>2, <1>6, <2>2
    <3>2. VU[n] = u * More
      <4>1. n \in 1..LongestVarint  BY <1>3 DEF L
      <4>2. VU[n] = More * VU[n - 1]  BY <4>1, VarintUnits DEF Units
      <4>3. VU[n - 1] = u  BY <2>2
      <4> HIDE DEF u
      <4> QED BY <1>5, <3>1, <4>2, <4>3
    <3>3. Digit(v, u, More) = x % More /\ x % More = x
      <4>1. x = More * 0 + x /\ x \in 0..More - 1  BY <1>5
      <4>2. x % More = x  BY <1>5, <4>1, Divides
      <4> QED BY <1>4, <2>2, <4>2
    <3> HIDE DEF u, c, w
    <3>4. q \in Nat /\ q < More  BY <1>4, <1>5, <3>1, <3>2, DivBounds, DivMod
    <3>5. Digit(v, u, More) = q % More  BY DEF Digit
    <3> HIDE DEF q
    <3>6. q \in 0..More - 1 /\ q = More * 0 + q  BY <1>5, <3>4
    <3>7. q % More = q  BY <1>5, <3>4, <3>6, Divides
    <3>8. q < c  BY <3>1, <3>3, <3>5, <3>7
    <3>9. v < u * c  BY <1>4, <3>1, <3>8, DivBounds DEF q
    <3> QED BY <3>1, <3>9 DEF w
  <2> QED BY <1>2, <2>1, <2>2
<1>8. v \in Word  BY <1>4, <1>6, <1>7 DEF Word
<1> QED BY <1>3, <1>8 DEF n, v, L

LEMMA ReadForth ==
    ASSUME NEW data \in Seq(Byte), NEW from \in Nat, from > 0, ReadVarint(data, from) # Err
    PROVE  \E v \in Word : /\ ReadVarint(data, from) = [value |-> v, next |-> from + VarintLen(v)]
                           /\ IsAt(data, from, EncodeVarint(v))
<1> DEFINE ends == {i \in from..Len(data) : data[i] < More}
           end == Min(ends)
           bytes == SubSeq(data, from, end)
           v == ValueOf(bytes)
           n == end - from + 1
<1>1. /\ ReadVarint(data, from) = [value |-> v, next |-> end + 1]
      /\ ends # {} /\ FitsWord(bytes) /\ VarintLen(v) = Len(bytes)
  BY Zenon DEF ReadVarint
<1>2. Len(data) \in Nat /\ \A i \in 1..Len(data) : data[i] \in Byte  OBVIOUS
<1>3. /\ end \in from..Len(data) /\ data[end] < More
      /\ \A j \in from..Len(data) : j < end => ~ (data[j] < More)
  <2>1. ends \in SUBSET Nat  OBVIOUS
  <2> HIDE DEF ends, end
  <2>2. end \in ends /\ \A y \in ends : end <= y  BY <1>1, <2>1, MinIn DEF end
  <2>3. end \in from..Len(data) /\ data[end] < More  BY <2>2 DEF ends
  <2>4. ASSUME NEW j \in from..Len(data), j < end, data[j] < More
        PROVE  FALSE
    <3>1. j \in ends  BY <2>4 DEF ends
    <3> QED BY <2>2, <2>3, <2>4, <3>1
  <2> QED BY <2>3, <2>4
<1> HIDE DEF ends, end
<1>4. n \in Nat /\ n > 0 /\ end + 1 = from + n /\ from + n <= Len(data) + 1 /\ end = from + n - 1
  BY <1>2, <1>3
<1>5. /\ bytes \in Seq(Byte) /\ Len(bytes) = n
      /\ \A i \in 1..n : bytes[i] = data[from + i - 1] /\ from + i - 1 \in 1..Len(data)
  <2>1. bytes = [i \in 1..n |-> data[from + i - 1]]  BY <1>3
  <2>2. \A i \in 1..n : from + i - 1 \in 1..Len(data)  BY <1>2, <1>4
  <2>3. IsArray(bytes, n, Byte)
    <3> HIDE DEF bytes, n
    <3>1. \A i \in 1..n : bytes[i] \in Byte  BY <1>2, <2>1, <2>2
    <3>2. bytes = [i \in 1..n |-> bytes[i]]  BY <2>1
    <3> QED BY <3>1, <3>2 DEF IsArray
  <2> HIDE DEF bytes, n
  <2> QED BY <1>4, <2>1, <2>2, <2>3, ArrayIs
<1> HIDE DEF bytes, n
<1>6. ASSUME NEW i \in 1..n
      PROVE  bytes[i] \in Byte /\ (bytes[i] < More <=> i = n)
  <2>1. bytes[i] = data[from + i - 1] /\ from + i - 1 \in from..Len(data) /\ bytes[i] \in Byte
    BY <1>4, <1>5
  <2>2. CASE i = n
    BY <1>3, <1>4, <2>1, <2>2
  <2>3. CASE i # n
    <3>1. from + i - 1 < end  BY <1>4, <2>3
    <3> QED BY <1>3, <2>1, <2>3, <3>1
  <2> QED BY <2>2, <2>3
<1>7. Last(bytes) < More /\ Len(bytes) > 0
  <2>1. n \in 1..n  BY <1>4
  <2> QED BY <1>4, <1>5, <1>6, <2>1 DEF Last
<1>8. n \in 1..LongestVarint /\ v \in Word  BY <1>1, <1>5, <1>7, FitsForth
<1>9. \A i \in 1..n : Digit(v, VU[i - 1], More) = bytes[i] % More
  BY <1>5, <1>8, GroupsAre
<1> HIDE DEF v
<1> DEFINE b == EncodeVarint(v)
<1>10. /\ b \in Seq(Byte) /\ Len(b) = n
       /\ \A i \in 1..n : b[i] = Continued(Digit(v, VU[i - 1], More), i, n)
  BY <1>1, <1>5, <1>8, EncodedVarint
<1> HIDE DEF b
<1>11. ASSUME NEW i \in 1..n
       PROVE  b[i] = bytes[i]
  <2>1. Continued(bytes[i] % More, i, n) = bytes[i]
    BY <1>4, <1>6, ContinuedBack
  <2> QED BY <1>9, <1>10, <2>1
<1>12. IsAt(data, from, b)  BY <1>4, <1>5, <1>10, <1>11 DEF IsAt
<1>13. ReadVarint(data, from) = [value |-> v, next |-> from + VarintLen(v)]
  BY <1>1, <1>4, <1>5
<1> QED BY <1>8, <1>12, <1>13 DEF b

LEMMA Fronts ==
    ASSUME NEW X, NEW s \in Seq(X)
    PROVE  /\ SubSeq(s, 1, 0) = << >> /\ SubSeq(s, 1, Len(s)) = s
           /\ \A k \in 0..Len(s) : SubSeq(s, 1, k) \in Seq(X) /\ Len(SubSeq(s, 1, k)) = k
           /\ \A k \in 0..Len(s) - 1 :
                  /\ SubSeq(s, 1, k + 1) = Append(SubSeq(s, 1, k), s[k + 1])
                  /\ s[k + 1] \in X
<1>1. SubSeq(s, 1, 0) = << >> /\ SubSeq(s, 1, Len(s)) = s  OBVIOUS
<1>2. \A k \in 0..Len(s) : SubSeq(s, 1, k) \in Seq(X) /\ Len(SubSeq(s, 1, k)) = k
  OBVIOUS
<1>3. ASSUME NEW k \in 0..Len(s) - 1
      PROVE  SubSeq(s, 1, k + 1) = Append(SubSeq(s, 1, k), s[k + 1]) /\ s[k + 1] \in X
  OBVIOUS
<1> QED BY <1>1, <1>2, <1>3

LEMMA IsAtSplits ==
    ASSUME NEW X, NEW data \in Seq(X), NEW from \in Nat, from > 0,
           NEW a \in Seq(X), NEW b \in Seq(X)
    PROVE  IsAt(data, from, a \o b) <=> IsAt(data, from, a) /\ IsAt(data, from + Len(a), b)
<1> DEFINE m == Len(a)
           n == Len(b)
           c == a \o b
<1>1. /\ m \in Nat /\ n \in Nat /\ Len(c) = m + n /\ Len(data) \in Nat
      /\ \A i \in 1..m : c[i] = a[i]
      /\ \A i \in 1..n : c[m + i] = b[i]
  OBVIOUS
<1> HIDE DEF m, n, c
<1>2. ASSUME IsAt(data, from, c)
      PROVE  IsAt(data, from, a) /\ IsAt(data, from + m, b)
  <2>1. from + (m + n) <= Len(data) + 1 /\ \A i \in 1..m + n : data[from + i - 1] = c[i]
    BY <1>1, <1>2 DEF IsAt
  <2>2. \A i \in 1..m : i \in 1..m + n  BY <1>1
  <2>3. ASSUME NEW i \in 1..n
        PROVE  data[from + m + i - 1] = b[i]
    <3>1. m + i \in 1..m + n /\ from + (m + i) - 1 = from + m + i - 1  BY <1>1
    <3> QED BY <1>1, <2>1, <3>1
  <2>4. from + m <= Len(data) + 1 /\ (from + m) + n <= Len(data) + 1
    BY <1>1, <2>1
  <2> QED BY <1>1, <2>1, <2>2, <2>3, <2>4 DEF IsAt, m, n
<1>3. ASSUME IsAt(data, from, a), IsAt(data, from + m, b)
      PROVE  IsAt(data, from, c)
  <2>1. /\ from + m + n <= Len(data) + 1
        /\ \A i \in 1..m : data[from + i - 1] = a[i]
        /\ \A i \in 1..n : data[from + m + i - 1] = b[i]
    BY <1>3 DEF IsAt, m, n
  <2>2. ASSUME NEW i \in 1..m + n
        PROVE  data[from + i - 1] = c[i]
    <3>1. CASE i <= m
      <4>1. i \in 1..m  BY <1>1, <3>1
      <4> QED BY <1>1, <2>1, <4>1
    <3>2. CASE ~ (i <= m)
      <4> DEFINE j == i - m
      <4>1. j \in 1..n /\ m + j = i /\ from + m + j - 1 = from + i - 1
        BY <1>1, <3>2
      <4> HIDE DEF j
      <4> QED BY <1>1, <2>1, <4>1
    <3> QED BY <3>1, <3>2
  <2>3. from + (m + n) <= Len(data) + 1  BY <1>1, <2>1
  <2> QED BY <1>1, <2>2, <2>3 DEF IsAt
<1> QED BY <1>2, <1>3 DEF m, c

LEMMA IsAtAll ==
    ASSUME NEW X, NEW data \in Seq(X)
    PROVE  /\ IsAt(data, 1, data)
           /\ \A piece \in Seq(X) : IsAt(data, 1, piece) /\ Len(piece) = Len(data) => piece = data
           /\ \A from \in Nat : from <= Len(data) + 1 => IsAt(data, from, << >>)
<1>1. IsAt(data, 1, data)
  <2>1. \A i \in 1..Len(data) : 1 + i - 1 = i  OBVIOUS
  <2>2. 1 + Len(data) <= Len(data) + 1  OBVIOUS
  <2> QED BY <2>1, <2>2 DEF IsAt
<1>2. ASSUME NEW piece \in Seq(X), IsAt(data, 1, piece), Len(piece) = Len(data)
      PROVE  piece = data
  <2>1. \A i \in 1..Len(data) : data[1 + i - 1] = piece[i]  BY <1>2 DEF IsAt
  <2>2. \A i \in 1..Len(data) : data[i] = piece[i]
    <3> TAKE i \in 1..Len(data)
    <3>1. 1 + i - 1 = i  OBVIOUS
    <3> QED BY <2>1, <3>1
  <2>3. data = [i \in 1..Len(data) |-> data[i]] /\ piece = [i \in 1..Len(data) |-> piece[i]]
    BY <1>2
  <2> QED BY <2>2, <2>3
<1>3. ASSUME NEW from \in Nat, from <= Len(data) + 1
      PROVE  IsAt(data, from, << >>)
  <2>1. Len(<< >>) = 0 /\ 1..0 = {} /\ from + 0 <= Len(data) + 1  BY <1>3
  <2> QED BY <2>1 DEF IsAt
<1> QED BY <1>1, <1>2, <1>3

-----------------------------------------------------------------------------
(* Varints one after another. *)

LEMMA PiecesAre ==
    ASSUME NEW values \in Seq(Word)
    PROVE  /\ Pieces(values) \in Seq(Seq(Byte)) /\ Len(Pieces(values)) = Len(values)
           /\ \A i \in 1..Len(values) : Pieces(values)[i] = EncodeVarint(values[i])
<1> DEFINE p == Pieces(values)
           n == Len(values)
           Y == Seq(Byte)
<1>1. n \in Nat /\ DOMAIN values = 1..n /\ \A i \in 1..n : values[i] \in Word
  OBVIOUS
<1>2. p = [i \in 1..n |-> p[i]] /\ \A i \in 1..n : p[i] = EncodeVarint(values[i])
  BY <1>1 DEF Pieces
<1>3. \A i \in 1..n : p[i] \in Y  BY <1>1, <1>2, EncodedVarint
<1> HIDE DEF p, n, Y
<1>4. IsArray(p, n, Y)  BY <1>2, <1>3 DEF IsArray
<1>5. p \in Seq(Y) /\ Len(p) = n  BY <1>1, <1>4, ArrayIs
<1> QED BY <1>2, <1>5 DEF p, n, Y

LEMMA EncodedVarints ==
    /\ EncodeVarints(<< >>) = << >>
    /\ \A values \in Seq(Word) :
           /\ EncodeVarints(values) \in Seq(Byte)
           /\ \A v \in Word :
                  EncodeVarints(Append(values, v)) = EncodeVarints(values) \o EncodeVarint(v)
<1>1. EncodeVarints(<< >>) = << >>
  <2>1. Pieces(<< >>) = << >>  BY DEF Pieces
  <2> QED BY <2>1, FlattenUnfolds DEF EncodeVarints, Pieces
<1>2. ASSUME NEW values \in Seq(Word)
      PROVE  EncodeVarints(values) \in Seq(Byte) /\ EncodeVarints(values) = FlattenSeq(Pieces(values))
  <2>1. EncodeVarints(values) = FlattenSeq(Pieces(values))
    BY DEF EncodeVarints, Pieces
  <2>2. Pieces(values) \in Seq(Seq(Byte))  BY PiecesAre
  <2> QED BY <2>1, <2>2, FlattenUnfolds
<1>3. ASSUME NEW values \in Seq(Word), NEW v \in Word
      PROVE  EncodeVarints(Append(values, v)) = EncodeVarints(values) \o EncodeVarint(v)
  <2> DEFINE more == Append(values, v)
             n == Len(values)
             Y == Seq(Byte)
  <2>1. /\ more \in Seq(Word) /\ Len(more) = n + 1 /\ n \in Nat /\ more[n + 1] = v
        /\ \A i \in 1..n : more[i] = values[i]
    OBVIOUS
  <2> DEFINE p == Pieces(values)
             q == Pieces(more)
             g == EncodeVarint(v)
  <2>2. p \in Seq(Y) /\ Len(p) = n /\ \A i \in 1..n : p[i] = EncodeVarint(values[i])
    BY PiecesAre
  <2>3. q \in Seq(Y) /\ Len(q) = n + 1 /\ \A i \in 1..n + 1 : q[i] = EncodeVarint(more[i])
    <3> HIDE DEF more
    <3> QED BY <2>1, PiecesAre
  <2>4. g \in Y  BY EncodedVarint
  <2> HIDE DEF p, q, g, Y, more, n
  <2>5. q = Append(p, g)
    <3>1. \A i \in 1..n : q[i] = p[i]
      <4> TAKE i \in 1..n
      <4>1. i \in 1..n + 1  BY <2>1
      <4> QED BY <2>1, <2>2, <2>3, <4>1
    <3>2. q[n + 1] = g
      <4>1. n + 1 \in 1..n + 1  BY <2>1
      <4> QED BY <2>1, <2>3, <4>1 DEF g
    <3> QED BY <2>1, <2>2, <2>3, <2>4, <3>1, <3>2
  <2>6. FlattenSeq(Append(p, g)) = FlattenSeq(p) \o g
    BY <2>2, <2>4, FlattenUnfolds DEF Y
  <2>7. EncodeVarints(more) = FlattenSeq(q) /\ EncodeVarints(values) = FlattenSeq(p)
    BY <1>2, <2>1 DEF p, q
  <2> QED BY <2>5, <2>6, <2>7 DEF more, g
<1> QED BY <1>1, <1>2, <1>3

(* A loop has values to go through. *)
LEMMA LoopExists ==
    ASSUME NEW loop, NEW data, NEW more, NEW base, NEW n \in Nat
    PROVE  \E f : IsLoop(f, loop, data, more, base, n)
<1> DEFINE Next1(k, before) == LoopStep(loop, data, more, k, before)
           good == {m \in Nat : \E f : IsLoop(f, loop, data, more, base, m)}
<1>1. 0 \in good
  <2> DEFINE f == [k \in 0..0 |-> base]
             g == [k \in 0..0 |-> IF k = 0 THEN base ELSE Next1(k, f[k - 1])]
  <2>1. \A k \in 0..0 : k = 0  OBVIOUS
  <2>2. f = g  BY <2>1
  <2>3. IsLoop(f, loop, data, more, base, 0)  BY <2>2 DEF IsLoop
  <2> QED BY <2>3
<1>2. ASSUME NEW m \in 0..n - 1, m \in good
      PROVE  m + 1 \in good
  <2>1. PICK f : IsLoop(f, loop, data, more, base, m)  BY <1>2
  <2>2. m \in Nat /\ m + 1 \in Nat  OBVIOUS
  <2>3. \A k \in 0..m : f[k] = IF k = 0 THEN base ELSE Next1(k, f[k - 1])
    BY <2>1 DEF IsLoop
  <2> HIDE DEF Next1
  <2> DEFINE g == [k \in 0..m + 1 |-> IF k = m + 1 THEN Next1(m + 1, f[m]) ELSE f[k]]
  <2>4. ASSUME NEW k \in 0..m + 1
        PROVE  g[k] = IF k = 0 THEN base ELSE Next1(k, g[k - 1])
    <3>1. CASE k = m + 1
      <4>1. k # 0 /\ k - 1 = m /\ m \in 0..m + 1 /\ m # m + 1  BY <2>2, <3>1
      <4>2. g[k] = Next1(k, f[m]) /\ g[m] = f[m]  BY <3>1, <4>1
      <4> HIDE DEF g
      <4> QED BY <4>1, <4>2
    <3>2. CASE k # m + 1
      <4>1. k \in 0..m  BY <2>2, <3>2
      <4>2. g[k] = f[k]  BY <3>2
      <4>3. k # 0 => g[k - 1] = f[k - 1]  BY <2>2, <4>1
      <4> HIDE DEF g
      <4> QED BY <2>3, <4>1, <4>2, <4>3
    <3> QED BY <3>1, <3>2
  <2>5. IsLoop(g, loop, data, more, base, m + 1)
    <3> DEFINE h == [k \in 0..m + 1 |-> IF k = 0 THEN base ELSE Next1(k, g[k - 1])]
    <3>1. g = [k \in 0..m + 1 |-> g[k]]  OBVIOUS
    <3> HIDE DEF g
    <3>2. g = h  BY <2>4, <3>1
    <3> QED BY <3>2 DEF IsLoop, Next1
  <2> HIDE DEF g
  <2> QED BY <2>2, <2>5
<1>3. n \in good
  <2> HIDE DEF good
  <2>1. 0..n \subseteq good  BY <1>1, <1>2, Induction
  <2> QED BY <2>1
<1> QED BY <1>3

LEMMA ReadsExist ==
    ASSUME NEW data, NEW from, NEW n \in Nat
    PROVE  \E f : ReadsSo(f, data, from, n)
<1> DEFINE base == [values |-> << >>, next |-> from]
<1>1. PICK f : IsLoop(f, "varints", data, 0, base, n)  BY LoopExists
<1> DEFINE h == [k \in 0..n |-> IF k = 0 THEN base ELSE NextRead(data, f[k - 1])]
<1>2. f = h  BY <1>1 DEF IsLoop, LoopStep
<1> HIDE DEF base
<1> QED BY <1>2 DEF ReadsSo, base

LEMMA SomeReads ==
    ASSUME NEW data, NEW from, NEW count \in Nat
    PROVE  \E f : VarintReads(f, data, from, count)
<1> DEFINE f == CHOOSE g : ReadsSo(g, data, from, count)
<1>1. ReadsSo(f, data, from, count)  BY ReadsExist, Zenon
<1>2. ReadVarints(data, from, count) = f[count]
  BY Zenon DEF ReadVarints, ReadsSo, NextRead, Try
<1> HIDE DEF f
<1>3. f[0] = [values |-> << >>, next |-> from]
  <2>1. 0 \in 0..count  OBVIOUS
  <2> QED BY <1>1, <2>1 DEF ReadsSo
<1>4. \A k \in 1..count : f[k] = NextRead(data, f[k - 1])
  <2> TAKE k \in 1..count
  <2>1. k \in 0..count /\ k # 0  OBVIOUS
  <2> QED BY <1>1, <2>1 DEF ReadsSo
<1>5. VarintReads(f, data, from, count)  BY <1>2, <1>3, <1>4 DEF VarintReads
<1> QED BY <1>5

-----------------------------------------------------------------------------
(* Lists of varints, there and back. *)

LEMMA NextReads ==
    ASSUME ErrIsApart, NEW data \in Seq(Byte), NEW from \in Nat, from > 0,
           NEW values \in Seq(Word), NEW v \in Word,
           IsAt(data, from + Len(EncodeVarints(values)), EncodeVarint(v))
    PROVE  NextRead(data, ReadOf(values, from + Len(EncodeVarints(values))))
               = ReadOf(Append(values, v), from + Len(EncodeVarints(Append(values, v))))
<1> DEFINE at == from + Len(EncodeVarints(values))
           before == ReadOf(values, at)
           a == EncodeVarints(values)
           b == EncodeVarint(v)
           more == Append(values, v)
<1>1. a \in Seq(Byte) /\ EncodeVarints(more) = a \o b  BY EncodedVarints
<1>2. b \in Seq(Byte) /\ Len(b) = VarintLen(v)  BY EncodedVarint
<1>3. at = from + Len(a) /\ IsAt(data, at, b) /\ before = [values |-> values, next |-> at]
  BY DEF ReadOf
<1> HIDE DEF more, at, before
<1>4. at \in Nat /\ at > 0 /\ at + VarintLen(v) = from + Len(EncodeVarints(more))
  <2> HIDE DEF a, b
  <2>1. Len(a \o b) = Len(a) + Len(b) /\ Len(a) \in Nat /\ Len(b) \in Nat
    <3>1. a \in Seq(Byte) /\ b \in Seq(Byte)  BY <1>1, <1>2
    <3> DEFINE X == Byte
    <3>2. a \in Seq(X) /\ b \in Seq(X)  BY <3>1
    <3> HIDE DEF X
    <3> QED BY <3>2
  <2> DEFINE l == Len(a)
             m == Len(b)
  <2>2. from + l \in Nat /\ from + l > 0 /\ (from + l) + m = from + (l + m)
    <3> HIDE DEF l, m
    <3>1. l \in Nat /\ m \in Nat  BY <2>1 DEF l, m
    <3> QED BY <3>1
  <2> QED BY <1>1, <1>2, <1>3, <2>1, <2>2
<1>5. ReadVarint(data, at) = [value |-> v, next |-> at + VarintLen(v)]
  BY <1>3, <1>4, ReadBack
<1> DEFINE next == at + VarintLen(v)
<1>6. next = from + Len(EncodeVarints(more))  BY <1>4
<1>7. ReadVarint(data, at) = [value |-> v, next |-> next]  BY <1>5
<1> HIDE DEF next
<1>8. before # Err /\ ReadVarint(data, at) # Err
  <2>1. [values |-> values, next |-> at] # Err /\ [value |-> v, next |-> next] # Err
    BY RecordsAreApart
  <2> QED BY <1>3, <1>7, <2>1, Zenon
<1>9. before.values = values /\ before.next = at  BY <1>3
<1> DEFINE r == ReadVarint(data, at)
<1>10. r.value = v /\ r.next = next  BY <1>7
<1>11. NextRead(data, before) = [values |-> Append(values, r.value), next |-> r.next]
  BY <1>8, <1>9, Zenon DEF NextRead
<1> QED BY <1>6, <1>10, <1>11 DEF more, at, before, ReadOf

LEMMA PartsAre ==
    ASSUME NEW values \in Seq(Word)
    PROVE  /\ Len(values) \in Nat
           /\ Part(values, 0) = << >> /\ Part(values, Len(values)) = values
           /\ \A k \in 0..Len(values) : Part(values, k) \in Seq(Word)
           /\ \A k \in 0..Len(values) - 1 :
                  /\ Part(values, k + 1) = Append(Part(values, k), values[k + 1])
                  /\ values[k + 1] \in Word
<1> DEFINE X == Word
<1>1. values \in Seq(X)  OBVIOUS
<1> HIDE DEF X
<1>2. Part(values, 0) = << >> /\ Part(values, Len(values)) = values
  BY <1>1, Fronts DEF Part
<1>3. \A k \in 0..Len(values) : Part(values, k) \in Seq(X)
  BY <1>1, Fronts DEF Part
<1>4. \A k \in 0..Len(values) - 1 :
         Part(values, k + 1) = Append(Part(values, k), values[k + 1]) /\ values[k + 1] \in X
  BY <1>1, Fronts DEF Part
<1>5. Len(values) \in Nat  OBVIOUS
<1> QED BY <1>2, <1>3, <1>4, <1>5 DEF X

LEMMA ReadsBack ==
    ASSUME ErrIsApart, NEW data \in Seq(Byte), NEW from \in Nat, from > 0,
           NEW values \in Seq(Word), IsAt(data, from, EncodeVarints(values))
    PROVE  ReadVarints(data, from, Len(values))
               = [values |-> values, next |-> from + Len(EncodeVarints(values))]
<1> DEFINE n == Len(values)
           V(k) == Part(values, k)
           F(k) == EncodeVarints(V(k))
<1>1. /\ n \in Nat /\ V(0) = << >> /\ V(n) = values
      /\ \A k \in 0..n : V(k) \in Seq(Word)
      /\ \A k \in 0..n - 1 : V(k + 1) = Append(V(k), values[k + 1]) /\ values[k + 1] \in Word
  BY PartsAre
<1> HIDE DEF n, V
<1>2. /\ F(0) = << >>
      /\ \A k \in 0..n : F(k) \in Seq(Byte)
      /\ \A k \in 0..n - 1 : F(k + 1) = F(k) \o EncodeVarint(values[k + 1])
  <2>1. F(0) = << >>  BY <1>1, EncodedVarints
  <2>2. \A k \in 0..n : F(k) \in Seq(Byte)  BY <1>1, EncodedVarints
  <2>3. ASSUME NEW k \in 0..n - 1
        PROVE  F(k + 1) = F(k) \o EncodeVarint(values[k + 1])
    <3>1. k \in 0..n  BY <1>1
    <3> QED BY <1>1, <3>1, EncodedVarints
  <2> QED BY <2>1, <2>2, <2>3
<1>3. \A k \in 0..n - 1 : EncodeVarint(values[k + 1]) \in Seq(Byte)
  BY <1>1, EncodedVarint
<1> DEFINE there == {j \in 0..n : IsAt(data, from, F(n - j))}
<1>4. 0 \in there
  <2>1. n - 0 = n /\ 0 \in 0..n  BY <1>1
  <2> QED BY <1>1, <2>1
<1> HIDE DEF F
<1>5. ASSUME NEW j \in 0..n - 1, j \in there
      PROVE  j + 1 \in there
  <2> DEFINE k == n - (j + 1)
  <2>1. k \in 0..n - 1 /\ k + 1 = n - j /\ j + 1 \in 0..n /\ k \in 0..n
    BY <1>1
  <2>2. IsAt(data, from, F(k + 1))  BY <1>5, <2>1
  <2> HIDE DEF k
  <2>3. IsAt(data, from, F(k))  BY <1>2, <1>3, <2>1, <2>2, IsAtSplits
  <2> QED BY <2>1, <2>3 DEF k
<1>6. 0..n \subseteq there
  <2> HIDE DEF there
  <2> QED BY <1>1, <1>4, <1>5, Induction
<1>7. ASSUME NEW k \in 0..n
      PROVE  IsAt(data, from, F(k))
  <2>1. n - k \in 0..n /\ n - (n - k) = k  BY <1>1
  <2>2. n - k \in there  BY <1>6, <2>1
  <2>3. IsAt(data, from, F(n - (n - k)))  BY <2>2
  <2> QED BY <2>1, <2>3
<1>13. \E f : VarintReads(f, data, from, n)  BY <1>1, SomeReads
<1>14. PICK f : VarintReads(f, data, from, n)  BY <1>13
<1>8. /\ f[0] = [values |-> << >>, next |-> from]
      /\ \A k \in 1..n : f[k] = NextRead(data, f[k - 1])
      /\ ReadVarints(data, from, n) = f[n]
  BY <1>14 DEF VarintReads
<1> DEFINE good == {k \in 0..n : f[k] = [values |-> V(k), next |-> from + Len(F(k))]}
<1>9. 0 \in good
  <2>1. Len(<< >>) = 0 /\ from + 0 = from /\ 0 \in 0..n  BY <1>1
  <2> QED BY <1>1, <1>2, <1>8, <2>1
<1>10. ASSUME NEW k \in 0..n - 1, k \in good
       PROVE  k + 1 \in good
  <2>1. k + 1 \in 1..n /\ k + 1 \in 0..n /\ (k + 1) - 1 = k /\ k \in 0..n
    BY <1>1
  <2>2. f[k + 1] = NextRead(data, f[k])  BY <1>8, <2>1
  <2>3. f[k] = [values |-> V(k), next |-> from + Len(F(k))]  BY <1>10
  <2>4. V(k) \in Seq(Word) /\ values[k + 1] \in Word /\ V(k + 1) = Append(V(k), values[k + 1])
    BY <1>1, <2>1
  <2>5. IsAt(data, from + Len(F(k)), EncodeVarint(values[k + 1]))
    <3>1. IsAt(data, from, F(k) \o EncodeVarint(values[k + 1]))
      BY <1>2, <1>7, <2>1
    <3> QED BY <1>2, <1>3, <2>1, <3>1, IsAtSplits
  <2> DEFINE x == V(k)
             v == values[k + 1]
  <2>6. /\ f[k] = ReadOf(x, from + Len(EncodeVarints(x)))
        /\ IsAt(data, from + Len(EncodeVarints(x)), EncodeVarint(v))
        /\ x \in Seq(Word) /\ v \in Word
    BY <2>3, <2>4, <2>5 DEF F, ReadOf
  <2> HIDE DEF x, v
  <2>7. f[k + 1] = ReadOf(Append(x, v), from + Len(EncodeVarints(Append(x, v))))
    BY <2>2, <2>6, NextReads
  <2>8. Append(x, v) = V(k + 1) /\ EncodeVarints(V(k + 1)) = F(k + 1)
    BY <2>4 DEF x, v, F
  <2>9. f[k + 1] = [values |-> V(k + 1), next |-> from + Len(F(k + 1))]
    BY <2>7, <2>8 DEF ReadOf
  <2> QED BY <2>1, <2>9
<1>11. n \in good
  <2> HIDE DEF good
  <2>1. 0..n \subseteq good  BY <1>1, <1>9, <1>10, Induction
  <2> QED BY <1>1, <2>1
<1>12. f[n] = [values |-> V(n), next |-> from + Len(F(n))]  BY <1>11
<1> QED BY <1>1, <1>8, <1>12 DEF n, F

LEMMA ReadsForth ==
    ASSUME ErrIsApart, NEW data \in Seq(Byte), NEW from \in Nat, from > 0,
           from <= Len(data) + 1, NEW count \in Nat, ReadVarints(data, from, count) # Err
    PROVE  \E values : IsRead(data, from, ReadVarints(data, from, count), values, count)
<1>13. PICK f : VarintReads(f, data, from, count)  BY SomeReads
<1>1. /\ f[0] = [values |-> << >>, next |-> from]
      /\ \A k \in 1..count : f[k] = NextRead(data, f[k - 1])
      /\ ReadVarints(data, from, count) = f[count]
  BY <1>13 DEF VarintReads
<1> DEFINE good == {k \in 0..count : f[k] = Err \/ \E values : IsRead(data, from, f[k], values, k)}
<1>2. 0 \in good
  <2> DEFINE none == << >>
  <2>1. none \in Seq(Word) /\ Len(none) = 0 /\ from + 0 = from /\ 0 \in 0..count
    OBVIOUS
  <2>2. EncodeVarints(none) = none /\ IsAt(data, from, none)
    BY EncodedVarints, IsAtAll
  <2>3. f[0] = [values |-> none, next |-> from + Len(EncodeVarints(none))]
    BY <1>1, <2>1, <2>2
  <2> HIDE DEF none
  <2>4. IsRead(data, from, f[0], none, 0)  BY <2>1, <2>2, <2>3 DEF IsRead
  <2> QED BY <2>1, <2>4
<1>3. ASSUME NEW k \in 0..count - 1, k \in good
      PROVE  k + 1 \in good
  <2>1. k + 1 \in 1..count /\ k + 1 \in 0..count /\ (k + 1) - 1 = k /\ k \in Nat
    OBVIOUS
  <2>2. f[k + 1] = NextRead(data, f[k])  BY <1>1, <2>1
  <2>3. CASE f[k + 1] = Err
    BY <2>1, <2>3
  <2>4. CASE f[k + 1] # Err
    <3>1. f[k] # Err  BY <2>2, <2>4 DEF NextRead
    <3>2. PICK values : IsRead(data, from, f[k], values, k)  BY <1>3, <3>1
    <3> DEFINE at == from + Len(EncodeVarints(values))
    <3>3. values \in Seq(Word) /\ Len(values) = k /\ f[k] = [values |-> values, next |-> at]
          /\ IsAt(data, from, EncodeVarints(values))
      BY <3>2 DEF IsRead
    <3>4. EncodeVarints(values) \in Seq(Byte)  BY <3>3, EncodedVarints
    <3>5. at \in Nat /\ at > 0  BY <3>4
    <3>6. ReadVarint(data, at) # Err
      <4>1. f[k].next = at  BY <3>3
      <4> HIDE DEF at
      <4> QED BY <2>2, <2>4, <4>1 DEF NextRead
    <3> HIDE DEF at
    <3>7. PICK v \in Word : IsAt(data, at, EncodeVarint(v))
      BY <3>5, <3>6, ReadForth
    <3> DEFINE more == Append(values, v)
    <3>8. f[k] = ReadOf(values, from + Len(EncodeVarints(values)))
          /\ IsAt(data, from + Len(EncodeVarints(values)), EncodeVarint(v))
      BY <3>3, <3>7 DEF at, ReadOf
    <3>9. f[k + 1] = ReadOf(more, from + Len(EncodeVarints(more)))
      BY <2>2, <3>3, <3>8, NextReads
    <3>10. f[k + 1] = [values |-> more, next |-> from + Len(EncodeVarints(more))]
      BY <3>9 DEF ReadOf
    <3>11. more \in Seq(Word) /\ Len(more) = k + 1  BY <3>3
    <3>12. IsAt(data, from, EncodeVarints(more))
      <4>1. EncodeVarint(v) \in Seq(Byte)  BY EncodedVarint
      <4>2. IsAt(data, from, EncodeVarints(values) \o EncodeVarint(v))
        BY <3>3, <3>4, <3>8, <4>1, IsAtSplits
      <4> QED BY <3>3, <4>2, EncodedVarints
    <3> HIDE DEF more
    <3>13. IsRead(data, from, f[k + 1], more, k + 1)
      BY <3>10, <3>11, <3>12 DEF IsRead
    <3> QED BY <2>1, <3>13
  <2> QED BY <2>3, <2>4
<1>4. count \in good
  <2> HIDE DEF good
  <2>1. 0..count \subseteq good  BY <1>2, <1>3, Induction
  <2> QED BY <2>1
<1> QED BY <1>1, <1>4

LEMMA EndsOfVarints ==
    ASSUME NEW values \in Seq(Word)
    PROVE  Cardinality(Ends(EncodeVarints(values))) = Len(values)
<1> DEFINE n == Len(values)
           V(k) == Part(values, k)
           good == {k \in Nat : /\ IsFiniteSet(Ends(EncodeVarints(V(k))))
                                /\ Cardinality(Ends(EncodeVarints(V(k)))) = k}
<1>1. /\ n \in Nat /\ V(0) = << >> /\ V(n) = values
      /\ \A k \in 0..n : V(k) \in Seq(Word)
      /\ \A k \in 0..n - 1 : V(k + 1) = Append(V(k), values[k + 1]) /\ values[k + 1] \in Word
  BY PartsAre
<1> HIDE DEF V, n
<1>2. 0 \in good
  <2>1. Ends(<< >>) = {}  BY DEF Ends
  <2>2. EncodeVarints(V(0)) = << >>  BY <1>1, EncodedVarints
  <2> QED BY <2>1, <2>2, FS_EmptySet
<1>3. ASSUME NEW k \in 0..n - 1, k \in good
      PROVE  k + 1 \in good
  <2> DEFINE a == EncodeVarints(V(k))
             v == values[k + 1]
             b == EncodeVarint(v)
             at == Len(a) + Len(b)
  <2>1. k \in Nat /\ k \in 0..n /\ k + 1 \in Nat  BY <1>1
  <2>2. V(k) \in Seq(Word) /\ v \in Word /\ V(k + 1) = Append(V(k), v)
    BY <1>1, <2>1
  <2>3. a \in Seq(Byte) /\ EncodeVarints(V(k + 1)) = a \o b
    BY <2>2, EncodedVarints
  <2>4. b \in Seq(Byte) /\ Len(b) \in Nat /\ Len(b) >= 1 /\ \A i \in 1..Len(b) : b[i] < More <=> i = Len(b)
    <3>1. b \in Seq(Byte) /\ Len(b) = VarintLen(v) /\ VarintLen(v) \in 1..LongestVarint
          /\ \A i \in 1..VarintLen(v) : b[i] < More <=> i = VarintLen(v)
      BY <2>2, EncodedVarint
    <3> QED BY <3>1, Longest
  <2>5. IsFiniteSet(Ends(a)) /\ Cardinality(Ends(a)) = k  BY <1>3
  <2> HIDE DEF a, b, v, good
  <2>6. Ends(a \o b) = Ends(a) \cup {at} /\ at \notin Ends(a)
    <3> DEFINE c == a \o b
    <3>1. /\ Len(a) \in Nat /\ Len(b) \in Nat /\ DOMAIN c = 1..Len(a) + Len(b) /\ DOMAIN a = 1..Len(a)
          /\ \A i \in 1..Len(a) : c[i] = a[i]
          /\ \A i \in 1..Len(b) : c[Len(a) + i] = b[i]
      BY <2>3, <2>4
    <3> HIDE DEF c
    <3>2. ASSUME NEW i \in DOMAIN c
          PROVE  c[i] < More <=> i \in Ends(a) \/ i = at
      <4>1. CASE i <= Len(a)
        <5>1. i \in 1..Len(a) /\ i # at  BY <2>4, <3>1, <4>1
        <5> QED BY <3>1, <5>1 DEF Ends
      <4>2. CASE ~ (i <= Len(a))
        <5> DEFINE j == i - Len(a)
        <5>1. j \in 1..Len(b) /\ Len(a) + j = i /\ i \notin 1..Len(a) /\ (i = at <=> j = Len(b))
          BY <2>4, <3>1, <4>2
        <5> HIDE DEF j
        <5>2. c[i] = b[j]  BY <3>1, <5>1
        <5> QED BY <2>4, <3>1, <5>1, <5>2 DEF Ends
      <4> QED BY <4>1, <4>2
    <3>3. at \in DOMAIN c /\ at \notin 1..Len(a) /\ \A i \in Ends(a) : i \in DOMAIN c
      BY <2>4, <3>1 DEF Ends
    <3>4. Ends(c) = Ends(a) \cup {at}
      <4>1. \A i : i \in Ends(c) <=> i \in DOMAIN c /\ c[i] < More
        BY DEF Ends
      <4> HIDE DEF at
      <4>2. \A i : i \in Ends(c) <=> i \in Ends(a) \/ i = at
        BY <3>2, <3>3, <4>1
      <4> QED BY <4>2
    <3>5. at \notin Ends(a)  BY <3>1, <3>3 DEF Ends
    <3> QED BY <3>4, <3>5 DEF c
  <2>7. IsFiniteSet(Ends(a) \cup {at}) /\ Cardinality(Ends(a) \cup {at}) = k + 1
    <3> HIDE DEF at
    <3> QED BY <2>5, <2>6, FS_AddElement
  <2>8. IsFiniteSet(Ends(EncodeVarints(V(k + 1)))) /\ Cardinality(Ends(EncodeVarints(V(k + 1)))) = k + 1
    BY <2>3, <2>6, <2>7
  <2> QED BY <2>1, <2>8 DEF good
<1>4. n \in good
  <2> HIDE DEF good
  <2>1. 0..n \subseteq good  BY <1>1, <1>2, <1>3, Induction
  <2> QED BY <1>1, <2>1
<1>5. Cardinality(Ends(EncodeVarints(V(n)))) = n  BY <1>4
<1> QED BY <1>1, <1>5 DEF n

LEMMA VarintsBack ==
    ASSUME ErrIsApart, NEW values \in Seq(Word)
    PROVE  DecodeVarints(EncodeVarints(values)) = values
<1> DEFINE data == EncodeVarints(values)
           read == ReadVarints(data, 1, Cardinality(Ends(data)))
<1>1. data \in Seq(Byte) /\ Cardinality(Ends(data)) = Len(values)
  BY EncodedVarints, EndsOfVarints
<1>2. IsAt(data, 1, data)
  <2> HIDE DEF data
  <2> QED BY <1>1, IsAtAll
<1>3. read = [values |-> values, next |-> 1 + Len(data)]
  <2>1. ReadVarints(data, 1, Len(values)) = [values |-> values, next |-> 1 + Len(EncodeVarints(values))]
    BY <1>1, <1>2, ReadsBack
  <2> QED BY <1>1, <2>1
<1>4. DecodeVarints(data) = IF read = Err THEN Err
                            ELSE IF read.next # Len(data) + 1 THEN Err ELSE read.values
  BY Zenon DEF DecodeVarints, Try, Ends
<1> HIDE DEF read, data
<1>5. read # Err
  <2>1. [values |-> values, next |-> 1 + Len(data)] # Err  BY RecordsAreApart
  <2> QED BY <1>3, <2>1, Zenon
<1>6. read.next = 1 + Len(data) /\ read.values = values /\ 1 + Len(data) = Len(data) + 1
  BY <1>1, <1>3
<1> QED BY <1>4, <1>5, <1>6 DEF data

LEMMA VarintsForth ==
    ASSUME ErrIsApart, NEW data \in Seq(Byte), DecodeVarints(data) # Err
    PROVE  DecodeVarints(data) \in Seq(Word) /\ EncodeVarints(DecodeVarints(data)) = data
<1> DEFINE count == Cardinality(Ends(data))
           read == ReadVarints(data, 1, count)
<1>1. DecodeVarints(data) = IF read = Err THEN Err
                            ELSE IF read.next # Len(data) + 1 THEN Err ELSE read.values
  BY Zenon DEF DecodeVarints, Try, Ends
<1>2. count \in Nat
  <2>1. Ends(data) \subseteq 1..Len(data) /\ Len(data) \in Nat  BY DEF Ends
  <2>2. IsFiniteSet(1..Len(data))  BY <2>1, FS_Interval
  <2>3. IsFiniteSet(Ends(data))  BY <2>1, <2>2, FS_Subset
  <2> QED BY <2>3, FS_CardinalityType
<1> HIDE DEF count
<1>3. 1 <= Len(data) + 1 /\ 1 \in Nat /\ 1 > 0  OBVIOUS
<1>4. read # Err /\ read.next = Len(data) + 1 /\ DecodeVarints(data) = read.values
  <2> HIDE DEF read
  <2> QED BY <1>1
<1>5. PICK values : IsRead(data, 1, read, values, count)
  BY <1>2, <1>3, <1>4, ReadsForth
<1> HIDE DEF read
<1>6. values \in Seq(Word) /\ read.values = values /\ read.next = 1 + Len(EncodeVarints(values))
      /\ IsAt(data, 1, EncodeVarints(values))
  BY <1>5 DEF IsRead
<1>7. EncodeVarints(values) \in Seq(Byte)  BY <1>6, EncodedVarints
<1>8. Len(EncodeVarints(values)) = Len(data)  BY <1>4, <1>6, <1>7
<1>9. EncodeVarints(values) = data  BY <1>6, <1>7, <1>8, IsAtAll
<1> QED BY <1>4, <1>6, <1>9

LEMMA DivModInt ==
    ASSUME NEW v \in Int, NEW u \in Nat, u > 0
    PROVE  /\ v \div u \in Int /\ v % u \in 0..u - 1
           /\ v = u * (v \div u) + (v % u)
OBVIOUS

LEMMA DeltaBytesBack ==
    ASSUME NEW data \in Seq(Byte)
    PROVE  DecodeDeltaBytes(EncodeDeltaBytes(data)) = data
<1> DEFINE n == Len(data)
           M == 2^ByteBits
           D == Differences(data)
           W == EncodeDeltaBytes(data)
           B(k) == SumOf(SubSeq(D, 1, k))
           S(k) == SumOf(SubSeq(W, 1, k))
<1>1. M \in Nat /\ M > 0 /\ Byte = 0..M - 1 /\ Byte \subseteq Int
  BY ByteIs DEF Byte
<1>2. data \in Seq(Int) /\ n \in Nat /\ DOMAIN data = 1..n /\ data = [i \in 1..n |-> data[i]]
      /\ \A i \in 1..n : data[i] \in 0..M - 1
  BY <1>1, SubsetSeq
<1>3. D \in Seq(Int) /\ Len(D) = n /\ \A i \in 1..n : B(i) = data[i]
  BY <1>2, DifferencesAre
<1>4. DOMAIN D = 1..n /\ \A i \in 1..n : D[i] \in Int  BY <1>3
<1>5. W = [i \in 1..n |-> D[i] % M]  BY <1>4 DEF EncodeDeltaBytes, Wrapped
<1> HIDE DEF M, D
<1>6. \A i \in 1..n : D[i] % M \in Int  BY <1>1, <1>4, DivModInt
<1>7. W \in Seq(Int) /\ Len(W) = n /\ DOMAIN W = 1..n
  <2> HIDE DEF W
  <2>1. IsArray(W, n, Int)  BY <1>5, <1>6 DEF IsArray
  <2> QED BY <1>2, <2>1, ArrayIs
<1>8. \A i \in 1..n : W[i] = D[i] % M  BY <1>5
<1> HIDE DEF W
<1> DEFINE good == {k \in Nat : \E z \in Int : S(k) = B(k) + M * z}
<1>9. 0 \in good
  <2>1. S(0) = 0 /\ B(0) = 0  BY <1>3, <1>7, SumEnds
  <2>2. 0 = 0 + M * 0 /\ 0 \in Int  BY <1>1
  <2> QED BY <2>1, <2>2
<1>10. ASSUME NEW k \in 0..n - 1, k \in good
       PROVE  k + 1 \in good
  <2>1. k \in Nat /\ k + 1 \in Nat /\ k + 1 \in 1..n  BY <1>2
  <2>2. S(k) \in Int /\ S(k + 1) = S(k) + W[k + 1]  BY <1>7, SumOneMore
  <2>3. B(k) \in Int /\ B(k + 1) = B(k) + D[k + 1]  BY <1>3, SumOneMore
  <2>4. PICK z \in Int : S(k) = B(k) + M * z  BY <1>10
  <2>5. W[k + 1] = D[k + 1] % M /\ D[k + 1] \in Int  BY <1>4, <1>8, <2>1
  <2> DEFINE d == D[k + 1]
             q == d \div M
             r == d % M
  <2>6. d \in Int /\ q \in Int /\ r \in Int /\ d = M * q + r
    BY <1>1, <2>5, DivModInt
  <2>7. S(k + 1) = S(k) + r /\ B(k + 1) = B(k) + d  BY <2>2, <2>3, <2>5
  <2> DEFINE s == S(k)
             b == B(k)
             s1 == S(k + 1)
             b1 == B(k + 1)
  <2>8. s \in Int /\ b \in Int /\ s = b + M * z /\ s1 = s + r /\ b1 = b + d
    BY <2>2, <2>3, <2>4, <2>7
  <2> HIDE DEF s, b, s1, b1, d, q, r
  <2>9. s1 = b1 + M * (z - q) /\ z - q \in Int
    <3> DEFINE x == M * z
               y == M * q
               w == M * (z - q)
    <3>1. w = x - y /\ x \in Int /\ y \in Int /\ z - q \in Int
      BY <1>1, <2>4, <2>6
    <3>2. s = b + x /\ d = y + r /\ s1 = s + r /\ b1 = b + d  BY <2>6, <2>8
    <3>4. b \in Int /\ r \in Int  BY <2>6, <2>8
    <3> HIDE DEF x, y, w
    <3>3. s1 = b1 + w  BY ONLY <3>1, <3>2, <3>4
    <3> QED BY <3>1, <3>3 DEF w
  <2>10. \E y \in Int : S(k + 1) = B(k + 1) + M * y  BY <2>9 DEF s1, b1
  <2> QED BY <2>1, <2>10
<1>11. 0..n \subseteq good
  <2> HIDE DEF good
  <2> QED BY <1>2, <1>9, <1>10, Induction
<1>12. ASSUME NEW k \in 1..n
       PROVE  S(k) % M = data[k]
  <2>1. k \in good  BY <1>2, <1>11
  <2>2. PICK z \in Int : S(k) = B(k) + M * z  BY <2>1
  <2> DEFINE s == S(k)
             r == data[k]
  <2>3. r \in 0..M - 1 /\ s = r + M * z  BY <1>2, <1>3, <2>2
  <2> HIDE DEF s, r
  <2>4. r \in Int /\ M * z \in Int  BY <1>1, <2>3
  <2>5. s \in Int /\ s = M * z + r  BY <2>3, <2>4
  <2>6. s % M = r  BY <1>1, <2>3, <2>5, DividesInt
  <2> QED BY <2>6 DEF s, r
<1>13. DecodeDeltaBytes(W) = [k \in 1..n |-> S(k) % M]
  BY <1>7 DEF DecodeDeltaBytes, Wrapped, M
<1>14. DecodeDeltaBytes(W) = [k \in 1..n |-> data[k]]  BY <1>12, <1>13
<1> QED BY <1>2, <1>14 DEF W

LEMMA DeltaVarintBack ==
    ASSUME ErrIsApart, NEW values \in Seq(Word)
    PROVE  IF Rises(values)
           THEN /\ EncodeDeltaVarint(values) # Err
                /\ EncodeDeltaVarint(values) \in Seq(Byte)
                /\ DecodeDeltaVarint(EncodeDeltaVarint(values)) = values
           ELSE EncodeDeltaVarint(values) = Err
<1> DEFINE deltas == EncodeDelta(Word, values)
           bytes == EncodeVarints(deltas)
<1>1. deltas # Err <=> Rises(values)  BY DeltaOfWords
<1>2. EncodeDeltaVarint(values) = IF deltas = Err THEN Err ELSE bytes
  BY Zenon DEF EncodeDeltaVarint, Try
<1>3. CASE deltas # Err
  <2>1. deltas \in Seq(Word) /\ DecodeDelta(Word, deltas) = values
    BY <1>3, WordIs, DeltaBack
  <2> HIDE DEF deltas
  <2>2. bytes \in Seq(Byte) /\ DecodeVarints(bytes) = deltas
    BY <2>1, EncodedVarints, VarintsBack
  <2> HIDE DEF bytes
  <2>3. bytes # Err  BY <2>2, SequencesAreApart
  <2>4. DecodeDeltaVarint(bytes) = DecodeDelta(Word, deltas)
    BY <1>3, <2>2, Zenon DEF DecodeDeltaVarint, Try
  <2>5. EncodeDeltaVarint(values) = bytes  BY <1>2, <1>3
  <2> QED BY <1>1, <1>3, <2>1, <2>2, <2>3, <2>4, <2>5
<1>4. CASE deltas = Err
  BY <1>1, <1>2, <1>4
<1> QED BY <1>3, <1>4

LEMMA DeltaVarintForth ==
    ASSUME ErrIsApart, NEW data \in Seq(Byte), DecodeDeltaVarint(data) # Err
    PROVE  /\ DecodeDeltaVarint(data) \in Seq(Word)
           /\ EncodeDeltaVarint(DecodeDeltaVarint(data)) = data
<1> DEFINE deltas == DecodeVarints(data)
           values == DecodeDelta(Word, deltas)
<1>1. DecodeDeltaVarint(data) = IF deltas = Err THEN Err ELSE values
  BY Zenon DEF DecodeDeltaVarint, Try
<1>2. deltas # Err /\ values # Err /\ DecodeDeltaVarint(data) = values
  <2> HIDE DEF deltas, values
  <2> QED BY <1>1
<1>3. deltas \in Seq(Word) /\ EncodeVarints(deltas) = data
  BY <1>2, VarintsForth
<1> HIDE DEF deltas
<1>4. values \in Seq(Word) /\ EncodeDelta(Word, values) = deltas
  BY <1>2, <1>3, WordIs, DeltaForth
<1> HIDE DEF values
<1>5. EncodeDeltaVarint(values) = IF deltas = Err THEN Err ELSE EncodeVarints(deltas)
  BY <1>4, Zenon DEF EncodeDeltaVarint, Try
<1> QED BY <1>2, <1>3, <1>4, <1>5

LEMMA SignedIs == Signed \subseteq Int
<1>1. WordBits - 1 \in 0..LastPower  BY Widths DEF LastPower
<1> DEFINE h == 2^(WordBits - 1)
<1>2. h \in Int  BY <1>1, PowerIs
<1>3. Signed = -h..h - 1  BY DEF Signed
<1> HIDE DEF h
<1> QED BY <1>2, <1>3

LEMMA WidthIs ==
    ASSUME NEW values \in Seq(Word)
    PROVE  /\ WidthOf(values) \in 0..WordBits
           /\ \A i \in 1..Len(values) : values[i] < 2^WidthOf(values)
<1> DEFINE T == {w \in 0..WordBits : \A i \in DOMAIN values : values[i] < 2^w}
<1>1. DOMAIN values = 1..Len(values) /\ \A i \in 1..Len(values) : values[i] \in Word
  OBVIOUS
<1>2. WordBits \in Nat /\ WordBits \in T
  <2>1. WordBits \in Nat /\ WordBits \in 0..WordBits  BY Widths
  <2>2. \A v \in Word : v < 2^WordBits  BY WordIs DEF Word
  <2> QED BY <1>1, <2>1, <2>2
<1>3. PICK m \in T : \A w \in T : m <= w
  <2>1. T \subseteq 0..WordBits  OBVIOUS
  <2> HIDE DEF T
  <2>2. T # {} /\ T \subseteq Nat  BY <1>2, <2>1
  <2> QED BY <2>2, LeastNatural
<1>4. m \in 0..WordBits /\ \A i \in DOMAIN values : values[i] < 2^m  BY <1>3
<1>5. m = 0 \/ \E i \in DOMAIN values : values[i] >= 2^(m - 1)
  <2> SUFFICES ASSUME m # 0, ~ \E i \in DOMAIN values : values[i] >= 2^(m - 1)
               PROVE  FALSE
    OBVIOUS
  <2> DEFINE k == m - 1
  <2>1. k \in 0..WordBits /\ k \in Nat /\ k < m /\ m \in Nat  BY <1>2, <1>4
  <2>2. 2^k \in Nat
    <3>1. k \in 0..LastPower  BY <2>1, Widths DEF LastPower
    <3> HIDE DEF k
    <3> QED BY <3>1, PowerIs
  <2>3. \A i \in DOMAIN values : values[i] < 2^k
    <3> TAKE i \in DOMAIN values
    <3>1. values[i] \in Nat /\ ~ (values[i] >= 2^k)  BY <1>1, WordIs
    <3> DEFINE x == values[i]
               y == 2^k
    <3>2. x \in Nat /\ y \in Nat /\ ~ (x >= y)  BY <2>2, <3>1
    <3> HIDE DEF x, y
    <3>3. x < y  BY <3>2
    <3> QED BY <3>3 DEF x, y
  <2>4. k \in T  BY <2>1, <2>3
  <2> HIDE DEF T, k
  <2>5. m <= k  BY <1>3, <2>4
  <2> QED BY <2>1, <2>5
<1>6. /\ WidthOf(values) \in 0..WordBits
      /\ \A i \in DOMAIN values : values[i] < 2^WidthOf(values)
  BY <1>4, <1>5, Zenon DEF WidthOf
<1> QED BY <1>1, <1>6

(* Varints, packed bits, differences and zigzag (encode_u64 of varint and   *)
(* bitpack, delta and zigzag of primitives) give every list of words back,  *)
(* packed bits up to the number the decoder takes; differences of words are *)
(* refused exactly when the words go down.                                  *)
THEOREM NumbersComeBack ==
    ASSUME ErrIsApart, NEW values \in Seq(Word)
    PROVE  NumbersRoundTrip(values)
<1> DEFINE h == 2^(WordBits - 1)
           signed == [i \in DOMAIN values |-> values[i] - h]
           deltas == EncodeDelta(Signed, signed)
           packed == EncodeDeltaVarint(values)
           width == WidthOf(values)
<1>1. /\ DecodeVarints(EncodeVarints(values)) = values
      /\ DecodeBitpack(EncodeBitpack(values, width), width, Len(values))
             = IF Len(values) > MaxDecodedValues THEN Err ELSE values
  <2>1. values \in Seq(Nat)  BY WordIs, SubsetSeq
  <2> QED BY <2>1, VarintsBack, WidthIs, BitpackBack
<1> HIDE DEF width
<1>2. IF IsAscending(values) THEN DecodeDeltaVarint(packed) = values ELSE packed = Err
  <2>1. IsAscending(values) <=> Rises(values)  BY DEF IsAscending, Rises
  <2> QED BY <2>1, DeltaVarintBack
<1>3. h \in Nat /\ 2^WordBits = 2 * h /\ Signed = -h..h - 1 /\ Word = 0..2 * h - 1
  <2>1. WordBits - 1 \in 0..LastPower /\ WordBits - 1 < LastPower /\ (WordBits - 1) + 1 = WordBits
    BY Widths DEF LastPower
  <2> DEFINE w == WordBits - 1
  <2>2. w \in 0..LastPower /\ w < LastPower /\ w + 1 = WordBits  BY <2>1
  <2>3. h = 2^w  OBVIOUS
  <2> HIDE DEF w, h
  <2>4. h \in Nat /\ 2^(w + 1) = 2 * h  BY <2>2, <2>3, PowerIs
  <2>5. 2^WordBits = 2 * h  BY <2>2, <2>4
  <2> QED BY <2>4, <2>5 DEF Signed, Word, h
<1> HIDE DEF h
<1>4. /\ Len(values) \in Nat /\ DOMAIN values = 1..Len(values)
      /\ \A i \in 1..Len(values) : values[i] \in Word
  OBVIOUS
<1>5. \A i \in 1..Len(values) : values[i] - h \in Signed  BY <1>3, <1>4
<1>6. IsArray(signed, Len(values), Signed)  BY <1>4, <1>5 DEF IsArray
<1>7. signed \in Seq(Signed) /\ DOMAIN signed = 1..Len(values)
  BY <1>4, <1>6, ArrayIs
<1> HIDE DEF signed
<1>8. deltas = Err \/ DecodeDelta(Signed, deltas) = signed
  BY <1>7, SignedIs, DeltaBack
<1>9. \A i \in DOMAIN signed : ZigZag(signed[i]) \in Word /\ UnZigZag(ZigZag(signed[i])) = signed[i]
  BY <1>7, ZigZagBack
<1> QED BY <1>1, <1>2, <1>8, <1>9 DEF NumbersRoundTrip, signed, h, width

LEMMA SumJoins ==
    ASSUME NEW a \in Seq(Int), NEW b \in Seq(Int)
    PROVE  SumOf(a \o b) = SumOf(a) + SumOf(b)
<1> DEFINE n == Len(b)
           G(k) == SubSeq(b, 1, k)
           good == {k \in Nat : SumOf(a \o G(k)) = SumOf(a) + SumOf(G(k))}
<1>1. G(0) = << >> /\ G(n) = b /\ n \in Nat  BY Fronts
<1>2. \A k \in 0..n : G(k) \in Seq(Int)  BY Fronts
<1>3. \A k \in 0..n - 1 : G(k + 1) = Append(G(k), b[k + 1]) /\ b[k + 1] \in Int
  BY Fronts
<1>4. SumOf(a) \in Int  BY SumUnfolds
<1> HIDE DEF n, G
<1>5. 0 \in good
  <2>1. a \o << >> = a  BY NoElements
  <2>2. SumOf(<< >>) = 0  BY SumUnfolds
  <2>3. SumOf(a) = SumOf(a) + 0  BY <1>4
  <2> QED BY <1>1, <2>1, <2>2, <2>3
<1>6. ASSUME NEW k \in 0..n - 1, k \in good
      PROVE  k + 1 \in good
  <2> DEFINE g == G(k)
             x == b[k + 1]
  <2>1. k \in Nat /\ k + 1 \in Nat /\ k \in 0..n  BY <1>1
  <2>2. g \in Seq(Int) /\ x \in Int /\ G(k + 1) = Append(g, x)
    BY <1>2, <1>3, <2>1
  <2>3. SumOf(a \o g) = SumOf(a) + SumOf(g)  BY <1>6
  <2> HIDE DEF g, x
  <2>4. a \o Append(g, x) = Append(a \o g, x) /\ a \o g \in Seq(Int)
    <3> DEFINE Y == Int
    <3>2. a \in Seq(Y) /\ g \in Seq(Y) /\ x \in Y  BY <2>2
    <3> HIDE DEF Y
    <3>1. a \o Append(g, x) = Append(a \o g, x)  BY ONLY <3>2
    <3> QED BY <2>2, <3>1
  <2>5. SumOf(Append(a \o g, x)) = SumOf(a \o g) + x
    BY <2>2, <2>4, SumUnfolds
  <2>6. SumOf(Append(g, x)) = SumOf(g) + x /\ SumOf(g) \in Int
    BY <2>2, SumUnfolds
  <2> DEFINE s == SumOf(a)
             t == SumOf(g)
  <2>7. s \in Int /\ t \in Int  BY <1>4, <2>6
  <2>8. (s + t) + x = s + (t + x)
    <3> HIDE DEF s, t
    <3> QED BY <2>2, <2>7
  <2>9. SumOf(a \o G(k + 1)) = SumOf(a) + SumOf(G(k + 1))
    BY <2>2, <2>3, <2>4, <2>5, <2>6, <2>8
  <2> QED BY <2>1, <2>9
<1>7. n \in good
  <2> HIDE DEF good
  <2>1. 0..n \subseteq good  BY <1>1, <1>5, <1>6, Induction
  <2> QED BY <1>1, <2>1
<1> QED BY <1>1, <1>7

-----------------------------------------------------------------------------
(* Run lengths. *)

LEMMA MaxRunIs == MaxRun \in Nat /\ MaxRun >= 3 /\ Byte = 0..MaxRun
<1> DEFINE M == 2^ByteBits
<1>1. M \in Nat /\ M >= 4 /\ MaxRun = M - 1 /\ Byte = 0..M - 1
  BY ByteIs DEF MaxRun, Byte
<1> HIDE DEF M
<1> QED BY <1>1

LEMMA RunLastIs ==
    ASSUME NEW data \in Seq(Byte), NEW i \in 1..Len(data)
    PROVE  IsRun(data, i, RunLast(data, i))
<1> DEFINE n == Len(data)
           R == MaxRun
           T == {j \in 1..n : IsRun(data, i, j)}
           m == Max(T)
<1>1. n \in Nat /\ i \in 1..n /\ i \in Nat /\ R \in Nat /\ R >= 3  BY MaxRunIs
<1>2. i \in T
  <2>1. i \in i..n /\ i - i < R  BY <1>1
  <2>2. \A k \in i..i : k = i  BY <1>1
  <2>3. \A k \in i..i : data[k] = data[i]  BY <2>2
  <2> QED BY <1>1, <2>1, <2>3 DEF IsRun
<1>3. m \in T /\ \A j \in T : j <= m
  <2>1. T \in SUBSET (1..n) /\ T # {}  BY <1>2
  <2> HIDE DEF T, n
  <2> QED BY <1>1, <2>1, MaxIn
<1>4. m \in 1..n /\ IsRun(data, i, m)  BY <1>3
<1>5. m \in i..n /\ m - i < R /\ \A k \in i..m : data[k] = data[i]
  BY <1>4 DEF IsRun
<1>6. m - i = R - 1 \/ m = n \/ data[m + 1] # data[i]
  <2> SUFFICES ASSUME m - i # R - 1, m # n, data[m + 1] = data[i]
               PROVE  FALSE
    OBVIOUS
  <2> HIDE DEF m
  <2>1. m + 1 \in 1..n /\ m + 1 \in i..n /\ (m + 1) - i < R  BY <1>1, <1>5
  <2>2. \A k \in i..m + 1 : data[k] = data[i]
    <3> TAKE k \in i..m + 1
    <3>1. k \in i..m \/ k = m + 1  BY <1>1, <1>5
    <3> QED BY <1>5, <3>1
  <2>3. m + 1 \in T  BY <2>1, <2>2 DEF IsRun
  <2> HIDE DEF T
  <2>4. m + 1 <= m /\ m \in Nat  BY <1>1, <1>3, <1>5, <2>3
  <2> QED BY <2>4
<1> HIDE DEF m
<1>7. \E j \in i..n : /\ j - i < R /\ \A k \in i..j : data[k] = data[i]
                      /\ j - i = R - 1 \/ j = n \/ data[j + 1] # data[i]
  BY <1>5, <1>6
<1> DEFINE l == RunLast(data, i)
<1>8. /\ l \in i..n
      /\ l - i < R /\ \A k \in i..l : data[k] = data[i]
  BY <1>7, Zenon DEF RunLast
<1> QED BY <1>8 DEF IsRun

LEMMA RunsExist ==
    ASSUME NEW data \in Seq(Byte)
    PROVE  \E f : RunsSo(f, data, 1)
<1> DEFINE n == Len(data)
           good == {m \in Nat : \E f : RunsSo(f, data, n + 1 - m)}
<1>1. n \in Nat  OBVIOUS
<1>2. 0 \in good
  <2> DEFINE f == [i \in n + 1..n + 1 |-> << >>]
             g == [i \in n + 1..n + 1 |-> RunStep(data, f, i)]
  <2>1. \A i \in n + 1..n + 1 : i > n  BY <1>1
  <2>2. \A i \in n + 1..n + 1 : RunStep(data, f, i) = << >>
    BY <2>1 DEF RunStep
  <2>3. f = g  BY <2>2
  <2>4. RunsSo(f, data, n + 1)  BY <2>3 DEF RunsSo
  <2>5. n + 1 - 0 = n + 1  BY <1>1
  <2> HIDE DEF f
  <2> QED BY <2>4, <2>5
<1>3. ASSUME NEW m \in 0..n - 1, m \in good
      PROVE  m + 1 \in good
  <2> DEFINE low == n + 1 - m
             i0 == n - m
  <2>1. /\ m \in Nat /\ m + 1 \in Nat /\ i0 \in 1..n /\ low = i0 + 1 /\ low \in Nat
        /\ n + 1 - (m + 1) = i0 /\ ~ (i0 > n) /\ i0 \in Nat
    BY <1>1
  <2>2. PICK f : RunsSo(f, data, low)  BY <1>3
  <2> HIDE DEF low, i0
  <2>3. \A i \in low..n + 1 : f[i] = RunStep(data, f, i)  BY <2>2 DEF RunsSo
  <2> DEFINE g == [i \in i0..n + 1 |-> IF i = i0 THEN RunStep(data, f, i0) ELSE f[i]]
  <2>4. ASSUME NEW i \in 1..n
        PROVE  RunLast(data, i) + 1 \in i + 1..n + 1
    <3> DEFINE l == RunLast(data, i)
    <3>1. l \in i..n  BY RunLastIs DEF IsRun
    <3> HIDE DEF l
    <3>2. l + 1 \in i + 1..n + 1  BY <1>1, <3>1
    <3> QED BY <3>2 DEF l
  <2>5. \A i \in low..n + 1 : g[i] = f[i]
    <3> TAKE i \in low..n + 1
    <3>1. i \in i0..n + 1 /\ i # i0  BY <1>1, <2>1
    <3> QED BY <3>1
  <2>6. g[i0] = RunStep(data, f, i0)
    <3>1. i0 \in i0..n + 1  BY <1>1, <2>1
    <3> QED BY <3>1
  <2>7. g = [i \in i0..n + 1 |-> g[i]]  OBVIOUS
  <2> HIDE DEF g
  <2>8. ASSUME NEW i \in i0..n + 1
        PROVE  RunStep(data, g, i) = RunStep(data, f, i)
    <3>1. CASE i > n
      BY <3>1 DEF RunStep
    <3>2. CASE ~ (i > n)
      <4>1. i \in 1..n  BY <1>1, <2>1, <3>2
      <4> DEFINE l == RunLast(data, i)
      <4>2. l + 1 \in i + 1..n + 1  BY <2>4, <4>1
      <4> HIDE DEF l
      <4>3. l + 1 \in low..n + 1  BY <1>1, <2>1, <4>1, <4>2
      <4>4. g[l + 1] = f[l + 1]  BY <2>5, <4>3
      <4> QED BY <4>4 DEF RunStep, l
    <3> QED BY <3>1, <3>2
  <2>9. ASSUME NEW i \in i0..n + 1
        PROVE  g[i] = RunStep(data, g, i)
    <3>1. i = i0 \/ i \in low..n + 1  BY <1>1, <2>1
    <3>2. g[i] = RunStep(data, f, i)  BY <2>3, <2>5, <2>6, <3>1
    <3> QED BY <2>8, <3>2
  <2>10. RunsSo(g, data, i0)
    <3> DEFINE h == [i \in i0..n + 1 |-> RunStep(data, g, i)]
    <3>1. g = h  BY <2>7, <2>9
    <3> QED BY <3>1 DEF RunsSo
  <2> QED BY <2>1, <2>10
<1>4. n \in good
  <2> HIDE DEF good
  <2>1. 0..n \subseteq good  BY <1>1, <1>2, <1>3, Induction
  <2> QED BY <1>1, <2>1
<1>5. PICK f : RunsSo(f, data, n + 1 - n)  BY <1>4
<1>6. n + 1 - n = 1  BY <1>1
<1> QED BY <1>5, <1>6

LEMMA RunsAre ==
    ASSUME NEW data \in Seq(Byte)
    PROVE  \E f : RunsSo(f, data, 1) /\ EncodeRle(data) = f[1]
<1> DEFINE f == CHOOSE g : RunsSo(g, data, 1)
<1>1. RunsSo(f, data, 1)  BY RunsExist, Zenon
<1>2. EncodeRle(data) = f[1]  BY Zenon DEF EncodeRle, RunsSo, RunStep, RunLast
<1> HIDE DEF f
<1> QED BY <1>1, <1>2

LEMMA FirstPiece ==
    ASSUME NEW X, NEW g \in Seq(X), NEW gs \in Seq(Seq(X))
    PROVE  FlattenSeq(<<g>> \o gs) = g \o FlattenSeq(gs)
<1> DEFINE Y == Seq(X)
<1>1. << >> \in Seq(Y) /\ << >> \in Seq(X) /\ Append(<< >>, g) = <<g>> /\ <<g>> \in Seq(Y)
  OBVIOUS
<1>2. FlattenSeq(<< >>) = << >> /\ FlattenSeq(Append(<< >>, g)) = FlattenSeq(<< >>) \o g
  BY <1>1, FlattenUnfolds
<1>3. << >> \o g = g  BY NoElements
<1>4. FlattenSeq(<<g>>) = g  BY <1>1, <1>2, <1>3
<1>5. FlattenSeq(<<g>> \o gs) = FlattenSeq(<<g>>) \o FlattenSeq(gs)
  BY <1>1, FlattenJoins
<1> QED BY <1>4, <1>5

LEMMA FirstTerm ==
    ASSUME NEW c \in Int, NEW s \in Seq(Int)
    PROVE  SumOf(<<c>> \o s) = c + SumOf(s)
<1>1. << >> \in Seq(Int) /\ Append(<< >>, c) = <<c>> /\ <<c>> \in Seq(Int)
  OBVIOUS
<1>2. SumOf(<<c>>) = 0 + c  BY <1>1, SumUnfolds
<1>3. 0 + c = c  OBVIOUS
<1>4. SumOf(<<c>> \o s) = SumOf(<<c>>) + SumOf(s)  BY <1>1, SumJoins
<1> QED BY <1>2, <1>3, <1>4

LEMMA RepeatedIs ==
    ASSUME NEW x \in Byte, NEW c \in Nat
    PROVE  /\ Repeated(x, c) \in Seq(Byte) /\ Len(Repeated(x, c)) = c
           /\ \A j \in 1..c : Repeated(x, c)[j] = x
<1> DEFINE p == Repeated(x, c)
<1>1. p = [j \in 1..c |-> p[j]] /\ \A j \in 1..c : p[j] = x  BY DEF Repeated
<1> HIDE DEF p
<1>2. IsArray(p, c, Byte)  BY <1>1 DEF IsArray
<1>3. p \in Seq(Byte) /\ Len(p) = c  BY <1>2, ArrayIs
<1> QED BY <1>1, <1>3 DEF p

LEMMA OneRunMore ==
    ASSUME NEW r, NEW m, NEW counts, NEW pieces, IsRuns(r, m, counts, pieces),
           NEW c \in 1..MaxRun, NEW x \in Byte
    PROVE  IsRuns(<<c, x>> \o r, m + 1, <<c>> \o counts, <<Repeated(x, c)>> \o pieces)
<1> DEFINE p == Repeated(x, c)
           Y == Seq(Byte)
           r1 == <<c, x>> \o r
           counts1 == <<c>> \o counts
           pieces1 == <<p>> \o pieces
<1>1. c \in Byte /\ c \in Int /\ c \in Nat  BY MaxRunIs
<1>2. /\ r \in Seq(Byte) /\ m \in Nat /\ Len(r) = 2 * m
      /\ counts \in Seq(Int) /\ Len(counts) = m
      /\ pieces \in Seq(Y) /\ Len(pieces) = m
  BY DEF IsRuns
<1>3. /\ \A k \in 1..m : counts[k] \in 1..MaxRun /\ counts[k] = r[2 * k - 1]
      /\ \A k \in 1..m : pieces[k] = [j \in 1..counts[k] |-> r[2 * k]]
  BY DEF IsRuns
<1>4. p \in Y  BY <1>1, RepeatedIs
<1> HIDE DEF Y, p
<1>5. r1 \in Seq(Byte) /\ Len(r1) = 2 * m + 2 /\ r1[1] = c /\ r1[2] = x
      /\ \A i \in 1..2 * m : r1[i + 2] = r[i]
  <2> DEFINE X == Byte
             l == 2 * m
  <2>1. r \in Seq(X) /\ c \in X /\ x \in X /\ Len(r) = l /\ l \in Nat
    BY <1>1, <1>2
  <2> HIDE DEF X, l
  <2>2. <<c, x>> \in Seq(X) /\ Len(<<c, x>>) = 2  BY <2>1
  <2>3. r1 \in Seq(X) /\ Len(r1) = 2 + l /\ r1[1] = c /\ r1[2] = x
    BY <2>1, <2>2
  <2>4. \A i \in 1..l : r1[2 + i] = r[i]  BY <2>1, <2>2
  <2>5. 2 + l = l + 2 /\ \A i \in 1..l : 2 + i = i + 2  BY <2>1
  <2> QED BY <2>3, <2>4, <2>5 DEF X, l
<1>6. counts1 \in Seq(Int) /\ Len(counts1) = m + 1 /\ counts1[1] = c
      /\ \A k \in 1..m : counts1[k + 1] = counts[k]
  BY <1>1, <1>2
<1>7. pieces1 \in Seq(Y) /\ Len(pieces1) = m + 1 /\ pieces1[1] = p
      /\ \A k \in 1..m : pieces1[k + 1] = pieces[k]
  <2>1. <<p>> \in Seq(Y) /\ Len(<<p>>) = 1 /\ <<p>>[1] = p  BY ONLY <1>4
  <2> DEFINE head == <<p>>
  <2>2. head \in Seq(Y) /\ Len(head) = 1 /\ head[1] = p /\ pieces \in Seq(Y)  BY <1>2, <2>1
  <2> HIDE DEF head
  <2>3. /\ head \o pieces \in Seq(Y) /\ Len(head \o pieces) = Len(head) + Len(pieces)
        /\ \A i \in 1..Len(head) : (head \o pieces)[i] = head[i]
        /\ \A i \in 1..Len(pieces) : (head \o pieces)[Len(head) + i] = pieces[i]
    BY ONLY <2>2, JoinedAt, SMTT(20)
  <2> DEFINE s == head \o pieces
  <2>4. s = pieces1  BY DEF head
  <2> HIDE DEF s, pieces1
  <2> QED BY ONLY <1>2, <2>2, <2>3, <2>4 DEF s
<1> HIDE DEF r1, counts1, pieces1
<1>8. ASSUME NEW k \in 1..m + 1
      PROVE  /\ counts1[k] \in 1..MaxRun /\ counts1[k] = r1[2 * k - 1]
             /\ pieces1[k] = [j \in 1..counts1[k] |-> r1[2 * k]]
  <2>1. CASE k = 1
    <3>1. 2 * 1 - 1 = 1 /\ 2 * 1 = 2  OBVIOUS
    <3>2. p = [j \in 1..c |-> x]  BY DEF p, Repeated
    <3> QED BY <1>5, <1>6, <1>7, <2>1, <3>1, <3>2
  <2>2. CASE k # 1
    <3> DEFINE i == k - 1
    <3>1. i \in 1..m /\ k = i + 1 /\ 2 * k - 1 = (2 * i - 1) + 2 /\ 2 * k = 2 * i + 2
          /\ 2 * i - 1 \in 1..2 * m /\ 2 * i \in 1..2 * m
      BY <1>2, <2>2
    <3> HIDE DEF i
    <3>2. counts1[k] = counts[i] /\ pieces1[k] = pieces[i]
          /\ r1[2 * k - 1] = r[2 * i - 1] /\ r1[2 * k] = r[2 * i]
      BY <1>5, <1>6, <1>7, <3>1
    <3>3. counts[i] \in 1..MaxRun /\ counts[i] = r[2 * i - 1]
          /\ pieces[i] = [j \in 1..counts[i] |-> r[2 * i]]
      BY <1>3, <3>1
    <3> QED BY <3>2, <3>3
  <2> QED BY <2>1, <2>2
<1>9. m + 1 \in Nat /\ Len(r1) = 2 * (m + 1)  BY <1>2, <1>5
<1>10. IsRuns(r1, m + 1, counts1, pieces1)
  BY <1>5, <1>6, <1>7, <1>8, <1>9 DEF IsRuns, Y
<1> QED BY <1>10 DEF r1, counts1, pieces1, p

LEMMA DecodedRuns ==
    ASSUME NEW r, NEW m, NEW counts, NEW pieces, IsRuns(r, m, counts, pieces), NEW max
    PROVE  DecodeRle(r, max) = IF SumOf(counts) > max THEN Err ELSE FlattenSeq(pieces)
<1>1. /\ m \in Nat /\ Len(r) = 2 * m
      /\ counts \in Seq(Int) /\ Len(counts) = m
      /\ pieces \in Seq(Seq(Byte)) /\ Len(pieces) = m
      /\ \A k \in 1..m : counts[k] \in 1..MaxRun /\ counts[k] = r[2 * k - 1]
      /\ \A k \in 1..m : pieces[k] = [j \in 1..counts[k] |-> r[2 * k]]
  BY DEF IsRuns
<1>2. Len(r) \div 2 = m /\ Len(r) % 2 = 0  BY <1>1
<1>3. counts = [k \in 1..m |-> r[2 * k - 1]]
  <2>1. counts = [k \in 1..m |-> counts[k]]  BY <1>1
  <2> QED BY <1>1, <2>1
<1>4. pieces = [k \in 1..m |-> [j \in 1..counts[k] |-> r[2 * k]]]
  <2>1. pieces = [k \in 1..m |-> pieces[k]]
    <3> DEFINE Y == Seq(Byte)
    <3>1. pieces \in Seq(Y)  BY <1>1
    <3> HIDE DEF Y
    <3> QED BY <1>1, <3>1
  <2> DEFINE G(k) == [j \in 1..counts[k] |-> r[2 * k]]
  <2>2. \A k \in 1..m : pieces[k] = G(k)  BY <1>1
  <2> HIDE DEF G
  <2>3. pieces = [k \in 1..m |-> G(k)]  BY <2>1, <2>2
  <2> QED BY <2>3 DEF G
<1>5. ~ (\E k \in 1..m : counts[k] = 0)  BY <1>1
<1> DEFINE runs == Len(r) \div 2
           counted == [k \in 1..runs |-> r[2 * k - 1]]
           made == [k \in 1..runs |-> [j \in 1..counted[k] |-> r[2 * k]]]
<1>6. DecodeRle(r, max)
          = IF Len(r) % 2 # 0 \/ (\E k \in 1..runs : counted[k] = 0) \/ SumOf(counted) > max
            THEN Err ELSE FlattenSeq(made)
  BY Zenon DEF DecodeRle
<1>7. runs = m  BY <1>2
<1>8. counted = counts
  <2> HIDE DEF runs
  <2> QED BY <1>3, <1>7
<1>9. made = pieces
  <2> HIDE DEF runs, counted
  <2> QED BY <1>4, <1>7, <1>8, Zenon
<1> HIDE DEF runs, counted, made
<1> QED BY <1>2, <1>5, <1>6, <1>7, <1>8, <1>9

LEMMA SameSequences ==
    ASSUME NEW X, NEW a \in Seq(X), NEW b \in Seq(X), Len(a) = Len(b),
           \A i \in 1..Len(a) : a[i] = b[i]
    PROVE  a = b
<1>1. a = [i \in 1..Len(a) |-> a[i]] /\ b = [i \in 1..Len(a) |-> b[i]]
  OBVIOUS
<1> QED BY <1>1

LEMMA RunJoins ==
    ASSUME NEW data \in Seq(Byte), NEW i \in 1..Len(data), NEW l, IsRun(data, i, l)
    PROVE  /\ l - i + 1 \in 1..MaxRun /\ l \in Nat /\ l >= i /\ l <= Len(data) /\ data[i] \in Byte
           /\ SubSeq(data, i, Len(data))
                  = Repeated(data[i], l - i + 1) \o SubSeq(data, l + 1, Len(data))
<1> DEFINE n == Len(data)
           c == l - i + 1
           x == data[i]
           p == Repeated(x, c)
           X == Byte
           a == SubSeq(data, i, n)
           b == SubSeq(data, l + 1, n)
<1>1. n \in Nat /\ i \in 1..n /\ MaxRun \in Nat /\ x \in X /\ data \in Seq(X)
  BY MaxRunIs
<1>2. l \in i..n /\ l - i < MaxRun /\ \A k \in i..l : data[k] = x
  BY DEF IsRun
<1>3. c \in 1..MaxRun /\ c \in Nat /\ l \in Nat /\ l >= i /\ l <= n
  BY <1>1, <1>2
<1>4. p \in Seq(X) /\ Len(p) = c /\ \A j \in 1..c : p[j] = x
  BY <1>1, <1>3, RepeatedIs
<1> HIDE DEF X, p, x, n
<1>5. a \in Seq(X) /\ Len(a) = n + 1 - i /\ \A j \in 1..n + 1 - i : a[j] = data[i + j - 1]
  BY <1>1 DEF n
<1>6. b \in Seq(X) /\ Len(b) = n - l /\ \A j \in 1..n - l : b[j] = data[l + j]
  BY <1>1, <1>3 DEF n
<1> HIDE DEF a, b
<1>7. Len(p \o b) = Len(a)
  <2>1. Len(p \o b) = c + (n - l)  BY <1>4, <1>6
  <2> QED BY <1>1, <1>3, <1>5, <2>1
<1>8. ASSUME NEW j \in 1..Len(a)
      PROVE  a[j] = (p \o b)[j]
  <2>1. a[j] = data[i + j - 1] /\ j \in 1..n + 1 - i  BY <1>5
  <2>2. CASE j <= c
    <3>1. i + j - 1 \in i..l /\ j \in 1..c  BY <1>1, <1>3, <2>1, <2>2
    <3>2. (p \o b)[j] = p[j]  BY <1>4, <1>6, <3>1
    <3> HIDE DEF c
    <3> QED BY <1>2, <1>4, <2>1, <3>1, <3>2
  <2>3. CASE ~ (j <= c)
    <3> DEFINE k == j - c
    <3>1. k \in 1..n - l /\ c + k = j /\ l + k = i + j - 1
      BY <1>1, <1>3, <2>1, <2>3
    <3> HIDE DEF k, c
    <3>2. (p \o b)[c + k] = b[k]  BY <1>3, <1>4, <1>6, <3>1
    <3> QED BY <1>6, <2>1, <3>1, <3>2
  <2> QED BY <2>2, <2>3
<1>9. p \o b \in Seq(X)  BY <1>4, <1>6
<1>10. a = p \o b
  <2> DEFINE d == p \o b
  <2>1. d \in Seq(X) /\ a \in Seq(X) /\ Len(d) = Len(a) /\ \A j \in 1..Len(a) : a[j] = d[j]
    BY <1>5, <1>7, <1>8, <1>9
  <2> HIDE DEF d
  <2>2. a = d  BY <2>1, SameSequences
  <2> QED BY <2>2 DEF d
<1> QED BY <1>1, <1>3, <1>10 DEF a, b, p, n, x, X

LEMMA EncodedRle ==
    ASSUME NEW data \in Seq(Byte)
    PROVE  Covers(EncodeRle(data), data, 1)
<1> DEFINE n == Len(data)
<1>1. n \in Nat  OBVIOUS
<1>2. PICK f : RunsSo(f, data, 1) /\ EncodeRle(data) = f[1]  BY RunsAre
<1>3. \A i \in 1..n + 1 : f[i] = RunStep(data, f, i)  BY <1>2 DEF RunsSo
<1> DEFINE good == {m \in 0..n : \A j \in 0..m : Covers(f[n + 1 - j], data, n + 1 - j)}
<1>4. 0 \in good
  <2> DEFINE none == << >>
  <2>1. n + 1 - 0 = n + 1 /\ n + 1 \in 1..n + 1 /\ n + 1 > n /\ n + 1 - (n + 1) = 0
    BY <1>1
  <2>2. f[n + 1] = none  BY <1>3, <2>1 DEF RunStep
  <2>3. IsRuns(none, 0, none, none)
    <3>1. none \in Seq(Byte) /\ Len(none) = 0 /\ 2 * 0 = 0 /\ none \in Seq(Int)
          /\ none \in Seq(Seq(Byte)) /\ 1..0 = {} /\ 0 \in Nat
      OBVIOUS
    <3> HIDE DEF none
    <3> QED BY <3>1 DEF IsRuns
  <2>4. SumOf(none) = 0 /\ FlattenSeq(none) = none
    BY SumUnfolds, FlattenUnfolds
  <2>5. SubSeq(data, n + 1, n) = none  BY <1>1
  <2>6. Covers(none, data, n + 1)
    <3> HIDE DEF none
    <3> QED BY <2>1, <2>3, <2>4, <2>5 DEF Covers
  <2>7. Covers(f[n + 1 - 0], data, n + 1 - 0)  BY <2>1, <2>2, <2>6
  <2>8. \A j \in 0..0 : j = 0  OBVIOUS
  <2> QED BY <1>1, <2>7, <2>8
<1>5. ASSUME NEW m \in 0..n - 1, m \in good
      PROVE  m + 1 \in good
  <2> DEFINE i == n - m
             l == RunLast(data, i)
             c == l - i + 1
             x == data[i]
             p == Repeated(x, c)
  <2>1. /\ i \in 1..n /\ i \in 1..n + 1 /\ ~ (i > n) /\ n + 1 - (m + 1) = i
        /\ m + 1 \in 0..n /\ m \in Nat /\ i \in Nat
    BY <1>1
  <2>2. IsRun(data, i, l)  BY <2>1, RunLastIs
  <2> HIDE DEF i, l
  <2>3. /\ c \in 1..MaxRun /\ l \in Nat /\ l >= i /\ l <= n /\ x \in Byte
        /\ SubSeq(data, i, n) = p \o SubSeq(data, l + 1, n)
    BY <2>1, <2>2, RunJoins
  <2>4. f[i] = <<c, x>> \o f[l + 1]  BY <1>3, <2>1 DEF RunStep, l
  <2>5. Covers(f[l + 1], data, l + 1)
    <3> DEFINE j == n - l
    <3>1. j \in 0..m /\ n + 1 - j = l + 1  BY <1>1, <2>1, <2>3 DEF i
    <3>2. Covers(f[n + 1 - j], data, n + 1 - j)
      <4> HIDE DEF j
      <4> QED BY <1>5, <3>1
    <3> QED BY <3>1, <3>2
  <2> DEFINE r == f[l + 1]
  <2>6. PICK k, counts, pieces :
            /\ IsRuns(r, k, counts, pieces)
            /\ SumOf(counts) = n + 1 - (l + 1)
            /\ FlattenSeq(pieces) = SubSeq(data, l + 1, n)
    BY <2>5 DEF Covers
  <2>7. IsRuns(<<c, x>> \o r, k + 1, <<c>> \o counts, <<p>> \o pieces)
    <3> HIDE DEF r, c, x
    <3> QED BY <2>3, <2>6, OneRunMore
  <2>8. counts \in Seq(Int) /\ pieces \in Seq(Seq(Byte))  BY <2>6 DEF IsRuns
  <2>9. c \in Nat /\ c \in Int  BY <2>3, MaxRunIs
  <2>10. SumOf(<<c>> \o counts) = n + 1 - i
    <3>1. SumOf(<<c>> \o counts) = c + SumOf(counts)
      <4> HIDE DEF c
      <4> QED BY <2>8, <2>9, FirstTerm
    <3>2. c + (n + 1 - (l + 1)) = n + 1 - i  BY <1>1, <2>1, <2>3
    <3> QED BY <2>6, <3>1, <3>2
  <2>11. FlattenSeq(<<p>> \o pieces) = SubSeq(data, i, n)
    <3>1. p \in Seq(Byte)  BY <2>3, <2>9, RepeatedIs
    <3> HIDE DEF p
    <3>2. FlattenSeq(<<p>> \o pieces) = p \o FlattenSeq(pieces)
      BY <2>8, <3>1, FirstPiece
    <3> QED BY <2>3, <2>6, <3>2
  <2>12. Covers(f[i], data, i)
    <3> DEFINE q == <<c, x>> \o r
               counts1 == <<c>> \o counts
               pieces1 == <<p>> \o pieces
    <3>1. /\ IsRuns(q, k + 1, counts1, pieces1)
          /\ SumOf(counts1) = n + 1 - i
          /\ FlattenSeq(pieces1) = SubSeq(data, i, n)
      BY <2>7, <2>10, <2>11
    <3>2. f[i] = q  BY <2>4
    <3> HIDE DEF q, counts1, pieces1
    <3>3. Covers(q, data, i)  BY <3>1 DEF Covers
    <3> QED BY <3>2, <3>3
  <2>13. \A j \in 0..m + 1 : j \in 0..m \/ j = m + 1  BY <2>1
  <2>14. \A j \in 0..m + 1 : Covers(f[n + 1 - j], data, n + 1 - j)
    <3> TAKE j \in 0..m + 1
    <3>1. CASE j \in 0..m
      BY <1>5, <3>1
    <3>2. CASE j = m + 1
      <4>1. n + 1 - j = i  BY <2>1, <3>2
      <4> QED BY <2>12, <4>1
    <3> QED BY <2>13, <3>1, <3>2
  <2> QED BY <2>1, <2>14
<1>6. n \in good
  <2> HIDE DEF good
  <2>1. 0..n \subseteq good  BY <1>1, <1>4, <1>5, Induction
  <2> QED BY <1>1, <2>1
<1>7. Covers(f[n + 1 - n], data, n + 1 - n)
  <2>1. n \in 0..n  BY <1>1
  <2> QED BY <1>6, <2>1
<1>8. n + 1 - n = 1  BY <1>1
<1> QED BY <1>2, <1>7, <1>8

LEMMA RleBack ==
    ASSUME ErrIsApart, NEW data \in Seq(Byte)
    PROVE  /\ DecodeRle(EncodeRle(data), Len(data)) = data
           /\ data # << >> => DecodeRle(EncodeRle(data), Len(data) - 1) = Err
<1> DEFINE n == Len(data)
           r == EncodeRle(data)
<1>1. PICK m, counts, pieces :
          /\ IsRuns(r, m, counts, pieces)
          /\ SumOf(counts) = n + 1 - 1
          /\ FlattenSeq(pieces) = SubSeq(data, 1, n)
  BY EncodedRle DEF Covers
<1>2. n \in Nat /\ n + 1 - 1 = n /\ ~ (n > n) /\ n > n - 1 /\ SubSeq(data, 1, n) = data
  OBVIOUS
<1> HIDE DEF n, r
<1>3. DecodeRle(r, n) = data
  <2>1. DecodeRle(r, n) = IF SumOf(counts) > n THEN Err ELSE FlattenSeq(pieces)
    BY <1>1, DecodedRuns
  <2> QED BY <1>1, <1>2, <2>1
<1>4. DecodeRle(r, n - 1) = Err
  <2>1. DecodeRle(r, n - 1) = IF SumOf(counts) > n - 1 THEN Err ELSE FlattenSeq(pieces)
    BY <1>1, DecodedRuns
  <2> QED BY <1>1, <1>2, <2>1
<1> QED BY <1>3, <1>4 DEF n, r

(* Run lengths and differences of bytes come back, a bound that is too small *)
(* is refused, and bytes that a decoder of varints, flags or packed values   *)
(* accepts are the bytes its encoder makes.                                  *)
THEOREM BytesComeBack ==
    ASSUME ErrIsApart, NEW data \in Seq(Byte)
    PROVE  BytesRoundTrip(data)
<1>1. /\ DecodeRle(EncodeRle(data), Len(data)) = data
      /\ data # << >> => DecodeRle(EncodeRle(data), Len(data) - 1) = Err
  BY RleBack
<1>2. DecodeDeltaBytes(EncodeDeltaBytes(data)) = data  BY DeltaBytesBack
<1>3. DecodeVarints(data) # Err => EncodeVarints(DecodeVarints(data)) = data
  BY VarintsForth
<1>4. DecodeDeltaVarint(data) # Err => EncodeDeltaVarint(DecodeDeltaVarint(data)) = data
  BY DeltaVarintForth
<1>5. ASSUME NEW n \in 0..Len(data) * ByteBits
      PROVE  LET flags == DecodeBitmap(data, n)
             IN  flags # Err => EncodeBitmap(flags) = data
  BY BitmapForth
<1>6. ASSUME NEW width \in 1..ByteBits, NEW count \in 0..3
      PROVE  LET values == DecodeBitpack(data, width, count)
             IN  values # Err => EncodeBitpack(values, width) = data
  <2>1. width \in Nat /\ width > 0 /\ count \in Nat  BY Widths
  <2> QED BY <2>1, BitpackForth
<1> DEFINE BitmapsForth == \A n \in 0..Len(data) * ByteBits :
               LET flags == DecodeBitmap(data, n)
               IN  flags # Err => EncodeBitmap(flags) = data
           BitpacksForth == \A width \in 1..ByteBits, count \in 0..3 :
               LET values == DecodeBitpack(data, width, count)
               IN  values # Err => EncodeBitpack(values, width) = data
<1>7. BitmapsForth /\ BitpacksForth  BY <1>5, <1>6
<1> QED BY <1>1, <1>2, <1>3, <1>4, <1>7, Zenon DEF BytesRoundTrip

-----------------------------------------------------------------------------
(* Strings behind their lengths. *)

LEMMA StringIs ==
    ASSUME NEW s \in String
    PROVE  /\ s \in Seq(Byte) /\ Len(s) \in Word /\ Len(s) \in Nat
           /\ StoredString(s) \in Seq(Byte)
           /\ StoredString(s) = EncodeVarint(Len(s)) \o s
           /\ Len(StoredString(s)) = VarintLen(Len(s)) + Len(s)
           /\ VarintLen(Len(s)) \in Nat /\ VarintLen(Len(s)) >= 1
           /\ VarintLen(Len(s)) <= LongestVarint
<1> DEFINE v == Len(s)
           a == EncodeVarint(v)
           w == VarintLen(v)
           X == Byte
<1>1. s \in Seq(X) /\ v \in Word /\ v \in Nat  BY DEF String
<1>2. a \in Seq(X) /\ Len(a) = w /\ w \in Nat /\ w >= 1 /\ w <= LongestVarint
  <2> HIDE DEF v
  <2>1. a \in Seq(X) /\ Len(a) = w /\ w \in 1..LongestVarint
    BY <1>1, EncodedVarint
  <2> HIDE DEF a, w
  <2> QED BY <2>1, Longest
<1>3. StoredString(s) = a \o s  BY DEF StoredString
<1>4. a \o s \in Seq(X) /\ Len(a \o s) = Len(a) + Len(s)
  <2> HIDE DEF a, X, v, w
  <2> QED BY <1>1, <1>2
<1> QED BY <1>1, <1>2, <1>3, <1>4

LEMMA ReadStringIs ==
    ASSUME NEW data, NEW from
    PROVE  ReadString(data, from)
               = IF ReadVarint(data, from) = Err THEN Err ELSE Taken(data, ReadVarint(data, from))
BY Zenon DEF ReadString, Taken, Try

LEMMA ReadStringBack ==
    ASSUME ErrIsApart, NEW data \in Seq(Byte), NEW from \in Nat, from > 0, NEW s \in String,
           IsAt(data, from, StoredString(s))
    PROVE  ReadString(data, from) = [value |-> s, next |-> from + Len(StoredString(s))]
<1> DEFINE v == Len(s)
           a == EncodeVarint(v)
           w == VarintLen(v)
           mid == from + w
           end == mid + v
           len == ReadVarint(data, from)
<1>1. /\ s \in Seq(Byte) /\ v \in Word /\ v \in Nat /\ w \in Nat /\ w >= 1
      /\ StoredString(s) = a \o s /\ Len(StoredString(s)) = w + v
  BY StringIs
<1>2. a \in Seq(Byte) /\ Len(a) = w  BY <1>1, EncodedVarint
<1>3. IsAt(data, from, a) /\ IsAt(data, mid, s)
  <2>1. IsAt(data, from, a \o s)  BY <1>1
  <2> HIDE DEF a, w, v
  <2>2. IsAt(data, from, a) /\ IsAt(data, from + Len(a), s)
    BY <1>1, <1>2, <2>1, IsAtSplits
  <2> QED BY <1>2, <2>2
<1>4. len = [value |-> v, next |-> mid]  BY <1>1, <1>3, ReadBack
<1>5. mid \in Nat /\ mid > 0 /\ end = from + (w + v) /\ end \in Nat
  <2> HIDE DEF v, w
  <2> QED BY <1>1
<1>6. SubSeq(data, mid, end - 1) = s
  <2> HIDE DEF mid
  <2> QED BY <1>1, <1>3, <1>5, PieceIs
<1>7. ~ (end > Len(data) + 1)
  <2>1. end <= Len(data) + 1 /\ Len(data) \in Nat  BY <1>3 DEF IsAt
  <2> HIDE DEF end
  <2> QED BY <1>5, <2>1
<1>8. len # Err
  <2>1. [value |-> v, next |-> mid] # Err  BY RecordsAreApart
  <2> QED BY <1>4, <2>1, Zenon
<1>9. len.value = v /\ len.next = mid
  <2> HIDE DEF len, v, mid
  <2> QED BY <1>4
<1>10. ReadString(data, from) = IF len = Err THEN Err ELSE Taken(data, len)
  BY ReadStringIs
<1> DEFINE whole == [value |-> SubSeq(data, mid, end - 1), next |-> end]
<1>11. ReadString(data, from) = whole
  <2> HIDE DEF len
  <2>1. ReadString(data, from) = Taken(data, len)  BY <1>8, <1>10
  <2>2. Taken(data, len) = IF mid + v > Len(data) + 1 THEN Err
                           ELSE [value |-> SubSeq(data, mid, mid + v - 1), next |-> mid + v]
    BY <1>9 DEF Taken
  <2>3. ~ (mid + v > Len(data) + 1)  BY <1>7
  <2>4. Taken(data, len) = [value |-> SubSeq(data, mid, mid + v - 1), next |-> mid + v]
    <3> HIDE DEF mid, v
    <3> QED BY <2>2, <2>3, Zenon
  <2>5. ReadString(data, from) = [value |-> SubSeq(data, mid, mid + v - 1), next |-> mid + v]
    BY <2>1, <2>4, Zenon
  <2>6. whole = [value |-> SubSeq(data, mid, mid + v - 1), next |-> mid + v]
    <3>1. end - 1 = mid + v - 1
      <4> HIDE DEF mid, v
      <4> QED BY <1>1, <1>5
    <3> QED BY <3>1
  <2> QED BY <2>5, <2>6, Zenon
<1>12. whole = [value |-> s, next |-> from + Len(StoredString(s))]
  <2>1. end = from + Len(StoredString(s))  BY <1>1, <1>5
  <2> HIDE DEF end, mid
  <2> QED BY <1>6, <2>1
<1> QED BY <1>11, <1>12

LEMMA ReadSuffixBack ==
    ASSUME ErrIsApart, NEW data \in Seq(Byte), NEW from \in Nat, from > 0,
           NEW previous \in Seq(Byte), NEW shared \in Word, shared <= Len(previous),
           NEW s \in String, IsAt(data, from, EncodeVarint(shared) \o StoredString(s))
    PROVE  ReadSuffix(data, from, previous)
               = [value |-> SubSeq(previous, 1, shared) \o s,
                  next  |-> from + Len(EncodeVarint(shared) \o StoredString(s))]
<1> DEFINE a == EncodeVarint(shared)
           b == StoredString(s)
           w == VarintLen(shared)
           mid == from + w
           first == ReadVarint(data, from)
           rest == ReadString(data, mid)
<1>1. a \in Seq(Byte) /\ Len(a) = w /\ w \in Nat
  <2>1. a \in Seq(Byte) /\ Len(a) = w /\ w \in 1..LongestVarint
    BY EncodedVarint
  <2> QED BY <2>1
<1>2. b \in Seq(Byte)  BY StringIs
<1>3. Len(b) \in Nat /\ Len(a \o b) = w + Len(b)
  <2> HIDE DEF a, b, w
  <2>1. Len(b) \in Nat /\ Len(a \o b) = Len(a) + Len(b)
    <3> DEFINE X == Byte
    <3>1. a \in Seq(X) /\ b \in Seq(X)  BY <1>1, <1>2
    <3> HIDE DEF X
    <3> QED BY <3>1
  <2> QED BY <1>1, <2>1
<1>4. IsAt(data, from, a) /\ IsAt(data, mid, b)
  <2>1. IsAt(data, from, a \o b)  OBVIOUS
  <2> HIDE DEF a, b, w
  <2>2. IsAt(data, from, a) /\ IsAt(data, from + Len(a), b)
    BY <1>1, <1>2, <2>1, IsAtSplits
  <2> QED BY <1>1, <2>2
<1>5. first = [value |-> shared, next |-> mid]  BY <1>4, ReadBack
<1>6. mid \in Nat /\ mid > 0  BY <1>1
<1>7. rest = [value |-> s, next |-> mid + Len(b)]
  <2> HIDE DEF mid
  <2> QED BY <1>4, <1>6, ReadStringBack
<1>8. first # Err /\ rest # Err
  <2>1. [value |-> shared, next |-> mid] # Err /\ [value |-> s, next |-> mid + Len(b)] # Err
    BY RecordsAreApart
  <2> QED BY <1>5, <1>7, <2>1, Zenon
<1>9. first.value = shared /\ first.next = mid
  <2> HIDE DEF first, mid
  <2> QED BY <1>5
<1>10. rest.value = s /\ rest.next = mid + Len(b)
  <2> HIDE DEF rest, mid, b
  <2> QED BY <1>7
<1> DEFINE then == ReadString(data, first.next)
<1>11. ReadSuffix(data, from, previous)
           = IF first = Err THEN Err
             ELSE IF then = Err THEN Err
             ELSE IF first.value > Len(previous) THEN Err
             ELSE [value |-> SubSeq(previous, 1, first.value) \o then.value, next |-> then.next]
  BY Zenon DEF ReadSuffix, Try
<1>12. then = rest
  <2> HIDE DEF first
  <2> QED BY <1>9
<1>13. ~ (shared > Len(previous))
  <2>1. shared \in Nat /\ Len(previous) \in Nat  BY WordIs
  <2> QED BY <2>1
<1> DEFINE whole == [value |-> SubSeq(previous, 1, shared) \o s, next |-> mid + Len(b)]
<1>14. ReadSuffix(data, from, previous) = whole
  <2> HIDE DEF first, rest, then, b, mid
  <2> QED BY <1>8, <1>9, <1>10, <1>11, <1>12, <1>13
<1>15. mid + Len(b) = from + Len(a \o b)
  <2> HIDE DEF a, b, w
  <2> QED BY <1>1, <1>3
<1> QED BY <1>14, <1>15

-----------------------------------------------------------------------------
(* Strings one after another. *)

LEMMA StringsExist ==
    ASSUME NEW codec, NEW data, NEW from, NEW n \in Nat
    PROVE  \E f : StringsSo(f, codec, data, from, n)
<1> DEFINE base == [values |-> << >>, next |-> from]
<1>1. PICK f : IsLoop(f, "strings", data, codec, base, n)  BY LoopExists
<1> DEFINE h == [k \in 0..n |-> IF k = 0 THEN base ELSE NextString(codec, data, k, f[k - 1])]
<1>2. f = h  BY <1>1 DEF IsLoop, LoopStep
<1> HIDE DEF base
<1> QED BY <1>2 DEF StringsSo, base

LEMMA SomeStringReads ==
    ASSUME NEW codec, NEW data, NEW from, NEW count \in Nat
    PROVE  \E f : StringReads(f, codec, data, from, count)
<1> DEFINE f == CHOOSE g : StringsSo(g, codec, data, from, count)
<1>1. StringsSo(f, codec, data, from, count)  BY StringsExist, Zenon
<1>2. ReadStrings(codec, data, from, count) = f[count]
  BY Zenon DEF ReadStrings, StringsSo, NextString, OneString, Try
<1> HIDE DEF f
<1>3. f[0] = [values |-> << >>, next |-> from]
  <2>1. 0 \in 0..count  OBVIOUS
  <2> QED BY <1>1, <2>1 DEF StringsSo
<1>4. \A k \in 1..count : f[k] = NextString(codec, data, k, f[k - 1])
  <2> TAKE k \in 1..count
  <2>1. k \in 0..count /\ k # 0  OBVIOUS
  <2> QED BY <1>1, <2>1 DEF StringsSo
<1>5. StringReads(f, codec, data, from, count)
  BY <1>2, <1>3, <1>4 DEF StringReads
<1> QED BY <1>5

(* Each piece is where the pieces in front of it end. *)
LEMMA PiecesInside ==
    ASSUME NEW X, NEW data \in Seq(X), NEW from \in Nat, from > 0, NEW pieces \in Seq(Seq(X)),
           IsAt(data, from, FlattenSeq(pieces))
    PROVE  /\ \A k \in 0..Len(pieces) : Len(FlattenSeq(SubSeq(pieces, 1, k))) \in Nat
           /\ \A k \in 0..Len(pieces) - 1 :
                 /\ IsAt(data, from + Len(FlattenSeq(SubSeq(pieces, 1, k))), pieces[k + 1])
                 /\ Len(FlattenSeq(SubSeq(pieces, 1, k + 1)))
                        = Len(FlattenSeq(SubSeq(pieces, 1, k))) + Len(pieces[k + 1])
<1> DEFINE n == Len(pieces)
           F(k) == FlattenSeq(SubSeq(pieces, 1, k))
<1>1. n \in Nat  OBVIOUS
<1>2. \A k \in 0..n - 1 : /\ F(k) \in Seq(X) /\ pieces[k + 1] \in Seq(X)
                          /\ F(k + 1) = F(k) \o pieces[k + 1]
  BY OneGroupMore
<1>3. F(n) = FlattenSeq(pieces)  BY NoGroups
<1>4. F(n) \in Seq(X)  BY <1>3, FlattenUnfolds
<1>5. IsAt(data, from, F(n))  BY <1>3
<1> HIDE DEF n, F
<1> DEFINE there == {j \in 0..n : IsAt(data, from, F(n - j))}
<1>6. 0 \in there
  <2>1. n - 0 = n /\ 0 \in 0..n  BY <1>1
  <2> QED BY <1>5, <2>1
<1>7. ASSUME NEW j \in 0..n - 1, j \in there
      PROVE  j + 1 \in there
  <2> DEFINE k == n - (j + 1)
  <2>1. k \in 0..n - 1 /\ k + 1 = n - j /\ j + 1 \in 0..n  BY <1>1
  <2>2. IsAt(data, from, F(k + 1))  BY <1>7, <2>1
  <2> HIDE DEF k
  <2>3. IsAt(data, from, F(k))  BY <1>2, <2>1, <2>2, IsAtSplits
  <2> QED BY <2>1, <2>3 DEF k
<1>8. 0..n \subseteq there
  <2> HIDE DEF there
  <2> QED BY <1>1, <1>6, <1>7, Induction
<1>9. ASSUME NEW k \in 0..n
      PROVE  IsAt(data, from, F(k))
  <2>1. n - k \in 0..n /\ n - (n - k) = k  BY <1>1
  <2>2. n - k \in there  BY <1>8, <2>1
  <2>3. IsAt(data, from, F(n - (n - k)))  BY <2>2
  <2> QED BY <2>1, <2>3
<1>10. ASSUME NEW k \in 0..n
       PROVE  Len(F(k)) \in Nat
  <2>1. F(k) \in Seq(X)
    <3>1. k = n \/ k \in 0..n - 1  BY <1>1
    <3> QED BY <1>2, <1>4, <3>1
  <2> DEFINE a == F(k)
  <2>2. a \in Seq(X)  BY <2>1
  <2> HIDE DEF a
  <2>3. Len(a) \in Nat  BY <2>2
  <2> QED BY <2>3 DEF a
<1>11. ASSUME NEW k \in 0..n - 1
       PROVE  /\ IsAt(data, from + Len(F(k)), pieces[k + 1])
              /\ Len(F(k + 1)) = Len(F(k)) + Len(pieces[k + 1])
  <2> DEFINE a == F(k)
             b == pieces[k + 1]
  <2>1. k + 1 \in 0..n  BY <1>1
  <2>2. a \in Seq(X) /\ b \in Seq(X) /\ F(k + 1) = a \o b  BY <1>2
  <2>3. IsAt(data, from, a \o b)  BY <1>9, <2>1, <2>2
  <2> HIDE DEF a, b
  <2>4. IsAt(data, from + Len(a), b)  BY <2>2, <2>3, IsAtSplits
  <2>5. Len(a \o b) = Len(a) + Len(b)  BY <2>2
  <2> QED BY <2>2, <2>4, <2>5 DEF a, b
<1> QED BY <1>10, <1>11 DEF n, F

LEMMA StringsBack ==
    ASSUME NEW X, NEW codec, NEW data \in Seq(X), NEW from \in Nat, from > 0,
           NEW pieces \in Seq(Seq(X)), IsAt(data, from, FlattenSeq(pieces)),
           NEW Y, NEW values \in Seq(Y), Len(values) = Len(pieces),
           Readable(codec, data, values, pieces)
    PROVE  ReadStrings(codec, data, from, Len(values))
               = [values |-> values, next |-> from + Len(FlattenSeq(pieces))]
<1> DEFINE n == Len(values)
           V(k) == SubSeq(values, 1, k)
           L(k) == Len(FlattenSeq(SubSeq(pieces, 1, k)))
<1>1. n \in Nat /\ n = Len(pieces)  OBVIOUS
<1>2. V(0) = << >> /\ V(n) = values  BY Fronts
<1>3. /\ \A k \in 0..n : L(k) \in Nat
      /\ \A k \in 0..n - 1 : /\ IsAt(data, from + L(k), pieces[k + 1])
                             /\ L(k + 1) = L(k) + Len(pieces[k + 1])
  <2> HIDE DEF n, V
  <2>1. /\ \A k \in 0..Len(pieces) : L(k) \in Nat
        /\ \A k \in 0..Len(pieces) - 1 : /\ IsAt(data, from + L(k), pieces[k + 1])
                                         /\ L(k + 1) = L(k) + Len(pieces[k + 1])
    BY ONLY data \in Seq(X), from \in Nat, from > 0, pieces \in Seq(Seq(X)),
            IsAt(data, from, FlattenSeq(pieces)), PiecesInside, Zenon
  <2> HIDE DEF L
  <2> QED BY ONLY <1>1, <2>1, Zenon
<1>4. L(0) = 0 /\ L(n) = Len(FlattenSeq(pieces))
  <2>1. FlattenSeq(SubSeq(pieces, 1, 0)) = << >> /\ SubSeq(pieces, 1, n) = pieces
    BY <1>1, NoGroups
  <2>2. Len(<< >>) = 0  OBVIOUS
  <2> QED BY <2>1, <2>2
<1>5. \E f : StringReads(f, codec, data, from, n)  BY <1>1, SomeStringReads
<1>6. PICK f : StringReads(f, codec, data, from, n)  BY <1>5
<1>7. /\ f[0] = [values |-> << >>, next |-> from]
      /\ \A k \in 1..n : f[k] = NextString(codec, data, k, f[k - 1])
      /\ ReadStrings(codec, data, from, n) = f[n]
  BY <1>6 DEF StringReads
<1>8. \A k \in 1..n, at \in Nat :
          at > 0 /\ IsAt(data, at, pieces[k]) =>
              NextString(codec, data, k, [values |-> V(k - 1), next |-> at])
                  = [values |-> V(k), next |-> at + Len(pieces[k])]
  BY DEF Readable
<1> HIDE DEF n, V, L
<1> DEFINE good == {k \in 0..n : f[k] = [values |-> V(k), next |-> from + L(k)]}
<1>9. 0 \in good
  <2>1. from + 0 = from /\ 0 \in 0..n  BY <1>1
  <2> QED BY <1>2, <1>4, <1>7, <2>1
<1>10. ASSUME NEW k \in 0..n - 1, k \in good
       PROVE  k + 1 \in good
  <2>1. k + 1 \in 1..n /\ k + 1 \in 0..n /\ (k + 1) - 1 = k /\ k \in 0..n
    BY <1>1
  <2> DEFINE at == from + L(k)
             m == Len(pieces[k + 1])
  <2>2. f[k + 1] = NextString(codec, data, k + 1, f[k])  BY <1>7, <2>1
  <2>3. f[k] = [values |-> V(k), next |-> at]  BY <1>10
  <2>4. at \in Nat /\ at > 0 /\ IsAt(data, at, pieces[k + 1])  BY <1>3, <2>1
  <2>5. at + m = from + L(k + 1)
    <3>1. L(k) \in Nat /\ L(k + 1) \in Nat /\ L(k + 1) = L(k) + m
      BY <1>3, <2>1
    <3> DEFINE l == L(k)
               j == L(k + 1)
    <3>2. l \in Nat /\ j \in Nat /\ j = l + m  BY <3>1
    <3>3. (from + l) + m = from + j
      <4>1. CASE m \in Int
        <5> HIDE DEF l, j, m
        <5> QED BY <3>2, <4>1
      <4>2. m \in Int
        <5>1. pieces[k + 1] \in Seq(X)  BY <1>1, <2>1 DEF n
        <5> DEFINE p == pieces[k + 1]
        <5> HIDE DEF p
        <5>2. Len(p) \in Nat  BY <5>1 DEF p
        <5> QED BY <5>2 DEF p
      <4> QED BY <4>1, <4>2
    <3> QED BY <3>3
  <2> HIDE DEF at, m
  <2>6. NextString(codec, data, k + 1, [values |-> V(k), next |-> at])
            = [values |-> V(k + 1), next |-> at + m]
    <3>1. NextString(codec, data, k + 1, [values |-> V((k + 1) - 1), next |-> at])
              = [values |-> V(k + 1), next |-> at + Len(pieces[k + 1])]
      BY <1>8, <2>1, <2>4
    <3> QED BY <2>1, <3>1 DEF m
  <2>7. f[k + 1] = [values |-> V(k + 1), next |-> from + L(k + 1)]
    BY <2>2, <2>3, <2>5, <2>6
  <2> QED BY <2>1, <2>7
<1>11. n \in good
  <2> HIDE DEF good
  <2>1. 0..n \subseteq good  BY <1>1, <1>9, <1>10, Induction
  <2> QED BY <1>1, <2>1
<1>12. f[n] = [values |-> V(n), next |-> from + L(n)]  BY <1>11
<1> QED BY <1>2, <1>4, <1>7, <1>12 DEF n

LEMMA OneReadable ==
    ASSUME ErrIsApart, NEW codec, NEW data, NEW Y, NEW values \in Seq(Y), NEW pieces,
           ReadsOne(codec, data, values, pieces)
    PROVE  Readable(codec, data, values, pieces)
<1> SUFFICES ASSUME NEW k \in 1..Len(values), NEW at \in Nat, at > 0, IsAt(data, at, pieces[k])
             PROVE  NextString(codec, data, k, [values |-> SubSeq(values, 1, k - 1), next |-> at])
                        = [values |-> SubSeq(values, 1, k), next |-> at + Len(pieces[k])]
  BY DEF Readable
<1> DEFINE vs == SubSeq(values, 1, k - 1)
           before == [values |-> vs, next |-> at]
           s == OneString(codec, data, k, before)
           x == values[k]
           e == at + Len(pieces[k])
<1>1. s = [value |-> x, next |-> e]  BY DEF ReadsOne
<1>2. Append(vs, x) = SubSeq(values, 1, k)
  <2> DEFINE j == k - 1
  <2>1. j \in 0..Len(values) - 1 /\ j + 1 = k  OBVIOUS
  <2> HIDE DEF j
  <2>2. SubSeq(values, 1, j + 1) = Append(SubSeq(values, 1, j), values[j + 1])
    BY <2>1, Fronts
  <2> QED BY <2>1, <2>2 DEF j
<1> HIDE DEF vs, x, e
<1>3. before # Err  BY RecordsAreApart
<1>4. s # Err
  <2>1. [value |-> x, next |-> e] # Err  BY RecordsAreApart
  <2> QED BY <1>1, <2>1, Zenon
<1>5. s.value = x /\ s.next = e
  <2> HIDE DEF s
  <2> QED BY <1>1
<1>6. before.values = vs  OBVIOUS
<1> HIDE DEF before
<1>7. NextString(codec, data, k, before) = [values |-> Append(before.values, s.value), next |-> s.next]
  BY <1>3, <1>4, Zenon DEF NextString
<1>8. NextString(codec, data, k, before) = [values |-> Append(vs, x), next |-> e]
  <2> HIDE DEF s
  <2> QED BY <1>5, <1>6, <1>7
<1> QED BY <1>2, <1>8 DEF before, vs, e

LEMMA StoredPiecesAre ==
    ASSUME NEW values \in Seq(String)
    PROVE  /\ StoredPieces(values) \in Seq(Seq(Byte))
           /\ Len(StoredPieces(values)) = Len(values)
           /\ \A i \in 1..Len(values) : /\ values[i] \in String
                                        /\ StoredPieces(values)[i] = StoredString(values[i])
           /\ StoredStrings(values) = FlattenSeq(StoredPieces(values))
           /\ StoredStrings(values) \in Seq(Byte)
<1> DEFINE p == StoredPieces(values)
           n == Len(values)
           Y == Seq(Byte)
           Z == String
<1>1. n \in Nat /\ DOMAIN values = 1..n /\ \A i \in 1..n : values[i] \in String
  <2>1. values \in Seq(Z)  OBVIOUS
  <2> HIDE DEF Z
  <2>2. n \in Nat /\ DOMAIN values = 1..n /\ \A i \in 1..n : values[i] \in Z
    BY <2>1
  <2> QED BY <2>2 DEF Z
<1>2. p = [i \in 1..n |-> p[i]] /\ \A i \in 1..n : p[i] = StoredString(values[i])
  BY <1>1 DEF StoredPieces
<1>3. \A i \in 1..n : p[i] \in Y  BY <1>1, <1>2, StringIs
<1>4. StoredStrings(values) = FlattenSeq(p)
  BY DEF StoredStrings, StoredPieces
<1> HIDE DEF p, n, Y
<1>5. IsArray(p, n, Y)  BY <1>2, <1>3 DEF IsArray
<1>6. p \in Seq(Y) /\ Len(p) = n  BY <1>1, <1>5, ArrayIs
<1>7. FlattenSeq(p) \in Seq(Byte)  BY <1>6, FlattenUnfolds DEF Y
<1> QED BY <1>1, <1>2, <1>4, <1>6, <1>7 DEF p, n, Y

LEMMA ReadStoredBack ==
    ASSUME ErrIsApart, NEW values \in Seq(String), NEW data \in Seq(Byte), NEW from \in Nat, from > 0,
           IsAt(data, from, StoredStrings(values))
    PROVE  ReadStrings("stored", data, from, Len(values))
               = [values |-> values, next |-> from + Len(StoredStrings(values))]
<1> DEFINE pieces == StoredPieces(values)
<1>1. /\ pieces \in Seq(Seq(Byte)) /\ Len(values) = Len(pieces)
      /\ \A i \in 1..Len(values) : values[i] \in String /\ pieces[i] = StoredString(values[i])
      /\ StoredStrings(values) = FlattenSeq(pieces)
  BY StoredPiecesAre
<1> HIDE DEF pieces
<1>2. ReadsOne("stored", data, values, pieces)
  <2> SUFFICES ASSUME NEW k \in 1..Len(values), NEW at \in Nat, at > 0, IsAt(data, at, pieces[k])
               PROVE  OneString("stored", data, k, [values |-> SubSeq(values, 1, k - 1), next |-> at])
                          = [value |-> values[k], next |-> at + Len(pieces[k])]
    BY DEF ReadsOne
  <2> DEFINE before == [values |-> SubSeq(values, 1, k - 1), next |-> at]
             x == values[k]
  <2>1. OneString("stored", data, k, before) = ReadString(data, at)
    <3>1. "stored" # "prefix" /\ before.next = at  OBVIOUS
    <3> HIDE DEF before
    <3> QED BY <3>1 DEF OneString
  <2>2. x \in String /\ pieces[k] = StoredString(x)  BY <1>1
  <2>3. IsAt(data, at, StoredString(x))  BY <2>2
  <2> HIDE DEF x
  <2>4. ReadString(data, at) = [value |-> x, next |-> at + Len(StoredString(x))]
    BY <2>2, <2>3, ReadStringBack
  <2> QED BY <2>1, <2>2, <2>4 DEF x
<1>3. Readable("stored", data, values, pieces)  BY <1>2, OneReadable
<1>4. IsAt(data, from, FlattenSeq(pieces))  BY <1>1
<1>5. ReadStrings("stored", data, from, Len(values))
          = [values |-> values, next |-> from + Len(FlattenSeq(pieces))]
  BY <1>1, <1>3, <1>4, StringsBack
<1> QED BY <1>1, <1>5

LEMMA AllDecoded ==
    ASSUME ErrIsApart, NEW codec, NEW data \in Seq(Byte), NEW values,
           ReadStrings(codec, data, 1, Len(values)) = [values |-> values, next |-> 1 + Len(data)]
    PROVE  DecodeAll(codec, data, Len(values)) = values
<1> DEFINE read == ReadStrings(codec, data, 1, Len(values))
<1>1. DecodeAll(codec, data, Len(values))
          = IF read = Err THEN Err ELSE IF read.next # Len(data) + 1 THEN Err ELSE read.values
  BY Zenon DEF DecodeAll, Try
<1>2. read # Err
  <2>1. [values |-> values, next |-> 1 + Len(data)] # Err  BY RecordsAreApart
  <2> QED BY <2>1, Zenon
<1>3. read = [values |-> values, next |-> 1 + Len(data)]  OBVIOUS
<1> HIDE DEF read
<1>4. read.next = 1 + Len(data) /\ read.values = values /\ 1 + Len(data) = Len(data) + 1
  BY <1>3
<1> QED BY <1>1, <1>2, <1>4

LEMMA StoredBack ==
    ASSUME ErrIsApart, NEW values \in Seq(String)
    PROVE  DecodeStored(StoredStrings(values), Len(values)) = values
<1> DEFINE data == StoredStrings(values)
<1>1. data \in Seq(Byte)  BY StoredPiecesAre
<1>2. IsAt(data, 1, data)
  <2> HIDE DEF data
  <2> QED BY <1>1, IsAtAll
<1>3. ReadStrings("stored", data, 1, Len(values)) = [values |-> values, next |-> 1 + Len(data)]
  BY <1>1, <1>2, ReadStoredBack
<1> HIDE DEF data
<1>4. DecodeAll("stored", data, Len(values)) = values
  BY <1>1, <1>3, AllDecoded
<1> QED BY <1>4 DEF DecodeStored, data

LEMMA MaxFromZero ==
    ASSUME NEW n \in Nat, NEW s \in SUBSET (0..n), s # {}
    PROVE  Max(s) \in s /\ \A y \in s : y <= Max(s)
<1> DEFINE T == {n - x : x \in s}
<1>1. T \subseteq Nat /\ T # {}
  <2>1. \A x \in s : x \in 0..n /\ n - x \in Nat  OBVIOUS
  <2>2. PICK x : x \in s  OBVIOUS
  <2> QED BY <2>1, <2>2
<1>2. PICK least \in T : \A y \in T : least <= y
  <2> HIDE DEF T
  <2> QED BY <1>1, LeastNatural
<1>3. PICK m \in s : least = n - m  BY <1>2
<1>4. \A y \in s : y <= m
  <2> SUFFICES ASSUME NEW y \in s
               PROVE  y <= m
    OBVIOUS
  <2>1. n - y \in T /\ y \in Nat /\ m \in Nat  BY <1>3
  <2>2. least <= n - y  BY <1>2, <2>1
  <2> QED BY <1>3, <2>1, <2>2
<1>5. s \in SUBSET Nat  OBVIOUS
<1> HIDE DEF T
<1> QED BY <1>4, <1>5, MaxIs

LEMMA Halves ==
    ASSUME NEW X, NEW s \in Seq(X), NEW k \in 0..Len(s)
    PROVE  /\ SubSeq(s, 1, k) \in Seq(X) /\ SubSeq(s, k + 1, Len(s)) \in Seq(X)
           /\ Len(SubSeq(s, k + 1, Len(s))) = Len(s) - k
           /\ SubSeq(s, 1, k) \o SubSeq(s, k + 1, Len(s)) = s
<1> DEFINE n == Len(s)
           a == SubSeq(s, 1, k)
           b == SubSeq(s, k + 1, n)
<1>1. n \in Nat /\ k \in 0..n  OBVIOUS
<1>2. a \in Seq(X) /\ Len(a) = k /\ \A i \in 1..k : a[i] = s[i]  OBVIOUS
<1>3. b \in Seq(X) /\ Len(b) = n - k /\ \A i \in 1..n - k : b[i] = s[k + i]
  OBVIOUS
<1> DEFINE c == a \o b
<1> HIDE DEF a, b
<1>4. c \in Seq(X) /\ Len(c) = n /\ \A i \in 1..n : c[i] = s[i]
  <2>1. c \in Seq(X) /\ Len(c) = Len(a) + Len(b)  BY ONLY <1>2, <1>3, JoinedAt, Zenon
  <2>2. ASSUME NEW i \in 1..n
        PROVE  c[i] = s[i]
    <3>1. CASE i <= k
      <4>1. i \in 1..k  BY <1>1, <3>1
      <4>2. c[i] = a[i]  BY <1>2, <1>3, <4>1
      <4> QED BY <1>2, <4>1, <4>2
    <3>2. CASE ~ (i <= k)
      <4> DEFINE j == i - k
      <4>1. j \in 1..n - k /\ k + j = i  BY <1>1, <3>2
      <4> HIDE DEF j
      <4>2. c[k + j] = b[j]  BY <1>2, <1>3, <4>1
      <4> QED BY <1>3, <4>1, <4>2
    <3> QED BY <3>1, <3>2
  <2>3. Len(a) + Len(b) = n  BY ONLY <1>1, <1>2, <1>3
  <2> QED BY <2>1, <2>2, <2>3
<1> HIDE DEF c
<1>5. c = s  BY <1>4, SameSequences
<1> QED BY <1>2, <1>3, <1>5 DEF a, b, c, n

LEMMA WordsBelow ==
    ASSUME NEW v \in Word, NEW u \in Nat, u <= v
    PROVE  u \in Word
<1> DEFINE M == 2^WordBits
<1>1. M \in Nat /\ Word = 0..M - 1  BY WordIs DEF Word
<1> HIDE DEF M
<1> QED BY <1>1

LEMMA SharedIs ==
    ASSUME NEW a \in String, NEW b \in String
    PROVE  /\ SharedPrefix(a, b) \in Word /\ SharedPrefix(a, b) \in Nat
           /\ SharedPrefix(a, b) <= Len(a) /\ SharedPrefix(a, b) <= Len(b)
           /\ SubSeq(a, 1, SharedPrefix(a, b)) = SubSeq(b, 1, SharedPrefix(a, b))
<1> DEFINE m == Min({Len(a), Len(b)})
           T == {n \in 0..m : SubSeq(a, 1, n) = SubSeq(b, 1, n)}
           k == SharedPrefix(a, b)
<1>1. a \in Seq(Byte) /\ b \in Seq(Byte) /\ Len(a) \in Nat /\ Len(b) \in Nat /\ Len(b) \in Word
  BY StringIs
<1>2. m \in Nat /\ m <= Len(a) /\ m <= Len(b)
  <2> DEFINE s == {Len(a), Len(b)}
  <2>1. s \in SUBSET Nat /\ s # {} /\ Len(a) \in s /\ Len(b) \in s  BY <1>1
  <2> HIDE DEF s
  <2>2. Min(s) \in s /\ \A y \in s : Min(s) <= y  BY <2>1, MinIn
  <2> QED BY <2>1, <2>2 DEF s
<1>3. k = Max(T)  BY DEF SharedPrefix
<1> HIDE DEF m
<1>4. T \in SUBSET (0..m) /\ 0 \in T
  <2>1. SubSeq(a, 1, 0) = << >> /\ SubSeq(b, 1, 0) = << >> /\ 0 \in 0..m
    BY <1>1, <1>2
  <2> QED BY <2>1
<1>5. Max(T) \in T
  <2> HIDE DEF T
  <2>1. T # {}  BY <1>4
  <2> QED BY <1>2, <1>4, <2>1, MaxFromZero
<1>6. k \in 0..m /\ SubSeq(a, 1, k) = SubSeq(b, 1, k)  BY <1>3, <1>5
<1> HIDE DEF k, T
<1>7. k \in Nat /\ k <= Len(a) /\ k <= Len(b)  BY <1>1, <1>2, <1>6
<1>8. k \in Word  BY <1>1, <1>7, WordsBelow
<1> QED BY <1>6, <1>7, <1>8 DEF k

-----------------------------------------------------------------------------
(* Strings behind what they share with the one before. *)

LEMMA StringsAre ==
    ASSUME NEW values \in Seq(String)
    PROVE  /\ Len(values) \in Nat /\ DOMAIN values = 1..Len(values)
           /\ \A i \in 1..Len(values) : values[i] \in String
<1> DEFINE Z == String
<1>1. values \in Seq(Z)  OBVIOUS
<1> HIDE DEF Z
<1>2. Len(values) \in Nat /\ DOMAIN values = 1..Len(values) /\ \A i \in 1..Len(values) : values[i] \in Z
  BY <1>1
<1> QED BY <1>2 DEF Z

LEMMA SuffixIs ==
    ASSUME NEW values \in Seq(String), NEW i \in 1..Len(values)
    PROVE  /\ SharedAt(values, i) \in Word /\ SharedAt(values, i) \in Nat
           /\ SuffixAt(values, i) \in String
           /\ SubSeq(values[i], 1, SharedAt(values, i)) \o SuffixAt(values, i) = values[i]
           /\ i = 1 => SharedAt(values, i) = 0
           /\ i # 1 => /\ values[i - 1] \in String
                       /\ SharedAt(values, i) <= Len(values[i - 1])
                       /\ SubSeq(values[i - 1], 1, SharedAt(values, i))
                              = SubSeq(values[i], 1, SharedAt(values, i))
           /\ PrefixPiece(values, i) \in Seq(Byte)
           /\ Len(PrefixPiece(values, i)) \in Nat /\ Len(PrefixPiece(values, i)) >= 1
<1> DEFINE h == SharedAt(values, i)
           s == values[i]
           t == SuffixAt(values, i)
           X == Byte
<1>1. s \in String /\ i \in Nat  BY StringsAre
<1>2. s \in Seq(X) /\ Len(s) \in Nat /\ Len(s) \in Word  BY <1>1, StringIs
<1>4. h \in Word /\ h \in Nat /\ h <= Len(s)
  <2>1. CASE i = 1
    <3>1. h = 0  BY <2>1 DEF SharedAt
    <3> HIDE DEF h, s
    <3> QED BY <1>2, <3>1, WordIs
  <2>2. CASE i # 1
    <3>1. i - 1 \in 1..Len(values)  BY <2>2
    <3>2. values[i - 1] \in String  BY <3>1, StringsAre
    <3>3. h = SharedPrefix(values[i - 1], s)  BY <2>2 DEF SharedAt
    <3> QED BY <1>1, <3>2, <3>3, SharedIs
  <2> QED BY <2>1, <2>2
<1>5. i = 1 => h = 0  BY DEF SharedAt
<1>6. i # 1 => /\ values[i - 1] \in String
               /\ h <= Len(values[i - 1])
               /\ SubSeq(values[i - 1], 1, h) = SubSeq(s, 1, h)
  <2> SUFFICES ASSUME i # 1
               PROVE  /\ values[i - 1] \in String
                      /\ h <= Len(values[i - 1])
                      /\ SubSeq(values[i - 1], 1, h) = SubSeq(s, 1, h)
    OBVIOUS
  <2>1. i - 1 \in 1..Len(values)  OBVIOUS
  <2>2. values[i - 1] \in String  BY <2>1, StringsAre
  <2>3. h = SharedPrefix(values[i - 1], s)  BY DEF SharedAt
  <2> QED BY <1>1, <2>2, <2>3, SharedIs
<1>7. t = SubSeq(s, h + 1, Len(s))  BY DEF SuffixAt
<1> HIDE DEF h, s, t, X
<1>8. t \in Seq(X) /\ Len(t) = Len(s) - h /\ SubSeq(s, 1, h) \o t = s
  <2>1. h \in 0..Len(s)  BY <1>2, <1>4
  <2> QED BY <1>2, <1>7, <2>1, Halves
<1>9. t \in String
  <2> DEFINE m == Len(t)
  <2>1. m \in Nat /\ m <= Len(s)  BY <1>2, <1>4, <1>8
  <2> HIDE DEF m
  <2>2. m \in Word  BY <1>2, <2>1, WordsBelow
  <2> QED BY <1>8, <2>2 DEF String, m, X
<1>10. PrefixPiece(values, i) \in Seq(Byte)
       /\ Len(PrefixPiece(values, i)) \in Nat /\ Len(PrefixPiece(values, i)) >= 1
  <2> DEFINE a == EncodeVarint(h)
             b == StoredString(t)
  <2>1. a \in Seq(X)  BY <1>4, EncodedVarint DEF X
  <2>2. b \in Seq(X) /\ Len(b) \in Nat /\ Len(b) >= 1
    <3>1. /\ b \in Seq(X) /\ Len(b) = VarintLen(Len(t)) + Len(t) /\ Len(t) \in Nat
          /\ VarintLen(Len(t)) \in Nat /\ VarintLen(Len(t)) >= 1
      BY <1>9, StringIs DEF X
    <3> DEFINE w == VarintLen(Len(t))
               l == Len(t)
    <3>2. Len(b) = w + l /\ w \in Nat /\ l \in Nat /\ w >= 1  BY <3>1
    <3> HIDE DEF w, l, b
    <3> QED BY <3>1, <3>2
  <2>3. PrefixPiece(values, i) = a \o b  BY DEF PrefixPiece, h, t
  <2> HIDE DEF a, b
  <2>4. a \o b \in Seq(X) /\ Len(a \o b) = Len(a) + Len(b) /\ Len(a) \in Nat
    BY <2>1, <2>2
  <2> QED BY <2>2, <2>3, <2>4 DEF X
<1> QED BY <1>4, <1>5, <1>6, <1>8, <1>9, <1>10 DEF h, s, t

LEMMA PrefixPiecesAre ==
    ASSUME NEW values \in Seq(String)
    PROVE  /\ PrefixPieces(values) \in Seq(Seq(Byte))
           /\ Len(PrefixPieces(values)) = Len(values)
           /\ \A i \in 1..Len(values) : PrefixPieces(values)[i] = PrefixPiece(values, i)
           /\ EncodePrefix(values) = FlattenSeq(PrefixPieces(values))
           /\ EncodePrefix(values) \in Seq(Byte)
<1> DEFINE p == PrefixPieces(values)
           n == Len(values)
           Y == Seq(Byte)
<1>1. n \in Nat /\ DOMAIN values = 1..n  BY StringsAre
<1>2. p = [i \in 1..n |-> p[i]] /\ \A i \in 1..n : p[i] = PrefixPiece(values, i)
  BY <1>1 DEF PrefixPieces
<1>3. \A i \in 1..n : p[i] \in Y  BY <1>2, SuffixIs
<1>4. EncodePrefix(values) = FlattenSeq(p)
  BY Zenon DEF EncodePrefix, PrefixPieces, PrefixPiece, SharedAt, SuffixAt
<1> HIDE DEF p, n, Y
<1>5. IsArray(p, n, Y)  BY <1>2, <1>3 DEF IsArray
<1>6. p \in Seq(Y) /\ Len(p) = n  BY <1>1, <1>5, ArrayIs
<1>7. FlattenSeq(p) \in Seq(Byte)  BY <1>6, FlattenUnfolds DEF Y
<1> QED BY <1>2, <1>4, <1>6, <1>7 DEF p, n, Y

LEMMA PrefixReads ==
    ASSUME ErrIsApart, NEW values \in Seq(String), NEW data \in Seq(Byte)
    PROVE  ReadsOne("prefix", data, values, PrefixPieces(values))
<1> DEFINE pieces == PrefixPieces(values)
<1> SUFFICES ASSUME NEW k \in 1..Len(values), NEW at \in Nat, at > 0, IsAt(data, at, pieces[k])
             PROVE  OneString("prefix", data, k, [values |-> SubSeq(values, 1, k - 1), next |-> at])
                        = [value |-> values[k], next |-> at + Len(pieces[k])]
  BY DEF ReadsOne
<1> DEFINE vs == SubSeq(values, 1, k - 1)
           before == [values |-> vs, next |-> at]
           previous == IF k = 1 THEN << >> ELSE Last(vs)
           h == SharedAt(values, k)
           t == SuffixAt(values, k)
           piece == PrefixPiece(values, k)
<1>1. pieces[k] = piece /\ piece = EncodeVarint(h) \o StoredString(t)
  BY PrefixPiecesAre DEF PrefixPiece
<1>2. h \in Word /\ h \in Nat /\ t \in String /\ SubSeq(values[k], 1, h) \o t = values[k]
  BY SuffixIs
<1>3. previous = IF k = 1 THEN << >> ELSE values[k - 1]
  <2>1. CASE k = 1
    BY <2>1
  <2>2. CASE k # 1
    <3> DEFINE Z == String
               j == k - 1
    <3>1. values \in Seq(Z) /\ j \in 1..Len(values) /\ j \in Nat  BY <2>2
    <3> HIDE DEF Z, j
    <3>2. Len(SubSeq(values, 1, j)) = j /\ SubSeq(values, 1, j)[j] = values[j]
      BY <3>1
    <3>3. Last(SubSeq(values, 1, j)) = values[j]  BY <3>2 DEF Last
    <3> QED BY <2>2, <3>3 DEF j
  <2> QED BY <2>1, <2>2
<1>4. previous \in Seq(Byte) /\ h <= Len(previous) /\ SubSeq(previous, 1, h) = SubSeq(values[k], 1, h)
  <2>1. CASE k = 1
    <3>1. h = 0 /\ previous = << >>  BY <2>1, SuffixIs
    <3>2. SubSeq(values[k], 1, 0) = << >>
      <4>1. values[k] \in String  BY StringsAre
      <4> DEFINE s == values[k]
      <4>2. s \in Seq(Byte)  BY <4>1, StringIs
      <4> HIDE DEF s
      <4> QED BY <4>2, Fronts DEF s
    <3>3. SubSeq(<< >>, 1, 0) = << >> /\ << >> \in Seq(Byte) /\ 0 <= Len(<< >>)
      OBVIOUS
    <3> QED BY <3>1, <3>2, <3>3
  <2>2. CASE k # 1
    <3> DEFINE s == values[k - 1]
    <3>1. previous = s  BY <1>3, <2>2
    <3>2. s \in String /\ h <= Len(s) /\ SubSeq(s, 1, h) = SubSeq(values[k], 1, h)
      BY <2>2, SuffixIs
    <3> HIDE DEF s, previous, h
    <3>3. s \in Seq(Byte)  BY <3>2, StringIs
    <3> QED BY <3>1, <3>2, <3>3
  <2> QED BY <2>1, <2>2
<1>5. OneString("prefix", data, k, before) = ReadSuffix(data, at, previous)
  <2>1. before.next = at /\ before.values = vs  OBVIOUS
  <2>2. previous = IF k = 1 THEN << >> ELSE Last(before.values)  BY <2>1
  <2> HIDE DEF before, previous
  <2> QED BY <2>1, <2>2 DEF OneString
<1>6. IsAt(data, at, EncodeVarint(h) \o StoredString(t))  BY <1>1
<1> HIDE DEF previous, h, t, piece, pieces, before
<1>7. ReadSuffix(data, at, previous)
          = [value |-> SubSeq(previous, 1, h) \o t,
             next  |-> at + Len(EncodeVarint(h) \o StoredString(t))]
  BY <1>2, <1>4, <1>6, ReadSuffixBack
<1>8. ReadSuffix(data, at, previous) = [value |-> values[k], next |-> at + Len(pieces[k])]
  BY <1>1, <1>2, <1>4, <1>7
<1> QED BY <1>5, <1>8 DEF before

LEMMA PrefixBack ==
    ASSUME ErrIsApart, NEW values \in Seq(String)
    PROVE  DecodePrefix(EncodePrefix(values), Len(values)) = values
<1> DEFINE data == EncodePrefix(values)
           pieces == PrefixPieces(values)
<1>1. /\ pieces \in Seq(Seq(Byte)) /\ Len(values) = Len(pieces)
      /\ data = FlattenSeq(pieces) /\ data \in Seq(Byte)
  BY PrefixPiecesAre
<1>2. ReadsOne("prefix", data, values, pieces)
  <2> HIDE DEF data
  <2> QED BY <1>1, PrefixReads
<1> HIDE DEF pieces, data
<1>3. Readable("prefix", data, values, pieces)  BY <1>2, OneReadable
<1>4. IsAt(data, 1, FlattenSeq(pieces))
  <2>1. IsAt(data, 1, data)  BY <1>1, IsAtAll
  <2> QED BY <1>1, <2>1
<1>5. ReadStrings("prefix", data, 1, Len(values))
          = [values |-> values, next |-> 1 + Len(FlattenSeq(pieces))]
  <2>1. 1 \in Nat /\ 1 > 0  OBVIOUS
  <2> QED BY <1>1, <1>3, <1>4, <2>1, StringsBack
<1>6. ReadStrings("prefix", data, 1, Len(values)) = [values |-> values, next |-> 1 + Len(data)]
  BY <1>1, <1>5
<1>7. DecodeAll("prefix", data, Len(values)) = values
  BY <1>1, <1>6, AllDecoded
<1> QED BY <1>7 DEF DecodePrefix, data

-----------------------------------------------------------------------------
(* Dictionaries. *)

LEMMA DictionaryTable ==
    ASSUME NEW X, NEW values \in Seq(X), NEW n \in Nat, Len(values) = n
    PROVE  \E t : /\ t[0] = << >>
                  /\ \A k \in 1..n : t[k] = Added(t[k - 1], values[k])
                  /\ DictionaryOf(values) = t[n]
<1> DEFINE Solves(f) == f = [s \in SUBSET (1..n) |->
               IF s = {} THEN << >> ELSE Added(f[s \ {Max(s)}], values[Max(s)])]
           iter == CHOOSE f : Solves(f)
<1>1. DOMAIN values = 1..n  OBVIOUS
<1>2. \A f : Solves(f) <=> IsFold(f, "dictionary", << >>, values, n)  BY DEF IsFold, FoldStep
<1>3. \E f : Solves(f)  BY <1>2, FoldExists
<1>4. Solves(iter)  BY <1>3, Zenon
<1>5. DictionaryOf(values) = iter[1..n]
  BY <1>1, Zenon DEF DictionaryOf, Added, FoldLeft, MapThenFoldSet
<1> HIDE DEF Solves, iter
<1>6. PICK t : FoldSteps(t, "dictionary", << >>, values, n) /\ t[n] = iter[1..n]
  BY <1>2, <1>4, FoldRuns
<1> QED BY <1>5, <1>6 DEF FoldSteps, FoldStep

LEMMA AddedIs ==
    ASSUME NEW X, NEW values \in Seq(X), NEW k \in 0..Len(values) - 1,
           NEW d, IsDictionary(d, X, values, k)
    PROVE  IsDictionary(Added(d, values[k + 1]), X, values, k + 1)
<1> DEFINE v == values[k + 1]
           n == Len(d)
           seen == {values[i] : i \in 1..k}
           now == {values[i] : i \in 1..k + 1}
<1>1. k \in Nat /\ v \in X  OBVIOUS
<1>2. /\ d \in Seq(X) /\ n <= k /\ n \in Nat
      /\ \A i, j \in 1..n : d[i] = d[j] => i = j
      /\ Range(d) = seen
      /\ IsFiniteSet(Range(d)) /\ Cardinality(Range(d)) = n
  BY DEF IsDictionary
<1>3. now = seen \cup {v}
  <2>1. 1..k + 1 = (1..k) \cup {k + 1}  BY <1>1
  <2> QED BY <2>1
<1>4. CASE v \in Range(d)
  <2>1. now = Range(d)  BY <1>2, <1>3, <1>4
  <2>2. n <= k + 1  BY <1>1, <1>2
  <2> HIDE DEF v
  <2>3. Added(d, v) = d  BY <1>4 DEF Added
  <2>4. IsDictionary(d, X, values, k + 1)
    BY <1>2, <2>1, <2>2 DEF IsDictionary
  <2> QED BY <2>3, <2>4 DEF v
<1>5. CASE v \notin Range(d)
  <2> DEFINE e == Append(d, v)
  <2> HIDE DEF v, n, seen, now
  <2>1. e \in Seq(X) /\ Len(e) = n + 1 /\ e[n + 1] = v /\ (\A i \in 1..n : e[i] = d[i])
        /\ DOMAIN e = 1..n + 1 /\ DOMAIN d = 1..n
    BY <1>1, <1>2 DEF n
  <2>2. Added(d, v) = e  BY <1>5 DEF Added
  <2> HIDE DEF e
  <2>3. \A i \in 1..n : d[i] \in Range(d) /\ d[i] # v  BY <1>5, <2>1 DEF Range
  <2>4. Range(e) = Range(d) \cup {v}
    <3>1. Range(e) = {e[i] : i \in 1..n + 1} /\ Range(d) = {d[i] : i \in 1..n}
      BY <2>1 DEF Range
    <3>2. 1..n + 1 = (1..n) \cup {n + 1}  BY <1>2
    <3> QED BY <2>1, <3>1, <3>2
  <2>5. \A i, j \in 1..n + 1 : e[i] = e[j] => i = j
    <3> SUFFICES ASSUME NEW i \in 1..n + 1, NEW j \in 1..n + 1, e[i] = e[j]
                 PROVE  i = j
      OBVIOUS
    <3>1. (i \in 1..n \/ i = n + 1) /\ (j \in 1..n \/ j = n + 1)  BY <1>2
    <3> QED BY <1>2, <2>1, <2>3, <3>1
  <2>6. IsFiniteSet(Range(e)) /\ Cardinality(Range(e)) = n + 1
    BY <1>2, <1>5, <2>4, FS_AddElement
  <2>7. Range(e) = now  BY <1>2, <1>3, <2>4
  <2>8. n + 1 <= k + 1  BY <1>1, <1>2
  <2>9. IsDictionary(e, X, values, k + 1)
    BY <2>1, <2>5, <2>6, <2>7, <2>8 DEF IsDictionary, now
  <2> QED BY <2>2, <2>9 DEF v
<1> QED BY <1>4, <1>5

LEMMA DictionaryIs ==
    ASSUME NEW X, NEW values \in Seq(X)
    PROVE  /\ IsDictionary(DictionaryOf(values), X, values, Len(values))
           /\ Range(DictionaryOf(values)) = Range(values)
<1> DEFINE n == Len(values)
<1>1. n \in Nat /\ DOMAIN values = 1..n  OBVIOUS
<1>2. PICK t : /\ t[0] = << >>
               /\ \A k \in 1..n : t[k] = Added(t[k - 1], values[k])
               /\ DictionaryOf(values) = t[n]
  BY <1>1, DictionaryTable
<1> DEFINE good == {k \in 0..n : IsDictionary(t[k], X, values, k)}
<1>3. 0 \in good
  <2> DEFINE none == << >>
  <2>1. none \in Seq(X) /\ Len(none) = 0 /\ Range(none) = {} /\ 1..0 = {} /\ 0 \in 0..n
    BY <1>1 DEF Range
  <2>2. IsFiniteSet({}) /\ Cardinality({}) = 0  BY FS_EmptySet
  <2>3. {values[i] : i \in 1..0} = {}  BY <2>1
  <2> HIDE DEF none
  <2>4. IsDictionary(none, X, values, 0)  BY <2>1, <2>2, <2>3 DEF IsDictionary
  <2> QED BY <1>2, <2>1, <2>4 DEF none
<1>4. ASSUME NEW k \in 0..n - 1, k \in good
      PROVE  k + 1 \in good
  <2>1. k + 1 \in 1..n /\ k + 1 \in 0..n /\ (k + 1) - 1 = k  BY <1>1
  <2>2. t[k + 1] = Added(t[k], values[k + 1])  BY <1>2, <2>1
  <2> DEFINE d == t[k]
  <2>3. IsDictionary(d, X, values, k)  BY <1>4
  <2> HIDE DEF d
  <2>4. IsDictionary(Added(d, values[k + 1]), X, values, k + 1)
    BY <2>3, AddedIs
  <2> QED BY <2>1, <2>2, <2>4 DEF d
<1>5. n \in good
  <2> HIDE DEF good
  <2>1. 0..n \subseteq good  BY <1>1, <1>3, <1>4, Induction
  <2> QED BY <1>1, <2>1
<1>6. IsDictionary(t[n], X, values, n)  BY <1>5
<1>7. Range(t[n]) = Range(values)  BY <1>1, <1>6 DEF IsDictionary, Range
<1> QED BY <1>2, <1>6, <1>7

LEMMA EncodedDictionary ==
    ASSUME NEW values
    PROVE  EncodeDictionary(values)
               = IF Len(DictionaryOf(values)) > MaxDictionary THEN Err
                 ELSE DictionaryBytes(values, DictionaryOf(values))
BY Zenon DEF EncodeDictionary, DictionaryBytes, DictionaryIds

LEMMA DictionaryIdsAre ==
    ASSUME NEW X, NEW values \in Seq(X), NEW d \in Seq(X), Range(d) = Range(values), Len(d) \in Word
    PROVE  /\ DictionaryIds(values, d) \in Seq(Word)
           /\ Len(DictionaryIds(values, d)) = Len(values)
           /\ DOMAIN DictionaryIds(values, d) = 1..Len(values)
           /\ \A i \in 1..Len(values) : /\ DictionaryIds(values, d)[i] \in Nat
                                        /\ DictionaryIds(values, d)[i] < Len(d)
                                        /\ d[DictionaryIds(values, d)[i] + 1] = values[i]
<1> DEFINE n == Len(values)
           m == Len(d)
           ids == DictionaryIds(values, d)
           Id(i) == CHOOSE j \in DOMAIN d : d[j] = values[i]
<1>1. n \in Nat /\ m \in Nat /\ DOMAIN values = 1..n /\ DOMAIN d = 1..m
  OBVIOUS
<1>2. ids = [i \in 1..n |-> Id(i) - 1]  BY <1>1 DEF DictionaryIds
<1>3. ASSUME NEW i \in 1..n
      PROVE  Id(i) \in 1..m /\ d[Id(i)] = values[i]
  <2>1. values[i] \in Range(d)  BY <1>1 DEF Range
  <2>2. \E j \in DOMAIN d : d[j] = values[i]  BY <2>1 DEF Range
  <2>3. Id(i) \in DOMAIN d /\ d[Id(i)] = values[i]  BY <2>2, Zenon
  <2> QED BY <1>1, <2>3
<1> HIDE DEF ids, Id, n, m
<1>4. ASSUME NEW i \in 1..n
      PROVE  ids[i] \in Nat /\ ids[i] < m /\ d[ids[i] + 1] = values[i] /\ ids[i] \in Word
  <2> DEFINE j == Id(i)
  <2>1. j \in 1..m /\ d[j] = values[i] /\ ids[i] = j - 1  BY <1>2, <1>3
  <2> HIDE DEF j
  <2>2. j - 1 \in Nat /\ j - 1 < m /\ (j - 1) + 1 = j /\ j - 1 <= m
    BY <1>1, <2>1
  <2>3. j - 1 \in Word  BY <2>2, WordsBelow DEF m
  <2> QED BY <2>1, <2>2, <2>3
<1>5. IsArray(ids, n, Word)  BY <1>2, <1>4 DEF IsArray
<1>6. ids \in Seq(Word) /\ Len(ids) = n /\ DOMAIN ids = 1..n
  BY <1>1, <1>5, ArrayIs
<1> QED BY <1>4, <1>6 DEF ids, n, m

LEMMA DecodedDictionary ==
    ASSUME NEW data, NEW count
    PROVE  DecodeDictionary(data, count) = DecodedSize(ReadVarint(data, 1), data, count)
BY Zenon DEF DecodeDictionary, DecodedSize, DecodedWords, DecodedIds, Try

LEMMA JoinIs ==
    ASSUME NEW X, NEW a \in Seq(X), NEW b \in Seq(X)
    PROVE  /\ Len(a) \in Nat /\ Len(b) \in Nat
           /\ a \o b \in Seq(X) /\ Len(a \o b) = Len(a) + Len(b)
OBVIOUS

LEMMA DictionaryBytesBack ==
    ASSUME ErrIsApart, NEW values \in Seq(String), NEW d \in Seq(String), Range(d) = Range(values),
           Len(d) <= MaxDictionary
    PROVE  /\ DictionaryBytes(values, d) \in Seq(Byte)
           /\ DecodeDictionary(DictionaryBytes(values, d), Len(values)) = values
           /\ Len(EncodeVarints(DictionaryIds(values, d))) <= Len(DictionaryBytes(values, d))
<1> DEFINE m == Len(d)
           n == Len(values)
           ids == DictionaryIds(values, d)
           a == EncodeVarint(m)
           b == StoredStrings(d)
           c == EncodeVarints(ids)
           data == DictionaryBytes(values, d)
           mid == 1 + Len(a)
           next == mid + Len(b)
           X == Byte
<1>1. m \in Nat /\ m \in Word /\ n \in Nat
  <2>1. m \in Nat /\ n \in Nat  BY StringsAre
  <2> HIDE DEF m
  <2>2. m <= MaxDictionary  BY DEF m
  <2>3. m \in Word  BY <2>1, <2>2, WordsBelow, DictionaryAssumption
  <2> QED BY <2>1, <2>3
<1>2. /\ ids \in Seq(Word) /\ Len(ids) = n /\ DOMAIN ids = 1..n
      /\ \A i \in 1..n : ids[i] \in Nat /\ ids[i] < m /\ d[ids[i] + 1] = values[i]
  <2> DEFINE Z == String
  <2>1. values \in Seq(Z) /\ d \in Seq(Z)  OBVIOUS
  <2> HIDE DEF Z
  <2> QED BY <1>1, <2>1, DictionaryIdsAre
<1> HIDE DEF ids
<1>3. a \in Seq(X) /\ b \in Seq(X) /\ c \in Seq(X) /\ Len(a) = VarintLen(m)
  <2>1. a \in Seq(X) /\ Len(a) = VarintLen(m)  BY <1>1, EncodedVarint
  <2>2. b \in Seq(X)  BY StoredPiecesAre
  <2>3. c \in Seq(X)  BY <1>2, EncodedVarints
  <2> QED BY <2>1, <2>2, <2>3
<1>4. data = a \o b \o c  BY DEF DictionaryBytes, ids
<1> HIDE DEF m, a, b, c, data, X
<1>5. /\ Len(a) \in Nat /\ Len(b) \in Nat /\ Len(c) \in Nat
      /\ a \o b \in Seq(X) /\ Len(a \o b) = Len(a) + Len(b)
  <2>1. Len(a) \in Nat /\ Len(b) \in Nat /\ a \o b \in Seq(X) /\ Len(a \o b) = Len(a) + Len(b)
    BY <1>3, JoinIs
  <2>2. Len(c) \in Nat  BY <1>3, JoinIs
  <2> QED BY <2>1, <2>2
<1>6. data = (a \o b) \o c /\ data \in Seq(X) /\ Len(data) = Len(a) + Len(b) + Len(c)
  <2> DEFINE ab == a \o b
  <2>1. ab \in Seq(X) /\ Len(ab) = Len(a) + Len(b) /\ data = ab \o c
    BY <1>4, <1>5
  <2> HIDE DEF ab
  <2>2. ab \o c \in Seq(X) /\ Len(ab \o c) = Len(ab) + Len(c)
    BY <1>3, <2>1, JoinIs
  <2> QED BY <2>1, <2>2 DEF ab
<1>7. IsAt(data, 1, a) /\ IsAt(data, mid, b) /\ IsAt(data, next, c)
  <2>1. IsAt(data, 1, (a \o b) \o c)  BY <1>6, IsAtAll
  <2>2. IsAt(data, 1, a \o b) /\ IsAt(data, 1 + Len(a \o b), c)
    <3> DEFINE ab == a \o b
    <3>1. ab \in Seq(X) /\ IsAt(data, 1, ab \o c) /\ 1 \in Nat /\ 1 > 0
      BY <1>5, <2>1
    <3> HIDE DEF ab
    <3>2. IsAt(data, 1, ab) /\ IsAt(data, 1 + Len(ab), c)
      BY <1>3, <1>6, <3>1, IsAtSplits
    <3> QED BY <3>2 DEF ab
  <2>3. IsAt(data, 1, a) /\ IsAt(data, 1 + Len(a), b)
    <3>1. 1 \in Nat /\ 1 > 0  OBVIOUS
    <3> QED BY <1>3, <1>6, <2>2, <3>1, IsAtSplits
  <2>4. 1 + Len(a \o b) = next  BY <1>5
  <2> QED BY <2>2, <2>3, <2>4
<1>8. mid \in Nat /\ mid > 0 /\ next \in Nat /\ next > 0 /\ next + Len(c) - 1 = Len(data)
  BY <1>5, <1>6
<1> DEFINE size == ReadVarint(data, 1)
           words == ReadStrings("stored", data, mid, m)
<1>9. size = [value |-> m, next |-> mid]
  <2>1. ReadVarint(data, 1) = [value |-> m, next |-> 1 + VarintLen(m)]
    <3>1. 1 \in Nat /\ 1 > 0  OBVIOUS
    <3> QED BY <1>1, <1>6, <1>7, <3>1, ReadBack DEF a, X
  <2> QED BY <1>3, <2>1
<1> HIDE DEF mid
<1>10. words = [values |-> d, next |-> next]
  <2>1. IsAt(data, mid, StoredStrings(d))  BY <1>7 DEF b
  <2>2. data \in Seq(Byte)  BY <1>6 DEF X
  <2>3. ReadStrings("stored", data, mid, Len(d)) = [values |-> d, next |-> mid + Len(StoredStrings(d))]
    BY <1>8, <2>1, <2>2, ReadStoredBack
  <2> QED BY <2>3 DEF m, b
<1> HIDE DEF next
<1>11. SubSeq(data, next, Len(data)) = c
  <2>1. c \in Seq(X) /\ data \in Seq(X) /\ next \in Nat /\ next > 0 /\ IsAt(data, next, c)
    BY <1>3, <1>6, <1>7, <1>8
  <2>2. SubSeq(data, next, next + Len(c) - 1) = c  BY <2>1, PieceIs
  <2> QED BY <1>8, <2>2
<1>12. DecodeVarints(c) = ids  BY <1>2, VarintsBack DEF c
<1>13. size # Err /\ words # Err /\ ids # Err
  <2>1. [value |-> m, next |-> mid] # Err /\ [values |-> d, next |-> next] # Err
    BY RecordsAreApart
  <2>2. ids # Err  BY <1>2, SequencesAreApart
  <2> QED BY <1>9, <1>10, <2>1, <2>2, Zenon
<1>14. size.value = m /\ size.next = mid
  <2> HIDE DEF size
  <2> QED BY <1>9
<1>15. words.values = d /\ words.next = next
  <2> HIDE DEF words
  <2> QED BY <1>10
<1>16. ~ (m > MaxDictionary)
  <2>1. m <= MaxDictionary /\ MaxDictionary \in Nat
    BY DictionaryAssumption, WordIs DEF m
  <2> QED BY <1>1, <2>1
<1>17. DecodeDictionary(data, n) = DecodedSize(size, data, n)
  BY DecodedDictionary
<1>18. DecodedSize(size, data, n) = DecodedWords(words, size, data, n)
  <2>1. (IF size.value > MaxDictionary THEN Err
         ELSE ReadStrings("stored", data, size.next, size.value)) = words
    <3> HIDE DEF size
    <3> QED BY <1>14, <1>16
  <2> HIDE DEF size, words
  <2> QED BY <1>13, <2>1 DEF DecodedSize
<1> HIDE DEF size, words
<1>19. DecodedWords(words, size, data, n) = DecodedIds(ids, size, words, n)
  BY <1>11, <1>12, <1>13, <1>15 DEF DecodedWords
<1>20. DecodedIds(ids, size, words, n) = values
  <2>1. ~ (Len(ids) # n \/ \E i \in DOMAIN ids : ids[i] >= size.value)
    <3>1. \A i \in 1..n : ~ (ids[i] >= m)  BY <1>1, <1>2
    <3> QED BY <1>2, <1>14, <3>1
  <2>2. DecodedIds(ids, size, words, n) = [i \in DOMAIN ids |-> words.values[ids[i] + 1]]
    BY <1>13, <2>1 DEF DecodedIds
  <2>3. [i \in DOMAIN ids |-> words.values[ids[i] + 1]] = [i \in 1..n |-> values[i]]
    BY <1>2, <1>15
  <2>4. values = [i \in 1..n |-> values[i]]
    <3> DEFINE Z == String
    <3>1. values \in Seq(Z)  OBVIOUS
    <3> HIDE DEF Z
    <3> QED BY <3>1
  <2> QED BY <2>2, <2>3, <2>4
<1>21. Len(c) <= Len(data)  BY <1>5, <1>6
<1> QED BY <1>6, <1>17, <1>18, <1>19, <1>20, <1>21 DEF data, X, c, ids

LEMMA DictionaryBack ==
    ASSUME ErrIsApart, NEW values \in Seq(String)
    PROVE  IF Cardinality(Range(values)) > MaxDictionary THEN EncodeDictionary(values) = Err
           ELSE /\ EncodeDictionary(values) = DictionaryBytes(values, DictionaryOf(values))
                /\ EncodeDictionary(values) # Err
                /\ EncodeDictionary(values) \in Seq(Byte)
                /\ DecodeDictionary(EncodeDictionary(values), Len(values)) = values
                /\ Len(EncodeVarints(DictionaryIds(values, DictionaryOf(values))))
                       <= Len(EncodeDictionary(values))
<1> DEFINE d == DictionaryOf(values)
           data == DictionaryBytes(values, d)
<1>1. /\ d \in Seq(String) /\ Len(d) \in Nat
      /\ Range(d) = Range(values) /\ Cardinality(Range(values)) = Len(d)
  <2> DEFINE Z == String
  <2>1. values \in Seq(Z)  OBVIOUS
  <2> HIDE DEF Z
  <2>2. IsDictionary(d, Z, values, Len(values)) /\ Range(d) = Range(values)
    BY <2>1, DictionaryIs
  <2> HIDE DEF d
  <2>3. d \in Seq(Z) /\ Cardinality(Range(d)) = Len(d)
    BY <2>2 DEF IsDictionary
  <2>4. Len(d) \in Nat  BY <2>3
  <2> QED BY <2>2, <2>3, <2>4 DEF Z
<1>2. EncodeDictionary(values) = IF Len(d) > MaxDictionary THEN Err ELSE data
  BY EncodedDictionary
<1> HIDE DEF d
<1>3. CASE Len(d) > MaxDictionary
  BY <1>1, <1>2, <1>3
<1>4. CASE ~ (Len(d) > MaxDictionary)
  <2>1. Len(d) <= MaxDictionary
    <3>1. MaxDictionary \in Nat  BY DictionaryAssumption, WordIs
    <3> QED BY <1>1, <1>4, <3>1
  <2>2. data \in Seq(Byte) /\ DecodeDictionary(data, Len(values)) = values
        /\ Len(EncodeVarints(DictionaryIds(values, d))) <= Len(data)
    BY <1>1, <2>1, DictionaryBytesBack
  <2>3. EncodeDictionary(values) = data  BY <1>2, <1>4
  <2> HIDE DEF data
  <2>4. data # Err  BY <2>2, SequencesAreApart
  <2> QED BY <1>1, <1>4, <2>2, <2>3, <2>4 DEF data, d
<1> QED BY <1>3, <1>4

(* The three lists of strings (stored, prefix, dictionary) come back, and a *)
(* dictionary is refused exactly when it would have too many words.         *)
THEOREM StringsComeBack ==
    ASSUME ErrIsApart, NEW values \in Seq(String)
    PROVE  StringsRoundTrip(values)
<1>1. DecodeStored(StoredStrings(values), Len(values)) = values  BY StoredBack
<1>2. DecodePrefix(EncodePrefix(values), Len(values)) = values  BY PrefixBack
<1>3. IF Cardinality(Range(values)) > MaxDictionary THEN EncodeDictionary(values) = Err
      ELSE DecodeDictionary(EncodeDictionary(values), Len(values)) = values
  BY DictionaryBack
<1> QED BY <1>1, <1>2, <1>3 DEF StringsRoundTrip

-----------------------------------------------------------------------------
(* Chosen elements. *)

LEMMA ChosenExist ==
    ASSUME NEW seq, NEW places, NEW n \in Nat
    PROVE  \E f : ChosenSo(f, seq, places, n)
<1> DEFINE base == << >>
<1>1. PICK f : IsLoop(f, "chosen", seq, places, base, n)  BY LoopExists
<1> DEFINE h == [k \in 0..n |-> IF k = 0 THEN base ELSE Taking(seq, places, k, f[k - 1])]
<1>2. f = h  BY <1>1 DEF IsLoop, LoopStep
<1> HIDE DEF base
<1> QED BY <1>2 DEF ChosenSo, Taking, base

LEMMA ChosenAre ==
    ASSUME NEW seq, NEW places, NEW n \in Nat, n = Len(seq)
    PROVE  \E f : Choosing(f, seq, places, n)
<1> DEFINE f == CHOOSE g : ChosenSo(g, seq, places, n)
<1>1. ChosenSo(f, seq, places, n)  BY ChosenExist, Zenon
<1>2. Chosen(seq, places) = f[n]  BY Zenon DEF Chosen, ChosenSo
<1> HIDE DEF f
<1>3. f[0] = << >>
  <2>1. 0 \in 0..n  OBVIOUS
  <2> QED BY <1>1, <2>1 DEF ChosenSo
<1>4. \A k \in 1..n : f[k] = Taking(seq, places, k, f[k - 1])
  <2> TAKE k \in 1..n
  <2>1. k \in 0..n /\ k # 0  OBVIOUS
  <2> QED BY <1>1, <2>1 DEF ChosenSo, Taking
<1>5. Choosing(f, seq, places, n)  BY <1>2, <1>3, <1>4 DEF Choosing
<1> QED BY <1>5

LEMMA RankIs ==
    ASSUME NEW places, NEW k \in Nat
    PROVE  /\ Rank(places, k) \in Nat /\ Rank(places, 0) = 0
           /\ k + 1 \in places => Rank(places, k + 1) = Rank(places, k) + 1
           /\ k + 1 \notin places => Rank(places, k + 1) = Rank(places, k)
<1>1. IsFiniteSet(Up(places, k))
  <2>1. IsFiniteSet(1..k)  BY FS_Interval
  <2>2. Up(places, k) \subseteq 1..k  BY DEF Up
  <2> QED BY <2>1, <2>2, FS_Subset
<1>2. Rank(places, k) \in Nat  BY <1>1, FS_CardinalityType DEF Rank
<1>3. Rank(places, 0) = 0
  <2>1. Up(places, 0) = {}  BY DEF Up
  <2> QED BY <2>1, FS_EmptySet DEF Rank
<1>4. 1..k + 1 = (1..k) \cup {k + 1} /\ k + 1 \notin 1..k  OBVIOUS
<1>5. ASSUME k + 1 \in places
      PROVE  Rank(places, k + 1) = Rank(places, k) + 1
  <2>1. Up(places, k + 1) = Up(places, k) \cup {k + 1} /\ k + 1 \notin Up(places, k)
    BY <1>4, <1>5 DEF Up
  <2> QED BY <1>1, <2>1, FS_AddElement DEF Rank
<1>6. ASSUME k + 1 \notin places
      PROVE  Rank(places, k + 1) = Rank(places, k)
  <2>1. Up(places, k + 1) = Up(places, k)  BY <1>4, <1>6 DEF Up
  <2> QED BY <2>1 DEF Rank
<1> QED BY <1>2, <1>3, <1>5, <1>6

LEMMA ChosenHolds ==
    ASSUME NEW X, NEW seq, NEW n \in Nat, n = Len(seq), NEW places,
           \A i \in 1..n : i \in places => seq[i] \in X
    PROVE  IsChosen(Chosen(seq, places), X, seq, places, n)
<1>5. PICK f : Choosing(f, seq, places, n)  BY ChosenAre
<1>1. /\ f[0] = << >>
      /\ \A k \in 1..n : f[k] = Taking(seq, places, k, f[k - 1])
      /\ Chosen(seq, places) = f[n]
  BY <1>5 DEF Choosing
<1> DEFINE good == {k \in 0..n : IsChosen(f[k], X, seq, places, k)}
<1>2. 0 \in good
  <2> DEFINE none == << >>
  <2>1. none \in Seq(X) /\ Len(none) = 0 /\ 1..0 = {} /\ 0 \in 0..n /\ 0 \in Nat
    OBVIOUS
  <2>2. Rank(places, 0) = 0  BY <2>1, RankIs
  <2> HIDE DEF none
  <2>3. IsChosen(none, X, seq, places, 0)  BY <2>1, <2>2 DEF IsChosen
  <2> QED BY <1>1, <2>1, <2>3 DEF none
<1>3. ASSUME NEW k \in 0..n - 1, k \in good
      PROVE  k + 1 \in good
  <2> DEFINE c == f[k]
             r == Rank(places, k)
             q == Rank(places, k + 1)
  <2>1. k \in Nat /\ k + 1 \in 1..n /\ k + 1 \in 0..n /\ (k + 1) - 1 = k
    OBVIOUS
  <2>2. f[k + 1] = Taking(seq, places, k + 1, c)  BY <1>1, <2>1
  <2>3. /\ c \in Seq(X) /\ Len(c) = r
        /\ \A i \in 1..k : i \in places => Rank(places, i) \in 1..Len(c) /\ c[Rank(places, i)] = seq[i]
    BY <1>3 DEF IsChosen
  <2>4. r \in Nat /\ (k + 1 \in places => q = r + 1) /\ (k + 1 \notin places => q = r)
    BY <2>1, RankIs
  <2>5. \A i \in 1..k + 1 : i \in 1..k \/ i = k + 1  BY <2>1
  <2> HIDE DEF c
  <2>6. CASE k + 1 \in places
    <3> DEFINE x == seq[k + 1]
               e == Append(c, x)
    <3>1. x \in X  BY <2>1, <2>6
    <3>2. f[k + 1] = e  BY <2>2, <2>6 DEF Taking
    <3>3. e \in Seq(X) /\ Len(e) = r + 1 /\ e[r + 1] = x /\ \A j \in 1..r : e[j] = c[j]
      <4> HIDE DEF x, r
      <4> QED BY <2>3, <2>4, <3>1
    <3> HIDE DEF e, x
    <3>4. ASSUME NEW i \in 1..k + 1, i \in places
          PROVE  Rank(places, i) \in 1..Len(e) /\ e[Rank(places, i)] = seq[i]
      <4>1. CASE i \in 1..k
        <5> DEFINE p == Rank(places, i)
        <5>1. p \in 1..r /\ c[p] = seq[i]  BY <2>3, <3>4, <4>1
        <5> HIDE DEF p, r
        <5>2. p \in 1..r + 1  BY <2>4, <5>1
        <5> QED BY <3>3, <5>1, <5>2 DEF p
      <4>2. CASE i = k + 1
        <5>1. Rank(places, i) = r + 1  BY <2>4, <2>6, <4>2
        <5>2. r + 1 \in 1..r + 1
          <6> HIDE DEF r
          <6> QED BY <2>4
        <5> QED BY <3>3, <4>2, <5>1, <5>2 DEF x
      <4> QED BY <2>5, <4>1, <4>2
    <3>5. Len(e) = q  BY <2>4, <2>6, <3>3
    <3>6. IsChosen(e, X, seq, places, k + 1)  BY <3>3, <3>4, <3>5 DEF IsChosen
    <3> QED BY <2>1, <3>2, <3>6
  <2>7. CASE k + 1 \notin places
    <3>1. f[k + 1] = c  BY <2>2, <2>7 DEF Taking
    <3>2. \A i \in 1..k + 1 : i \in places => i \in 1..k  BY <2>5, <2>7
    <3>3. IsChosen(c, X, seq, places, k + 1)
      BY <2>3, <2>4, <2>7, <3>2 DEF IsChosen
    <3> QED BY <2>1, <3>1, <3>3
  <2> QED BY <2>6, <2>7
<1>4. n \in good
  <2> HIDE DEF good
  <2>1. 0..n \subseteq good  BY <1>2, <1>3, Induction
  <2> QED BY <2>1
<1> QED BY <1>1, <1>4

-----------------------------------------------------------------------------
(* Numbers in a column. *)

LEMMA TightBack ==
    ASSUME ErrIsApart, NEW values \in Seq(Word)
    PROVE  /\ PackTight(values).bytes \in Seq(Byte)
           /\ ~ TooLong(values) =>
                  DecodeBitpack(PackTight(values).bytes, PackTight(values).width, Len(values)) = values
<1> DEFINE w == WidthOf(values)
           b == EncodeBitpack(values, w)
<1>1. w \in 0..WordBits /\ \A i \in 1..Len(values) : values[i] < 2^w
  BY WidthIs
<1>2. values \in Seq(Nat)  BY WordIs, SubsetSeq
<1> HIDE DEF w
<1>3. b \in Seq(Byte) /\ (~ TooLong(values) => DecodeBitpack(b, w, Len(values)) = values)
  BY <1>1, <1>2, BitpackBack DEF TooLong
<1>4. PackTight(values).bytes = b /\ PackTight(values).width = w
  BY DEF PackTight, w
<1> QED BY <1>3, <1>4

LEMMA FullBack ==
    ASSUME ErrIsApart, NEW values \in Seq(Word)
    PROVE  /\ EncodeBitpack(values, WordBits) \in Seq(Byte)
           /\ ~ TooLong(values) =>
                  DecodeBitpack(EncodeBitpack(values, WordBits), WordBits, Len(values)) = values
<1>1. WordBits \in 0..WordBits  BY Widths
<1>2. \A i \in 1..Len(values) : values[i] < 2^WordBits
  <2>1. \A i \in 1..Len(values) : values[i] \in Word  OBVIOUS
  <2>2. \A v \in Word : v < 2^WordBits  BY WordIs DEF Word
  <2> QED BY <2>1, <2>2
<1>3. values \in Seq(Nat)  BY WordIs, SubsetSeq
<1> QED BY <1>1, <1>2, <1>3, BitpackBack DEF TooLong

LEMMA StepsAre ==
    ASSUME ErrIsApart, NEW values \in Seq(Word)
    PROVE  /\ ~ Rises(values) => Steps(values) = Err
           /\ Rises(values) =>
                 /\ Steps(values) # Err /\ Steps(values) \in Seq(Word)
                 /\ Len(Steps(values)) = Len(values)
                 /\ \A i \in 1..Len(values) :
                       Base(values) + SumOf(SubSeq(Steps(values), 1, i)) = values[i]
<1> DEFINE n == Len(values)
           s == StepSeq(values)
           d == Differences(values)
<1>1. n \in Nat /\ DOMAIN values = 1..n /\ (\A i \in 1..n : values[i] \in Word) /\ values \in Seq(Int)
      /\ \A i \in 1..n : values[i] \in Int
  <2>1. n \in Nat /\ DOMAIN values = 1..n /\ (\A i \in 1..n : values[i] \in Word) /\ values \in Seq(Int)
    BY WordIs, SubsetSeq
  <2> QED BY <2>1, WordIs
<1>2. DOMAIN s = 1..n /\ s = [i \in 1..n |-> s[i]]
      /\ \A i \in 1..n : s[i] = IF i = 1 THEN 0 ELSE values[i] - values[i - 1]
  BY <1>1 DEF StepSeq
<1>3. DOMAIN d = 1..n /\ \A i \in 1..n : d[i] = IF i = 1 THEN values[1] ELSE values[i] - values[i - 1]
  BY <1>1 DEF Differences
<1>4. d # Err
  <2>1. d \in Seq(Int)  BY <1>1, DifferencesAre
  <2> QED BY <2>1, SequencesAreApart
<1>5. EncodeDelta(Word, values) # Err <=> \A i \in DOMAIN d : d[i] \in Word
  <2> HIDE DEF d
  <2> QED BY <1>4, Zenon DEF EncodeDelta, InType, d
<1> HIDE DEF d, s, n
<1>6. (\A i \in DOMAIN d : d[i] \in Word) <=> \A i \in DOMAIN s : s[i] \in Word
  <2>1. \A i \in 1..n : d[i] \in Word <=> s[i] \in Word
    <3> TAKE i \in 1..n
    <3>1. CASE i = 1
      BY <1>1, <1>2, <1>3, <3>1, WordIs
    <3>2. CASE i # 1
      BY <1>2, <1>3, <3>2
    <3> QED BY <3>1, <3>2
  <2> QED BY <1>2, <1>3, <2>1
<1>7. Rises(values) <=> \A i \in DOMAIN s : s[i] \in Word
  BY <1>5, <1>6, DeltaOfWords
<1>8. Steps(values) = IF \A i \in DOMAIN s : s[i] \in Word THEN s ELSE Err
  BY Zenon DEF Steps, InType, s, StepSeq
<1>9. ASSUME Rises(values)
      PROVE  /\ Steps(values) # Err /\ Steps(values) \in Seq(Word)
             /\ Len(Steps(values)) = n
             /\ \A i \in 1..n : Base(values) + SumOf(SubSeq(Steps(values), 1, i)) = values[i]
  <2>1. Steps(values) = s /\ \A i \in 1..n : s[i] \in Word
    BY <1>2, <1>7, <1>8, <1>9
  <2>2. IsArray(s, n, Word)  BY <1>2, <2>1 DEF IsArray
  <2>3. s \in Seq(Word) /\ Len(s) = n  BY <1>1, <2>2, ArrayIs
  <2>4. s # Err  BY <2>3, SequencesAreApart
  <2>5. s \in Seq(Int)  BY <2>3, WordIs, SubsetSeq
  <2> DEFINE t == [k \in 0..n |-> IF k = 0 THEN 0 ELSE values[k] - values[1]]
  <2>6. t[0] = 0  BY <1>1
  <2>7. ASSUME NEW k \in 1..n
        PROVE  t[k] = t[k - 1] + s[k]
    <3>1. k \in 0..n /\ t[k] = values[k] - values[1] /\ values[k] \in Int /\ 1 \in 1..n /\ values[1] \in Int
      BY <1>1
    <3>2. CASE k = 1
      <4>1. s[k] = 0 /\ k - 1 = 0  BY <1>2, <3>2
      <4>2. t[k] = 0  BY <3>1, <3>2
      <4> HIDE DEF t
      <4> QED BY <2>6, <4>1, <4>2
    <3>3. CASE k # 1
      <4>1. k - 1 \in 1..n /\ k - 1 \in 0..n /\ k - 1 # 0  BY <1>1, <3>3
      <4>2. t[k - 1] = values[k - 1] - values[1] /\ values[k - 1] \in Int
        BY <1>1, <4>1
      <4>3. s[k] = values[k] - values[k - 1]  BY <1>2, <3>3
      <4> HIDE DEF t
      <4> QED BY <3>1, <4>2, <4>3
    <3> QED BY <3>2, <3>3
  <2>8. \A k \in 1..n : k \in 0..Len(s) /\ t[k] = values[k] - values[1]
    BY <1>1, <2>3
  <2> HIDE DEF t
  <2>9. \A k \in 1..Len(s) : t[k] = t[k - 1] + s[k]  BY <2>3, <2>7
  <2>10. \A k \in 0..Len(s) : SumOf(SubSeq(s, 1, k)) = t[k]
    BY <2>5, <2>6, <2>9, SumIs
  <2>11. ASSUME NEW i \in 1..n
         PROVE  Base(values) + SumOf(SubSeq(s, 1, i)) = values[i]
    <3>1. SumOf(SubSeq(s, 1, i)) = values[i] - values[1]  BY <2>8, <2>10
    <3>2. Base(values) = values[1]
      <4>1. values # << >>  BY DEF n
      <4> QED BY <4>1 DEF Base
    <3>3. 1 \in 1..n  BY <1>1
    <3>4. values[1] \in Int /\ values[i] \in Int  BY <1>1, <3>3
    <3>5. values[1] + (values[i] - values[1]) = values[i]  BY <3>4
    <3> QED BY <3>1, <3>2, <3>5
  <2> QED BY <2>1, <2>3, <2>4, <2>11
<1>10. ~ Rises(values) => Steps(values) = Err  BY <1>7, <1>8
<1> QED BY <1>9, <1>10 DEF n

LEMMA BitpackNumbers ==
    ASSUME ErrIsApart, NEW values \in Seq(Word)
    PROVE  NumbersBack("bitpack", values)
<1> DEFINE body == PackTight(values)
<1>1. EncodeNumbers("bitpack", values) = body  BY DEF EncodeNumbers
<1>2. body # Err  BY RecordsAreApart DEF PackTight
<1>3. /\ body.bytes \in Seq(Byte)
      /\ ~ TooLong(values) => DecodeBitpack(body.bytes, body.width, Len(values)) = values
  BY TightBack
<1> HIDE DEF body
<1>4. ASSUME NEW meta, ~ TooLong(values), NumbersMeta(meta, "bitpack", values)
      PROVE  DecodeNumbers(meta, body.bytes, Len(values)) = values
  <2>1. meta.codec = "bitpack" /\ meta.width = body.width
    BY <1>1, <1>4 DEF NumbersMeta
  <2>2. DecodeNumbers(meta, body.bytes, Len(values)) = DecodeBitpack(body.bytes, meta.width, Len(values))
    BY <2>1 DEF DecodeNumbers
  <2> QED BY <1>3, <1>4, <2>1, <2>2
<1> QED BY <1>1, <1>2, <1>3, <1>4 DEF NumbersBack

LEMMA StoredNumbers ==
    ASSUME ErrIsApart, NEW values \in Seq(Word)
    PROVE  NumbersBack("stored", values)
<1> DEFINE bytes == EncodeBitpack(values, WordBits)
           body == [width |-> WordBits, bytes |-> bytes]
<1>1. EncodeNumbers("stored", values) = body  BY DEF EncodeNumbers
<1>2. /\ bytes \in Seq(Byte)
      /\ ~ TooLong(values) => DecodeBitpack(bytes, WordBits, Len(values)) = values
  BY FullBack
<1> HIDE DEF bytes
<1>3. body # Err  BY RecordsAreApart
<1>4. body.bytes = bytes /\ body.width = WordBits  OBVIOUS
<1> HIDE DEF body
<1>5. ASSUME NEW meta, ~ TooLong(values), NumbersMeta(meta, "stored", values)
      PROVE  DecodeNumbers(meta, body.bytes, Len(values)) = values
  <2>1. meta.codec = "stored" /\ meta.width = body.width
    BY <1>1, <1>5 DEF NumbersMeta
  <2>2. DecodeNumbers(meta, body.bytes, Len(values)) = DecodeBitpack(body.bytes, meta.width, Len(values))
    BY <2>1 DEF DecodeNumbers
  <2> QED BY <1>2, <1>4, <1>5, <2>1, <2>2
<1> QED BY <1>1, <1>2, <1>3, <1>4, <1>5 DEF NumbersBack

LEMMA VarintNumbers ==
    ASSUME ErrIsApart, NEW values \in Seq(Word)
    PROVE  IF Rises(values) THEN NumbersBack("delta_varint", values)
           ELSE EncodeNumbers("delta_varint", values) = Err
<1> DEFINE bytes == EncodeDeltaVarint(values)
           body == [width |-> 0, bytes |-> bytes]
<1>1. EncodeNumbers("delta_varint", values) = IF bytes = Err THEN Err ELSE body
  <2>1. EncodeNumbers("delta_varint", values)
            = Try(bytes, LAMBDA b : [width |-> 0, bytes |-> b])
    BY DEF EncodeNumbers
  <2> HIDE DEF bytes
  <2> QED BY <2>1, Zenon DEF Try
<1>2. CASE ~ Rises(values)
  BY <1>1, <1>2, DeltaVarintBack
<1>3. CASE Rises(values)
  <2>1. bytes # Err /\ bytes \in Seq(Byte) /\ DecodeDeltaVarint(bytes) = values
    BY <1>3, DeltaVarintBack
  <2> HIDE DEF bytes
  <2>2. body # Err  BY RecordsAreApart
  <2>3. body.bytes = bytes  OBVIOUS
  <2>4. EncodeNumbers("delta_varint", values) = body  BY <1>1, <2>1
  <2> HIDE DEF body
  <2>5. ASSUME NEW meta, NumbersMeta(meta, "delta_varint", values)
        PROVE  DecodeNumbers(meta, body.bytes, Len(values)) = values
    <3>1. meta.codec = "delta_varint"  BY <2>5 DEF NumbersMeta
    <3>2. DecodeNumbers(meta, body.bytes, Len(values)) = DecodeDeltaVarint(body.bytes)
      BY <3>1 DEF DecodeNumbers
    <3> QED BY <2>1, <2>3, <3>2
  <2> QED BY <1>3, <2>1, <2>2, <2>3, <2>4, <2>5 DEF NumbersBack
<1> QED BY <1>2, <1>3

LEMMA DeltaNumbers ==
    ASSUME ErrIsApart, NEW values \in Seq(Word)
    PROVE  IF Rises(values) THEN NumbersBack("delta_bitpack", values)
           ELSE EncodeNumbers("delta_bitpack", values) = Err
<1> DEFINE steps == Steps(values)
           body == PackTight(steps)
           n == Len(values)
<1>1. EncodeNumbers("delta_bitpack", values) = IF steps = Err THEN Err ELSE body
  <2>1. EncodeNumbers("delta_bitpack", values) = Try(steps, PackTight)
    BY DEF EncodeNumbers
  <2> HIDE DEF steps
  <2> QED BY <2>1, Zenon DEF Try
<1>2. CASE ~ Rises(values)
  BY <1>1, <1>2, StepsAre
<1>3. CASE Rises(values)
  <2>1. /\ steps # Err /\ steps \in Seq(Word) /\ Len(steps) = n
        /\ \A i \in 1..n : Base(values) + SumOf(SubSeq(steps, 1, i)) = values[i]
    BY <1>3, StepsAre
  <2>2. n \in Nat /\ DOMAIN values = 1..n /\ (\A i \in 1..n : values[i] \in Word)
        /\ values = [i \in 1..n |-> values[i]]
    OBVIOUS
  <2> HIDE DEF steps
  <2>3. body # Err  BY RecordsAreApart DEF PackTight
  <2>4. /\ body.bytes \in Seq(Byte)
        /\ ~ TooLong(values) => DecodeBitpack(body.bytes, body.width, n) = steps
    BY <2>1, TightBack DEF TooLong
  <2>5. EncodeNumbers("delta_bitpack", values) = body  BY <1>1, <2>1
  <2> HIDE DEF body, n
  <2>6. ASSUME NEW meta, ~ TooLong(values), NumbersMeta(meta, "delta_bitpack", values)
        PROVE  DecodeNumbers(meta, body.bytes, n) = values
    <3>1. meta.codec = "delta_bitpack" /\ meta.width = body.width /\ meta.base = Base(values)
      BY <2>5, <2>6 DEF NumbersMeta
    <3> DEFINE read == DecodeBitpack(body.bytes, meta.width, n)
               all == [i \in 1..n |-> meta.base + SumOf(SubSeq(read, 1, i))]
    <3>2. DecodeNumbers(meta, body.bytes, n)
              = Try(read, LAMBDA got :
                    InType(Word, [i \in 1..n |-> meta.base + SumOf(SubSeq(got, 1, i))]))
      BY <3>1 DEF DecodeNumbers
    <3>3. read = steps  BY <2>4, <2>6, <3>1
    <3>4. all = values
      <4> HIDE DEF read
      <4>1. \A i \in 1..n : meta.base + SumOf(SubSeq(read, 1, i)) = values[i]
        BY <2>1, <3>1, <3>3
      <4> QED BY <2>2, <4>1
    <3>5. DecodeNumbers(meta, body.bytes, n) = InType(Word, all)
      <4>1. read # Err  BY <2>1, <3>3
      <4> HIDE DEF read
      <4> QED BY <3>2, <4>1, Zenon DEF Try
    <3>6. InType(Word, values) = values  BY <2>2 DEF InType
    <3> HIDE DEF all
    <3> QED BY <3>4, <3>5, <3>6
  <2> QED BY <1>3, <2>3, <2>4, <2>5, <2>6 DEF NumbersBack, n
<1> QED BY <1>2, <1>3

-----------------------------------------------------------------------------
(* How long encoded strings are. *)

LEMMA JoinedLength ==
    ASSUME NEW X, NEW pieces \in Seq(Seq(X)), NEW sizes \in Seq(Int), Len(sizes) = Len(pieces),
           NEW more \in Nat, Bounded(pieces, sizes, more)
    PROVE  /\ Len(FlattenSeq(pieces)) \in Nat
           /\ Len(FlattenSeq(pieces)) >= Len(pieces)
           /\ Len(FlattenSeq(pieces)) <= SumOf(sizes) + Len(pieces) * more
<1> DEFINE n == Len(pieces)
           F(k) == FlattenSeq(SubSeq(pieces, 1, k))
           S(k) == SumOf(SubSeq(sizes, 1, k))
           good == {k \in 0..n : Len(F(k)) \in Nat /\ Len(F(k)) >= k /\ Len(F(k)) <= S(k) + k * more}
<1>1. n \in Nat /\ Len(sizes) = n  OBVIOUS
<1>2. F(0) = << >> /\ F(n) = FlattenSeq(pieces)  BY NoGroups
<1>3. S(0) = 0 /\ S(n) = SumOf(sizes) /\ S(n) \in Int  BY <1>1, SumEnds
<1>4. 0 \in good
  <2> HIDE DEF F, S, n
  <2>1. Len(F(0)) = 0 /\ 0 * more = 0 /\ 0 \in 0..n  BY <1>1, <1>2
  <2> QED BY <1>3, <2>1
<1>5. ASSUME NEW k \in 0..n - 1, k \in good
      PROVE  k + 1 \in good
  <2>1. F(k + 1) = F(k) \o pieces[k + 1] /\ F(k) \in Seq(X) /\ pieces[k + 1] \in Seq(X)
    BY OneGroupMore
  <2>2. S(k + 1) = S(k) + sizes[k + 1] /\ S(k) \in Int  BY <1>1, SumOneMore
  <2>3. k \in Nat /\ k + 1 \in 1..n /\ sizes[k + 1] \in Int  BY <1>1
  <2>4. Len(pieces[k + 1]) >= 1 /\ Len(pieces[k + 1]) <= sizes[k + 1] + more
    BY <2>3 DEF Bounded
  <2>5. Len(F(k)) >= k /\ Len(F(k)) <= S(k) + k * more  BY <1>5
  <2> HIDE DEF F, S, n
  <2>6. Len(F(k + 1)) = Len(F(k)) + Len(pieces[k + 1]) /\ Len(F(k)) \in Nat /\ Len(pieces[k + 1]) \in Nat
    BY <2>1, JoinIs
  <2> DEFINE a == Len(F(k))
             b == Len(pieces[k + 1])
             s == S(k)
             z == sizes[k + 1]
  <2>7. (k + 1) * more = k * more + more  BY <2>3
  <2>8. k * more \in Int  BY <2>3
  <2>9. a + b >= k + 1 /\ a + b <= (s + z) + (k * more + more)
    <3> HIDE DEF a, b, s, z
    <3>1. a >= k /\ a <= s + k * more /\ b >= 1 /\ b <= z + more
      BY <2>4, <2>5 DEF a, b, s, z
    <3>2. a \in Nat /\ b \in Nat /\ s \in Int /\ z \in Int
      BY <2>2, <2>3, <2>6 DEF a, b, s, z
    <3> DEFINE m == k * more
    <3>3. m \in Int  BY <2>8
    <3>4. a <= s + m  BY <3>1
    <3> HIDE DEF m
    <3>5. a + b >= k + 1 /\ a + b <= (s + z) + (m + more)
      BY <2>3, <3>1, <3>2, <3>3, <3>4
    <3> QED BY <3>5 DEF m
  <2>10. a + b \in Nat  BY <2>6
  <2> HIDE DEF a, b, s, z
  <2>11. Len(F(k + 1)) = a + b /\ S(k + 1) = s + z
    BY <2>2, <2>6 DEF a, b, s, z
  <2>12. k + 1 \in 0..n  BY <1>1, <2>3
  <2> QED BY <2>7, <2>9, <2>10, <2>11, <2>12
<1>6. 0..n \subseteq good
  <2> HIDE DEF good
  <2> QED BY <1>1, <1>4, <1>5, Induction
<1>7. n \in good
  <2> HIDE DEF good, n
  <2>1. n \in 0..n  BY <1>1
  <2> QED BY <1>6, <2>1
<1>8. Len(F(n)) \in Nat /\ Len(F(n)) >= n /\ Len(F(n)) <= S(n) + n * more
  BY <1>7
<1> QED BY <1>2, <1>3, <1>8

LEMMA AtLeastOneEach ==
    ASSUME NEW X, NEW pieces \in Seq(Seq(X)), \A i \in 1..Len(pieces) : Len(pieces[i]) >= 1
    PROVE  Len(FlattenSeq(pieces)) >= Len(pieces)
<1> DEFINE sizes == [i \in 1..Len(pieces) |-> Len(pieces[i])]
<1>1. Len(pieces) \in Nat /\ \A i \in 1..Len(pieces) : Len(pieces[i]) \in Nat
  <2> DEFINE Y == Seq(X)
  <2>1. Len(pieces) \in Nat /\ \A i \in 1..Len(pieces) : pieces[i] \in Y
    OBVIOUS
  <2> QED BY <2>1
<1>2. IsArray(sizes, Len(pieces), Int) /\ \A i \in 1..Len(pieces) : sizes[i] = Len(pieces[i])
  BY <1>1 DEF IsArray
<1> HIDE DEF sizes
<1>3. sizes \in Seq(Int) /\ Len(sizes) = Len(pieces)  BY <1>1, <1>2, ArrayIs
<1>4. Bounded(pieces, sizes, 0)  BY <1>1, <1>2 DEF Bounded
<1> QED BY <1>3, <1>4, JoinedLength

LEMMA VarintsLong ==
    ASSUME NEW values \in Seq(Word)
    PROVE  Len(EncodeVarints(values)) \in Nat /\ Len(EncodeVarints(values)) >= Len(values)
<1>1. Pieces(values) \in Seq(Seq(Byte)) /\ Len(Pieces(values)) = Len(values)
      /\ \A i \in 1..Len(values) : Pieces(values)[i] = EncodeVarint(values[i])
  BY PiecesAre
<1>2. \A v \in Word : Len(EncodeVarint(v)) >= 1  BY EncodedVarint, Longest
<1>3. \A i \in 1..Len(values) : values[i] \in Word  OBVIOUS
<1>4. Len(FlattenSeq(Pieces(values))) >= Len(values)
  BY <1>1, <1>2, <1>3, AtLeastOneEach
<1>5. EncodeVarints(values) = FlattenSeq(Pieces(values))
  BY DEF EncodeVarints, Pieces
<1>6. EncodeVarints(values) \in Seq(Byte)  BY EncodedVarints
<1> QED BY <1>4, <1>5, <1>6

LEMMA PrefixLong ==
    ASSUME NEW values \in Seq(String)
    PROVE  Len(EncodePrefix(values)) >= Len(values)
<1>1. \A i \in 1..Len(values) : Len(PrefixPiece(values, i)) >= 1  BY SuffixIs
<1> QED BY <1>1, PrefixPiecesAre, AtLeastOneEach

LEMMA StoredLength ==
    ASSUME NEW values \in Seq(String)
    PROVE  /\ Len(StoredStrings(values)) \in Nat
           /\ Len(StoredStrings(values)) >= Len(values)
           /\ Len(StoredStrings(values)) <= SumOf(Lengths(values)) + Len(values) * LongestVarint
           /\ SumOf(Lengths(values)) \in Int
<1> DEFINE sizes == Lengths(values)
           pieces == StoredPieces(values)
<1>1. Len(values) \in Nat /\ DOMAIN values = 1..Len(values)
      /\ \A i \in 1..Len(values) : values[i] \in String
  BY StringsAre
<1>2. IsArray(sizes, Len(values), Int) /\ \A i \in 1..Len(values) : sizes[i] = Len(values[i])
  BY <1>1, StringIs DEF IsArray, Lengths
<1> HIDE DEF sizes
<1>3. sizes \in Seq(Int) /\ Len(sizes) = Len(values)  BY <1>1, <1>2, ArrayIs
<1>4. pieces \in Seq(Seq(Byte)) /\ Len(pieces) = Len(values)
      /\ (\A i \in 1..Len(values) : pieces[i] = StoredString(values[i]))
      /\ StoredStrings(values) = FlattenSeq(pieces)
  BY StoredPiecesAre
<1> HIDE DEF pieces
<1>5. LongestVarint \in Nat  BY Longest
<1>6. \A s \in String : Len(StoredString(s)) >= 1 /\ Len(StoredString(s)) <= Len(s) + LongestVarint
  <2> TAKE s \in String
  <2>1. /\ Len(StoredString(s)) = VarintLen(Len(s)) + Len(s) /\ Len(s) \in Nat
        /\ VarintLen(Len(s)) \in Nat /\ VarintLen(Len(s)) >= 1 /\ VarintLen(Len(s)) <= LongestVarint
    BY StringIs
  <2> QED BY <1>5, <2>1
<1>7. Bounded(pieces, sizes, LongestVarint)
  BY <1>1, <1>2, <1>4, <1>6 DEF Bounded
<1>8. SumOf(sizes) \in Int  BY <1>3, SumUnfolds
<1> QED BY <1>3, <1>4, <1>5, <1>7, <1>8, JoinedLength DEF sizes

LEMMA RleWithin ==
    ASSUME ErrIsApart, NEW data \in Seq(Byte), NEW max
    PROVE  /\ EncodeRle(data) \in Seq(Byte)
           /\ DecodeRle(EncodeRle(data), max) = IF Len(data) > max THEN Err ELSE data
<1> DEFINE r == EncodeRle(data)
<1>1. Covers(r, data, 1)  BY EncodedRle
<1> HIDE DEF r
<1>2. PICK m, counts, pieces : /\ IsRuns(r, m, counts, pieces)
                               /\ SumOf(counts) = Len(data) + 1 - 1
                               /\ FlattenSeq(pieces) = SubSeq(data, 1, Len(data))
  BY <1>1 DEF Covers
<1>3. SubSeq(data, 1, Len(data)) = data /\ Len(data) \in Nat  OBVIOUS
<1>4. SumOf(counts) = Len(data)  BY <1>2, <1>3
<1>5. DecodeRle(r, max) = IF Len(data) > max THEN Err ELSE FlattenSeq(pieces)
  BY <1>2, <1>4, DecodedRuns
<1>6. r \in Seq(Byte)  BY <1>2 DEF IsRuns
<1> QED BY <1>2, <1>3, <1>5, <1>6 DEF r

-----------------------------------------------------------------------------
(* Strings in a column. *)

LEMMA EncodedStrings ==
    ASSUME ErrIsApart, NEW codec, NEW values
    PROVE  /\ StringBytes(codec, values) = Err => EncodeStrings(codec, values) = Err
           /\ StringBytes(codec, values) # Err =>
                  /\ EncodeStrings(codec, values) # Err
                  /\ EncodeStrings(codec, values).bytes = StringBytes(codec, values)
<1> DEFINE bytes == StringBytes(codec, values)
           body == [width |-> 0, bytes |-> bytes]
<1>1. EncodeStrings(codec, values) = IF bytes = Err THEN Err ELSE body
  <2>1. EncodeStrings(codec, values) = Try(bytes, LAMBDA b : [width |-> 0, bytes |-> b])
    BY DEF EncodeStrings, StringBytes
  <2> HIDE DEF bytes
  <2> QED BY <2>1, Zenon DEF Try
<1> HIDE DEF bytes
<1>2. body # Err  BY RecordsAreApart
<1>3. body.bytes = bytes  OBVIOUS
<1> HIDE DEF body
<1> QED BY <1>1, <1>2, <1>3 DEF bytes

LEMMA TextIsBack ==
    ASSUME ErrIsApart, NEW codec, NEW values, NEW bytes \in Seq(Byte), bytes = StringBytes(codec, values),
           TextDecodes(codec, values, bytes)
    PROVE  TextBack(codec, values)
<1>1. bytes # Err  BY SequencesAreApart
<1>2. EncodeStrings(codec, values) # Err /\ EncodeStrings(codec, values).bytes = bytes
  BY <1>1, EncodedStrings
<1> QED BY <1>2, Zenon DEF TextBack, TextDecodes

LEMMA StoredText ==
    ASSUME ErrIsApart, NEW values \in Seq(String)
    PROVE  TextBack("stored", values)
<1> DEFINE bytes == StoredStrings(values)
<1>1. bytes \in Seq(Byte)  BY StoredPiecesAre
<1>2. bytes = StringBytes("stored", values)  BY DEF StringBytes
<1>3. Len(bytes) \in Nat /\ Len(bytes) >= Len(values) /\ Len(values) \in Nat
  BY StoredLength, StringsAre
<1>4. DecodeStored(bytes, Len(values)) = values  BY StoredBack
<1> HIDE DEF bytes
<1>5. ASSUME NEW meta, StringsMeta(meta, "stored", values)
      PROVE  DecodeStrings(meta, bytes, Len(values)) = values
  <2>1. meta.codec = "stored"  BY <1>5 DEF StringsMeta
  <2>2. ~ (Len(values) > Len(bytes)) /\ Len(values) <= Len(bytes)  BY <1>3
  <2>3. DecodeStrings(meta, bytes, Len(values)) = DecodeStored(bytes, Len(values))
    BY <2>1, <2>2 DEF DecodeStrings
  <2> QED BY <1>4, <2>3
<1>6. TextDecodes("stored", values, bytes)  BY <1>5 DEF TextDecodes, Kept, Bloats
<1> QED BY <1>1, <1>2, <1>6, TextIsBack

LEMMA PrefixText ==
    ASSUME ErrIsApart, NEW values \in Seq(String)
    PROVE  TextBack("prefix", values)
<1> DEFINE bytes == EncodePrefix(values)
<1>1. bytes \in Seq(Byte)  BY PrefixPiecesAre
<1>2. bytes = StringBytes("prefix", values)  BY DEF StringBytes
<1>3. Len(bytes) >= Len(values) /\ Len(values) \in Nat
  BY PrefixLong, StringsAre
<1>4. DecodePrefix(bytes, Len(values)) = values  BY PrefixBack
<1> HIDE DEF bytes
<1>5. ASSUME NEW meta, StringsMeta(meta, "prefix", values)
      PROVE  DecodeStrings(meta, bytes, Len(values)) = values
  <2>1. meta.codec = "prefix"  BY <1>5 DEF StringsMeta
  <2>2. ~ (Len(values) > Len(bytes)) /\ Len(values) <= Len(bytes)
    BY <1>1, <1>3
  <2>3. DecodeStrings(meta, bytes, Len(values)) = DecodePrefix(bytes, Len(values))
    BY <2>1, <2>2 DEF DecodeStrings
  <2> QED BY <1>4, <2>3
<1>6. TextDecodes("prefix", values, bytes)  BY <1>5 DEF TextDecodes, Kept, Bloats
<1> QED BY <1>1, <1>2, <1>6, TextIsBack

LEMMA RleText ==
    ASSUME ErrIsApart, NEW values \in Seq(String)
    PROVE  TextBack("rle", values)
<1> DEFINE stored == StoredStrings(values)
           bytes == EncodeRle(stored)
           max == SumOf(Lengths(values)) + Len(values) * LongestVarint
           cap == Min({max, MaxDecodedBytes})
           many == Len(stored) > MaxDecodedBytes
<1>1. stored \in Seq(Byte)  BY StoredPiecesAre
<1>2. bytes = StringBytes("rle", values)  BY DEF StringBytes
<1>3. Len(stored) > cap <=> many
  <2>1. SumOf(Lengths(values)) \in Int /\ Len(stored) <= max  BY StoredLength
  <2>2. Len(values) \in Nat /\ LongestVarint \in Nat  BY StringsAre, Longest
  <2> DEFINE n == Len(stored)
  <2>3. n \in Nat /\ n <= max  BY <1>1, <2>1
  <2>4. max \in Int  BY <2>1, <2>2
  <2> HIDE DEF n, max
  <2>5. {max, MaxDecodedBytes} \in SUBSET Nat  BY <2>3, <2>4, LimitsAssumption
  <2> HIDE DEF cap
  <2>6. cap \in {max, MaxDecodedBytes} /\ cap <= MaxDecodedBytes  BY <2>5, MinIn DEF cap
  <2>7. n > cap <=> n > MaxDecodedBytes  BY <2>3, <2>5, <2>6
  <2> QED BY <2>7 DEF n
<1>4. DecodeStored(stored, Len(values)) = values  BY StoredBack
<1> HIDE DEF stored, max, cap, many
<1>5. bytes \in Seq(Byte) /\ DecodeRle(bytes, cap) = IF many THEN Err ELSE stored
  BY <1>1, <1>3, RleWithin
<1>6. stored # Err  BY <1>1, SequencesAreApart
<1> HIDE DEF bytes
<1>7. ASSUME NEW meta, StringsMeta(meta, "rle", values)
      PROVE  DecodeStrings(meta, bytes, Len(values)) = IF many THEN Err ELSE values
  <2> DEFINE bound == Min({meta.raw_size + Len(values) * LongestVarint, MaxDecodedBytes})
  <2>1. meta.codec = "rle" /\ bound = cap
    BY <1>7 DEF StringsMeta, max, cap
  <2>2. DecodeStrings(meta, bytes, Len(values))
            = Try(DecodeRle(bytes, bound), LAMBDA s : DecodeStored(s, Len(values)))
    BY <2>1 DEF DecodeStrings
  <2>3. DecodeStrings(meta, bytes, Len(values))
            = Try(DecodeRle(bytes, cap), LAMBDA s : DecodeStored(s, Len(values)))
    BY <2>1, <2>2, Zenon
  <2>4. DecodeStrings(meta, bytes, Len(values)) = IF many THEN Err ELSE DecodeStored(stored, Len(values))
    BY <1>5, <1>6, <2>3, Zenon DEF Try
  <2> QED BY <1>4, <2>4
<1>8. TextDecodes("rle", values, bytes)
  BY <1>7 DEF TextDecodes, Kept, Bloats, many, stored
<1> QED BY <1>2, <1>5, <1>8, TextIsBack

LEMMA DictionaryText ==
    ASSUME ErrIsApart, NEW values \in Seq(String)
    PROVE  IF Cardinality(Range(values)) > MaxDictionary
           THEN EncodeStrings("dictionary", values) = Err
           ELSE TextBack("dictionary", values)
<1> DEFINE bytes == EncodeDictionary(values)
           d == DictionaryOf(values)
           ids == DictionaryIds(values, d)
<1>1. bytes = StringBytes("dictionary", values)  BY DEF StringBytes
<1>2. CASE Cardinality(Range(values)) > MaxDictionary
  <2>1. bytes = Err  BY <1>2, DictionaryBack
  <2> QED BY <1>1, <1>2, <2>1, EncodedStrings
<1>3. CASE ~ (Cardinality(Range(values)) > MaxDictionary)
  <2>1. /\ bytes \in Seq(Byte) /\ DecodeDictionary(bytes, Len(values)) = values
        /\ Len(EncodeVarints(ids)) <= Len(bytes)
    BY <1>3, DictionaryBack
  <2>2. IsDictionary(d, String, values, Len(values)) /\ Range(d) = Range(values)
    BY DictionaryIs
  <2>3. d \in Seq(String) /\ Cardinality(Range(values)) = Len(d)
    BY <2>2 DEF IsDictionary
  <2> HIDE DEF bytes, d
  <2>4. Len(d) \in Word
    <3>1. Len(d) \in Nat /\ MaxDictionary \in Word /\ MaxDictionary \in Nat
      BY <2>3, DictionaryAssumption, WordIs
    <3>2. Len(d) <= MaxDictionary  BY <1>3, <2>3, <3>1
    <3> QED BY <3>1, <3>2, WordsBelow
  <2>5. ids \in Seq(Word) /\ Len(ids) = Len(values)
    BY <2>2, <2>3, <2>4, DictionaryIdsAre
  <2> HIDE DEF ids
  <2>6. Len(EncodeVarints(ids)) \in Nat /\ Len(EncodeVarints(ids)) >= Len(ids)
    BY <2>5, VarintsLong
  <2>7. Len(values) \in Nat /\ Len(bytes) \in Nat  BY <2>1, StringsAre
  <2>8. Len(values) <= Len(bytes) /\ ~ (Len(values) > Len(bytes))
    BY <2>1, <2>5, <2>6, <2>7
  <2>9. ASSUME NEW meta, StringsMeta(meta, "dictionary", values)
        PROVE  DecodeStrings(meta, bytes, Len(values)) = values
    <3>1. meta.codec = "dictionary"  BY <2>9 DEF StringsMeta
    <3>2. DecodeStrings(meta, bytes, Len(values)) = DecodeDictionary(bytes, Len(values))
      BY <2>8, <3>1 DEF DecodeStrings
    <3> QED BY <2>1, <3>2
  <2>10. TextDecodes("dictionary", values, bytes)  BY <2>9 DEF TextDecodes, Kept, Bloats
  <2>11. TextBack("dictionary", values)  BY <1>1, <2>1, <2>10, TextIsBack
  <2> QED BY <1>3, <2>11
<1> QED BY <1>2, <1>3

-----------------------------------------------------------------------------
(* What the codec of a column can hold comes back. *)

LEMMA TypesAre ==
    /\ ValuesOf("bool") = BOOLEAN /\ ValuesOf("u64") = Word /\ ValuesOf("string") = String
    /\ Range(Candidates("bool")) = {"bitmap"}
    /\ Range(Candidates("u64")) = NumberCodecs
    /\ Range(Candidates("string")) = {"prefix", "dictionary", "rle", "stored"}
<1>1. ValuesOf("bool") = BOOLEAN /\ ValuesOf("u64") = Word /\ ValuesOf("string") = String
  BY DEF ValuesOf
<1>2. Range(Candidates("bool")) = {"bitmap"}  BY DEF Candidates, Range
<1>3. Range(Candidates("u64")) = NumberCodecs
  <2> DEFINE c == <<"delta_bitpack", "bitpack", "delta_varint", "stored">>
  <2>1. Candidates("u64") = c /\ DOMAIN c = 1..4  BY DEF Candidates
  <2>2. c[1] = "delta_bitpack" /\ c[2] = "bitpack" /\ c[3] = "delta_varint" /\ c[4] = "stored"
    OBVIOUS
  <2>3. 1..4 = {1, 2, 3, 4}  OBVIOUS
  <2> HIDE DEF c
  <2> QED BY <2>1, <2>2, <2>3 DEF Range, NumberCodecs
<1>4. Range(Candidates("string")) = {"prefix", "dictionary", "rle", "stored"}
  <2> DEFINE c == <<"prefix", "dictionary", "rle", "stored">>
  <2>1. Candidates("string") = c /\ DOMAIN c = 1..4  BY DEF Candidates
  <2>2. c[1] = "prefix" /\ c[2] = "dictionary" /\ c[3] = "rle" /\ c[4] = "stored"
    OBVIOUS
  <2>3. 1..4 = {1, 2, 3, 4}  OBVIOUS
  <2> HIDE DEF c
  <2> QED BY <2>1, <2>2, <2>3 DEF Range
<1> QED BY <1>1, <1>2, <1>3, <1>4

LEMMA NumbersInColumn ==
    ASSUME NEW codec \in NumberCodecs, NEW values, NumbersBack(codec, values)
    PROVE  ValuesBack("u64", codec, values)
<1> DEFINE body == EncodeNumbers(codec, values)
<1>1. EncodeValues("u64", codec, values) = body  BY DEF EncodeValues
<1>2. body # Err /\ body.bytes \in Seq(Byte)  BY DEF NumbersBack
<1>3. ASSUME NEW meta, ~ TooLong(values), ValuesMeta(meta, "u64", codec, values)
      PROVE  DecodeValues(meta, body.bytes, Len(values)) = values
  <2>1. NumbersMeta(meta, codec, values) /\ meta.type = "u64"
    BY <1>1, <1>3 DEF ValuesMeta, NumbersMeta
  <2>2. DecodeNumbers(meta, body.bytes, Len(values)) = values
    BY <1>3, <2>1, Zenon DEF NumbersBack
  <2> HIDE DEF body
  <2> QED BY <2>1, <2>2 DEF DecodeValues
<1>4. Kept(codec, values) = values  BY DEF NumberCodecs, Kept, Bloats
<1> QED BY <1>1, <1>2, <1>3, <1>4 DEF ValuesBack

LEMMA TextInColumn ==
    ASSUME NEW codec, NEW values, TextBack(codec, values)
    PROVE  ValuesBack("string", codec, values)
<1> DEFINE body == EncodeStrings(codec, values)
<1>1. EncodeValues("string", codec, values) = body  BY DEF EncodeValues
<1>2. body # Err /\ body.bytes \in Seq(Byte)  BY DEF TextBack
<1>3. ASSUME NEW meta, ValuesMeta(meta, "string", codec, values)
      PROVE  DecodeValues(meta, body.bytes, Len(values)) = Kept(codec, values)
  <2>1. meta.codec = codec /\ meta.type = "string" /\ meta.raw_size = SumOf(Lengths(values))
    BY <1>3 DEF ValuesMeta, RawSize, Lengths
  <2>2. StringsMeta(meta, codec, values)  BY <2>1 DEF StringsMeta
  <2>3. DecodeStrings(meta, body.bytes, Len(values)) = Kept(codec, values)
    BY <2>2, Zenon DEF TextBack
  <2> HIDE DEF body
  <2> QED BY <2>1, <2>3 DEF DecodeValues
<1> QED BY <1>1, <1>2, <1>3 DEF ValuesBack

LEMMA FlagsInColumn ==
    ASSUME ErrIsApart, NEW values \in Seq(BOOLEAN)
    PROVE  ValuesBack("bool", "bitmap", values)
<1> DEFINE bytes == EncodeBitmap(values)
           body == [width |-> 0, bytes |-> bytes]
<1>1. EncodeValues("bool", "bitmap", values) = body  BY DEF EncodeValues
<1>2. bytes \in Seq(Byte) /\ DecodeBitmap(bytes, Len(values)) = values
  BY BitmapBack
<1> HIDE DEF bytes
<1>3. body # Err  BY RecordsAreApart
<1>4. body.bytes = bytes  OBVIOUS
<1> HIDE DEF body
<1>5. ASSUME NEW meta, ValuesMeta(meta, "bool", "bitmap", values)
      PROVE  DecodeValues(meta, body.bytes, Len(values)) = values
  <2>1. meta.type = "bool"  BY <1>5 DEF ValuesMeta
  <2> QED BY <1>2, <1>4, <2>1 DEF DecodeValues
<1>6. Kept("bitmap", values) = values  BY DEF Kept, Bloats
<1> QED BY <1>1, <1>2, <1>3, <1>4, <1>5, <1>6 DEF ValuesBack

LEMMA CodecBack ==
    ASSUME ErrIsApart, NEW type \in Types, NEW codec \in Range(Candidates(type)),
           NEW values \in Seq(ValuesOf(type))
    PROVE  IF Cannot(codec, values) THEN EncodeValues(type, codec, values) = Err
           ELSE ValuesBack(type, codec, values)
<1>1. CASE type = "bool"
  <2>1. codec = "bitmap" /\ values \in Seq(BOOLEAN)  BY <1>1, TypesAre
  <2>2. ~ Cannot(codec, values)  BY <2>1 DEF Cannot
  <2> QED BY <1>1, <2>1, <2>2, FlagsInColumn
<1>2. CASE type = "u64"
  <2>1. codec \in NumberCodecs /\ values \in Seq(Word)  BY <1>2, TypesAre
  <2>2. EncodeValues(type, codec, values) = EncodeNumbers(codec, values)
    BY <1>2 DEF EncodeValues
  <2>3. CASE codec = "bitpack"
    <3>1. ~ Cannot(codec, values)  BY <2>3 DEF Cannot
    <3> QED BY <1>2, <2>1, <2>3, <3>1, BitpackNumbers, NumbersInColumn
  <2>4. CASE codec = "stored"
    <3>1. ~ Cannot(codec, values)  BY <2>4 DEF Cannot
    <3> QED BY <1>2, <2>1, <2>4, <3>1, StoredNumbers, NumbersInColumn
  <2>5. CASE codec = "delta_varint"
    <3>1. Cannot(codec, values) <=> ~ Rises(values)  BY <2>5 DEF Cannot
    <3> QED BY <1>2, <2>1, <2>2, <2>5, <3>1, VarintNumbers, NumbersInColumn
  <2>6. CASE codec = "delta_bitpack"
    <3>1. Cannot(codec, values) <=> ~ Rises(values)  BY <2>6 DEF Cannot
    <3> QED BY <1>2, <2>1, <2>2, <2>6, <3>1, DeltaNumbers, NumbersInColumn
  <2> QED BY <2>1, <2>3, <2>4, <2>5, <2>6 DEF NumberCodecs
<1>3. CASE type = "string"
  <2>1. codec \in {"prefix", "dictionary", "rle", "stored"} /\ values \in Seq(String)
    BY <1>3, TypesAre
  <2>2. EncodeValues(type, codec, values) = EncodeStrings(codec, values)
    BY <1>3 DEF EncodeValues
  <2>3. CASE codec = "dictionary"
    <3>1. Cannot(codec, values) <=> Cardinality(Range(values)) > MaxDictionary
      BY <2>3 DEF Cannot
    <3> QED BY <1>3, <2>1, <2>2, <2>3, <3>1, DictionaryText, TextInColumn
  <2>4. CASE codec # "dictionary"
    <3>1. ~ Cannot(codec, values)  BY <2>1, <2>4 DEF Cannot
    <3>2. TextBack(codec, values)
      BY <2>1, <2>4, StoredText, PrefixText, RleText
    <3> QED BY <1>3, <3>1, <3>2, TextInColumn
  <2> QED BY <2>3, <2>4
<1> QED BY <1>1, <1>2, <1>3 DEF Types

-----------------------------------------------------------------------------
(* Statistics. *)

LEMMA StatisticsAre ==
    ASSUME NEW type \in Types, NEW values \in Seq(ValuesOf(type)), NEW meta, CountsFit(meta, type, values)
    PROVE  StatisticsFit(meta) /\ StatisticsAgree(meta, values)
<1>1. meta.type = type /\ meta.value_count - meta.null_count = Len(values)
      /\ meta.statistics = Statistics(type, values)
  BY DEF CountsFit
<1>2. StatisticsAgree(meta, values)  BY <1>1 DEF StatisticsAgree
<1>3. CASE type = "u64" /\ values = << >>
  <2>1. Len(values) = 0  BY <1>3
  <2>2. Statistics(type, values) = NoStatistics  BY <1>3 DEF Statistics
  <2>3. meta.statistics.kind = "none"  BY <1>1, <2>2 DEF NoStatistics
  <2> QED BY <1>1, <1>2, <1>3, <2>1, <2>3 DEF StatisticsFit
<1>4. CASE type = "u64" /\ values # << >>
  <2>1. Statistics(type, values) = [kind |-> "u64", min |-> Min(Range(values)), max |-> Max(Range(values))]
    BY <1>4 DEF Statistics
  <2>2. meta.statistics.kind = "u64"  BY <1>1, <2>1
  <2> QED BY <1>1, <1>2, <1>4, <2>2 DEF StatisticsFit
<1>5. CASE type = "bool"
  <2> DEFINE set == {i \in DOMAIN values : values[i]}
             count == Cardinality(set)
  <2>1. Len(values) \in Nat /\ DOMAIN values = 1..Len(values)  OBVIOUS
  <2>2. IsFiniteSet(1..Len(values)) /\ Cardinality(1..Len(values)) = Len(values)
    <3>1. 1 \in Int /\ Len(values) \in Int  BY <2>1
    <3>2. Cardinality(1..Len(values)) = IF 1 > Len(values) THEN 0 ELSE Len(values) - 1 + 1
      BY <3>1, FS_Interval, Zenon
    <3>3. IsFiniteSet(1..Len(values))  BY <3>1, FS_Interval, Zenon
    <3> QED BY <2>1, <3>2, <3>3
  <2>3. set \in SUBSET (1..Len(values))  BY <2>1
  <2> HIDE DEF set
  <2>4. count <= Len(values)  BY <2>2, <2>3, FS_Subset
  <2> HIDE DEF count
  <2>5. Statistics(type, values) = [kind |-> "bool", true_count |-> count]
    BY <1>5 DEF Statistics, count, set
  <2>6. meta.statistics.kind = "bool" /\ meta.statistics.true_count = count
    BY <1>1, <2>5
  <2> QED BY <1>1, <1>2, <1>5, <2>4, <2>6 DEF StatisticsFit
<1>6. CASE type = "string"
  <2> DEFINE count == Cardinality(Range(values))
             d == DictionaryOf(values)
  <2>1. values \in Seq(String)  BY <1>6, TypesAre
  <2>2. IsDictionary(d, String, values, Len(values)) /\ Range(d) = Range(values)
    BY <2>1, DictionaryIs
  <2>3. count <= Len(values)  BY <2>2 DEF IsDictionary
  <2>4. Statistics(type, values) = [kind |-> "string", distinct_count |-> count]
    BY <1>6 DEF Statistics
  <2> HIDE DEF count, d
  <2>5. meta.statistics.kind = "string" /\ meta.statistics.distinct_count = count
    BY <1>1, <2>4
  <2> QED BY <1>1, <1>2, <1>6, <2>3, <2>5 DEF StatisticsFit
<1> QED BY <1>3, <1>4, <1>5, <1>6 DEF Types

-----------------------------------------------------------------------------
(* Cells, the values in them, and the chunk they make. *)

LEMMA IntervalIs ==
    ASSUME NEW n \in Nat
    PROVE  IsFiniteSet(1..n) /\ Cardinality(1..n) = n
<1>1. 1 \in Int /\ n \in Int  OBVIOUS
<1>2. Cardinality(1..n) = IF 1 > n THEN 0 ELSE n - 1 + 1
  BY <1>1, FS_Interval, Zenon
<1>3. IsFiniteSet(1..n)  BY <1>1, FS_Interval, Zenon
<1> QED BY <1>2, <1>3

LEMMA ValidityIs ==
    ASSUME NEW n \in Nat, NEW cells, IsArray(cells, n, Range(cells)), n = Len(cells)
    PROVE  /\ DOMAIN cells = 1..n
           /\ Validity(cells) \in Seq(BOOLEAN) /\ Len(Validity(cells)) = n
           /\ DOMAIN Validity(cells) = 1..n
           /\ \A i \in 1..n : Validity(cells)[i] <=> cells[i] # Null
           /\ (\A i \in 1..n : cells[i] # Null) => Validity(cells) = [i \in 1..n |-> TRUE]
<1> DEFINE v == Validity(cells)
<1>1. DOMAIN cells = 1..n  BY DEF IsArray
<1>2. v = [i \in 1..n |-> cells[i] # Null]  BY <1>1 DEF Validity
<1>3. IsArray(v, n, BOOLEAN)  BY <1>2 DEF IsArray
<1>4. \A i \in 1..n : v[i] <=> cells[i] # Null  BY <1>2
<1>5. (\A i \in 1..n : cells[i] # Null) => v = [i \in 1..n |-> TRUE]
  BY <1>2, Zenon
<1> HIDE DEF v
<1>6. v \in Seq(BOOLEAN) /\ Len(v) = n /\ DOMAIN v = 1..n  BY <1>3, ArrayIs
<1> QED BY <1>1, <1>4, <1>5, <1>6 DEF v

(* The values that are there, and the cells they go back to. *)
LEMMA PresentIs ==
    ASSUME NEW X, NEW n \in Nat, NEW cells, IsArray(cells, n, Range(cells)), n = Len(cells),
           \A i \in 1..n : cells[i] # Null => cells[i] \in X
    PROVE  /\ Present(cells) \in Seq(X) /\ Len(Present(cells)) \in Nat /\ Len(Present(cells)) <= n
           /\ Cardinality({i \in DOMAIN Validity(cells) : Validity(cells)[i]}) = Len(Present(cells))
           /\ Spread(Validity(cells), Present(cells)) = cells
<1> DEFINE places == Full(cells)
           c == Present(cells)
           v == Validity(cells)
<1>1. DOMAIN cells = 1..n /\ v \in Seq(BOOLEAN) /\ Len(v) = n /\ DOMAIN v = 1..n
      /\ \A i \in 1..n : v[i] <=> cells[i] # Null
  BY ValidityIs
<1>2. \A i \in 1..n : i \in places <=> cells[i] # Null  BY <1>1 DEF Full
<1>3. places = {i \in DOMAIN v : v[i]} /\ places \subseteq 1..n
  BY <1>1 DEF Full
<1>4. c = Chosen(cells, places)  BY DEF Present, Full
<1> HIDE DEF places, c, v
<1>5. IsChosen(c, X, cells, places, n)
  <2>1. \A i \in 1..n : i \in places => cells[i] \in X  BY <1>2
  <2> QED BY <1>4, <2>1, ChosenHolds
<1>6. c \in Seq(X) /\ Len(c) = Rank(places, n)
      /\ \A i \in 1..n : i \in places => Rank(places, i) \in 1..Len(c) /\ c[Rank(places, i)] = cells[i]
  BY <1>5 DEF IsChosen
<1>7. Up(places, n) = places  BY <1>3 DEF Up
<1>8. Len(c) = Cardinality(places) /\ Len(c) \in Nat /\ Len(c) <= n
  <2>1. Len(c) = Cardinality(places)  BY <1>6, <1>7 DEF Rank
  <2>2. IsFiniteSet(1..n) /\ Cardinality(1..n) = n /\ places \in SUBSET (1..n)
    BY <1>3, IntervalIs
  <2>3. Cardinality(places) <= n  BY <2>2, FS_Subset
  <2>4. Len(c) \in Nat  BY <1>6, RankIs
  <2> QED BY <2>1, <2>3, <2>4
<1>9. \A i \in 1..n : {j \in 1..i : v[j]} = Up(places, i)
  <2> TAKE i \in 1..n
  <2>1. \A j \in 1..i : j \in 1..n  OBVIOUS
  <2>2. \A j \in 1..i : v[j] <=> j \in places  BY <1>1, <1>2, <2>1
  <2> QED BY <2>2 DEF Up
<1> DEFINE one(i) == IF v[i] THEN c[Cardinality({j \in 1..i : v[j]})] ELSE Null
<1>10. \A i \in 1..n : one(i) = cells[i]
  <2> TAKE i \in 1..n
  <2>1. Cardinality({j \in 1..i : v[j]}) = Rank(places, i)  BY <1>9 DEF Rank
  <2>2. CASE i \in places
    BY <1>1, <1>2, <1>6, <2>1, <2>2
  <2>3. CASE i \notin places
    BY <1>1, <1>2, <2>3
  <2> QED BY <2>2, <2>3
<1>11. Spread(v, c) = [i \in DOMAIN v |-> one(i)]  BY DEF Spread
<1>12. Spread(v, c) = cells
  <2>1. cells = [i \in 1..n |-> cells[i]]  BY DEF IsArray
  <2> HIDE DEF one
  <2> QED BY <1>1, <1>10, <1>11, <2>1
<1> QED BY <1>3, <1>6, <1>8, <1>12 DEF c, v

LEMMA CellsBack ==
    ASSUME NEW column, NEW n \in Nat, NEW cells, IsArray(cells, n, Range(cells))
    PROVE  Cells(column, RowsOf(column, cells)) = cells
<1> DEFINE rows == RowsOf(column, cells)
           name == column.name
<1>1. cells = [i \in 1..n |-> cells[i]]  BY DEF IsArray
<1>2. DOMAIN cells = 1..n  BY <1>1
<1>3. DOMAIN rows = 1..n /\ \A i \in 1..n : rows[i] = [x \in {name} |-> cells[i]]
  BY <1>2 DEF RowsOf
<1> HIDE DEF rows, name
<1>4. \A i \in 1..n : name \in DOMAIN rows[i] /\ rows[i][name] = cells[i]
  BY <1>3
<1>5. Cells(column, rows) = [i \in DOMAIN rows |-> IF name \in DOMAIN rows[i] THEN rows[i][name] ELSE Null]
  BY DEF Cells, name
<1>6. Cells(column, rows) = [i \in 1..n |-> cells[i]]  BY <1>3, <1>4, <1>5
<1> QED BY <1>1, <1>6 DEF rows

LEMMA EncodedWith ==
    ASSUME NEW column, NEW codec, NEW rows, NEW cells, cells = Cells(column, rows)
    PROVE  LET body == IF IsCollectable(column, cells)
                       THEN EncodeValues(column.type, codec, Present(cells)) ELSE Err
           IN  EncodeWith(column, codec, rows)
                   = IF body = Err THEN Err ELSE ChunkOf(column, codec, cells, body)
BY Zenon DEF EncodeWith, Try, ChunkOf, MetaOf, FlagBytes, Validity

-----------------------------------------------------------------------------
(* A chunk read back. *)

LEMMA Behind ==
    ASSUME NEW X, NEW c \in Seq(X), NEW m \in Nat, NEW k \in Nat, Len(c) = m + k
    PROVE  /\ SubSeq(c, m + 1, m + k) \in Seq(X)
           /\ Len(SubSeq(c, m + 1, m + k)) = k
           /\ \A i \in 1..k : SubSeq(c, m + 1, m + k)[i] = c[m + i]
<1> DEFINE q == SubSeq(c, m + 1, m + k)
<1>1. m + 1 \in 1..Len(c) + 1 /\ m + k \in m..Len(c) /\ (m + k) - (m + 1) + 1 = k
  OBVIOUS
<1>2. q = [i \in 1..k |-> c[m + i]]  OBVIOUS
<1>3. IsArray(q, k, X)
  <2>1. \A i \in 1..k : m + i \in 1..Len(c)  OBVIOUS
  <2>2. \A i \in 1..k : c[m + i] \in X  BY <2>1
  <2> HIDE DEF q
  <2> QED BY <1>2, <2>2 DEF IsArray
<1> HIDE DEF q
<1>4. q \in Seq(X) /\ Len(q) = k  BY <1>3, ArrayIs
<1> QED BY <1>2, <1>4 DEF q

LEMMA JoinParts ==
    ASSUME NEW X, NEW a \in Seq(X), NEW b \in Seq(X)
    PROVE  /\ SubSeq(a \o b, 1, Len(a)) = a
           /\ SubSeq(a \o b, Len(a) + 1, Len(a \o b)) = b
<1> DEFINE c == a \o b
<1>1. c \in Seq(X) /\ Len(c) = Len(a) + Len(b) /\ Len(a) \in Nat /\ Len(b) \in Nat
      /\ \A i \in 1..Len(a) : c[i] = a[i]
  OBVIOUS
<1>2. \A i \in 1..Len(b) : c[Len(a) + i] = b[i]  OBVIOUS
<1> HIDE DEF c
<1> DEFINE p == SubSeq(c, 1, Len(a))
           q == SubSeq(c, Len(a) + 1, Len(c))
<1>3. p \in Seq(X) /\ Len(p) = Len(a) /\ \A i \in 1..Len(a) : p[i] = c[i]
  BY <1>1
<1>4. q \in Seq(X) /\ Len(q) = Len(b) /\ \A i \in 1..Len(b) : q[i] = c[Len(a) + i]
  <2> DEFINE m == Len(a)
             k == Len(b)
  <2>1. m \in Nat /\ k \in Nat /\ Len(c) = m + k  BY <1>1
  <2> HIDE DEF m, k
  <2>2. q = SubSeq(c, m + 1, m + k)  BY <2>1 DEF m
  <2> HIDE DEF q
  <2>3. q \in Seq(X) /\ Len(q) = k /\ \A i \in 1..k : q[i] = c[m + i]
    BY <1>1, <2>1, <2>2, Behind
  <2> QED BY <2>3 DEF m, k
<1> HIDE DEF p, q
<1>5. p = a  BY <1>1, <1>3, SameSequences
<1>6. q = b  BY <1>2, <1>4, SameSequences
<1> QED BY <1>5, <1>6 DEF c, p, q

LEMMA DecodedColumn ==
    ASSUME NEW meta, NEW payload, NEW validity, NEW values, NEW read \in {Err, values},
           StatisticsFit(meta), FlagsRead(meta, payload) = validity, validity # Err,
           Cardinality({i \in DOMAIN validity : validity[i]}) = meta.value_count - meta.null_count,
           ~ (meta.value_count > MaxDecodedValues) =>
               DecodeValues(meta, SubSeq(payload, FlagsLen(meta) + 1, Len(payload)),
                            meta.value_count - meta.null_count) = read,
           Len(values) = meta.value_count - meta.null_count,
           StatisticsAgree(meta, values)
    PROVE  DecodeColumn(meta, payload)
               = IF meta.value_count > MaxDecodedValues \/ read = Err THEN Err
                 ELSE Spread(validity, values)
<1> DEFINE count == meta.value_count - meta.null_count
           many == meta.value_count > MaxDecodedValues
           first == IF many \/ ~StatisticsFit(meta) THEN Err
                    ELSE IF meta.nullable
                    THEN DecodeBitmap(SubSeq(payload, 1, Min({FlagsLen(meta), Len(payload)})), meta.value_count)
                    ELSE [i \in 1..meta.value_count |-> TRUE]
           second(f) == IF Cardinality({i \in DOMAIN f : f[i]}) # count THEN Err
                        ELSE DecodeValues(meta, SubSeq(payload, FlagsLen(meta) + 1, Len(payload)), count)
           third(f, v) == IF Len(v) # count \/ ~StatisticsAgree(meta, v) THEN Err ELSE Spread(f, v)
<1>1. first = IF many THEN Err ELSE validity  BY Zenon DEF FlagsRead
<1>2. DecodeColumn(meta, payload)
          = IF first = Err THEN Err
            ELSE IF second(first) = Err THEN Err ELSE third(first, second(first))
  BY Zenon DEF DecodeColumn, Try, FlagsLen
<1>3. ~ many => second(validity) = read  BY Zenon
<1>4. third(validity, values) = Spread(validity, values)  BY Zenon
<1> HIDE DEF first, second, third, many
<1>5. DecodeColumn(meta, payload) = IF many \/ read = Err THEN Err ELSE Spread(validity, values)
  BY <1>1, <1>2, <1>3, <1>4, Zenon
<1> QED BY <1>5 DEF many

LEMMA CellsAre ==
    ASSUME NEW X, NEW cells \in Seq(X)
    PROVE  /\ Len(cells) \in Nat /\ DOMAIN cells = 1..Len(cells)
           /\ IsArray(cells, Len(cells), Range(cells))
           /\ \A i \in 1..Len(cells) : cells[i] \in X
<1>1. Len(cells) \in Nat /\ DOMAIN cells = 1..Len(cells) /\ cells = [i \in 1..Len(cells) |-> cells[i]]
      /\ \A i \in 1..Len(cells) : cells[i] \in X
  OBVIOUS
<1>2. \A i \in 1..Len(cells) : cells[i] \in Range(cells)  BY <1>1 DEF Range
<1> QED BY <1>1, <1>2 DEF IsArray

LEMMA ChunkIsBack ==
    ASSUME ErrIsApart, CellMarksAreApart, NEW column, column.type \in Types, NEW codec,
           NEW cells \in Seq(CellsOf(column.type)), IsCollectable(column, cells),
           ValuesBack(column.type, codec, Present(cells)),
           NEW body, body = EncodeValues(column.type, codec, Present(cells))
    PROVE  ChunkBack(column, codec, cells, ChunkOf(column, codec, cells, body))
<1> DEFINE type == column.type
           n == Len(cells)
           values == Present(cells)
           v == Validity(cells)
           meta == MetaOf(column, codec, cells, body)
           flags == FlagBytes(column, cells)
           bytes == body.bytes
           payload == flags \o bytes
           read == Kept(codec, values)
           many == n > MaxDecodedValues
<1>1. n \in Nat /\ DOMAIN cells = 1..n /\ IsArray(cells, n, Range(cells))
      /\ \A i \in 1..n : cells[i] \in CellsOf(type)
  BY CellsAre
<1>2. \A i \in 1..n : /\ cells[i] # Null => cells[i] \in ValuesOf(type)
                      /\ ~ column.nullable => cells[i] # Null
  <2>1. \A i \in 1..n : cells[i] # Wrong /\ (cells[i] = Null => column.nullable)
    BY <1>1 DEF IsCollectable
  <2> HIDE DEF type, n
  <2> QED BY <1>1, <2>1 DEF CellsOf
<1>3. /\ values \in Seq(ValuesOf(type)) /\ Len(values) \in Nat /\ Len(values) <= n
      /\ Cardinality({i \in DOMAIN v : v[i]}) = Len(values)
      /\ Spread(v, values) = cells
  <2> HIDE DEF type, n
  <2> DEFINE X == ValuesOf(type)
  <2>1. \A i \in 1..n : cells[i] # Null => cells[i] \in X  BY <1>2
  <2> HIDE DEF X
  <2>2. n = Len(cells)  BY DEF n
  <2>3. /\ values \in Seq(X) /\ Len(values) \in Nat /\ Len(values) <= n
        /\ Cardinality({i \in DOMAIN v : v[i]}) = Len(values)
        /\ Spread(v, values) = cells
    BY <1>1, <2>1, <2>2, PresentIs
  <2> QED BY <2>3 DEF X
<1>4. v \in Seq(BOOLEAN) /\ Len(v) = n /\ ((\A i \in 1..n : cells[i] # Null) => v = [i \in 1..n |-> TRUE])
  BY <1>1, ValidityIs
<1>5. /\ meta.name = column.name /\ meta.type = type /\ meta.nullable = column.nullable
      /\ meta.codec = codec /\ meta.value_count = n /\ meta.null_count = n - Len(values)
      /\ meta.raw_size = RawSize(type, values) /\ meta.width = body.width
      /\ meta.base = IF codec = "delta_bitpack" THEN Base(values) ELSE 0
      /\ meta.statistics = Statistics(type, values)
  BY DEF MetaOf
<1>6. bytes \in Seq(Byte)  BY DEF ValuesBack
<1>7. ValuesMeta(meta, type, codec, values)
  <2> HIDE DEF meta
  <2> QED BY <1>5 DEF ValuesMeta
<1>8. ~ many => DecodeValues(meta, bytes, Len(values)) = read
  <2> DEFINE k == Len(values)
  <2>1. k \in Nat /\ k <= n  BY <1>3
  <2> HIDE DEF meta, k, n
  <2>2. ~ many => ~ (k > MaxDecodedValues)  BY <1>1, <2>1, LimitsAssumption DEF n
  <2>3. ~ many => ~ TooLong(values)  BY <2>2 DEF TooLong, k
  <2> HIDE DEF many
  <2> QED BY <1>7, <2>3, Zenon DEF ValuesBack
<1> HIDE DEF values, v, meta, bytes, n, read
<1>9. meta.value_count - meta.null_count = Len(values)
  <2> DEFINE k == Len(values)
  <2>1. k \in Nat /\ meta.value_count = n /\ meta.null_count = n - k
    BY <1>3, <1>5
  <2> HIDE DEF k
  <2>2. meta.value_count - meta.null_count = n - (n - k)  BY <2>1
  <2>3. n - (n - k) = k  BY <1>1, <2>1
  <2> QED BY <2>2, <2>3 DEF k
<1>10. StatisticsFit(meta) /\ StatisticsAgree(meta, values)
  <2>1. CountsFit(meta, type, values)  BY <1>5, <1>9 DEF CountsFit
  <2> HIDE DEF type
  <2> DEFINE t == type
  <2>2. t \in Types  BY DEF type
  <2>3. values \in Seq(ValuesOf(t)) /\ CountsFit(meta, t, values)
    BY <1>3, <2>1
  <2> HIDE DEF t
  <2> QED BY <2>2, <2>3, StatisticsAre
<1>11. values # Err /\ v # Err
  <2> DEFINE X == ValuesOf(type)
  <2>1. values \in Seq(X)  BY <1>3
  <2> HIDE DEF X
  <2>2. values # Err  BY <2>1, SequencesAreApart
  <2> QED BY <1>4, <2>2, SequencesAreApart
<1>12. /\ flags \in Seq(Byte) /\ Len(flags) = FlagsLen(meta)
       /\ FlagsRead(meta, payload) = v
  <2>1. CASE column.nullable
    <3>1. flags = EncodeBitmap(v)  BY <2>1 DEF FlagBytes, v
    <3>2. flags \in Seq(Byte) /\ Len(flags) = CeilDiv(n, ByteBits) /\ DecodeBitmap(flags, n) = v
      BY <1>4, <3>1, BitmapBack
    <3> HIDE DEF flags
    <3>3. FlagsLen(meta) = Len(flags)  BY <1>5, <2>1, <3>2 DEF FlagsLen
    <3>4. payload \in Seq(Byte) /\ Len(payload) = Len(flags) + Len(bytes)
          /\ Len(flags) \in Nat /\ Len(bytes) \in Nat
      BY <1>6, <3>2, JoinIs
    <3>5. SubSeq(payload, 1, Len(flags)) = flags  BY <1>6, <3>2, JoinParts
    <3> HIDE DEF payload
    <3>6. Min({Len(flags), Len(payload)}) = Len(flags)
      <4> DEFINE a == Len(flags)
                 b == Len(payload)
      <4>1. a \in Nat /\ b \in Nat /\ a <= b  BY <3>4
      <4> HIDE DEF a, b
      <4>2. {a, b} \in SUBSET Nat /\ a \in {a, b} /\ \A y \in {a, b} : a <= y
        BY <4>1
      <4>3. Min({a, b}) = a  BY <4>2, MinIs
      <4> QED BY <4>3 DEF a, b
    <3>7. FlagsRead(meta, payload) = v
      <4>1. meta.nullable /\ meta.value_count = n  BY <1>5, <2>1
      <4>2. FlagsRead(meta, payload)
                = DecodeBitmap(SubSeq(payload, 1, Min({FlagsLen(meta), Len(payload)})), meta.value_count)
        BY <4>1 DEF FlagsRead
      <4> QED BY <3>2, <3>3, <3>5, <3>6, <4>1, <4>2
    <3> QED BY <3>2, <3>3, <3>7
  <2>2. CASE ~ column.nullable
    <3>1. flags = << >>  BY <2>2 DEF FlagBytes
    <3>2. FlagsLen(meta) = 0  BY <1>5, <2>2 DEF FlagsLen
    <3>3. v = [i \in 1..n |-> TRUE]  BY <1>2, <1>4, <2>2
    <3>4. FlagsRead(meta, payload) = [i \in 1..meta.value_count |-> TRUE]
      BY <1>5, <2>2, Zenon DEF FlagsRead
    <3>5. FlagsRead(meta, payload) = v  BY <1>5, <3>3, <3>4
    <3>6. << >> \in Seq(Byte) /\ Len(<< >>) = 0  OBVIOUS
    <3> QED BY <3>1, <3>2, <3>5, <3>6
  <2> QED BY <2>1, <2>2
<1> HIDE DEF flags
<1>13. SubSeq(payload, FlagsLen(meta) + 1, Len(payload)) = bytes /\ payload \in Seq(Byte)
  <2>1. SubSeq(payload, Len(flags) + 1, Len(payload)) = bytes
    BY <1>6, <1>12, JoinParts
  <2>2. payload \in Seq(Byte)  BY <1>6, <1>12, JoinIs
  <2> QED BY <1>12, <2>1, <2>2
<1> HIDE DEF payload
<1>14. DecodeColumn(meta, payload) = IF many \/ read = Err THEN Err ELSE Spread(v, values)
  <2> DEFINE k == Len(values)
             c == meta.value_count - meta.null_count
             f == FlagsLen(meta)
             b == SubSeq(payload, f + 1, Len(payload))
  <2>1. c = k  BY <1>9
  <2>2. Cardinality({i \in DOMAIN v : v[i]}) = c  BY <1>3, <2>1
  <2>3. ~ (meta.value_count > MaxDecodedValues) => DecodeValues(meta, b, c) = read
    <3>1. b = bytes  BY <1>13
    <3> HIDE DEF b, c
    <3> QED BY <1>5, <1>8, <2>1, <3>1
  <2>4. Len(values) = c  BY <2>1
  <2>5. read \in {Err, values}  BY DEF read, Kept
  <2>6. DecodeColumn(meta, payload)
            = IF meta.value_count > MaxDecodedValues \/ read = Err THEN Err ELSE Spread(v, values)
    BY <1>10, <1>11, <1>12, <2>2, <2>3, <2>4, <2>5, DecodedColumn
  <2> QED BY <1>5, <2>6
<1> DEFINE chunk == ChunkOf(column, codec, cells, body)
<1>15. chunk = [meta |-> meta, payload |-> payload]
  BY DEF ChunkOf, meta, payload, flags, bytes
<1>16. chunk # Err /\ chunk.meta = meta /\ chunk.payload = payload
  <2> HIDE DEF chunk
  <2>1. chunk # Err  BY <1>15, RecordsAreApart
  <2> QED BY <1>15, <2>1
<1> HIDE DEF chunk
<1>17. DecodeColumn(chunk.meta, chunk.payload) = IF IsOverLimit(chunk, cells) THEN Err ELSE cells
  <2>1. IsOverLimit(chunk, cells) <=> many \/ read = Err
    BY <1>5, <1>11, <1>16 DEF IsOverLimit, read, Kept, Bloats, values, n
  <2> HIDE DEF many
  <2> QED BY <1>3, <1>14, <1>16, <2>1
<1>18. ChunkBack(column, codec, cells, chunk)
  BY <1>5, <1>13, <1>16, <1>17 DEF ChunkBack, n
<1> QED BY <1>18 DEF chunk

-----------------------------------------------------------------------------
(* The chunk of a codec, and the least of several. *)

LEMMA WithCodec ==
    ASSUME ErrIsApart, CellMarksAreApart, NEW column, column.type \in Types,
           NEW codec \in Range(Candidates(column.type)),
           NEW cells \in Seq(CellsOf(column.type)), NEW rows, cells = Cells(column, rows)
    PROVE  IF ~ IsCollectable(column, cells) \/ Cannot(codec, Present(cells))
           THEN EncodeWith(column, codec, rows) = Err
           ELSE ChunkBack(column, codec, cells, EncodeWith(column, codec, rows))
<1> DEFINE chunk == EncodeWith(column, codec, rows)
           type == column.type
           values == Present(cells)
           body == EncodeValues(type, codec, values)
<1>1. chunk = LET b == IF IsCollectable(column, cells) THEN body ELSE Err
              IN  IF b = Err THEN Err ELSE ChunkOf(column, codec, cells, b)
  BY EncodedWith
<1>2. CASE ~ IsCollectable(column, cells)
  <2> HIDE DEF chunk, body
  <2> QED BY <1>1, <1>2 DEF chunk
<1>3. CASE IsCollectable(column, cells)
  <2>1. chunk = IF body = Err THEN Err ELSE ChunkOf(column, codec, cells, body)
    BY <1>1, <1>3, Zenon
  <2>2. values \in Seq(ValuesOf(type))
    <3>1. Len(cells) \in Nat /\ DOMAIN cells = 1..Len(cells) /\ IsArray(cells, Len(cells), Range(cells))
          /\ \A i \in 1..Len(cells) : cells[i] \in CellsOf(type)
      BY CellsAre
    <3>2. \A i \in 1..Len(cells) : cells[i] # Wrong
      BY <1>3, <3>1 DEF IsCollectable
    <3> HIDE DEF type
    <3> DEFINE X == ValuesOf(type)
               n == Len(cells)
    <3>3. \A i \in 1..n : cells[i] # Null => cells[i] \in X
      BY <3>1, <3>2 DEF CellsOf
    <3> HIDE DEF X
    <3>4. n \in Nat /\ n = Len(cells) /\ IsArray(cells, n, Range(cells))
      BY <3>1
    <3> HIDE DEF n
    <3>5. values \in Seq(X)  BY <3>3, <3>4, PresentIs
    <3> QED BY <3>5 DEF X
  <2>3. IF Cannot(codec, values) THEN body = Err ELSE ValuesBack(type, codec, values)
    <3> HIDE DEF values
    <3> DEFINE t == type
    <3>1. t \in Types /\ codec \in Range(Candidates(t)) /\ values \in Seq(ValuesOf(t))
      BY <2>2
    <3> HIDE DEF t
    <3>2. IF Cannot(codec, values) THEN EncodeValues(t, codec, values) = Err
          ELSE ValuesBack(t, codec, values)
      BY <3>1, CodecBack
    <3> QED BY <3>2 DEF t
  <2>4. CASE Cannot(codec, values)
    <3> HIDE DEF body
    <3> QED BY <2>1, <2>3, <2>4 DEF chunk
  <2>5. CASE ~ Cannot(codec, values)
    <3>1. ValuesBack(type, codec, values)  BY <2>3, <2>5
    <3>2. body # Err  BY <3>1, Zenon DEF ValuesBack
    <3>3. ChunkBack(column, codec, cells, ChunkOf(column, codec, cells, body))
      BY <1>3, <3>1, ChunkIsBack
    <3> HIDE DEF body
    <3>4. ChunkBack(column, codec, cells, chunk)  BY <2>1, <3>2, <3>3, Zenon
    <3> QED BY <1>3, <2>5, <3>4
  <2> QED BY <2>4, <2>5
<1> QED BY <1>2, <1>3

LEMMA NoneIsSmallest ==
    ASSUME NEW chunks, \A i \in DOMAIN chunks : chunks[i] = Err
    PROVE  Smallest(chunks) = Err
<1>1. {i \in DOMAIN chunks : chunks[i] # Err} = {}  OBVIOUS
<1> QED BY <1>1, Zenon DEF Smallest

LEMMA SmallestIs ==
    ASSUME NEW n \in Nat, NEW chunks, Sized(chunks, n), \E i \in 1..n : chunks[i] # Err
    PROVE  \E i \in 1..n : /\ chunks[i] # Err /\ Smallest(chunks) = chunks[i]
                           /\ \A j \in 1..n : chunks[j] # Err => SizeOf(chunks[i]) <= SizeOf(chunks[j])
<1> DEFINE made == {i \in DOMAIN chunks : chunks[i] # Err}
           sizes == {SizeOf(chunks[i]) : i \in made}
           Best(i) == \A j \in made : \/ SizeOf(chunks[i]) < SizeOf(chunks[j])
                                      \/ SizeOf(chunks[i]) = SizeOf(chunks[j]) /\ i <= j
           best == CHOOSE i \in made : Best(i)
<1>1. \A i : i \in made <=> i \in 1..n /\ chunks[i] # Err  BY DEF Sized
<1>2. made # {} /\ made \subseteq Nat /\ \A i \in made : SizeOf(chunks[i]) \in Nat
  BY <1>1 DEF Sized
<1>3. sizes # {} /\ sizes \subseteq Nat
  <2> HIDE DEF made
  <2> QED BY <1>2
<1>4. PICK s \in sizes : \A t \in sizes : s <= t
  <2> HIDE DEF sizes
  <2> QED BY <1>3, LeastNatural
<1> DEFINE small == {i \in made : SizeOf(chunks[i]) = s}
<1>5. small # {} /\ small \subseteq Nat
  <2> HIDE DEF made
  <2> QED BY <1>2
<1>6. PICK m \in small : \A j \in small : m <= j
  <2> HIDE DEF small
  <2> QED BY <1>5, LeastNatural
<1>7. \A j \in made : s <= SizeOf(chunks[j])
  <2> HIDE DEF made
  <2> QED BY <1>4
<1>8. m \in made /\ SizeOf(chunks[m]) = s  OBVIOUS
<1>9. Best(m)
  <2>1. ASSUME NEW j \in made
        PROVE  \/ SizeOf(chunks[m]) < SizeOf(chunks[j])
               \/ SizeOf(chunks[m]) = SizeOf(chunks[j]) /\ m <= j
    <3> DEFINE a == SizeOf(chunks[m])
               b == SizeOf(chunks[j])
    <3>1. a = s /\ s <= b /\ a \in Nat /\ b \in Nat  BY <1>2, <1>7, <1>8
    <3>2. b = s => m <= j
      <4> SUFFICES ASSUME b = s PROVE m <= j
        OBVIOUS
      <4>1. j \in small  OBVIOUS
      <4> HIDE DEF small
      <4> QED BY <1>6, <4>1
    <3> HIDE DEF a, b
    <3>3. a < b \/ (a = b /\ m <= j)  BY <3>1, <3>2
    <3> QED BY <3>3 DEF a, b
  <2> HIDE DEF made
  <2> QED BY <2>1
<1>10. best \in made /\ Best(best)
  <2> HIDE DEF made, Best
  <2> QED BY <1>8, <1>9
<1>11. Smallest(chunks) = chunks[best]  BY <1>2, Zenon DEF Smallest
<1> HIDE DEF best
<1>12. \A j \in made : SizeOf(chunks[best]) <= SizeOf(chunks[j])
  <2> TAKE j \in made
  <2> DEFINE a == SizeOf(chunks[best])
             b == SizeOf(chunks[j])
  <2>1. a < b \/ a = b  BY <1>10
  <2>2. a \in Nat /\ b \in Nat  BY <1>2, <1>10
  <2> HIDE DEF a, b
  <2>3. a <= b  BY <2>1, <2>2
  <2> QED BY <2>3 DEF a, b
<1> HIDE DEF made
<1> QED BY <1>1, <1>10, <1>11, <1>12

LEMMA SizeIs ==
    ASSUME NEW column, NEW codec, NEW cells, NEW chunk, ChunkBack(column, codec, cells, chunk)
    PROVE  SizeOf(chunk) \in Nat
<1> DEFINE word == WordBits \div ByteBits
<1>1. word \in Nat  BY Widths
<1>2. Len(chunk.payload) \in Nat  BY DEF ChunkBack
<1>3. CodecMetadataLen(chunk.meta.codec) \in Nat
  <2> HIDE DEF word
  <2>1. \A c : CodecMetadataLen(c) = word + CASE c = "bitpack" -> 1 [] c = "delta_bitpack" -> 1 + word [] OTHER -> 0
    BY DEF CodecMetadataLen, word
  <2> QED BY <1>1, <2>1
<1> QED BY <1>2, <1>3 DEF SizeOf

-----------------------------------------------------------------------------
(* The choice of a codec. *)

LEMMA CandidatesAre ==
    ASSUME NEW type \in Types
    PROVE  \E n \in Nat : DOMAIN Candidates(type) = 1..n
<1>1. CASE type = "bool"
  <2>1. Candidates(type) = <<"bitmap">>  BY <1>1 DEF Candidates
  <2>2. DOMAIN Candidates(type) = 1..1  BY <2>1
  <2> QED BY <2>2
<1>2. CASE type = "u64"
  <2>1. Candidates(type) = <<"delta_bitpack", "bitpack", "delta_varint", "stored">>
    BY <1>2 DEF Candidates
  <2>2. DOMAIN Candidates(type) = 1..4  BY <2>1
  <2> QED BY <2>2
<1>3. CASE type = "string"
  <2>1. Candidates(type) = <<"prefix", "dictionary", "rle", "stored">>
    BY <1>3 DEF Candidates
  <2>2. DOMAIN Candidates(type) = 1..4  BY <2>1
  <2> QED BY <2>2
<1> QED BY <1>1, <1>2, <1>3 DEF Types

(* Some codec of the type can hold anything. *)
LEMMA SomeCodec ==
    ASSUME NEW type \in Types, NEW values
    PROVE  \E codec \in Range(Candidates(type)) : ~ Cannot(codec, values)
<1>1. CASE type = "bool"
  <2>1. "bitmap" \in Range(Candidates(type)) /\ ~ Cannot("bitmap", values)
    BY <1>1, TypesAre DEF Cannot
  <2> QED BY <2>1
<1>2. CASE type # "bool"
  <2>1. "stored" \in Range(Candidates(type)) /\ ~ Cannot("stored", values)
    BY <1>2, TypesAre DEF Cannot, Types, NumberCodecs
  <2> QED BY <2>1
<1> QED BY <1>1, <1>2

LEMMA AutoCodec ==
    ASSUME ErrIsApart, CellMarksAreApart, NEW column, column.type \in Types,
           NEW cells \in Seq(CellsOf(column.type)), NEW rows, cells = Cells(column, rows)
    PROVE  IF ~ IsCollectable(column, cells) THEN SelectAuto(column, rows) = Err
           ELSE /\ \E codec : ChunkBack(column, codec, cells, SelectAuto(column, rows))
                /\ NoLarger(SelectAuto(column, rows), column, rows)
<1> DEFINE codecs == Candidates(column.type)
           chunks == [i \in DOMAIN codecs |-> EncodeWith(column, codecs[i], rows)]
           chunk == SelectAuto(column, rows)
<1>1. chunk = Smallest(chunks)  BY Zenon DEF SelectAuto
<1>2. PICK n \in Nat : DOMAIN codecs = 1..n  BY CandidatesAre
<1>3. \A i \in 1..n : codecs[i] \in Range(Candidates(column.type))
  BY <1>2 DEF Range
<1>4. \A c \in Range(Candidates(column.type)) : \E i \in 1..n : codecs[i] = c
  BY <1>2 DEF Range
<1> HIDE DEF codecs
<1>5. DOMAIN chunks = 1..n /\ \A i \in 1..n : chunks[i] = EncodeWith(column, codecs[i], rows)
  BY <1>2
<1> HIDE DEF chunks, chunk
<1>6. \A c \in Range(Candidates(column.type)) :
          IF ~ IsCollectable(column, cells) \/ Cannot(c, Present(cells))
          THEN EncodeWith(column, c, rows) = Err
          ELSE ChunkBack(column, c, cells, EncodeWith(column, c, rows))
  <2> TAKE c \in Range(Candidates(column.type))
  <2> QED BY WithCodec
<1>7. CASE ~ IsCollectable(column, cells)
  <2>1. \A i \in DOMAIN chunks : chunks[i] = Err  BY <1>3, <1>5, <1>6, <1>7
  <2>2. chunk = Err  BY <1>1, <2>1, NoneIsSmallest
  <2> QED BY <1>7, <2>2 DEF chunk
<1>8. CASE IsCollectable(column, cells)
  <2>1. \A i \in 1..n : chunks[i] # Err => ChunkBack(column, codecs[i], cells, chunks[i])
    BY <1>3, <1>5, <1>6
  <2>2. Sized(chunks, n)
    <3>1. \A i \in 1..n : chunks[i] # Err => SizeOf(chunks[i]) \in Nat
      BY <2>1, SizeIs
    <3> QED BY <1>5, <3>1 DEF Sized
  <2>3. \E i \in 1..n : chunks[i] # Err
    <3>1. PICK c \in Range(Candidates(column.type)) : ~ Cannot(c, Present(cells))
      BY SomeCodec
    <3>2. PICK i \in 1..n : codecs[i] = c  BY <1>4
    <3>3. ChunkBack(column, c, cells, EncodeWith(column, c, rows))
      BY <1>6, <1>8, <3>1
    <3>4. EncodeWith(column, c, rows) # Err  BY <3>3 DEF ChunkBack
    <3> QED BY <1>5, <3>2, <3>4
  <2>4. PICK i \in 1..n : /\ chunks[i] # Err /\ Smallest(chunks) = chunks[i]
                          /\ \A j \in 1..n : chunks[j] # Err => SizeOf(chunks[i]) <= SizeOf(chunks[j])
    BY <2>2, <2>3, SmallestIs
  <2>5. ChunkBack(column, codecs[i], cells, chunk)  BY <1>1, <2>1, <2>4
  <2>6. NoLarger(chunk, column, rows)
    <3>1. ASSUME NEW c \in Range(Candidates(column.type)), EncodeWith(column, c, rows) # Err
          PROVE  SizeOf(chunk) <= SizeOf(EncodeWith(column, c, rows))
      <4>1. PICK j \in 1..n : codecs[j] = c  BY <1>4
      <4>2. chunks[j] = EncodeWith(column, c, rows)  BY <1>5, <4>1
      <4> QED BY <1>1, <2>4, <3>1, <4>2
    <3> QED BY <3>1, Zenon DEF NoLarger
  <2> QED BY <1>8, <2>5, <2>6 DEF chunk
<1> QED BY <1>7, <1>8

(* Whatever the cells, a column in any codec gives them back up to the limits*)
(* of the decoder, which refuses them beyond, or does not take them when it  *)
(* must not; "auto" gives them back in the smallest chunk of its candidates  *)
(* (encode_column, select_auto_column, decode_column).                       *)
THEOREM ColumnsComeBack ==
    ASSUME ErrIsApart, CellMarksAreApart, NEW column, IsColumn(column),
           NEW cells \in Seq(CellsOf(column.type))
    PROVE  ColumnRoundTrips(column, cells)
<1> DEFINE rows == RowsOf(column, cells)
           chunk == EncodeColumn(column, rows)
           values == Present(cells)
<1>1. column.type \in Types /\ column.codec \in Range(Candidates(column.type)) \cup {"auto"}
  BY DEF IsColumn
<1>2. cells = Cells(column, rows)
  <2>1. Len(cells) \in Nat /\ IsArray(cells, Len(cells), Range(cells))
    BY CellsAre
  <2> QED BY <2>1, CellsBack
<1> HIDE DEF rows
<1>3. Refuses(column, cells) <=>
          ~ IsCollectable(column, cells) \/ (column.codec # "auto" /\ Cannot(column.codec, values))
  <2>1. IsAscending(values) <=> Rises(values)  BY DEF IsAscending, Rises
  <2> HIDE DEF values
  <2>2. Refuses(column, cells) <=> ~ IsCollectable(column, cells) \/ Cannot(column.codec, values)
    BY <2>1 DEF Refuses, Cannot, values
  <2>3. ~ Cannot("auto", values)  BY DEF Cannot
  <2> QED BY <2>2, <2>3
<1> DEFINE good == /\ chunk # Err
                   /\ DecodeColumn(chunk.meta, chunk.payload)
                          = IF IsOverLimit(chunk, cells) THEN Err ELSE cells
                   /\ FitsSchema(chunk.meta, column, Len(cells))
                   /\ column.codec = "auto" => NoLarger(chunk, column, rows)
<1>4. ColumnRoundTrips(column, cells) <=> IF Refuses(column, cells) THEN chunk = Err ELSE good
  BY Zenon DEF ColumnRoundTrips, rows, NoLarger
<1>5. CASE column.codec = "auto"
  <2>1. chunk = SelectAuto(column, rows)  BY <1>5 DEF EncodeColumn
  <2> HIDE DEF chunk
  <2>2. IF ~ IsCollectable(column, cells) THEN chunk = Err
        ELSE (\E codec : ChunkBack(column, codec, cells, chunk)) /\ NoLarger(chunk, column, rows)
    BY <1>1, <1>2, <2>1, AutoCodec
  <2>3. ASSUME IsCollectable(column, cells) PROVE good
    <3>1. PICK codec : ChunkBack(column, codec, cells, chunk)  BY <2>2, <2>3
    <3>2. FitsSchema(chunk.meta, column, Len(cells))
      BY <1>5, <3>1 DEF ChunkBack, FitsSchema
    <3>3. /\ chunk # Err
          /\ DecodeColumn(chunk.meta, chunk.payload) = IF IsOverLimit(chunk, cells) THEN Err ELSE cells
      BY <3>1 DEF ChunkBack
    <3> QED BY <2>2, <2>3, <3>2, <3>3
  <2> HIDE DEF good, values
  <2> QED BY <1>3, <1>4, <1>5, <2>2, <2>3
<1>6. CASE column.codec # "auto"
  <2>1. chunk = EncodeWith(column, column.codec, rows)
    BY <1>6 DEF EncodeColumn
  <2>2. column.codec \in Range(Candidates(column.type))  BY <1>1, <1>6
  <2>3. IF ~ IsCollectable(column, cells) \/ Cannot(column.codec, values)
        THEN chunk = Err ELSE ChunkBack(column, column.codec, cells, chunk)
    <3> HIDE DEF chunk
    <3> DEFINE codec == column.codec
    <3>1. codec \in Range(Candidates(column.type)) /\ chunk = EncodeWith(column, codec, rows)
      BY <2>1, <2>2
    <3> HIDE DEF codec
    <3>2. IF ~ IsCollectable(column, cells) \/ Cannot(codec, Present(cells))
          THEN chunk = Err ELSE ChunkBack(column, codec, cells, chunk)
      BY <1>1, <1>2, <3>1, WithCodec
    <3> QED BY <3>2 DEF codec
  <2> HIDE DEF chunk
  <2>4. ASSUME ChunkBack(column, column.codec, cells, chunk) PROVE good
    <3>1. FitsSchema(chunk.meta, column, Len(cells))
      BY <2>4 DEF ChunkBack, FitsSchema
    <3>2. /\ chunk # Err
          /\ DecodeColumn(chunk.meta, chunk.payload) = IF IsOverLimit(chunk, cells) THEN Err ELSE cells
      BY <2>4 DEF ChunkBack
    <3> QED BY <1>6, <3>1, <3>2
  <2> HIDE DEF good, values
  <2> QED BY <1>3, <1>4, <1>6, <2>3, <2>4
<1> QED BY <1>5, <1>6

-----------------------------------------------------------------------------
(* Every codec, in a behaviour. *)

LEMMA InputInvInit ==
    ASSUME Init
    PROVE  InputInv
BY DEF Init, InputInv

LEMMA InputInvNext ==
    ASSUME InputInv, [Next]_vars
    PROVE  InputInv'
<1>1. CASE PackNumbers \/ PackBytes \/ PackStrings
  BY <1>1 DEF PackNumbers, PackBytes, PackStrings, Put, InputInv
<1>2. CASE EncodeCells
  BY <1>2 DEF EncodeCells, Put, InputInv
<1>3. CASE Evolve \/ Migrate \/ BuildIndex
  BY <1>3 DEF Evolve, Migrate, BuildIndex, Put, InputInv
<1>4. CASE WriteFile \/ DamageFile \/ Read \/ UNCHANGED vars
  BY <1>4 DEF WriteFile, DamageFile, Read, vars, InputInv
<1> QED BY <1>1, <1>2, <1>3, <1>4 DEF Next

LEMMA InputsRoundTrip ==
    ASSUME ErrIsApart, CellMarksAreApart, InputsAreTyped, InputInv
    PROVE  CodecsRoundTrip
<1>1. CASE subject = "numbers"
  <2>1. input \in Seq(Word)  BY <1>1 DEF InputInv, InputsAreTyped
  <2>2. NumbersRoundTrip(input)  BY <2>1, NumbersComeBack
  <2> QED BY <1>1, <2>2 DEF CodecsRoundTrip
<1>2. CASE subject = "bytes"
  <2>1. input \in Seq(Byte)  BY <1>2 DEF InputInv, InputsAreTyped
  <2>2. BytesRoundTrip(input)  BY <2>1, BytesComeBack
  <2> QED BY <1>2, <2>2 DEF CodecsRoundTrip
<1>3. CASE subject = "strings"
  <2>1. input \in Seq(String)  BY <1>3 DEF InputInv, InputsAreTyped
  <2>2. StringsRoundTrip(input)  BY <2>1, StringsComeBack
  <2> QED BY <1>3, <2>2 DEF CodecsRoundTrip
<1>4. CASE subject = "column"
  <2>1. IsColumn(input.column) /\ input.cells \in Seq(CellsOf(input.column.type))
    BY <1>4 DEF InputInv, InputsAreTyped
  <2>2. ColumnRoundTrips(input.column, input.cells)  BY <2>1, ColumnsComeBack
  <2> QED BY <1>4, <2>2 DEF CodecsRoundTrip
<1>5. CASE subject \notin {"numbers", "bytes", "strings", "column"}
  BY <1>5 DEF CodecsRoundTrip
<1> QED BY <1>1, <1>2, <1>3, <1>4, <1>5

(* Whatever is written, by any codec, comes back up to the limits of the     *)
(* decoders: CodecsRoundTrip for every list of words, bytes and strings,     *)
(* every column, every width and every limit.                                *)
THEOREM CodecsAreFaithful ==
    ASSUME ErrIsApart, CellMarksAreApart, InputsAreTyped
    PROVE  Spec => []CodecsRoundTrip
<1>1. Init => InputInv  BY InputInvInit
<1>2. InputInv /\ [Next]_vars => InputInv'  BY InputInvNext
<1>3. InputInv => CodecsRoundTrip  BY InputsRoundTrip
<1> QED BY <1>1, <1>2, <1>3, PTL DEF Spec

-----------------------------------------------------------------------------
(* The sections of a posting list. *)

(* Each piece is in the whole, behind the pieces before it. *)
LEMMA PieceAt ==
    ASSUME NEW X, NEW groups \in Seq(Seq(X))
    PROVE  /\ FlattenSeq(groups) \in Seq(X) /\ Len(groups) \in Nat
           /\ Before(groups, 0) = 0 /\ Before(groups, Len(groups)) = Len(FlattenSeq(groups))
           /\ \A k \in 0..Len(groups) :
                  Before(groups, k) \in Nat /\ Before(groups, k) <= Len(FlattenSeq(groups))
           /\ \A k \in 0..Len(groups) - 1 :
                  /\ groups[k + 1] \in Seq(X)
                  /\ IsAt(FlattenSeq(groups), Before(groups, k) + 1, groups[k + 1])
                  /\ Before(groups, k + 1) = Before(groups, k) + Len(groups[k + 1])
<1> DEFINE n == Len(groups)
           F(k) == FlattenSeq(SubSeq(groups, 1, k))
           data == FlattenSeq(groups)
<1>1. n \in Nat /\ data \in Seq(X)  BY FlattenUnfolds
<1>2. F(0) = << >> /\ F(n) = data  BY NoGroups
<1>3. \A k \in 0..n - 1 : F(k + 1) = F(k) \o groups[k + 1] /\ groups[k + 1] \in Seq(X)
  BY OneGroupMore
<1>4. \A k \in 0..n : F(k) \in Seq(X)
  <2> TAKE k \in 0..n
  <2>1. CASE k = n
    BY <1>1, <1>2, <2>1
  <2>2. CASE k # n
    <3>1. k \in 0..n - 1  BY <1>1, <2>2
    <3> QED BY <3>1, OneGroupMore
  <2> QED BY <2>1, <2>2
<1> HIDE DEF F, data, n
<1> DEFINE there == {j \in 0..n : IsAt(data, 1, F(n - j))}
<1>5. 0 \in there
  <2>1. n - 0 = n /\ 0 \in 0..n  BY <1>1
  <2>2. IsAt(data, 1, data)  BY <1>1, IsAtAll
  <2> QED BY <1>2, <2>1, <2>2
<1>6. ASSUME NEW j \in 0..n - 1, j \in there
      PROVE  j + 1 \in there
  <2> DEFINE k == n - (j + 1)
  <2>1. k \in 0..n - 1 /\ k + 1 = n - j /\ j + 1 \in 0..n /\ k \in 0..n
    BY <1>1
  <2>2. IsAt(data, 1, F(k + 1))  BY <1>6, <2>1
  <2> HIDE DEF k
  <2>3. IsAt(data, 1, F(k))
    <3> DEFINE a == F(k)
               b == groups[k + 1]
    <3>1. a \in Seq(X) /\ b \in Seq(X) /\ IsAt(data, 1, a \o b)
      BY <1>3, <1>4, <2>1, <2>2
    <3> HIDE DEF a, b
    <3>2. IsAt(data, 1, a)  BY <1>1, <3>1, IsAtSplits
    <3> QED BY <3>2 DEF a
  <2> QED BY <2>1, <2>3 DEF k
<1>7. 0..n \subseteq there
  <2> HIDE DEF there
  <2> QED BY <1>1, <1>5, <1>6, Induction
<1>8. ASSUME NEW k \in 0..n
      PROVE  IsAt(data, 1, F(k))
  <2>1. n - k \in 0..n /\ n - (n - k) = k  BY <1>1
  <2>2. n - k \in there  BY <1>7, <2>1
  <2>3. IsAt(data, 1, F(n - (n - k)))  BY <2>2
  <2> QED BY <2>1, <2>3
<1> HIDE DEF there
<1>9. \A k \in 0..n : Before(groups, k) = Len(F(k))  BY DEF Before, F
<1>10. \A k \in 0..n : Before(groups, k) \in Nat /\ Before(groups, k) <= Len(data)
  <2> TAKE k \in 0..n
  <2>1. Len(F(k)) \in Nat /\ Len(data) \in Nat  BY <1>1, <1>4
  <2>2. 1 + Len(F(k)) <= Len(data) + 1  BY <1>8 DEF IsAt
  <2> QED BY <1>9, <2>1, <2>2
<1>11. ASSUME NEW k \in 0..n - 1
       PROVE  /\ IsAt(data, Before(groups, k) + 1, groups[k + 1])
              /\ Before(groups, k + 1) = Before(groups, k) + Len(groups[k + 1])
  <2>1. k \in 0..n /\ k + 1 \in 0..n  BY <1>1
  <2> DEFINE a == F(k)
             b == groups[k + 1]
  <2>2. a \in Seq(X) /\ b \in Seq(X) /\ F(k + 1) = a \o b  BY <1>3, <1>4, <2>1
  <2>3. Before(groups, k) = Len(a) /\ Before(groups, k + 1) = Len(a \o b)
    BY <1>9, <2>1, <2>2
  <2>4. IsAt(data, 1, a \o b)  BY <1>8, <2>1, <2>2
  <2> HIDE DEF a, b
  <2>5. IsAt(data, 1 + Len(a), b)  BY <1>1, <2>2, <2>4, IsAtSplits
  <2>6. Len(a) \in Nat /\ 1 + Len(a) = Len(a) + 1 /\ Len(a \o b) = Len(a) + Len(b)
    BY <2>2
  <2> QED BY <2>3, <2>5, <2>6 DEF b
<1>12. Before(groups, 0) = 0 /\ Before(groups, n) = Len(data)
  <2>1. 0 \in 0..n /\ n \in 0..n /\ Len(<< >>) = 0  BY <1>1
  <2> QED BY <1>2, <1>9, <2>1
<1> QED BY <1>1, <1>3, <1>10, <1>11, <1>12 DEF n, data

(* What increases has gaps, and the gaps add up to it again. *)
LEMMA IncreasingDelta ==
    ASSUME ErrIsApart, NEW values \in Seq(Word), IsIncreasing(values)
    PROVE  /\ Differences(values) \in Seq(Word) /\ Len(Differences(values)) = Len(values)
           /\ DecodeDelta(Word, Differences(values)) = values
<1>1. Rises(values)
  <2> SUFFICES ASSUME NEW i \in 1..Len(values) - 1
               PROVE  values[i] <= values[i + 1]
    BY DEF Rises
  <2>1. values[i] < values[i + 1]  BY DEF IsIncreasing
  <2>2. Len(values) \in Nat  OBVIOUS
  <2>3. i \in 1..Len(values) /\ i + 1 \in 1..Len(values)  BY <2>2
  <2>4. values[i] \in Word /\ values[i + 1] \in Word
    <3> HIDE DEF Word
    <3> QED BY <2>3
  <2>5. values[i] \in Int /\ values[i + 1] \in Int  BY <2>4, WordIs
  <2> QED BY <2>1, <2>5
<1>2. EncodeDelta(Word, values) # Err  BY <1>1, DeltaOfWords
<1>3. Word \subseteq Int  BY WordIs
<1> QED BY <1>2, <1>3, DeltaBack

(* What increases step by step increases. *)
LEMMA Increases ==
    ASSUME NEW values \in Seq(Int), IsIncreasing(values),
           NEW i \in 1..Len(values), NEW j \in 1..Len(values), i < j
    PROVE  values[i] < values[j]
<1> DEFINE n == Len(values)
           m == n - i - 1
           above == {d \in 0..m : values[i] < values[i + d + 1]}
<1>1. n \in Nat /\ m \in Nat  OBVIOUS
<1>2. 0 \in above
  <2>1. i + 0 + 1 = i + 1 /\ 0 \in 0..m /\ i \in 1..n - 1  BY <1>1
  <2>2. values[i] < values[i + 1]  BY <2>1 DEF IsIncreasing
  <2> QED BY <2>1, <2>2
<1>3. ASSUME NEW d \in 0..m - 1, d \in above
      PROVE  d + 1 \in above
  <2> DEFINE a == i + d + 1
  <2>1. /\ a \in 1..n - 1 /\ i + (d + 1) + 1 = a + 1 /\ d + 1 \in 0..m
        /\ a \in 1..n /\ a + 1 \in 1..n
    BY <1>1
  <2>2. values[i] < values[a]  BY <1>3
  <2> HIDE DEF a
  <2>3. values[a] < values[a + 1]  BY <2>1 DEF IsIncreasing
  <2>4. values[i] \in Int /\ values[a] \in Int /\ values[a + 1] \in Int
    BY <2>1
  <2> QED BY <2>1, <2>2, <2>3, <2>4
<1>4. 0..m \subseteq above
  <2> HIDE DEF above, m
  <2> QED BY <1>1, <1>2, <1>3, Induction
<1>5. j - i - 1 \in 0..m /\ i + (j - i - 1) + 1 = j  BY <1>1
<1>6. values[i] < values[i + (j - i - 1) + 1]  BY <1>4, <1>5
<1> QED BY <1>5, <1>6

LEMMA PostingIs ==
    ASSUME ErrIsApart, NEW postings, PostingsOk(postings), NEW i \in 1..Len(postings)
    PROVE  /\ postings[i] \in Posting /\ postings[i].doc_id \in Word
           /\ postings[i].positions \in Seq(Word) /\ Len(postings[i].positions) \in Word
           /\ postings[i] = [doc_id |-> postings[i].doc_id, positions |-> postings[i].positions]
           /\ IsIncreasing(postings[i].positions)
           /\ PlacesOf(postings[i]) \in Seq(Word)
           /\ Len(PlacesOf(postings[i])) = Len(postings[i].positions)
           /\ DecodeDelta(Word, PlacesOf(postings[i])) = postings[i].positions
<1> DEFINE X == Posting
<1>1. postings \in Seq(X) /\ DOMAIN postings = 1..Len(postings)
  BY DEF PostingsOk
<1>2. postings[i] \in X
  <2> HIDE DEF X
  <2> QED BY <1>1
<1>3. /\ postings[i] \in Posting /\ postings[i].doc_id \in Word
      /\ postings[i].positions \in Seq(Word)
      /\ postings[i] = [doc_id |-> postings[i].doc_id, positions |-> postings[i].positions]
  BY <1>2 DEF Posting
<1>4. IsIncreasing(postings[i].positions) /\ Len(postings[i].positions) \in Word
  BY <1>1 DEF PostingsOk, ArePostings
<1> QED BY <1>3, <1>4, IncreasingDelta DEF PlacesOf

LEMMA IdsAre ==
    ASSUME ErrIsApart, NEW postings, PostingsOk(postings)
    PROVE  /\ Len(postings) \in Nat /\ DOMAIN postings = 1..Len(postings)
           /\ IdsOf(postings) \in Seq(Word) /\ Len(IdsOf(postings)) = Len(postings)
           /\ \A i \in 1..Len(postings) : IdsOf(postings)[i] = postings[i].doc_id
           /\ \A i, j \in 1..Len(postings) : i < j => postings[i].doc_id < postings[j].doc_id
           /\ Differences(IdsOf(postings)) \in Seq(Word)
           /\ Len(Differences(IdsOf(postings))) = Len(postings)
<1> DEFINE n == Len(postings)
           ids == IdsOf(postings)
<1>1. n \in Nat /\ DOMAIN postings = 1..n  BY DEF PostingsOk
<1>2. \A i \in 1..n : ids[i] = postings[i].doc_id  BY <1>1 DEF IdsOf
<1>3. \A i \in 1..n : ids[i] \in Word  BY <1>2, PostingIs
<1>4. ids = [i \in 1..n |-> ids[i]]  BY <1>1 DEF IdsOf
<1>5. ids \in Seq(Word) /\ Len(ids) = n
  <2> DEFINE X == Word
  <2>1. IsArray(ids, n, X)  BY <1>3, <1>4 DEF IsArray
  <2> HIDE DEF X, ids, n
  <2>2. ids \in Seq(X) /\ Len(ids) = n  BY <1>1, <2>1, ArrayIs
  <2> QED BY <2>2 DEF X
<1>6. IsIncreasing(ids)  BY DEF PostingsOk, ArePostings, IdsOf
<1> HIDE DEF ids, n
<1>7. Differences(ids) \in Seq(Word) /\ Len(Differences(ids)) = n
  BY <1>5, <1>6, IncreasingDelta
<1>8. ASSUME NEW i \in 1..n, NEW j \in 1..n, i < j
      PROVE  postings[i].doc_id < postings[j].doc_id
  <2>1. ids \in Seq(Int)  BY <1>5, WordIs, SubsetSeq
  <2>2. ids[i] < ids[j]  BY <1>5, <1>6, <1>8, <2>1, Increases
  <2> QED BY <1>2, <2>2
<1> QED BY <1>1, <1>2, <1>5, <1>7, <1>8 DEF ids, n

(* The sections are bytes, each of as many pieces as there are postings. *)
LEMMA SectionsAre ==
    ASSUME ErrIsApart, NEW postings, PostingsOk(postings)
    PROVE  /\ DocPieces(postings) \in Seq(Seq(Byte)) /\ Len(DocPieces(postings)) = Len(postings)
           /\ FreqPieces(postings) \in Seq(Seq(Byte)) /\ Len(FreqPieces(postings)) = Len(postings)
           /\ PlacePieces(postings) \in Seq(Seq(Byte)) /\ Len(PlacePieces(postings)) = Len(postings)
           /\ \A i \in 1..Len(postings) :
                  /\ Differences(IdsOf(postings))[i] \in Word
                  /\ DocPieces(postings)[i] = EncodeVarint(Differences(IdsOf(postings))[i])
                  /\ FreqPieces(postings)[i] = EncodeVarint(Len(postings[i].positions))
                  /\ PlacePieces(postings)[i] = EncodeVarints(PlacesOf(postings[i]))
<1> DEFINE n == Len(postings)
           gaps == Differences(IdsOf(postings))
           Y == Seq(Byte)
           a == DocPieces(postings)
           b == FreqPieces(postings)
           c == PlacePieces(postings)
<1>1. n \in Nat /\ DOMAIN postings = 1..n /\ gaps \in Seq(Word) /\ Len(gaps) = n
  BY IdsAre
<1>2. \A i \in 1..n : gaps[i] \in Word
  <2> HIDE DEF gaps, n
  <2> DEFINE W == Word
  <2>1. gaps \in Seq(W)  BY <1>1
  <2> HIDE DEF W
  <2>2. \A i \in 1..n : gaps[i] \in W  BY <1>1, <2>1
  <2> QED BY <2>2 DEF W
<1>3. /\ a = [i \in 1..n |-> EncodeVarint(gaps[i])]
      /\ b = [i \in 1..n |-> EncodeVarint(Len(postings[i].positions))]
      /\ c = [i \in 1..n |-> EncodeVarints(PlacesOf(postings[i]))]
  BY <1>1 DEF DocPieces, FreqPieces, PlacePieces
<1>4. ASSUME NEW i \in 1..n
      PROVE  /\ EncodeVarint(gaps[i]) \in Y /\ EncodeVarint(Len(postings[i].positions)) \in Y
             /\ EncodeVarints(PlacesOf(postings[i])) \in Y
  <2>1. Len(postings[i].positions) \in Word /\ PlacesOf(postings[i]) \in Seq(Word)
    BY PostingIs
  <2> HIDE DEF gaps, n
  <2> QED BY <1>2, <2>1, EncodedVarint, EncodedVarints
<1> HIDE DEF a, b, c, gaps, n, Y
<1>5. IsArray(a, n, Y) /\ IsArray(b, n, Y) /\ IsArray(c, n, Y)
  BY <1>3, <1>4 DEF IsArray
<1>6. /\ a \in Seq(Y) /\ Len(a) = n /\ b \in Seq(Y) /\ Len(b) = n /\ c \in Seq(Y) /\ Len(c) = n
  BY <1>1, <1>5, ArrayIs
<1>7. \A i \in 1..n : /\ a[i] = EncodeVarint(gaps[i])
                      /\ b[i] = EncodeVarint(Len(postings[i].positions))
                      /\ c[i] = EncodeVarints(PlacesOf(postings[i]))
  BY <1>3
<1> QED BY <1>2, <1>6, <1>7 DEF a, b, c, gaps, n, Y

-----------------------------------------------------------------------------
(* A cursor in a list. *)

(* A cursor that has found a posting stands behind it. *)
LEMMA CursorStands ==
    ASSUME ErrIsApart, NEW postings, PostingsOk(postings), NEW k \in 1..Len(postings)
    PROVE  Stands(CursorAt(postings, k), postings, k) /\ CursorAt(postings, k) # Err
<1>1. CursorAt(postings, k).found = postings[k] /\ k # 0  BY DEF CursorAt
<1>2. CursorAt(postings, k) # Err  BY RecordsAreApart DEF CursorAt
<1> QED BY <1>1, <1>2 DEF CursorAt, Stands, IdBefore

(* Positions are read back where their gaps were written. *)
LEMMA SumsBack ==
    ASSUME ErrIsApart, NEW list, list.positions \in Seq(Byte),
           NEW from \in Nat, from > 0, NEW positions \in Seq(Word), IsIncreasing(positions),
           NEW places \in Seq(Word), Len(places) = Len(positions),
           DecodeDelta(Word, places) = positions,
           IsAt(list.positions, from, EncodeVarints(places))
    PROVE  ReadPositions(list, from, Len(positions))
               = IF Len(positions) > MaxCollectionEntries THEN Err
                 ELSE ReadOf(positions, from + Len(EncodeVarints(places)))
<1> DEFINE data == list.positions
           count == Len(positions)
           next == from + Len(EncodeVarints(places))
           read == ReadVarints(data, from, count)
           all == IF count > MaxCollectionEntries \/ count > Len(data) - from + 1 THEN Err
                  ELSE read
<1>1. read = [values |-> places, next |-> next]  BY ReadsBack
<1>2. ~ (count > MaxCollectionEntries) => all = read
  <2>1. Len(EncodeVarints(places)) \in Nat /\ Len(EncodeVarints(places)) >= count
    BY VarintsLong
  <2>2. from + Len(EncodeVarints(places)) <= Len(data) + 1  BY DEF IsAt
  <2>3. Len(data) \in Nat /\ count \in Nat  OBVIOUS
  <2> HIDE DEF read, count
  <2>4. ~ (count > Len(data) - from + 1)  BY <2>1, <2>2, <2>3
  <2> QED BY <2>4
<1> HIDE DEF next
<1>3. ~ (count > MaxCollectionEntries) => all # Err /\ all.values = places /\ all.next = next
  BY <1>1, <1>2, RecordsAreApart
<1>4. positions # Err  BY SequencesAreApart
<1> DEFINE sums == DecodeDelta(Word, all.values)
<1>5. ~ (count > MaxCollectionEntries) => sums = positions  BY <1>3
<1>6. ReadPositions(list, from, count)
          = IF all = Err THEN Err ELSE IF sums = Err THEN Err
            ELSE IF ~ IsIncreasing(sums) THEN Err ELSE [values |-> sums, next |-> all.next]
  BY Zenon DEF ReadPositions, Try
<1>7. count > MaxCollectionEntries => all = Err  OBVIOUS
<1> HIDE DEF all, sums, read, count
<1> QED BY <1>3, <1>4, <1>5, <1>6, <1>7 DEF next, ReadOf, count

(* A cursor behind k postings finds the next. *)
LEMMA NextIs ==
    ASSUME ErrIsApart, NEW postings, PostingsOk(postings), NEW list, Holds(list, postings),
           NEW k \in 0..Len(postings) - 1, NEW cursor, Stands(cursor, postings, k)
    PROVE  NextPosting(list, cursor)
               = IF HasMany(postings[k + 1]) THEN Err ELSE CursorAt(postings, k + 1)
<1> DEFINE n == Len(postings)
           m == k + 1
           gaps == Differences(IdsOf(postings))
           A == DocPieces(postings)
           B == FreqPieces(postings)
           C == PlacePieces(postings)
           p == postings[m]
           count == Len(p.positions)
           places == PlacesOf(p)
<1>1. n \in Nat /\ m \in 1..n /\ k \in 0..n  BY IdsAre
<1>2. /\ A \in Seq(Seq(Byte)) /\ Len(A) = n /\ B \in Seq(Seq(Byte)) /\ Len(B) = n
      /\ C \in Seq(Seq(Byte)) /\ Len(C) = n
      /\ gaps[m] \in Word /\ A[m] = EncodeVarint(gaps[m])
      /\ B[m] = EncodeVarint(count) /\ C[m] = EncodeVarints(places)
  BY <1>1, SectionsAre
<1>3. /\ p \in Posting /\ p.doc_id \in Word /\ p.positions \in Seq(Word) /\ count \in Word
      /\ p = [doc_id |-> p.doc_id, positions |-> p.positions] /\ IsIncreasing(p.positions)
      /\ places \in Seq(Word) /\ Len(places) = count /\ DecodeDelta(Word, places) = p.positions
  BY <1>1, PostingIs
<1>3a. gaps[m] \in Word /\ A[m] = EncodeVarint(gaps[m]) /\ B[m] = EncodeVarint(count)
  BY <1>2
<1> HIDE DEF A, B, C, p, gaps, places, m
<1>4. /\ list.doc_ids = FlattenSeq(A) /\ list.frequencies = FlattenSeq(B)
      /\ list.positions = FlattenSeq(C)
  BY DEF Holds, A, B, C
<1>5. /\ cursor.found.doc_id = IdBefore(postings, k) /\ cursor.doc = Before(A, k) + 1
      /\ cursor.freq = Before(B, k) + 1 /\ cursor.pos = Before(C, k) + 1
  BY DEF Stands, A, B, C
<1>6. ReadVarint(list.doc_ids, cursor.doc) = [value |-> gaps[m], next |-> Before(A, m) + 1]
  <2>1. /\ list.doc_ids \in Seq(Byte) /\ Before(A, k) \in Nat
        /\ IsAt(list.doc_ids, Before(A, k) + 1, A[m])
        /\ Before(A, m) = Before(A, k) + Len(A[m])
    BY <1>1, <1>2, <1>4, PieceAt DEF m
  <2>2. EncodeVarint(gaps[m]) \in Seq(Byte) /\ Len(A[m]) = VarintLen(gaps[m])
    BY <1>2, EncodedVarint
  <2> DEFINE from == Before(A, k) + 1
             v == gaps[m]
  <2>3. /\ from \in Nat /\ from > 0 /\ v \in Word /\ IsAt(list.doc_ids, from, EncodeVarint(v))
        /\ list.doc_ids \in Seq(Byte)
    BY <1>3a, <2>1
  <2>4. from + VarintLen(v) = Before(A, m) + 1
    <3>1. Len(A[m]) \in Nat  BY <1>2, <2>2
    <3> QED BY <2>1, <2>2, <3>1
  <2> HIDE DEF from, v
  <2>5. ReadVarint(list.doc_ids, from) = [value |-> v, next |-> from + VarintLen(v)]
    BY <2>3, ReadBack
  <2> QED BY <1>5, <2>4, <2>5 DEF from, v
<1>7. ReadVarint(list.frequencies, cursor.freq) = [value |-> count, next |-> Before(B, m) + 1]
  <2>1. /\ list.frequencies \in Seq(Byte) /\ Before(B, k) \in Nat
        /\ IsAt(list.frequencies, Before(B, k) + 1, B[m])
        /\ Before(B, m) = Before(B, k) + Len(B[m])
    BY <1>1, <1>2, <1>4, PieceAt DEF m
  <2> DEFINE from == Before(B, k) + 1
             v == count
  <2>2. EncodeVarint(v) \in Seq(Byte) /\ Len(B[m]) = VarintLen(v)
    BY <1>2, <1>3, EncodedVarint
  <2>3. /\ from \in Nat /\ from > 0 /\ v \in Word /\ IsAt(list.frequencies, from, EncodeVarint(v))
        /\ list.frequencies \in Seq(Byte)
    BY <1>3, <1>3a, <2>1
  <2> HIDE DEF v
  <2>4. from + VarintLen(v) = Before(B, m) + 1
    <3>1. Len(B[m]) \in Nat  BY <1>2, <2>2 DEF v
    <3> QED BY <2>1, <2>2, <3>1
  <2> HIDE DEF from
  <2>5. ReadVarint(list.frequencies, from) = [value |-> v, next |-> from + VarintLen(v)]
    BY <2>3, ReadBack
  <2> QED BY <1>5, <2>4, <2>5 DEF from, v
<1>8. ReadPositions(list, cursor.pos, count)
          = IF HasMany(p) THEN Err ELSE [values |-> p.positions, next |-> Before(C, m) + 1]
  <2> DEFINE from == Before(C, k) + 1
             pos == p.positions
  <2>1. /\ list.positions \in Seq(Byte) /\ Before(C, k) \in Nat /\ IsAt(list.positions, from, C[m])
        /\ Before(C, m) = Before(C, k) + Len(C[m])
    BY <1>1, <1>2, <1>4, PieceAt DEF m
  <2>2. Len(C[m]) \in Nat /\ Len(C[m]) = Len(EncodeVarints(places))
    <3>1. EncodeVarints(places) \in Seq(Byte)  BY <1>3, EncodedVarints
    <3> QED BY <1>2, <3>1
  <2>3. from \in Nat /\ from > 0 /\ from + Len(EncodeVarints(places)) = Before(C, m) + 1
    <3> DEFINE b == Before(C, k)
               l == Len(C[m])
    <3>1. b \in Nat /\ l \in Nat /\ Before(C, m) = b + l /\ Len(EncodeVarints(places)) = l
      BY <2>1, <2>2
    <3> HIDE DEF b, l
    <3>2. b + 1 \in Nat /\ b + 1 > 0 /\ (b + 1) + l = (b + l) + 1  BY <3>1
    <3> QED BY <3>1, <3>2 DEF b
  <2>4. IsAt(list.positions, from, EncodeVarints(places)) /\ list.positions \in Seq(Byte)
    BY <1>2, <2>1
  <2>5. /\ pos \in Seq(Word) /\ IsIncreasing(pos) /\ Len(places) = Len(pos)
        /\ DecodeDelta(Word, places) = pos /\ places \in Seq(Word)
    BY <1>3
  <2> HIDE DEF from, pos
  <2>6. ReadPositions(list, from, Len(pos)) = IF Len(pos) > MaxCollectionEntries THEN Err
                                              ELSE ReadOf(pos, from + Len(EncodeVarints(places)))
    BY <2>3, <2>4, <2>5, SumsBack
  <2> QED BY <1>5, <2>3, <2>6 DEF from, pos, ReadOf, HasMany
<1>9. cursor.found.doc_id + gaps[m] = p.doc_id
  <2>1. /\ IdsOf(postings) \in Seq(Word) /\ Len(IdsOf(postings)) = n
        /\ DOMAIN postings = 1..n
        /\ \A i \in 1..n : IdsOf(postings)[i] = postings[i].doc_id
    BY IdsAre
  <2> DEFINE ids == IdsOf(postings)
  <2>2. DOMAIN ids = 1..n  BY <2>1 DEF IdsOf
  <2>3. \A i \in 1..n : postings[i].doc_id \in Int
    <3> TAKE i \in 1..n
    <3>1. postings[i].doc_id \in Word  BY PostingIs
    <3> QED BY <3>1, WordIs
  <2> HIDE DEF ids
  <2>4. gaps[m] = IF m = 1 THEN ids[1] ELSE ids[m] - ids[m - 1]
    BY <1>1, <2>2 DEF gaps, Differences, ids
  <2>5. CASE k = 0
    <3>1. m = 1 /\ cursor.found.doc_id = 0 /\ ids[1] = p.doc_id
      BY <1>1, <1>5, <2>1, <2>5 DEF m, p, IdBefore, ids
    <3>2. p.doc_id \in Int  BY <1>3, WordIs
    <3> QED BY <2>4, <3>1, <3>2
  <2>6. CASE k # 0
    <3>1. k \in 1..n /\ m # 1 /\ m - 1 = k  BY <1>1, <2>6 DEF m
    <3>2. /\ cursor.found.doc_id = postings[k].doc_id
          /\ ids[m] = p.doc_id /\ ids[k] = postings[k].doc_id
      BY <1>1, <1>5, <2>1, <2>6, <3>1 DEF p, IdBefore, ids
    <3>3. p.doc_id \in Int /\ postings[k].doc_id \in Int
      BY <1>1, <2>3, <3>1 DEF p
    <3> QED BY <2>4, <3>1, <3>2, <3>3
  <2> QED BY <2>5, <2>6
<1> DEFINE gap == ReadVarint(list.doc_ids, cursor.doc)
           freq == ReadVarint(list.frequencies, cursor.freq)
           read == ReadPositions(list, cursor.pos, freq.value)
           id == cursor.found.doc_id + gap.value
<1>10. NextPosting(list, cursor)
          = IF gap = Err THEN Err ELSE IF freq = Err THEN Err ELSE IF read = Err THEN Err
            ELSE IF id \notin Word THEN Err
            ELSE [found |-> [doc_id |-> id, positions |-> read.values],
                  doc |-> gap.next, freq |-> freq.next, pos |-> read.next]
  BY Zenon DEF NextPosting, Try
<1>11. gap # Err /\ gap.value = gaps[m] /\ gap.next = Before(A, m) + 1
  BY <1>6, RecordsAreApart
<1>12. freq # Err /\ freq.value = count /\ freq.next = Before(B, m) + 1
  BY <1>7, RecordsAreApart
<1> HIDE DEF gap, freq
<1>13. IF HasMany(p) THEN read = Err
       ELSE read # Err /\ read.values = p.positions /\ read.next = Before(C, m) + 1
  <2>1. read = IF HasMany(p) THEN Err
               ELSE [values |-> p.positions, next |-> Before(C, m) + 1]
    BY <1>8, <1>12
  <2> QED BY <2>1, RecordsAreApart
<1>14. id = p.doc_id  BY <1>9, <1>11
<1> HIDE DEF read, id
<1>15. ~ HasMany(p) => [doc_id |-> id, positions |-> read.values] = p
  BY <1>3, <1>13, <1>14
<1>16. NextPosting(list, cursor)
           = IF HasMany(p) THEN Err
             ELSE [found |-> p, doc |-> Before(A, m) + 1, freq |-> Before(B, m) + 1,
                   pos |-> Before(C, m) + 1]
  <2>1. id \in Word  BY <1>3, <1>14
  <2> QED BY <1>10, <1>11, <1>12, <1>13, <1>15, <2>1, Zenon
<1> QED BY <1>16 DEF CursorAt, A, B, C, p, m

-----------------------------------------------------------------------------
(* From cursor to cursor. *)

LEMMA CursorsUnfold ==
    ASSUME NEW list, NEW cursor, NEW count
    PROVE  CursorsFrom(list, cursor, count)
               = [m \in 1..count |-> (CHOOSE f : CursorsSo(f, list, cursor, count))[m]]
BY Zenon DEF CursorsFrom, CursorsSo, NextCursor, Try

(* From a cursor behind the first k postings on, the cursors find the next,  *)
(* up to one that has too many positions.                                    *)
LEMMA CursorsAre ==
    ASSUME ErrIsApart, NEW postings, PostingsOk(postings), NEW list, Holds(list, postings),
           NEW k \in Nat, NEW count \in Nat, k + count <= Len(postings),
           NEW cursor, cursor # Err, Stands(cursor, postings, k)
    PROVE  CursorsFrom(list, cursor, count) = [m \in 1..count |-> Reached(postings, k, m)]
<1> DEFINE n == Len(postings)
           Many(m) == \E i \in k + 1..k + m : HasMany(postings[i])
           C(m) == IF m = 0 THEN cursor ELSE Reached(postings, k, m)
           f == CHOOSE g : CursorsSo(g, list, cursor, count)
<1>1. n \in Nat  BY IdsAre
<1>2. \A m : m # 0 => C(m) = IF Many(m) THEN Err ELSE CursorAt(postings, k + m)
  BY DEF Reached
<1> HIDE DEF HasMany
<1>3. ASSUME NEW m \in 0..count - 1
      PROVE  C(m + 1) = NextCursor(list, C(m))
  <2> DEFINE j == k + m
             before == C(m)
  <2>1. m + 1 # 0 /\ m + 1 \in Nat /\ j \in 0..n - 1 /\ k + (m + 1) = j + 1 /\ j \in Nat
    BY <1>1
  <2>2. Many(m + 1) <=> Many(m) \/ HasMany(postings[j + 1])
    <3>1. k + 1..k + (m + 1) = (k + 1..k + m) \cup {j + 1}  OBVIOUS
    <3> QED BY <3>1
  <2>3. C(m + 1) = IF Many(m + 1) THEN Err ELSE CursorAt(postings, j + 1)
    BY <1>2, <2>1
  <2>4. m = 0 => ~ Many(m)
    <3>1. k + 1..k + 0 = {}  OBVIOUS
    <3> QED BY <3>1
  <2> HIDE DEF Many, C
  <2>5. CASE Many(m)
    <3>1. before = Err  BY <1>2, <2>4, <2>5
    <3> QED BY <2>2, <2>3, <2>5, <3>1 DEF NextCursor
  <2>6. CASE ~ Many(m)
    <3>1. before # Err /\ Stands(before, postings, j)
      <4>1. CASE m = 0
        <5>1. j = k /\ before = cursor  BY <4>1 DEF C
        <5> QED BY <5>1
      <4>2. CASE m # 0
        <5>1. before = CursorAt(postings, j) /\ j \in 1..n  BY <1>2, <2>1, <2>6, <4>2
        <5> QED BY <5>1, CursorStands
      <4> QED BY <4>1, <4>2
    <3>2. j \in 0..Len(postings) - 1  BY <2>1
    <3> HIDE DEF before, j, n
    <3>3. NextPosting(list, before)
              = IF HasMany(postings[j + 1]) THEN Err ELSE CursorAt(postings, j + 1)
      BY <3>1, <3>2, NextIs
    <3> QED BY <2>2, <2>3, <2>6, <3>1, <3>3 DEF NextCursor, before
  <2> QED BY <2>5, <2>6
<1>4. CursorsSo(f, list, cursor, count)
  <2>1. PICK g : IsLoop(g, "cursors", list, 0, cursor, count)  BY LoopExists
  <2> DEFINE h == [m \in 0..count |-> IF m = 0 THEN cursor ELSE NextCursor(list, g[m - 1])]
  <2>2. g = h  BY <2>1 DEF IsLoop, LoopStep
  <2>3. CursorsSo(g, list, cursor, count)  BY <2>2 DEF CursorsSo
  <2> QED BY <2>3, Zenon
<1>5. CursorsFrom(list, cursor, count) = [m \in 1..count |-> f[m]]
  BY CursorsUnfold, Zenon
<1>6. C(0) = cursor  OBVIOUS
<1> HIDE DEF C, f
<1>7. \A m \in 0..count : f[m] = IF m = 0 THEN cursor ELSE NextCursor(list, f[m - 1])
  BY <1>4 DEF CursorsSo
<1> DEFINE same == {m \in 0..count : f[m] = C(m)}
<1>8. 0 \in same  BY <1>6, <1>7
<1>9. ASSUME NEW m \in 0..count - 1, m \in same
      PROVE  m + 1 \in same
  <2> DEFINE j == m + 1
  <2>1. j \in 0..count /\ j # 0 /\ j - 1 = m  OBVIOUS
  <2>2. C(j) = NextCursor(list, C(m)) /\ f[m] = C(m)  BY <1>3, <1>9
  <2> HIDE DEF j
  <2>3. f[j] = NextCursor(list, f[m])  BY <1>7, <2>1
  <2> QED BY <2>1, <2>2, <2>3 DEF j
<1>10. 0..count \subseteq same
  <2> HIDE DEF same
  <2> QED BY <1>8, <1>9, Induction
<1>11. \A m \in 1..count : f[m] = Reached(postings, k, m)
  <2> TAKE m \in 1..count
  <2>1. m \in 0..count /\ m # 0  OBVIOUS
  <2>2. f[m] = C(m)  BY <1>10, <2>1
  <2> QED BY <2>1, <2>2 DEF C
<1> QED BY <1>5, <1>11

(* The encoder makes a list of these postings. *)
LEMMA EncodedList ==
    ASSUME ErrIsApart, NEW postings, PostingsOk(postings), NEW step \in Nat, step > 0
    PROVE  IsList(EncodePostings(postings, step), postings, step)
<1>1. ArePostings(postings) /\ step # 0  BY DEF PostingsOk
<1>2. /\ [i \in DOMAIN postings |->
             EncodeVarint(Differences([j \in DOMAIN postings |-> postings[j].doc_id])[i])]
             = DocPieces(postings)
      /\ [i \in DOMAIN postings |-> EncodeVarint(Len(postings[i].positions))]
             = FreqPieces(postings)
      /\ [i \in DOMAIN postings |-> EncodeVarints(Differences(postings[i].positions))]
             = PlacePieces(postings)
  BY DEF DocPieces, FreqPieces, PlacePieces, IdsOf, PlacesOf
<1> QED BY <1>1, <1>2, Zenon DEF IsList, EncodePostings

LEMMA ListIs ==
    ASSUME ErrIsApart, NEW postings, PostingsOk(postings), NEW step \in Nat, step > 0,
           NEW list, IsList(list, postings, step)
    PROVE  /\ list # Err /\ Holds(list, postings)
           /\ list.doc_count = Len(postings) /\ list.skip_step = step
           /\ CeilDiv(Len(postings), step) \in Nat
           /\ DOMAIN list.skip_entries = 1..CeilDiv(Len(postings), step)
           /\ Len(list.skip_entries) = CeilDiv(Len(postings), step)
           /\ \A s \in 1..CeilDiv(Len(postings), step) :
                  IsSkip(list.skip_entries[s], postings, (s - 1) * step)
<1> DEFINE n == Len(postings)
           c == CeilDiv(n, step)
           skips == [s \in 1..c |->
                SkipEntry(postings, (s - 1) * step, DocPieces(postings),
                          FreqPieces(postings), PlacePieces(postings))]
<1>1. n \in Nat  BY IdsAre
<1>2. c \in Nat /\ n <= c * step /\ c * step < n + step
  <2> HIDE DEF n
  <2> QED BY <1>1, Ceiling
<1>3. /\ list.doc_count = n /\ list.skip_step = step /\ Holds(list, postings)
      /\ list.skip_entries = skips
  BY DEF IsList, Holds
<1>4. list # Err
  <2>1. list = [i \in DOMAIN list |-> list[i]]  BY DEF IsList
  <2> QED BY <2>1 DEF ErrIsApart
<1> HIDE DEF c, n
<1>5. DOMAIN skips = 1..c /\ Len(skips) = c  BY <1>2
<1>6. ASSUME NEW s \in 1..c
      PROVE  IsSkip(skips[s], postings, (s - 1) * step)
  <2> DEFINE o == (s - 1) * step
  <2>1. o \in 0..n - 1
    <3>1. s - 1 \in Nat /\ s - 1 <= c - 1 /\ c - 1 \in Nat  BY <1>2
    <3>2. o \in Nat  BY <3>1
    <3>3. (s - 1) * step <= (c - 1) * step  BY <3>1
    <3>4. (c - 1) * step = c * step - step /\ c * step \in Nat  BY <1>2
    <3> HIDE DEF o
    <3>5. o <= c * step - step  BY <3>3, <3>4 DEF o
    <3>6. c * step - step < n  BY <1>1, <1>2, <3>4
    <3> QED BY <1>1, <3>2, <3>4, <3>5, <3>6
  <2>2. skips[s] = SkipEntry(postings, o, DocPieces(postings),
                             FreqPieces(postings), PlacePieces(postings))
    OBVIOUS
  <2> HIDE DEF o, skips
  <2> QED BY <2>1, <2>2 DEF IsSkip, SkipEntry, IdBefore, Before, n, o
<1> QED BY <1>2, <1>3, <1>4, <1>5, <1>6 DEF c, n

(* The skip table of such a list passes validate_index. *)
LEMMA ListIndexed ==
    ASSUME ErrIsApart, NEW postings, PostingsOk(postings), NEW step \in Nat, step > 0,
           NEW list, IsList(list, postings, step)
    PROVE  IsIndexed(list)
<1> DEFINE n == Len(postings)
           c == CeilDiv(n, step)
           skips == list.skip_entries
           firsts == [s \in DOMAIN skips |-> skips[s].first_doc_id]
<1>1. /\ list.doc_count = n /\ list.skip_step = step /\ Holds(list, postings)
      /\ c \in Nat /\ DOMAIN skips = 1..c /\ Len(skips) = c
      /\ \A s \in 1..c : IsSkip(skips[s], postings, (s - 1) * step)
  BY ListIs
<1>2. n \in Nat /\ \A i, j \in 1..n : i < j => postings[i].doc_id < postings[j].doc_id
  BY IdsAre
<1>3. IsIncreasing(firsts)
  <2>1. Len(firsts) = c  BY <1>1
  <2> SUFFICES ASSUME NEW s \in 1..c - 1
               PROVE  firsts[s] < firsts[s + 1]
    BY <2>1 DEF IsIncreasing
  <2>2. s \in 1..c /\ s + 1 \in 1..c /\ (s + 1) - 1 = s  BY <1>1
  <2> DEFINE a == (s - 1) * step
             b == s * step
  <2>3. a \in Nat /\ b = a + step  BY <2>2
  <2>4. IsSkip(skips[s], postings, a) /\ IsSkip(skips[s + 1], postings, b)
    BY <1>1, <2>2
  <2> HIDE DEF a, b
  <2>5. firsts[s] = postings[a + 1].doc_id /\ firsts[s + 1] = postings[b + 1].doc_id
        /\ a + 1 \in 1..n /\ b + 1 \in 1..n
    BY <1>1, <1>2, <2>2, <2>4 DEF IsSkip
  <2> QED BY <1>2, <2>3, <2>5
<1>4. ASSUME NEW s \in 1..c
      PROVE  /\ skips[s].ordinal = (s - 1) * step
             /\ skips[s].doc_ids_offset <= Len(list.doc_ids)
             /\ skips[s].frequencies_offset <= Len(list.frequencies)
             /\ skips[s].positions_offset <= Len(list.positions)
  <2> DEFINE o == (s - 1) * step
             A == DocPieces(postings)
             B == FreqPieces(postings)
             C == PlacePieces(postings)
  <2>1. IsSkip(skips[s], postings, o)  BY <1>1
  <2>2. /\ A \in Seq(Seq(Byte)) /\ Len(A) = n /\ B \in Seq(Seq(Byte)) /\ Len(B) = n
        /\ C \in Seq(Seq(Byte)) /\ Len(C) = n
    BY SectionsAre
  <2>3. /\ list.doc_ids = FlattenSeq(A) /\ list.frequencies = FlattenSeq(B)
        /\ list.positions = FlattenSeq(C)
    BY <1>1 DEF Holds
  <2> HIDE DEF o, A, B, C, n, skips
  <2>4. o \in 0..n  BY <1>2, <2>1 DEF IsSkip, n
  <2>5. /\ Before(A, o) <= Len(FlattenSeq(A)) /\ Before(B, o) <= Len(FlattenSeq(B))
        /\ Before(C, o) <= Len(FlattenSeq(C))
    BY <2>2, <2>4, PieceAt
  <2>6. /\ skips[s].ordinal = o /\ skips[s].doc_ids_offset = Before(A, o)
        /\ skips[s].frequencies_offset = Before(B, o) /\ skips[s].positions_offset = Before(C, o)
    BY <2>1 DEF IsSkip, A, B, C
  <2> QED BY <2>3, <2>5, <2>6 DEF o
<1> HIDE DEF n, skips, firsts
<1>5. IsIncreasing([s \in DOMAIN list.skip_entries |-> list.skip_entries[s].first_doc_id])
  BY <1>3 DEF firsts, skips
<1> QED BY <1>1, <1>4, <1>5 DEF IsIndexed, skips

LEMMA StartStands ==
    ASSUME ErrIsApart, NEW postings, PostingsOk(postings)
    PROVE  Start # Err /\ Stands(Start, postings, 0)
<1>1. Start # Err  BY RecordsAreApart DEF Start
<1>2. /\ Before(DocPieces(postings), 0) = 0 /\ Before(FreqPieces(postings), 0) = 0
      /\ Before(PlacePieces(postings), 0) = 0
  BY SectionsAre, PieceAt
<1>3. Start.found.doc_id = 0 /\ Start.doc = 1 /\ Start.freq = 1 /\ Start.pos = 1
  BY DEF Start
<1> QED BY <1>1, <1>2, <1>3 DEF Stands, IdBefore

(* Where no posting has too many positions, each cursor finds one. *)
LEMMA ReachedAll ==
    ASSUME ErrIsApart, NEW postings, PostingsOk(postings), HasFewPositions(postings),
           NEW k \in Nat, NEW count \in Nat, k + count <= Len(postings)
    PROVE  [m \in 1..count |-> Reached(postings, k, m)]
               = [m \in 1..count |-> CursorAt(postings, k + m)]
<1> DEFINE n == Len(postings)
<1>1. n \in Nat /\ DOMAIN postings = 1..n  BY IdsAre
<1>2. \A i \in 1..n : ~ HasMany(postings[i])
  <2> TAKE i \in 1..n
  <2> DEFINE l == Len(postings[i].positions)
  <2>1. l <= MaxCollectionEntries  BY <1>1 DEF HasFewPositions
  <2>2. l \in Word  BY PostingIs
  <2> HIDE DEF l
  <2>3. ~ (l > MaxCollectionEntries)  BY <2>1, <2>2, WordIs, LimitsAssumption
  <2> QED BY <2>3 DEF HasMany, l
<1>3. \A m \in 1..count : \A i \in k + 1..k + m : i \in 1..n  BY <1>1
<1> QED BY <1>2, <1>3 DEF Reached

(* decode_postings: an encoded list decodes to its postings, however far    *)
(* apart the skip entries, if there are no more documents, and no more      *)
(* positions in any of them, than the decoder takes; otherwise it is        *)
(* refused.                                                                 *)
THEOREM PostingsBack ==
    ASSUME ErrIsApart, NEW postings, PostingsOk(postings), NEW step \in Nat, step > 0,
           NEW list, IsList(list, postings, step)
    PROVE  DecodePostings(list) = IF IsReadable(postings) THEN postings ELSE Err
<1> DEFINE n == Len(postings)
           reached == [m \in 1..n |-> Reached(postings, 0, m)]
           cursors == [m \in 1..n |-> CursorAt(postings, m)]
           end(c) == IF c = << >> THEN Start ELSE Last(c)
           found(c) == [m \in DOMAIN c |-> c[m].found]
           all(c) == IF /\ end(c).doc = Len(list.doc_ids) + 1
                        /\ end(c).freq = Len(list.frequencies) + 1
                        /\ end(c).pos = Len(list.positions) + 1
                        /\ ArePostings(found(c))
                     THEN found(c) ELSE Err
<1>1. n \in Nat /\ DOMAIN postings = 1..n /\ ArePostings(postings) /\ postings \in Seq(Posting)
  BY IdsAre DEF PostingsOk
<1>2. IsIndexed(list) /\ Holds(list, postings) /\ list.doc_count = n
  BY ListIndexed, ListIs
<1>3. CursorsFrom(list, Start, n) = reached
  <2>1. Start # Err /\ Stands(Start, postings, 0) /\ 0 + n <= Len(postings) /\ 0 \in Nat
    BY <1>1, StartStands
  <2> HIDE DEF n
  <2> QED BY <1>1, <1>2, <2>1, CursorsAre
<1>4. DecodePostings(list) = IF n > MaxCollectionEntries \/ Err \in Range(reached) THEN Err
                             ELSE all(reached)
  <2> DEFINE from == CursorsFrom(list, Start, n)
  <2>1. DecodePostings(list) = IF n > MaxCollectionEntries THEN Err ELSE
            IF Err \in Range(from) THEN Err ELSE all(from)
    <3>1. DecodePostings(list) = IF n > MaxCollectionEntries THEN Err ELSE
              TryAll(CursorsFrom(list, Start, list.doc_count), all)
      BY <1>2, Zenon DEF DecodePostings
    <3> QED BY <1>2, <3>1, Zenon DEF TryAll
  <2> HIDE DEF reached, all
  <2> QED BY <1>3, <2>1
<1>10. HasFewPositions(postings) => reached = cursors
  <2>1. HasFewPositions(postings)
            => reached = [m \in 1..n |-> CursorAt(postings, 0 + m)]
    <3>1. 0 \in Nat /\ 0 + n <= Len(postings)  BY <1>1
    <3> HIDE DEF n
    <3> QED BY <1>1, <3>1, ReachedAll
  <2>2. \A m \in 1..n : 0 + m = m  OBVIOUS
  <2> QED BY <2>1, <2>2
<1>11. ~ HasFewPositions(postings) => Err \in Range(reached)
  <2> SUFFICES ASSUME NEW i \in 1..n, ~ (Len(postings[i].positions) <= MaxCollectionEntries)
               PROVE  Err \in Range(reached)
    BY <1>1 DEF HasFewPositions
  <2>1. HasMany(postings[i])
    <3>1. Len(postings[i].positions) \in Word  BY PostingIs
    <3>2. Len(postings[i].positions) \in Nat /\ MaxCollectionEntries \in Nat
      BY <3>1, WordIs, LimitsAssumption
    <3> QED BY <3>2 DEF HasMany
  <2>2. i \in 0 + 1..0 + i  BY <1>1
  <2>3. reached[i] = Err /\ i \in DOMAIN reached  BY <2>1, <2>2 DEF Reached
  <2> HIDE DEF reached
  <2> QED BY <2>3 DEF Range
<1>5. Err \notin Range(cursors)
  <2>1. \A m \in 1..n : CursorAt(postings, m) # Err  BY CursorStands
  <2> QED BY <2>1 DEF Range
<1>6. found(cursors) = postings
  <2>1. \A m \in 1..n : cursors[m].found = postings[m]  BY DEF CursorAt
  <2>2. postings = [m \in 1..n |-> postings[m]]  BY <1>1
  <2>3. DOMAIN cursors = 1..n  OBVIOUS
  <2> HIDE DEF cursors
  <2> QED BY <2>1, <2>2, <2>3
<1> DEFINE A == DocPieces(postings)
           B == FreqPieces(postings)
           C == PlacePieces(postings)
<1>7. Stands(end(cursors), postings, n)
  <2>1. CASE n = 0
    <3>1. cursors = << >>
      <4>1. 1..n = {}  BY <2>1
      <4> QED BY <4>1
    <3> HIDE DEF cursors
    <3> QED BY <2>1, <3>1, StartStands
  <2>2. CASE n # 0
    <3>1. n \in 1..n /\ cursors # << >> /\ Len(cursors) = n
      <4>1. n \in 1..n  BY <1>1, <2>2
      <4>2. DOMAIN cursors = 1..n /\ DOMAIN << >> = {}  OBVIOUS
      <4>3. Len(cursors) = n  BY <1>1
      <4> HIDE DEF cursors
      <4> QED BY <4>1, <4>2, <4>3
    <3>2. Last(cursors) = CursorAt(postings, n)  BY <3>1 DEF Last
    <3>3. Stands(CursorAt(postings, n), postings, n)  BY <3>1, CursorStands
    <3> HIDE DEF cursors
    <3> QED BY <3>1, <3>2, <3>3
  <2> QED BY <2>1, <2>2
<1>8. /\ end(cursors).doc = Len(list.doc_ids) + 1
      /\ end(cursors).freq = Len(list.frequencies) + 1
      /\ end(cursors).pos = Len(list.positions) + 1
  <2>1. /\ A \in Seq(Seq(Byte)) /\ Len(A) = n /\ B \in Seq(Seq(Byte)) /\ Len(B) = n
        /\ C \in Seq(Seq(Byte)) /\ Len(C) = n
    BY SectionsAre
  <2>2. /\ list.doc_ids = FlattenSeq(A) /\ list.frequencies = FlattenSeq(B)
        /\ list.positions = FlattenSeq(C)
    BY <1>2 DEF Holds
  <2>3. /\ end(cursors).doc = Before(A, n) + 1 /\ end(cursors).freq = Before(B, n) + 1
        /\ end(cursors).pos = Before(C, n) + 1
    BY <1>7 DEF Stands
  <2> HIDE DEF A, B, C, n
  <2>4. /\ Before(A, n) = Len(FlattenSeq(A)) /\ Before(B, n) = Len(FlattenSeq(B))
        /\ Before(C, n) = Len(FlattenSeq(C))
    BY <2>1, PieceAt
  <2> HIDE DEF end, cursors
  <2> QED BY <2>2, <2>3, <2>4
<1>9. all(cursors) = postings
  <2> HIDE DEF end, cursors, found
  <2> QED BY <1>1, <1>6, <1>8
<1>12. n > MaxCollectionEntries <=> ~ (Len(postings) <= MaxCollectionEntries)
  BY <1>1, LimitsAssumption
<1> HIDE DEF all, cursors, reached, n
<1> QED BY <1>4, <1>5, <1>9, <1>10, <1>11, <1>12 DEF IsReadable

-----------------------------------------------------------------------------
(* A search from a skip entry on. *)

(* From behind k postings that are not the target, the first that is not *)
(* before it decides.                                                    *)
LEMMA FirstIs ==
    ASSUME ErrIsApart, NEW postings, PostingsOk(postings), NEW target \in Nat,
           NEW k \in 0..Len(postings),
           \A i \in 1..k : postings[i].doc_id # target,
           NEW cursors, cursors = [m \in 1..Len(postings) - k |-> CursorAt(postings, k + m)]
    PROVE  IsSought(FirstFrom(cursors, target), postings, target)
<1> DEFINE n == Len(postings)
           count == n - k
           stops == {m \in DOMAIN cursors :
                        IF cursors[m] = Err THEN TRUE ELSE cursors[m].found.doc_id >= target}
           later == {m \in 1..count : postings[k + m].doc_id >= target}
           answer == FirstFrom(cursors, target)
<1>1. /\ n \in Nat /\ count \in Nat
      /\ \A i, j \in 1..n : i < j => postings[i].doc_id < postings[j].doc_id
  BY IdsAre
<1>2. ASSUME NEW m \in 1..count
      PROVE  /\ k + m \in 1..n /\ cursors[m] = CursorAt(postings, k + m)
             /\ cursors[m] # Err /\ cursors[m].found = postings[k + m]
  <2>1. k + m \in 1..n  BY <1>1
  <2>2. cursors[m] = CursorAt(postings, k + m)  OBVIOUS
  <2>3. CursorAt(postings, k + m) # Err  BY <2>1, CursorStands
  <2>4. CursorAt(postings, k + m).found = postings[k + m]  BY DEF CursorAt
  <2> QED BY <2>1, <2>2, <2>3, <2>4
<1>3. stops = later
  <2>1. DOMAIN cursors = 1..count  OBVIOUS
  <2>2. \A m \in 1..count : cursors[m] # Err /\ cursors[m].found.doc_id = postings[k + m].doc_id
    BY <1>2
  <2> HIDE DEF count
  <2> QED BY <2>1, <2>2
<1>4. answer = IF stops = {} THEN NotFound
               ELSE IF cursors[Min(stops)] = Err THEN Err
               ELSE IF cursors[Min(stops)].found.doc_id = target
                    THEN cursors[Min(stops)].found ELSE NotFound
  BY Zenon DEF FirstFrom, Try
<1> HIDE DEF answer, stops
<1>5. later \in SUBSET Nat  OBVIOUS
<1>6. ASSUME NEW i \in 1..n, postings[i].doc_id = target
      PROVE  answer = postings[i]
  <2> DEFINE m == i - k
  <2>1. i > k  BY <1>1, <1>6
  <2>2. m \in 1..count /\ k + m = i  BY <1>1, <2>1
  <2>3. \A x \in 1..n : postings[x].doc_id \in Int  BY PostingIs, WordIs
  <2>4. m \in later  BY <1>6, <2>2
  <2>5. \A y \in later : m <= y
    <3> SUFFICES ASSUME NEW y \in later, y < m
                 PROVE  FALSE
      BY <1>1, <2>2
    <3>1. y \in 1..count /\ postings[k + y].doc_id >= target /\ k + y < i
      BY <1>1, <2>2
    <3>2. k + y \in 1..n  BY <1>2, <3>1
    <3>3. postings[k + y].doc_id < postings[i].doc_id  BY <1>1, <3>1, <3>2
    <3> QED BY <1>6, <2>3, <3>1, <3>2, <3>3
  <2> HIDE DEF m, later, count, n
  <2>6. Min(later) = m  BY <1>5, <2>4, <2>5, MinIs
  <2>7. cursors[m] # Err /\ cursors[m].found = postings[i]  BY <1>2, <2>2
  <2> QED BY <1>3, <1>4, <1>6, <2>4, <2>6, <2>7
<1>7. ASSUME \A i \in 1..n : postings[i].doc_id # target
      PROVE  answer = NotFound
  <2>1. CASE later = {}
    BY <1>3, <1>4, <2>1
  <2>2. CASE later # {}
    <3>1. Min(later) \in later
      <4> HIDE DEF later
      <4> QED BY <1>5, <2>2, MinIn
    <3> DEFINE m == Min(later)
    <3>2. m \in 1..count  BY <3>1
    <3> HIDE DEF m, later, count
    <3>3. cursors[m] # Err /\ cursors[m].found = postings[k + m] /\ k + m \in 1..n
      BY <1>2, <3>2
    <3>4. postings[k + m].doc_id # target  BY <1>7, <3>3
    <3> QED BY <1>3, <1>4, <2>2, <3>3, <3>4 DEF m
  <2> QED BY <2>1, <2>2
<1> QED BY <1>6, <1>7 DEF IsSought, answer

(* A skip entry starts a cursor behind the postings before it. *)
LEMMA FromSkip ==
    ASSUME ErrIsApart, NEW postings, PostingsOk(postings), NEW list, Holds(list, postings),
           list.doc_count = Len(postings), NEW k, NEW e, IsSkip(e, postings, k),
           HasFewPositions(postings)
    PROVE  CursorsFromSkip(list, e) = [m \in 1..Len(postings) - k |-> CursorAt(postings, k + m)]
<1> DEFINE n == Len(postings)
           count == n - k
           start == [found |-> [doc_id |-> e.previous_doc_id, positions |-> << >>],
                     doc   |-> e.doc_ids_offset + 1,
                     freq  |-> e.frequencies_offset + 1,
                     pos   |-> e.positions_offset + 1]
<1>1. n \in Nat  BY IdsAre
<1>2. k \in 0..n - 1 /\ e.ordinal = k  BY DEF IsSkip
<1>3. k \in Nat /\ count \in Nat /\ k + count <= n  BY <1>1, <1>2
<1>4. Stands(start, postings, k)  BY DEF IsSkip, Stands
<1>5. start # Err  BY RecordsAreApart
<1>6. CursorsFromSkip(list, e) = CursorsFrom(list, start, count)
  BY <1>2 DEF CursorsFromSkip
<1> HIDE DEF start, count, n
<1>7. k + count <= Len(postings)  BY <1>3 DEF n
<1>8. CursorsFrom(list, start, count) = [m \in 1..count |-> Reached(postings, k, m)]
  BY <1>3, <1>4, <1>5, <1>7, CursorsAre
<1>9. [m \in 1..count |-> Reached(postings, k, m)]
          = [m \in 1..count |-> CursorAt(postings, k + m)]
  BY <1>3, <1>7, ReachedAll
<1> QED BY <1>6, <1>8, <1>9 DEF count, n

(* seek_doc: a search through the skip table finds the posting of a document *)
(* if there is one, and nothing otherwise, however many documents there are, *)
(* if none of them has more positions than the decoder takes.                *)
THEOREM SeekIs ==
    ASSUME ErrIsApart, NEW postings, PostingsOk(postings), NEW step \in Nat, step > 0,
           NEW list, IsList(list, postings, step), NEW target \in Nat,
           HasFewPositions(postings)
    PROVE  IsSought(SeekDoc(list, target), postings, target)
<1> DEFINE n == Len(postings)
           c == CeilDiv(n, step)
           skips == SkipsUpTo(list, target)
           answer == SeekDoc(list, target)
<1>1. /\ n \in Nat
      /\ \A i, j \in 1..n : i < j => postings[i].doc_id < postings[j].doc_id
  BY IdsAre
<1>2. \A i \in 1..n : postings[i].doc_id \in Int  BY PostingIs, WordIs
<1>3. /\ Holds(list, postings) /\ list.doc_count = n
      /\ c \in Nat /\ DOMAIN list.skip_entries = 1..c
      /\ \A s \in 1..c : IsSkip(list.skip_entries[s], postings, (s - 1) * step)
  BY ListIs
<1>4. IsIndexed(list)  BY ListIndexed
<1>5. skips = {s \in 1..c : list.skip_entries[s].first_doc_id <= target}
  BY <1>3 DEF SkipsUpTo
<1>6. answer = IF skips = {} THEN NotFound
               ELSE FirstFrom(CursorsFromSkip(list, list.skip_entries[Max(skips)]), target)
  BY <1>4, Zenon DEF SeekDoc
<1>7. n > 0 => c > 0
  <2> HIDE DEF n
  <2> QED BY <1>1, Ceiling
<1> HIDE DEF n, c, skips, answer
<1>8. CASE skips = {}
  <2>1. answer = NotFound  BY <1>6, <1>8
  <2>2. ASSUME NEW i \in 1..n
        PROVE  postings[i].doc_id # target
    <3>1. 1 \in 1..c /\ 1 \in 1..n /\ (1 - 1) * step = 0  BY <1>1, <1>3, <1>7
    <3>2. IsSkip(list.skip_entries[1], postings, 0)  BY <1>3, <3>1
    <3>3. list.skip_entries[1].first_doc_id = postings[1].doc_id
      BY <3>2 DEF IsSkip
    <3>4. ~ (postings[1].doc_id <= target)  BY <1>5, <1>8, <3>1, <3>3
    <3>5. i = 1 \/ postings[1].doc_id < postings[i].doc_id  BY <1>1, <3>1
    <3> QED BY <1>2, <3>1, <3>4, <3>5
  <2> QED BY <2>1, <2>2 DEF IsSought, answer, n
<1>9. CASE skips # {}
  <2> DEFINE s == Max(skips)
             e == list.skip_entries[s]
             k == (s - 1) * step
  <2>1. s \in 1..c /\ e.first_doc_id <= target
    <3>1. skips \in SUBSET (1..c)  BY <1>5
    <3>2. Max(skips) \in skips  BY <1>3, <1>9, <3>1, MaxIn
    <3> QED BY <1>5, <3>2
  <2>2. IsSkip(e, postings, k)  BY <1>3, <2>1
  <2>3. answer = FirstFrom(CursorsFromSkip(list, e), target)  BY <1>6, <1>9
  <2> HIDE DEF e, k, s
  <2>4. /\ k \in 0..n - 1 /\ e.ordinal = k /\ e.first_doc_id = postings[k + 1].doc_id
    BY <2>2 DEF IsSkip, n
  <2> DEFINE cursors == CursorsFromSkip(list, e)
  <2>5. cursors = [m \in 1..Len(postings) - k |-> CursorAt(postings, k + m)]
    BY <1>3, <2>2, FromSkip DEF n
  <2>10. ASSUME NEW i \in 1..k
         PROVE  postings[i].doc_id # target
    <3>1. i \in 1..n /\ k + 1 \in 1..n /\ i < k + 1  BY <1>1, <2>4
    <3>2. postings[i].doc_id < postings[k + 1].doc_id /\ postings[k + 1].doc_id <= target
      BY <1>1, <2>1, <2>4, <3>1
    <3> QED BY <1>2, <3>1, <3>2
  <2>6. k \in 0..Len(postings)  BY <1>1, <2>4 DEF n
  <2> HIDE DEF cursors
  <2>7. IsSought(FirstFrom(cursors, target), postings, target)
    BY <2>5, <2>6, <2>10, FirstIs
  <2> QED BY <2>3, <2>7 DEF answer, cursors
<1> QED BY <1>8, <1>9 DEF answer

-----------------------------------------------------------------------------
(* The dictionary. *)

LEMMA EntriesAre ==
    ASSUME NEW entries, EntriesOk(entries)
    PROVE  /\ Len(entries) \in Nat /\ DOMAIN entries = 1..Len(entries)
           /\ \A i, j \in 1..Len(entries) : entries[i].term = entries[j].term => i = j
           /\ Range(entries) = {entries[i] : i \in 1..Len(entries)}
<1> DEFINE n == Len(entries)
           terms == [e \in DOMAIN entries |-> entries[e].term]
<1>1. n \in Nat /\ DOMAIN entries = 1..n /\ \A i \in 1..n : entries[i] \in Entry
  BY DEF EntriesOk
<1>2. \A i \in 1..n : entries[i].term \in Int  BY <1>1 DEF Entry
<1>3. IsArray(terms, n, Int) /\ \A i \in 1..n : terms[i] = entries[i].term
  BY <1>1, <1>2 DEF IsArray
<1>4. IsIncreasing(terms)  BY DEF EntriesOk
<1> HIDE DEF terms, n
<1>5. terms \in Seq(Int) /\ Len(terms) = n
  <2> DEFINE X == Int
  <2>1. IsArray(terms, n, X)  BY <1>3
  <2> HIDE DEF X
  <2>2. terms \in Seq(X) /\ Len(terms) = n  BY <1>1, <2>1, ArrayIs
  <2> QED BY <2>2 DEF X
<1>6. ASSUME NEW i \in 1..n, NEW j \in 1..n, i < j
      PROVE  entries[i].term < entries[j].term
  <2>1. terms[i] < terms[j]  BY <1>4, <1>5, <1>6, Increases
  <2> QED BY <1>3, <2>1
<1>7. ASSUME NEW i \in 1..n, NEW j \in 1..n, entries[i].term = entries[j].term
      PROVE  i = j
  <2> SUFFICES ASSUME i # j
               PROVE  FALSE
    OBVIOUS
  <2>1. i < j \/ j < i  BY <1>1
  <2>2. entries[i].term \in Int  BY <1>2
  <2> QED BY <1>6, <1>7, <2>1, <2>2
<1>8. Range(entries) = {entries[i] : i \in 1..n}  BY <1>1 DEF Range
<1> QED BY <1>1, <1>7, <1>8 DEF n

LEMMA NoPostings == PostingsOk(<< >>) /\ IsReadable(<< >>)
<1>1. << >> \in Seq(Posting) /\ Len(<< >>) = 0  OBVIOUS
<1>2. ArePostings(<< >>)  BY DEF ArePostings, IsIncreasing
<1>3. IsReadable(<< >>)  BY <1>1, LimitsAssumption DEF IsReadable, HasFewPositions
<1> QED BY <1>1, <1>2, <1>3 DEF PostingsOk

LEMMA EncodedTerms ==
    ASSUME ErrIsApart, NEW entries, EntriesOk(entries), NEW step \in Nat, step > 0
    PROVE  EncodeTerms(entries, step)
               = [e \in 1..Len(entries) |->
                     [term |-> entries[e].term,
                      list |-> EncodePostings(entries[e].postings, step)]]
<1> DEFINE n == Len(entries)
           lists == [e \in DOMAIN entries |-> EncodePostings(entries[e].postings, step)]
           all(l) == [e \in DOMAIN entries |-> [term |-> entries[e].term, list |-> l[e]]]
<1>1. n \in Nat /\ DOMAIN entries = 1..n  BY EntriesAre
<1>2. IsIncreasing([e \in DOMAIN entries |-> entries[e].term])
  BY DEF EntriesOk
<1>3. EncodeTerms(entries, step) = IF Err \in Range(lists) THEN Err ELSE all(lists)
  BY <1>2, Zenon DEF EncodeTerms, TryAll
<1>4. ASSUME NEW e \in 1..n
      PROVE  lists[e] # Err /\ lists[e] = EncodePostings(entries[e].postings, step)
  <2>1. PostingsOk(entries[e].postings)  BY DEF EntriesOk
  <2>2. IsList(EncodePostings(entries[e].postings, step), entries[e].postings, step)
    BY <2>1, EncodedList
  <2>3. EncodePostings(entries[e].postings, step) # Err  BY <2>1, <2>2, ListIs
  <2> QED BY <1>1, <2>3
<1>5. Err \notin Range(lists)
  <2>1. DOMAIN lists = 1..n  BY <1>1
  <2> HIDE DEF lists
  <2> QED BY <1>4, <2>1 DEF Range
<1>6. EncodeTerms(entries, step) = all(lists)
  <2> HIDE DEF lists, all
  <2> QED BY <1>3, <1>5
<1>7. all(lists) = [e \in 1..n |-> [term |-> entries[e].term,
                                    list |-> EncodePostings(entries[e].postings, step)]]
  BY <1>1
<1> QED BY <1>6, <1>7

(* lookup_term, and a search in the list of a term. *)
LEMMA TermsBack ==
    ASSUME ErrIsApart, NEW entries, EntriesOk(entries), NEW step \in Nat, step > 0, NEW term,
           Len(entries) <= MaxCollectionEntries
    PROVE  /\ PostingsOk(PostingsOf(entries, term))
           /\ LookupTerm(EncodeTerms(entries, step), term)
                  = IF IsReadable(PostingsOf(entries, term)) THEN PostingsOf(entries, term)
                    ELSE Err
           /\ HasFewPositions(PostingsOf(entries, term)) => \A d \in Nat :
                  IsSought(SeekTermDoc(EncodeTerms(entries, step), term, d),
                           PostingsOf(entries, term), d)
<1> DEFINE n == Len(entries)
           dictionary == EncodeTerms(entries, step)
           found == {e \in Range(entries) : e.term = term}
           P == PostingsOf(entries, term)
           L(e) == EncodePostings(entries[e].postings, step)
<1>1. /\ n \in Nat /\ Range(entries) = {entries[i] : i \in 1..n}
      /\ \A i, j \in 1..n : entries[i].term = entries[j].term => i = j
  BY EntriesAre
<1>2. dictionary = [e \in 1..n |-> [term |-> entries[e].term, list |-> L(e)]]
  BY EncodedTerms
<1>3. DOMAIN dictionary = 1..n /\ ~ (Len(dictionary) > MaxCollectionEntries)
  BY <1>1, <1>2, LimitsAssumption
<1>4. \A e \in 1..n : dictionary[e].term = entries[e].term /\ dictionary[e].list = L(e)
  BY <1>2
<1> HIDE DEF dictionary, n
<1>5. Range(dictionary) = {dictionary[i] : i \in 1..n}  BY <1>3 DEF Range
<1>6. P = IF found = {} THEN << >> ELSE (CHOOSE e \in found : TRUE).postings
  BY DEF PostingsOf
<1> DEFINE hits == EntriesOf(dictionary, term)
<1>7. hits = {e \in Range(dictionary) : e.term = term}  BY DEF EntriesOf
<1>8. /\ LookupTerm(dictionary, term)
             = IF hits = {} THEN << >> ELSE DecodePostings((CHOOSE e \in hits : TRUE).list)
      /\ \A d : SeekTermDoc(dictionary, term, d)
             = IF hits = {} THEN NotFound ELSE SeekDoc((CHOOSE e \in hits : TRUE).list, d)
  BY <1>3, Zenon DEF LookupTerm, SeekTermDoc
<1> HIDE DEF hits, found, P, L
<1>9. CASE \E i \in 1..n : entries[i].term = term
  <2>1. PICK i \in 1..n : entries[i].term = term  BY <1>9
  <2>2. found = {entries[i]}  BY <1>1, <2>1 DEF found
  <2>3. \A j \in 1..n : dictionary[j].term = term => j = i
    BY <1>1, <1>4, <2>1
  <2>4. hits = {dictionary[i]}  BY <1>4, <1>5, <1>7, <2>1, <2>3
  <2>5. P = entries[i].postings  BY <1>6, <2>2
  <2>6. (CHOOSE e \in hits : TRUE) = dictionary[i] /\ hits # {}  BY <2>4
  <2>7. /\ LookupTerm(dictionary, term) = DecodePostings(L(i))
        /\ \A d : SeekTermDoc(dictionary, term, d) = SeekDoc(L(i), d)
    BY <1>4, <1>8, <2>6
  <2>8. PostingsOk(P) /\ L(i) = EncodePostings(P, step)
    BY <2>5 DEF EntriesOk, n, L
  <2>9. IsList(L(i), P, step)  BY <2>8, EncodedList
  <2>10. DecodePostings(L(i)) = IF IsReadable(P) THEN P ELSE Err
    BY <2>8, <2>9, PostingsBack
  <2>11. HasFewPositions(P) => \A d \in Nat : IsSought(SeekDoc(L(i), d), P, d)
    BY <2>8, <2>9, SeekIs
  <2> QED BY <2>7, <2>8, <2>10, <2>11 DEF P, dictionary
<1>10. CASE \A i \in 1..n : entries[i].term # term
  <2>1. found = {} /\ hits = {}  BY <1>1, <1>4, <1>5, <1>7, <1>10 DEF found
  <2>2. P = << >> /\ LookupTerm(dictionary, term) = << >>
        /\ \A d : SeekTermDoc(dictionary, term, d) = NotFound
    BY <1>6, <1>8, <2>1
  <2>3. \A d \in Nat : IsSought(NotFound, << >>, d)  BY DEF IsSought
  <2> QED BY <2>2, <2>3, NoPostings DEF P, dictionary
<1> QED BY <1>9, <1>10

-----------------------------------------------------------------------------
(* The queries. *)

LEMMA PostingsRange ==
    ASSUME ErrIsApart, NEW postings, PostingsOk(postings)
    PROVE  /\ Range(postings) = {postings[i] : i \in 1..Len(postings)}
           /\ DocsOf(postings) = {postings[i].doc_id : i \in 1..Len(postings)}
           /\ \A i \in 1..Len(postings) :
                  PostingOf(postings, postings[i].doc_id) = {postings[i]}
           /\ \A d : d \notin DocsOf(postings) => PostingOf(postings, d) = {}
<1> DEFINE n == Len(postings)
<1>1. /\ n \in Nat /\ DOMAIN postings = 1..n
      /\ \A i, j \in 1..n : i < j => postings[i].doc_id < postings[j].doc_id
  BY IdsAre
<1>2. \A i \in 1..n : postings[i].doc_id \in Int  BY PostingIs, WordIs
<1>3. ASSUME NEW i \in 1..n, NEW j \in 1..n, postings[i].doc_id = postings[j].doc_id
      PROVE  i = j
  <2> SUFFICES ASSUME i # j
               PROVE  FALSE
    OBVIOUS
  <2>1. i < j \/ j < i  BY <1>1
  <2> QED BY <1>1, <1>2, <1>3, <2>1
<1>4. Range(postings) = {postings[i] : i \in 1..n}  BY <1>1 DEF Range
<1> HIDE DEF n
<1>5. DocsOf(postings) = {postings[i].doc_id : i \in 1..n}  BY <1>4 DEF DocsOf
<1>6. \A i \in 1..n : PostingOf(postings, postings[i].doc_id) = {postings[i]}
  BY <1>3, <1>4 DEF PostingOf
<1>7. \A d : d \notin DocsOf(postings) => PostingOf(postings, d) = {}
  BY <1>4, <1>5 DEF PostingOf
<1> QED BY <1>4, <1>5, <1>6, <1>7 DEF n

(* What a search finds is the posting of the document. *)
LEMMA SeekAnswers ==
    ASSUME ErrIsApart, NEW postings, PostingsOk(postings), NEW d \in Nat,
           NEW answer, IsSought(answer, postings, d)
    PROVE  /\ answer = (IF PostingOf(postings, d) = {} THEN NotFound
                        ELSE CHOOSE p \in PostingOf(postings, d) : TRUE)
           /\ answer # Err /\ (answer # NotFound <=> d \in DocsOf(postings))
<1> DEFINE n == Len(postings)
<1>1. DocsOf(postings) = {postings[i].doc_id : i \in 1..n}  BY PostingsRange
<1>2. CASE d \in DocsOf(postings)
  <2>1. PICK i \in 1..n : postings[i].doc_id = d  BY <1>1, <1>2
  <2>2. PostingOf(postings, d) = {postings[i]}  BY <2>1, PostingsRange
  <2>3. answer = postings[i]  BY <2>1 DEF IsSought
  <2>4. NotFound.doc_id = -1  BY DEF NotFound
  <2>5. answer # NotFound  BY <2>1, <2>3, <2>4
  <2>6. answer = [doc_id |-> answer.doc_id, positions |-> answer.positions]
    BY <2>3, PostingIs
  <2>7. answer # Err  BY <2>6, RecordsAreApart
  <2> QED BY <1>2, <2>2, <2>3, <2>5, <2>7
<1>3. CASE d \notin DocsOf(postings)
  <2>1. PostingOf(postings, d) = {}  BY <1>3, PostingsRange
  <2>2. \A i \in 1..n : postings[i].doc_id # d  BY <1>1, <1>3
  <2>3. answer = NotFound  BY <2>2 DEF IsSought
  <2>4. answer # Err  BY <2>3, RecordsAreApart DEF NotFound
  <2> QED BY <1>3, <2>1, <2>3, <2>4
<1> QED BY <1>2, <1>3

(* has_adjacent_phrase *)
LEMMA AdjacentIs ==
    ASSUME NEW dictionary, NEW s, NEW t, NEW d, NEW p, NEW q,
           LookupTerm(dictionary, s) = p, LookupTerm(dictionary, t) = q, p # Err, q # Err
    PROVE  HasAdjacentPhrase(dictionary, s, t, d) <=>
               \E a \in PostingOf(p, d), b \in PostingOf(q, d) :
                   \E i \in DOMAIN a.positions, j \in DOMAIN b.positions :
                       a.positions[i] + 1 = b.positions[j]
<1> DEFINE Near(a, b) == \E i \in DOMAIN a.positions, j \in DOMAIN b.positions :
                             a.positions[i] + 1 = b.positions[j]
           Close(a, b) == \E x \in Range(a.positions) : x + 1 \in Range(b.positions)
<1>1. \A a, b : Close(a, b) <=> Near(a, b)  BY DEF Range
<1>2. HasAdjacentPhrase(dictionary, s, t, d) =
          IF PostingOf(p, d) = {} THEN FALSE
          ELSE \E a \in PostingOf(p, d), b \in PostingOf(q, d) : Close(a, b)
  BY Zenon DEF HasAdjacentPhrase, Try
<1> HIDE DEF Close, Near
<1>3. HasAdjacentPhrase(dictionary, s, t, d) <=>
          \E a \in PostingOf(p, d), b \in PostingOf(q, d) : Near(a, b)
  BY <1>1, <1>2
<1> QED BY ONLY <1>3 DEF Near

(* What is chosen from a sequence that increases increases. *)
LEMMA ChosenIncreases ==
    ASSUME NEW seq \in Seq(Int), IsIncreasing(seq), NEW places
    PROVE  /\ Chosen(seq, places) \in Seq(Int) /\ IsIncreasing(Chosen(seq, places))
           /\ Range(Chosen(seq, places)) = {seq[i] : i \in {j \in 1..Len(seq) : j \in places}}
<1> DEFINE n == Len(seq)
           taken(k) == {seq[i] : i \in {j \in 1..k : j \in places}}
           Ok(c, k) == /\ c \in Seq(Int) /\ IsIncreasing(c)
                       /\ {c[m] : m \in 1..Len(c)} = taken(k)
<1>1. n \in Nat /\ \A i \in 1..n : seq[i] \in Int  OBVIOUS
<1>2. PICK f : Choosing(f, seq, places, n)  BY <1>1, ChosenAre
<1>3. /\ f[0] = << >> /\ Chosen(seq, places) = f[n]
      /\ \A k \in 1..n : f[k] = IF k \in places THEN Append(f[k - 1], seq[k]) ELSE f[k - 1]
  BY <1>2 DEF Choosing, Taking
<1> DEFINE good == {k \in 0..n : Ok(f[k], k)}
<1>4. 0 \in good
  <2>1. << >> \in Seq(Int) /\ Len(<< >>) = 0 /\ 0 \in 0..n  BY <1>1
  <2>2. IsIncreasing(<< >>)  BY <2>1 DEF IsIncreasing
  <2>3. taken(0) = {}  OBVIOUS
  <2> DEFINE none == << >>
  <2>4. none \in Seq(Int) /\ IsIncreasing(none) /\ 1..Len(none) = {}
    BY <2>1, <2>2
  <2> HIDE DEF taken, none
  <2>5. Ok(none, 0)  BY <2>3, <2>4
  <2> HIDE DEF Ok
  <2> QED BY <1>3, <2>1, <2>5 DEF none
<1>5. ASSUME NEW k \in 0..n - 1, k \in good
      PROVE  k + 1 \in good
  <2> DEFINE m == k + 1
             c == f[k]
             v == seq[m]
             l == Len(c)
  <2>1. m \in 1..n /\ m - 1 = k /\ m \in 0..n  BY <1>1
  <2>2. c \in Seq(Int) /\ IsIncreasing(c) /\ {c[x] : x \in 1..l} = taken(k)
    BY <1>5
  <2>3. f[m] = IF m \in places THEN Append(c, v) ELSE c
    <3> HIDE DEF m
    <3> QED BY <1>3, <2>1
  <2>4. CASE m \notin places
    <3>1. taken(m) = taken(k)  BY <2>4
    <3>2. Ok(f[m], m)  BY <2>2, <2>3, <2>4, <3>1
    <3> QED BY <2>1, <3>2
  <2>5. CASE m \in places
    <3> DEFINE more == Append(c, v)
    <3>1. v \in Int /\ l \in Nat  BY <1>1, <2>1, <2>2
    <3>2. /\ more \in Seq(Int) /\ Len(more) = l + 1
          /\ more[l + 1] = v /\ \A x \in 1..l : more[x] = c[x]
      BY <2>2, <3>1
    <3>3. taken(m) = taken(k) \cup {v}
      <4>1. {j \in 1..m : j \in places} = {j \in 1..k : j \in places} \cup {m}
        BY <2>5
      <4> QED BY <4>1
    <3>4. \A x \in 1..l : c[x] < v
      <4> TAKE x \in 1..l
      <4>1. c[x] \in taken(k)  BY <2>2
      <4>2. PICK j \in 1..k : c[x] = seq[j]  BY <4>1
      <4>3. j \in 1..n /\ j < m  BY <1>1
      <4>4. seq[j] < seq[m]
        <5> HIDE DEF m
        <5> QED BY <2>1, <4>3, Increases
      <4> QED BY <4>2, <4>4
    <3> HIDE DEF more, v, l, c, taken, m
    <3>5. IsIncreasing(more)
      <4> SUFFICES ASSUME NEW x \in 1..Len(more) - 1
                   PROVE  more[x] < more[x + 1]
        BY DEF IsIncreasing
      <4>1. x \in 1..l  BY <3>1, <3>2
      <4>2. CASE x = l
        BY <3>2, <3>4, <4>1, <4>2
      <4>3. CASE x # l
        <5>1. x \in 1..l - 1 /\ x + 1 \in 1..l  BY <3>1, <4>1, <4>3
        <5>2. c[x] < c[x + 1]  BY <2>2, <5>1 DEF IsIncreasing, l
        <5> QED BY <3>2, <4>1, <5>1, <5>2
      <4> QED BY <4>2, <4>3
    <3>6. {more[x] : x \in 1..Len(more)} = taken(m)
      <4>1. \A x : x \in 1..Len(more) <=> x \in 1..l \/ x = l + 1
        BY <3>1, <3>2
      <4>2. {more[x] : x \in 1..Len(more)} = {c[x] : x \in 1..l} \cup {v}
        BY <3>2, <4>1
      <4> QED BY <2>2, <3>3, <4>2
    <3>7. Ok(f[m], m)  BY <2>3, <2>5, <3>2, <3>5, <3>6 DEF more
    <3> QED BY <2>1, <3>7 DEF m
  <2> QED BY <2>4, <2>5
<1>6. Ok(f[n], n)
  <2> HIDE DEF Ok
  <2>1. 0..n \subseteq good
    <3> HIDE DEF good
    <3> QED BY <1>1, <1>4, <1>5, Induction
  <2>2. n \in good  BY <1>1, <2>1
  <2> QED BY <2>2
<1> DEFINE c == Chosen(seq, places)
<1>7. c \in Seq(Int) /\ IsIncreasing(c) /\ {c[m] : m \in 1..Len(c)} = taken(n)
  BY <1>3, <1>6
<1> HIDE DEF c, taken
<1>8. Range(c) = taken(n)  BY <1>7 DEF Range
<1> QED BY <1>7, <1>8 DEF c, taken

(* and_doc_ids, of two terms. *)
LEMMA AndIs ==
    ASSUME ErrIsApart, NEW dictionary, NEW s, NEW t, NEW p, NEW q,
           LookupTerm(dictionary, s) = p, LookupTerm(dictionary, t) = q,
           PostingsOk(p), PostingsOk(q), p # Err, q # Err
    PROVE  /\ IsIncreasing(AndDocIds(dictionary, <<s, t>>))
           /\ Range(AndDocIds(dictionary, <<s, t>>)) = DocsOf(p) \cap DocsOf(q)
<1> DEFINE terms == <<s, t>>
           lists == [i \in DOMAIN terms |-> LookupTerm(dictionary, terms[i])]
           stops == {i \in DOMAIN terms : lists[i] = Err \/ lists[i] = << >>}
           docs == [i \in DOMAIN terms |-> DocIds(lists[i])]
           Least(x) == \A u \in DOMAIN docs :
               Len(docs[x]) < Len(docs[u]) \/ (Len(docs[x]) = Len(docs[u]) /\ x <= u)
           best == CHOOSE x \in DOMAIN docs : Least(x)
           both == AndDocIds(dictionary, <<s, t>>)
<1>1. /\ DOMAIN docs = {1, 2} /\ docs[1] = DocIds(p) /\ docs[2] = DocIds(q) /\ docs # << >>
      /\ stops \in SUBSET Nat
      /\ \A i \in stops : lists[i] = << >> /\ (lists[i] = p \/ lists[i] = q)
  <2>1. DOMAIN terms = {1, 2} /\ terms[1] = s /\ terms[2] = t
    <3>1. DOMAIN terms = 1..2  OBVIOUS
    <3>2. 1..2 = {1, 2}  OBVIOUS
    <3> QED BY <3>1, <3>2
  <2>4. DOMAIN lists = {1, 2} /\ lists[1] = p /\ lists[2] = q
    <3> HIDE DEF terms
    <3> QED BY <2>1
  <2> HIDE DEF terms, lists
  <2>2. DOMAIN docs = {1, 2} /\ docs[1] = DocIds(p) /\ docs[2] = DocIds(q)
    BY <2>1, <2>4
  <2>3. DOMAIN << >> = {}  OBVIOUS
  <2> HIDE DEF docs
  <2> QED BY <2>1, <2>2, <2>3, <2>4
<1>2. stops = {} => both = Chosen(docs[best], {i \in DOMAIN docs[best] :
                 \A x \in DOMAIN docs : docs[best][i] \in Range(docs[x])})
  <2>1. stops = {} => both = InAll(docs)  BY Zenon DEF AndDocIds
  <2> HIDE DEF docs
  <2>2. InAll(docs) = Chosen(docs[best], {i \in DOMAIN docs[best] :
                 \A x \in DOMAIN docs : docs[best][i] \in Range(docs[x])})
    BY <1>1, Zenon DEF InAll
  <2> QED BY <2>1, <2>2
<1>10. CASE stops # {}
  <2>1. both = lists[Min(stops)]  BY <1>10, Zenon DEF AndDocIds
  <2> HIDE DEF stops, lists, both
  <2>2. Min(stops) \in stops  BY <1>1, <1>10, MinIn
  <2>3. both = << >> /\ (p = << >> \/ q = << >>)  BY <1>1, <2>1, <2>2
  <2>4. IsIncreasing(<< >>) /\ Range(<< >>) = {} /\ DocsOf(<< >>) = {}
    BY DEF IsIncreasing, Range, DocsOf
  <2> QED BY <2>3, <2>4 DEF both
<1> HIDE DEF docs, both, stops
<1>3. ASSUME NEW r, PostingsOk(r)
      PROVE  /\ DocIds(r) \in Seq(Int) /\ IsIncreasing(DocIds(r))
             /\ Range(DocIds(r)) = DocsOf(r) /\ Len(DocIds(r)) \in Nat
  <2>1. DocIds(r) = IdsOf(r)  BY DEF DocIds, IdsOf
  <2>2. /\ IdsOf(r) \in Seq(Word) /\ Len(IdsOf(r)) = Len(r) /\ Len(r) \in Nat
        /\ \A i \in 1..Len(r) : IdsOf(r)[i] = r[i].doc_id
    BY <1>3, IdsAre
  <2>3. DocIds(r) \in Seq(Int)  BY <2>1, <2>2, WordIs, SubsetSeq
  <2>4. IsIncreasing(DocIds(r))  BY <1>3 DEF PostingsOk, ArePostings, DocIds
  <2>5. DOMAIN DocIds(r) = 1..Len(r)  BY <2>1, <2>2, <2>3
  <2>6. DocsOf(r) = {r[i].doc_id : i \in 1..Len(r)}  BY <1>3, PostingsRange
  <2>7. Range(DocIds(r)) = DocsOf(r)  BY <2>1, <2>2, <2>5, <2>6 DEF Range
  <2> QED BY <2>1, <2>2, <2>3, <2>4, <2>7
<1>4. best \in {1, 2}
  <2>1. Len(docs[1]) \in Nat /\ Len(docs[2]) \in Nat  BY <1>1, <1>3
  <2>2. \E x \in DOMAIN docs : Least(x)
    <3>1. CASE Len(docs[1]) <= Len(docs[2])
      <4>1. Least(1)  BY <1>1, <2>1, <3>1
      <4> QED BY <1>1, <4>1
    <3>2. CASE ~ (Len(docs[1]) <= Len(docs[2]))
      <4>1. Least(2)  BY <1>1, <2>1, <3>2
      <4> QED BY <1>1, <4>1
    <3> QED BY <3>1, <3>2
  <2>3. best \in DOMAIN docs
    <3> HIDE DEF Least
    <3> QED BY <2>2, Zenon
  <2> QED BY <1>1, <2>3
<1> HIDE DEF best
<1> DEFINE seq == docs[best]
           places == {i \in DOMAIN seq : seq[i] \in Range(docs[1]) /\ seq[i] \in Range(docs[2])}
<1>5. /\ seq \in Seq(Int) /\ IsIncreasing(seq)
      /\ Range(docs[1]) = DocsOf(p) /\ Range(docs[2]) = DocsOf(q)
      /\ Range(seq) = DocsOf(p) \/ Range(seq) = DocsOf(q)
  BY <1>1, <1>3, <1>4
<1>6. stops = {} => both = Chosen(seq, places)  BY <1>1, <1>2
<1> HIDE DEF seq
<1>7. DOMAIN seq = 1..Len(seq)  BY <1>5
<1> HIDE DEF places
<1>8. stops = {} =>
          IsIncreasing(both) /\ Range(both) = {seq[i] : i \in {j \in 1..Len(seq) : j \in places}}
  BY <1>5, <1>6, ChosenIncreases
<1>9. CASE stops = {}
  <2>1. Range(seq) = {seq[i] : i \in 1..Len(seq)}  BY <1>7 DEF Range
  <2>2. Range(both) = {x \in Range(seq) : x \in DocsOf(p) /\ x \in DocsOf(q)}
    BY <1>5, <1>7, <1>8, <1>9, <2>1 DEF places
  <2>3. Range(both) = DocsOf(p) \cap DocsOf(q)  BY <1>5, <2>2
  <2> QED BY <1>8, <1>9, <2>3 DEF both
<1> QED BY <1>9, <1>10

-----------------------------------------------------------------------------
(* Scores, added up. *)

LEMMA ScoreMore ==
    ASSUME NEW s \in Score, NEW more \in Nat
    PROVE  /\ [s EXCEPT !.score = @ + more] \in Score
           /\ [s EXCEPT !.score = @ + more].doc_id = s.doc_id
           /\ [s EXCEPT !.score = @ + more].score = s.score + more
<1>1. s.score \in Nat /\ s.score + more \in Nat  BY DEF Score
<1> QED BY <1>1 DEF Score

(* One posting more in the scores. *)
LEMMA AddScoreIs ==
    ASSUME NEW scores \in Seq(Score), NEW posting \in Posting
    PROVE  AddScore(scores, posting) \in Seq(Score)
<1> DEFINE score == Len(posting.positions)
           hit == {i \in DOMAIN scores : scores[i].doc_id = posting.doc_id}
           n == Len(scores)
           raised == [i \in DOMAIN scores |->
                        IF i \in hit THEN [scores[i] EXCEPT !.score = @ + score] ELSE scores[i]]
<1>1. score \in Nat /\ posting.doc_id \in Word
  <2>1. posting.positions \in Seq(Word) /\ posting.doc_id \in Word
    BY DEF Posting
  <2> HIDE DEF Word
  <2> QED BY <2>1
<1>2. n \in Nat /\ DOMAIN scores = 1..n /\ \A i \in 1..n : scores[i] \in Score
  OBVIOUS
<1>3. AddScore(scores, posting)
          = IF score = 0 THEN scores
            ELSE IF hit = {} THEN Append(scores, [doc_id |-> posting.doc_id, score |-> score])
            ELSE raised
  BY DEF AddScore
<1>4. [doc_id |-> posting.doc_id, score |-> score] \in Score
  BY <1>1 DEF Score
<1>5. Append(scores, [doc_id |-> posting.doc_id, score |-> score]) \in Seq(Score)
  BY <1>4
<1>6. raised \in Seq(Score)
  <2>1. ASSUME NEW i \in 1..n
        PROVE  raised[i] \in Score
    <3>1. [scores[i] EXCEPT !.score = @ + score] \in Score
      <4> HIDE DEF score
      <4> QED BY <1>1, <1>2, ScoreMore
    <3>2. scores[i] \in Score /\ i \in DOMAIN scores  BY <1>2
    <3> QED BY <3>1, <3>2
  <2>2. raised = [i \in 1..n |-> raised[i]]  BY <1>2
  <2> DEFINE X == Score
  <2> HIDE DEF raised, n
  <2>3. IsArray(raised, n, X)  BY <2>1, <2>2 DEF IsArray
  <2> HIDE DEF X
  <2>4. raised \in Seq(X)  BY <1>2, <2>3, ArrayIs
  <2> QED BY <2>4 DEF X
<1> HIDE DEF raised, hit, score
<1> QED BY <1>3, <1>5, <1>6

(* The fold of the scores, unfolded. *)
LEMMA ScoreTable ==
    ASSUME NEW mentioned \in Seq(Posting), NEW n \in Nat, Len(mentioned) = n
    PROVE  \E t : ScoreSteps(t, mentioned, n) /\ FoldLeft(AddScore, << >>, mentioned) = t[n]
<1> DEFINE Solves(f) == f = [s \in SUBSET (1..n) |->
               IF s = {} THEN << >> ELSE AddScore(f[s \ {Max(s)}], mentioned[Max(s)])]
           iter == CHOOSE f : Solves(f)
<1>1. DOMAIN mentioned = 1..n  OBVIOUS
<1>2. \A f : Solves(f) <=> IsFold(f, "score", << >>, mentioned, n)  BY DEF IsFold, FoldStep
<1>3. \E f : Solves(f)  BY <1>2, FoldExists
<1>4. Solves(iter)  BY <1>3, Zenon
<1>5. FoldLeft(AddScore, << >>, mentioned) = iter[1..n]
  BY <1>1, Zenon DEF FoldLeft, MapThenFoldSet
<1> HIDE DEF Solves, iter
<1>6. PICK t : FoldSteps(t, "score", << >>, mentioned, n) /\ t[n] = iter[1..n]
  BY <1>2, <1>4, FoldRuns
<1> QED BY <1>5, <1>6 DEF FoldSteps, FoldStep, ScoreSteps

LEMMA CountsAre ==
    ASSUME NEW mentioned \in Seq(Posting), NEW d
    PROVE  /\ Counts(mentioned, d) \in Seq(Int) /\ Len(Counts(mentioned, d)) = Len(mentioned)
           /\ \A i \in 1..Len(mentioned) : Len(mentioned[i].positions) \in Nat
           /\ \A i \in 1..Len(mentioned) : Counts(mentioned, d)[i]
                  = IF mentioned[i].doc_id = d THEN Len(mentioned[i].positions) ELSE 0
<1> DEFINE n == Len(mentioned)
           c == Counts(mentioned, d)
<1>1. n \in Nat /\ DOMAIN mentioned = 1..n /\ \A i \in 1..n : mentioned[i] \in Posting
  OBVIOUS
<1>2. ASSUME NEW i \in 1..n
      PROVE  Len(mentioned[i].positions) \in Nat
  <2> DEFINE W == Word
  <2>1. mentioned[i].positions \in Seq(W)  BY <1>1 DEF Posting
  <2> HIDE DEF W
  <2> QED BY <2>1
<1>3. \A i \in 1..n : c[i] = IF mentioned[i].doc_id = d THEN Len(mentioned[i].positions) ELSE 0
  BY <1>1 DEF Counts
<1>4. c = [i \in 1..n |-> c[i]]  BY <1>1 DEF Counts
<1>5. \A i \in 1..n : c[i] \in Int
  <2> HIDE DEF c, n
  <2> QED BY <1>2, <1>3
<1> DEFINE X == Int
<1> HIDE DEF c, n, X
<1>6. IsArray(c, n, X)  BY <1>4, <1>5 DEF IsArray, X
<1>7. c \in Seq(X) /\ Len(c) = n  BY <1>1, <1>6, ArrayIs
<1> QED BY <1>2, <1>3, <1>7 DEF X, c, n

LEMMA TotalIs ==
    ASSUME NEW mentioned \in Seq(Posting), NEW d
    PROVE  /\ Total(mentioned, d, 0) = 0
           /\ Total(mentioned, d, Len(mentioned)) = SumOf(Counts(mentioned, d))
           /\ \A k \in 0..Len(mentioned) : Total(mentioned, d, k) \in Nat
           /\ \A k \in 0..Len(mentioned) - 1 :
                  Total(mentioned, d, k + 1) = Total(mentioned, d, k)
                      + (IF mentioned[k + 1].doc_id = d THEN Len(mentioned[k + 1].positions) ELSE 0)
<1> DEFINE n == Len(mentioned)
           c == Counts(mentioned, d)
           T(k) == Total(mentioned, d, k)
           more(k) == IF mentioned[k + 1].doc_id = d THEN Len(mentioned[k + 1].positions) ELSE 0
<1>1. /\ c \in Seq(Int) /\ Len(c) = n /\ n \in Nat
      /\ \A i \in 1..n : Len(mentioned[i].positions) \in Nat
      /\ \A i \in 1..n : c[i] = IF mentioned[i].doc_id = d THEN Len(mentioned[i].positions) ELSE 0
  BY CountsAre
<1> HIDE DEF c, n
<1>2. \A k : T(k) = SumOf(SubSeq(c, 1, k))  BY DEF Total, c
<1>3. T(0) = 0 /\ T(n) = SumOf(c)  BY <1>1, <1>2, SumEnds
<1>4. ASSUME NEW k \in 0..n - 1
      PROVE  T(k + 1) = T(k) + more(k) /\ more(k) \in Nat
  <2>1. k + 1 \in 1..n  BY <1>1
  <2>2. k \in 0..Len(c) - 1  BY <1>1
  <2>3. T(k + 1) = T(k) + c[k + 1]  BY <1>1, <1>2, <2>2, SumOneMore
  <2> QED BY <1>1, <2>1, <2>3
<1> HIDE DEF T, more
<1> DEFINE typed == {k \in 0..n : T(k) \in Nat}
<1>5. 0 \in typed  BY <1>1, <1>3
<1>6. ASSUME NEW k \in 0..n - 1, k \in typed
      PROVE  k + 1 \in typed
  <2>1. k + 1 \in 0..n /\ T(k) \in Nat  BY <1>1, <1>6
  <2> QED BY <1>4, <2>1
<1>7. 0..n \subseteq typed
  <2> HIDE DEF typed
  <2> QED BY <1>1, <1>5, <1>6, Induction
<1>8. \A k \in 0..n : T(k) \in Nat  BY <1>7
<1> HIDE DEF typed
<1> QED BY <1>3, <1>4, <1>8 DEF n, c, T, more

LEMMA TallyOne ==
    ASSUME NEW mentioned \in Seq(Posting), NEW k \in 0..Len(mentioned) - 1,
           NEW scores, Tallied(scores, mentioned, k)
    PROVE  Tallied(AddScore(scores, mentioned[k + 1]), mentioned, k + 1)
<1> DEFINE posting == mentioned[k + 1]
           id == posting.doc_id
           score == Len(posting.positions)
           hit == {i \in DOMAIN scores : scores[i].doc_id = id}
           n == Len(scores)
           next == AddScore(scores, posting)
           raised == [i \in DOMAIN scores |->
                        IF i \in hit THEN [scores[i] EXCEPT !.score = @ + score] ELSE scores[i]]
           new == [doc_id |-> id, score |-> score]
           T(d) == Total(mentioned, d, k)
           U(d) == Total(mentioned, d, k + 1)
<1>1. posting \in Posting /\ k + 1 \in 1..Len(mentioned) /\ k \in 0..Len(mentioned)
  <2>1. Len(mentioned) \in Nat  OBVIOUS
  <2>2. k + 1 \in 1..Len(mentioned) /\ k \in 0..Len(mentioned)  BY <2>1
  <2> HIDE DEF Posting
  <2> QED BY <2>2
<1>2. score \in Nat /\ id \in Word  BY <1>1, CountsAre DEF Posting
<1>3. /\ scores \in Seq(Score) /\ n \in Nat /\ DOMAIN scores = 1..n
      /\ \A i \in 1..n : scores[i] \in Score
      /\ \A i \in 1..n : scores[i].score > 0 /\ scores[i].score = T(scores[i].doc_id)
      /\ \A i, j \in 1..n : scores[i].doc_id = scores[j].doc_id => i = j
      /\ \A d : T(d) > 0 => \E i \in 1..n : scores[i].doc_id = d
  BY DEF Tallied
<1>4. \A d : T(d) \in Nat /\ U(d) = T(d) + (IF id = d THEN score ELSE 0)
  BY <1>1, TotalIs
<1>5. next = IF score = 0 THEN scores ELSE IF hit = {} THEN Append(scores, new) ELSE raised
  BY DEF AddScore
<1>6. next \in Seq(Score)  BY <1>1, <1>3, AddScoreIs
<1> HIDE DEF T, U, id, score, posting
<1> DEFINE Good(s) ==
    /\ \A i \in 1..Len(s) : s[i].score > 0 /\ s[i].score = U(s[i].doc_id)
    /\ \A i, j \in 1..Len(s) : s[i].doc_id = s[j].doc_id => i = j
    /\ \A d : U(d) > 0 => \E i \in 1..Len(s) : s[i].doc_id = d
<1>7. ASSUME score = 0
      PROVE  Good(next)
  <2>1. \A d : U(d) = T(d)  BY <1>4, <1>7
  <2>2. next = scores  BY <1>5, <1>7
  <2> HIDE DEF next
  <2> QED BY <1>3, <2>1, <2>2
<1>8. ASSUME score # 0 /\ hit = {}
      PROVE  Good(next)
  <2>1. T(id) = 0
    <3>1. \A i \in 1..n : scores[i].doc_id # id  BY <1>3, <1>8
    <3>2. ~ (T(id) > 0)  BY ONLY <1>3, <3>1
    <3>3. T(id) \in Nat  BY <1>4
    <3> QED BY ONLY <3>2, <3>3
  <2>2. new \in Score /\ new.doc_id = id /\ new.score = score
    BY <1>2 DEF Score
  <2> HIDE DEF new
  <2>3. /\ next = Append(scores, new) /\ Len(next) = n + 1
        /\ next[n + 1] = new /\ \A i \in 1..n : next[i] = scores[i]
    BY <1>3, <1>5, <1>8, <2>2
  <2>4. \A i \in 1..n : scores[i].doc_id # id  BY <1>3, <1>8
  <2> HIDE DEF hit, n, next
  <2>5. \A i : i \in 1..n + 1 <=> i \in 1..n \/ i = n + 1  BY <1>3
  <2>6. \A i \in 1..n : next[i].score > 0 /\ next[i].score = U(next[i].doc_id)
    BY <1>3, <1>4, <2>3, <2>4
  <2>7. next[n + 1].score > 0 /\ next[n + 1].score = U(next[n + 1].doc_id)
    BY <1>2, <1>4, <1>8, <2>1, <2>2, <2>3
  <2>8. ASSUME NEW i \in 1..n + 1, NEW j \in 1..n + 1, next[i].doc_id = next[j].doc_id
        PROVE  i = j
    BY <1>3, <2>2, <2>3, <2>4, <2>5, <2>8
  <2>9. ASSUME NEW d, U(d) > 0
        PROVE  \E i \in 1..n + 1 : next[i].doc_id = d
    <3>1. CASE d = id
      <4>1. n + 1 \in 1..n + 1  BY <1>3
      <4> QED BY <2>2, <2>3, <3>1, <4>1
    <3>2. CASE d # id
      <4>1. T(d) > 0  BY <1>4, <2>9, <3>2
      <4> QED BY <1>3, <2>3, <2>5, <4>1
    <3> QED BY <3>1, <3>2
  <2>10. \A i \in 1..n + 1 : next[i].score > 0 /\ next[i].score = U(next[i].doc_id)
    BY <2>5, <2>6, <2>7
  <2> QED BY <2>3, <2>8, <2>9, <2>10
<1>9. ASSUME score # 0 /\ hit # {}
      PROVE  Good(next)
  <2>1. next = raised /\ DOMAIN raised = 1..n /\ Len(raised) = n
    <3>1. DOMAIN raised = 1..n  BY <1>3
    <3> HIDE DEF raised, hit, next, new
    <3>2. next = raised  BY <1>5, <1>9
    <3>3. raised = scores \/ Len(raised) = n  BY <1>3, <3>1
    <3> QED BY <3>1, <3>2, <3>3
  <2>2. ASSUME NEW i \in 1..n
        PROVE  /\ raised[i].doc_id = scores[i].doc_id
               /\ raised[i].score = scores[i].score + (IF scores[i].doc_id = id THEN score ELSE 0)
    <3>1. raised[i] = IF scores[i].doc_id = id THEN [scores[i] EXCEPT !.score = @ + score]
                      ELSE scores[i]
      BY <1>3
    <3>2. scores[i] \in Score /\ scores[i].score \in Nat  BY <1>3 DEF Score
    <3>3. /\ [scores[i] EXCEPT !.score = @ + score].doc_id = scores[i].doc_id
          /\ [scores[i] EXCEPT !.score = @ + score].score = scores[i].score + score
      BY <1>2, <3>2, ScoreMore
    <3> HIDE DEF raised
    <3> QED BY <3>1, <3>2, <3>3
  <2> HIDE DEF raised, hit, next
  <2>3. \A i \in 1..n : scores[i].score \in Nat  BY <1>3 DEF Score
  <2>4. \A i \in 1..n : next[i].score > 0 /\ next[i].score = U(next[i].doc_id)
    <3> TAKE i \in 1..n
    <3>1. /\ scores[i].score \in Nat /\ scores[i].score > 0
          /\ scores[i].score = T(scores[i].doc_id)
      BY <1>3, <2>3
    <3>2. /\ next[i].doc_id = scores[i].doc_id
          /\ next[i].score = scores[i].score + (IF scores[i].doc_id = id THEN score ELSE 0)
      BY <2>1, <2>2
    <3>3. U(scores[i].doc_id)
              = T(scores[i].doc_id) + (IF id = scores[i].doc_id THEN score ELSE 0)
      BY <1>4
    <3> QED BY <1>2, <3>1, <3>2, <3>3
  <2>5. \A i, j \in 1..n : next[i].doc_id = next[j].doc_id => i = j
    BY <1>3, <2>1, <2>2
  <2>6. ASSUME NEW d, U(d) > 0
        PROVE  \E i \in 1..n : next[i].doc_id = d
    <3>1. \E i \in 1..n : scores[i].doc_id = d
      <4>1. CASE d = id
        BY <1>3, <1>9, <4>1 DEF hit
      <4>2. CASE d # id
        BY <1>3, <1>4, <2>6, <4>2
      <4> QED BY <4>1, <4>2
    <3> QED BY <2>1, <2>2, <3>1
  <2> QED BY <2>1, <2>4, <2>5, <2>6
<1>10. Good(next)
  <2> HIDE DEF Good
  <2> QED BY <1>7, <1>8, <1>9
<1> HIDE DEF next
<1>11. Tallied(next, mentioned, k + 1)  BY <1>6, <1>10 DEF Tallied, U
<1> QED BY <1>11 DEF next, posting

(* The scores are how often the documents are mentioned. *)
LEMMA TallyIs ==
    ASSUME NEW mentioned \in Seq(Posting)
    PROVE  Tallied(FoldLeft(AddScore, << >>, mentioned), mentioned, Len(mentioned))
<1> DEFINE n == Len(mentioned)
<1>1. n \in Nat  OBVIOUS
<1>2. PICK t : ScoreSteps(t, mentioned, n) /\ FoldLeft(AddScore, << >>, mentioned) = t[n]
  BY <1>1, ScoreTable
<1> DEFINE good == {k \in 0..n : Tallied(t[k], mentioned, k)}
<1>3. 0 \in good
  <2>1. t[0] = << >> /\ 0 \in 0..n  BY <1>1, <1>2 DEF ScoreSteps
  <2>2. \A d : ~ (Total(mentioned, d, 0) > 0)  BY TotalIs
  <2>3. << >> \in Seq(Score) /\ Len(<< >>) = 0  OBVIOUS
  <2>4. Tallied(<< >>, mentioned, 0)  BY <2>2, <2>3 DEF Tallied
  <2> QED BY <2>1, <2>4
<1>4. ASSUME NEW k \in 0..n - 1, k \in good
      PROVE  k + 1 \in good
  <2>1. k + 1 \in 1..n /\ k + 1 \in 0..n /\ (k + 1) - 1 = k  BY <1>1
  <2> DEFINE j == k + 1
  <2>2. t[j] = AddScore(t[k], mentioned[j])
    <3>1. j \in 1..n /\ j - 1 = k  BY <2>1
    <3> HIDE DEF j
    <3> QED BY <1>2, <3>1 DEF ScoreSteps
  <2>3. Tallied(t[k], mentioned, k)  BY <1>4
  <2>4. Tallied(AddScore(t[k], mentioned[k + 1]), mentioned, k + 1)
    BY <2>3, TallyOne
  <2>5. Tallied(t[j], mentioned, j)  BY <2>2, <2>4
  <2> QED BY <2>1, <2>5
<1>5. 0..n \subseteq good
  <2> HIDE DEF good
  <2> QED BY <1>1, <1>3, <1>4, Induction
<1>6. n \in good  BY <1>1, <1>5
<1> QED BY <1>2, <1>6

-----------------------------------------------------------------------------
(* Scores in their order. *)

(* The order of the scores. *)
LEMMA RanksOrder ==
    ASSUME NEW a \in Score, NEW b \in Score
    PROVE  /\ ~ Ranks(a, a) /\ ~ (Ranks(a, b) /\ Ranks(b, a))
           /\ a.doc_id # b.doc_id => Ranks(a, b) \/ Ranks(b, a)
           /\ \A c \in Score : Ranks(a, b) /\ Ranks(b, c) => Ranks(a, c)
<1>1. \A c \in Score : c.doc_id \in Nat /\ c.score \in Nat
  BY WordIs DEF Score
<1> QED BY <1>1 DEF Ranks

(* Who is outranked is further back. *)
LEMMA PlaceGrows ==
    ASSUME NEW all, NEW n, AreScores(all, n), NEW a \in all
    PROVE  /\ Place(all, a) \in 0..n - 1
           /\ \A b \in all : Ranks(a, b) => Place(all, a) < Place(all, b)
<1>1. all \subseteq Score /\ IsFiniteSet(all) /\ Cardinality(all) = n /\ n \in Nat
  BY DEF AreScores
<1>2. ASSUME NEW s \in all
      PROVE  IsFiniteSet(InFront(all, s)) /\ Place(all, s) \in Nat
  <2>1. InFront(all, s) \in SUBSET all  BY DEF InFront
  <2>2. IsFiniteSet(InFront(all, s))  BY <1>1, <2>1, FS_Subset
  <2> QED BY <2>2, FS_CardinalityType DEF Place
<1>3. a \notin InFront(all, a)  BY <1>1, RanksOrder DEF InFront
<1>4. Cardinality(InFront(all, a) \cup {a}) = Place(all, a) + 1
  BY <1>2, <1>3, FS_AddElement DEF Place
<1>5. Place(all, a) \in 0..n - 1
  <2>1. InFront(all, a) \cup {a} \in SUBSET all  BY DEF InFront
  <2>2. Cardinality(InFront(all, a) \cup {a}) <= n  BY <1>1, <2>1, FS_Subset
  <2> QED BY <1>1, <1>2, <1>4, <2>2
<1>6. ASSUME NEW b \in all, Ranks(a, b)
      PROVE  Place(all, a) < Place(all, b)
  <2>1. InFront(all, a) \cup {a} \in SUBSET InFront(all, b)
    <3>1. \A c \in all : Ranks(c, a) => Ranks(c, b)  BY <1>1, <1>6, RanksOrder
    <3> QED BY <1>6, <3>1 DEF InFront
  <2>2. IsFiniteSet(InFront(all, b))  BY <1>2
  <2>3. Cardinality(InFront(all, a) \cup {a}) <= Cardinality(InFront(all, b))
    BY <2>1, <2>2, FS_Subset
  <2> QED BY <1>2, <1>4, <2>3 DEF Place
<1> QED BY <1>5, <1>6

(* Every place has its score. *)
LEMMA PlacesAre ==
    ASSUME NEW all, NEW n, AreScores(all, n)
    PROVE  /\ \A a, b \in all : Place(all, a) = Place(all, b) => a = b
           /\ \A a, b \in all : Place(all, a) < Place(all, b) => Ranks(a, b)
           /\ \A i \in 1..n : \E a \in all : Place(all, a) = i - 1
<1>1. /\ all \subseteq Score /\ IsFiniteSet(all) /\ Cardinality(all) = n /\ n \in Nat
      /\ \A a, b \in all : a.doc_id = b.doc_id => a = b
  BY DEF AreScores
<1>2. \A a \in all : Place(all, a) \in 0..n - 1  BY PlaceGrows
<1>3. \A a, b \in all : a = b \/ Ranks(a, b) \/ Ranks(b, a)
  BY <1>1, RanksOrder
<1>4. \A a, b \in all : Ranks(a, b) => Place(all, a) < Place(all, b)
  BY PlaceGrows
<1>5. ASSUME NEW a \in all, NEW b \in all, Place(all, a) = Place(all, b)
      PROVE  a = b
  BY <1>1, <1>2, <1>3, <1>4, <1>5
<1>6. ASSUME NEW a \in all, NEW b \in all, Place(all, a) < Place(all, b)
      PROVE  Ranks(a, b)
  BY <1>1, <1>2, <1>3, <1>4, <1>6
<1> DEFINE S == 0..n - 1
           f == [a \in all |-> Place(all, a)]
<1>7. f \in Injection(all, S)  BY <1>2, <1>5 DEF Injection, IsInjective
<1>8. IsFiniteSet(S) /\ Cardinality(S) = n
  <2>1. 0 \in Int /\ n - 1 \in Int  BY <1>1
  <2>2. IsFiniteSet(0..n - 1) /\ Cardinality(0..n - 1) = IF 0 > n - 1 THEN 0 ELSE n - 1 - 0 + 1
    BY <2>1, FS_Interval, Zenon
  <2> QED BY <1>1, <2>2
<1> HIDE DEF f
<1>9. f \in Surjection(all, S)
  <2> HIDE DEF S
  <2> QED BY <1>1, <1>7, <1>8, FS_Injection
<1>10. ASSUME NEW i \in 1..n
       PROVE  \E a \in all : Place(all, a) = i - 1
  <2>1. i - 1 \in S  BY <1>1
  <2>2. \E a \in all : f[a] = i - 1  BY <1>9, <2>1 DEF Surjection
  <2> QED BY <2>2 DEF f
<1> QED BY <1>5, <1>6, <1>10

(* Ranked puts the scores in their order. *)
LEMMA RankedIs ==
    ASSUME NEW scores \in Seq(Score),
           \A i, j \in 1..Len(scores) : scores[i].doc_id = scores[j].doc_id => i = j
    PROVE  InOrder(Ranked(scores), scores)
<1> DEFINE n == Len(scores)
           all == Range(scores)
           r == Ranked(scores)
<1>1. /\ n \in Nat /\ DOMAIN scores = 1..n /\ \A i \in 1..n : scores[i] \in Score
      /\ scores \in [1..n -> Score]
  OBVIOUS
<1>2. all = {scores[i] : i \in 1..n}  BY <1>1 DEF Range
<1>3. r = [i \in 1..n |-> CHOOSE s \in all : Place(all, s) = i - 1]
  BY <1>1 DEF Ranked, Place, InFront
<1> HIDE DEF n, all, r
<1>4. AreScores(all, n)
  <2>1. ExistsBijection(1..n, all)
    <3> DEFINE f == [i \in 1..n |-> scores[i]]
    <3>1. f \in [1..n -> all]  BY <1>2
    <3>2. \A i, j \in 1..n : f[i] = f[j] => i = j  BY DEF n
    <3>3. \A e \in all : \E i \in 1..n : f[i] = e  BY <1>2
    <3> HIDE DEF f
    <3>4. f \in Bijection(1..n, all)
      BY <3>1, <3>2, <3>3 DEF Bijection, Injection, Surjection, IsInjective
    <3> QED BY <3>4 DEF ExistsBijection
  <2>2. IsFiniteSet(all)  BY <1>1, <2>1, FS_NatBijection
  <2>3. Cardinality(all) = n  BY <1>1, <2>1, FS_CountingElements
  <2>4. all \subseteq Score  BY <1>1, <1>2
  <2>5. \A a, b \in all : a.doc_id = b.doc_id => a = b  BY <1>2 DEF n
  <2> QED BY <1>1, <2>2, <2>3, <2>4, <2>5 DEF AreScores
<1>5. /\ \A a, b \in all : Place(all, a) = Place(all, b) => a = b
      /\ \A a, b \in all : Place(all, a) < Place(all, b) => Ranks(a, b)
      /\ \A i \in 1..n : \E a \in all : Place(all, a) = i - 1
  BY <1>4, PlacesAre
<1>6. \A a \in all : Place(all, a) \in 0..n - 1  BY <1>4, PlaceGrows
<1>7. \A i \in 1..n : r[i] \in all /\ Place(all, r[i]) = i - 1  BY <1>3, <1>5
<1>8. r \in [1..n -> all]  BY <1>3, <1>7
<1>9. ASSUME NEW e \in all
      PROVE  \E i \in 1..n : r[i] = e
  <2> DEFINE i == Place(all, e) + 1
  <2>1. i \in 1..n /\ i - 1 = Place(all, e)  BY <1>1, <1>6
  <2> HIDE DEF i
  <2>2. r[i] \in all /\ Place(all, r[i]) = Place(all, e)  BY <1>7, <2>1
  <2> QED BY <1>5, <2>1, <2>2
<1>10. ASSUME NEW i \in 1..n, NEW j \in 1..n, i < j
       PROVE  Ranks(r[i], r[j])
  <2>1. Place(all, r[i]) < Place(all, r[j])  BY <1>1, <1>7, <1>10
  <2> QED BY <1>5, <1>7, <2>1
<1> QED BY <1>8, <1>9, <1>10 DEF InOrder, n, all, r

LEMMA NoMention ==
    ASSUME NEW mentioned \in Seq(Posting), NEW d,
           \A i \in 1..Len(mentioned) : mentioned[i].doc_id # d
    PROVE  Total(mentioned, d, Len(mentioned)) = 0
<1> DEFINE n == Len(mentioned)
           T(k) == Total(mentioned, d, k)
           none == {k \in 0..n : T(k) = 0}
<1>1. n \in Nat  OBVIOUS
<1>2. T(0) = 0 /\ \A k \in 0..n - 1 : T(k + 1) = T(k)
        + (IF mentioned[k + 1].doc_id = d THEN Len(mentioned[k + 1].positions) ELSE 0)
  BY TotalIs
<1> HIDE DEF T
<1>3. 0 \in none  BY <1>1, <1>2
<1>4. ASSUME NEW k \in 0..n - 1, k \in none
      PROVE  k + 1 \in none
  <2>1. k + 1 \in 1..n /\ k + 1 \in 0..n /\ T(k) = 0  BY <1>1, <1>4
  <2>2. mentioned[k + 1].doc_id # d  BY <2>1
  <2>3. T(k + 1) = 0  BY <1>2, <2>1, <2>2
  <2> QED BY <2>1, <2>3
<1>5. 0..n \subseteq none
  <2> HIDE DEF none
  <2> QED BY <1>1, <1>3, <1>4, Induction
<1>6. n \in none  BY <1>1, <1>5
<1> QED BY <1>6 DEF T

LEMMA FrontIs ==
    ASSUME NEW X, NEW r \in Seq(X), NEW l \in Nat, l <= Len(r)
    PROVE  /\ Len(SubSeq(r, 1, l)) = l /\ DOMAIN SubSeq(r, 1, l) = 1..l
           /\ \A i \in 1..l : SubSeq(r, 1, l)[i] = r[i]
OBVIOUS

(* The first k of the ranked scores are the best. *)
LEMMA BestAre ==
    ASSUME NEW mentioned \in Seq(Posting), NEW k \in Nat, NEW docs,
           \A i \in 1..Len(mentioned) : mentioned[i].doc_id \in docs,
           NEW scores, scores = FoldLeft(AddScore, << >>, mentioned),
           NEW hits, hits = SubSeq(Ranked(scores), 1, Min({k, Len(scores)})),
           NEW ranked, ranked = {d \in docs : Mentions(mentioned, d) > 0}
    PROVE  AreBest(hits, mentioned, ranked, k)
<1> DEFINE n == Len(mentioned)
           m == Len(scores)
           r == Ranked(scores)
           l == Min({k, m})
           M(d) == Mentions(mentioned, d)
<1>1. /\ scores \in Seq(Score)
      /\ \A i \in 1..m : scores[i].score > 0 /\ scores[i].score = M(scores[i].doc_id)
      /\ \A i, j \in 1..m : scores[i].doc_id = scores[j].doc_id => i = j
      /\ \A d : M(d) > 0 => \E i \in 1..m : scores[i].doc_id = d
  <2>1. Tallied(scores, mentioned, n)  BY TallyIs
  <2> QED BY <2>1 DEF Tallied, Mentions
<1>2. m \in Nat /\ DOMAIN scores = 1..m /\ \A i \in 1..m : scores[i] \in Score
  BY <1>1
<1>3. InOrder(r, scores)  BY <1>1, RankedIs
<1>4. hits = SubSeq(r, 1, l)  OBVIOUS
<1> HIDE DEF m, r, M
<1>5. /\ r \in [1..m -> Range(scores)]
      /\ \A e \in Range(scores) : \E i \in 1..m : r[i] = e
      /\ \A i, j \in 1..m : i < j => Ranks(r[i], r[j])
  BY <1>3 DEF InOrder, m
<1>6. Range(scores) = {scores[i] : i \in 1..m}  BY <1>2 DEF Range
<1>7. l \in Nat /\ l <= m /\ l \in 0..m
  <2>1. {k, m} \in SUBSET Nat /\ {k, m} # {}  BY <1>2
  <2>2. Min({k, m}) \in {k, m} /\ \A y \in {k, m} : Min({k, m}) <= y
    BY <2>1, MinIn
  <2> QED BY <1>2, <2>2
<1> HIDE DEF l
<1>8. Len(hits) = l /\ DOMAIN hits = 1..l /\ \A i \in 1..l : hits[i] = r[i]
  <2> DEFINE X == Range(scores)
  <2>1. r \in Seq(X) /\ Len(r) = m  BY <1>2, <1>5
  <2>2. l \in Nat /\ l <= Len(r)  BY <1>7, <2>1
  <2> HIDE DEF X
  <2>3. /\ Len(SubSeq(r, 1, l)) = l /\ DOMAIN SubSeq(r, 1, l) = 1..l
        /\ \A i \in 1..l : SubSeq(r, 1, l)[i] = r[i]
    BY ONLY <2>1, <2>2, FrontIs
  <2> QED BY ONLY <1>4, <2>3
<1>9. Cardinality(ranked) = m
  <2> DEFINE f == [i \in 1..m |-> scores[i].doc_id]
  <2>1. f \in [1..m -> ranked]
    <3> SUFFICES ASSUME NEW i \in 1..m
                 PROVE  scores[i].doc_id \in ranked
      OBVIOUS
    <3>1. M(scores[i].doc_id) > 0  BY <1>1
    <3>2. scores[i].doc_id \in docs
      <4> SUFFICES ASSUME scores[i].doc_id \notin docs
                   PROVE  FALSE
        OBVIOUS
      <4> DEFINE d == scores[i].doc_id
      <4>1. \A j \in 1..Len(mentioned) : mentioned[j].doc_id # d  OBVIOUS
      <4> HIDE DEF d
      <4>2. M(d) = 0  BY <4>1, NoMention DEF M, Mentions
      <4> QED BY <3>1, <4>2 DEF d
    <3> QED BY <3>1, <3>2 DEF M
  <2>2. \A i, j \in 1..m : f[i] = f[j] => i = j  BY <1>1
  <2>3. \A d \in ranked : \E i \in 1..m : f[i] = d  BY <1>1 DEF M
  <2> HIDE DEF f
  <2>4. f \in Bijection(1..m, ranked)
    BY <2>1, <2>2, <2>3 DEF Bijection, Injection, Surjection, IsInjective
  <2>5. ExistsBijection(1..m, ranked)  BY <2>4 DEF ExistsBijection
  <2> QED BY <1>2, <2>5, FS_CountingElements
<1>10. ASSUME NEW i \in DOMAIN hits
       PROVE  hits[i].score = M(hits[i].doc_id)
  <2>1. i \in 1..l /\ hits[i] = r[i]  BY ONLY <1>8, i \in DOMAIN hits
  <2>2. i \in 1..m  BY ONLY <1>2, <1>7, <2>1
  <2>3. r[i] \in Range(scores)  BY ONLY <1>5, <2>2
  <2>4. PICK x \in 1..m : r[i] = scores[x]  BY ONLY <1>6, <2>3
  <2>5. scores[x].score = M(scores[x].doc_id)  BY ONLY <1>1, <2>4
  <2> QED BY ONLY <2>1, <2>4, <2>5
<1>11. ASSUME NEW i \in DOMAIN hits, NEW d \in ranked
       PROVE  \/ \E j \in 1..i : hits[j].doc_id = d
              \/ Ranks(hits[i], [doc_id |-> d, score |-> M(d)])
  <2>0. i \in 1..l /\ hits[i] = r[i]  BY ONLY <1>8, i \in DOMAIN hits
  <2>1. i \in 1..m /\ i \in 1..l /\ hits[i] = r[i]  BY ONLY <1>2, <1>7, <2>0
  <2>2. M(d) > 0  BY DEF M
  <2>3. PICK x \in 1..m : scores[x].doc_id = d  BY <1>1, <2>2
  <2>4. scores[x] = [doc_id |-> d, score |-> M(d)]
    <3>1. scores[x] \in Score /\ scores[x].score = M(d)  BY <1>1, <1>2, <2>3
    <3> QED BY <2>3, <3>1 DEF Score
  <2>5. PICK j \in 1..m : r[j] = scores[x]  BY <1>5, <1>6
  <2>6. CASE j <= i
    <3>1. j \in 1..i /\ j \in 1..l  BY <1>2, <1>7, <2>1, <2>6
    <3>2. hits[j].doc_id = d  BY <1>8, <2>3, <2>5, <3>1
    <3> QED BY <3>1, <3>2
  <2>7. CASE ~ (j <= i)
    <3>1. i < j  BY <1>2, <2>1, <2>7
    <3>2. Ranks(r[i], r[j])  BY <1>5, <2>1, <3>1
    <3> QED BY <2>1, <2>4, <2>5, <3>2
  <2> QED BY <2>6, <2>7
<1> QED BY <1>8, <1>9, <1>10, <1>11 DEF AreBest, M, l, m

(* top_k_by_term_frequency, of two terms. *)
LEMMA TopIs ==
    ASSUME ErrIsApart, NEW dictionary, NEW s, NEW t, NEW p, NEW q,
           LookupTerm(dictionary, s) = p, LookupTerm(dictionary, t) = q,
           PostingsOk(p), PostingsOk(q), NEW k \in Nat, k > 0,
           NEW docs, DocsOf(p) \subseteq docs, DocsOf(q) \subseteq docs
    PROVE  /\ p \o q \in Seq(Posting)
           /\ AreBest(TopK(dictionary, <<s, t>>, k), p \o q,
                      {d \in docs : Mentions(p \o q, d) > 0}, k)
<1> DEFINE terms == <<s, t>>
           lists == [x \in DOMAIN terms |-> LookupTerm(dictionary, terms[x])]
           mentioned == p \o q
           X == Posting
<1>1. /\ p \in Seq(X) /\ q \in Seq(X)
      /\ (\A i \in 1..Len(p) : p[i].doc_id \in docs)
      /\ (\A i \in 1..Len(q) : q[i].doc_id \in docs)
  BY PostingsRange DEF PostingsOk
<1> HIDE DEF X
<1>2. lists = <<p, q>>
  <2>1. DOMAIN terms = 1..2 /\ terms[1] = s /\ terms[2] = t  OBVIOUS
  <2>2. DOMAIN lists = 1..2 /\ lists[1] = p /\ lists[2] = q
    <3>1. 1 \in 1..2 /\ 2 \in 1..2  OBVIOUS
    <3> HIDE DEF terms
    <3> QED BY <2>1, <3>1
  <2>3. lists = [x \in 1..2 |-> lists[x]]  BY <2>1
  <2> HIDE DEF lists
  <2>4. \A x \in 1..2 : x = 1 \/ x = 2  OBVIOUS
  <2>5. \A x \in 1..2 : lists[x] = <<p, q>>[x]  BY <2>2, <2>4
  <2>6. <<p, q>> = [x \in 1..2 |-> <<p, q>>[x]]  OBVIOUS
  <2> QED BY <2>3, <2>5, <2>6
<1>3. FlattenSeq(<<p, q>>) = mentioned
  <2> DEFINE Y == Seq(X)
  <2>1. p \in Y /\ q \in Y /\ << >> \in Seq(Y)  BY <1>1
  <2>2. << >> \o p = p  BY <1>1, NoElements
  <2>3. Append(<< >>, p) \in Seq(Y) /\ <<p, q>> = Append(Append(<< >>, p), q)
    <3> HIDE DEF Y
    <3> QED BY <2>1
  <2>4. FlattenSeq(Append(<< >>, p)) = p  BY <2>1, <2>2, FlattenUnfolds
  <2>5. FlattenSeq(Append(Append(<< >>, p), q)) = FlattenSeq(Append(<< >>, p)) \o q
    BY <2>1, <2>3, FlattenUnfolds
  <2> QED BY <2>3, <2>4, <2>5
<1>4. mentioned \in Seq(X) /\ Len(mentioned) = Len(p) + Len(q)  BY <1>1
<1>5. ASSUME NEW i \in 1..Len(mentioned)
      PROVE  mentioned[i].doc_id \in docs
  <2>1. Len(p) \in Nat /\ Len(q) \in Nat  BY <1>1
  <2>2. CASE i <= Len(p)
    <3>1. i \in 1..Len(p) /\ mentioned[i] = p[i]  BY <1>1, <1>4, <2>1, <2>2
    <3> QED BY <1>1, <3>1
  <2>3. CASE ~ (i <= Len(p))
    <3>1. i - Len(p) \in 1..Len(q) /\ mentioned[i] = q[i - Len(p)]
      BY <1>1, <1>4, <2>1, <2>3
    <3> QED BY <1>1, <3>1
  <2> QED BY <2>2, <2>3
<1> DEFINE scores == FoldLeft(AddScore, << >>, mentioned)
           hits == SubSeq(Ranked(scores), 1, Min({k, Len(scores)}))
           ranked == {d \in docs : Mentions(mentioned, d) > 0}
<1>6. TopK(dictionary, <<s, t>>, k) = hits
  <2>1. FlattenSeq(lists) = mentioned  BY <1>2, <1>3
  <2>2. Err \notin Range(lists)
    <3>1. \A x \in 1..2 : <<p, q>>[x] # Err
      <4>1. \A x \in 1..2 : x = 1 \/ x = 2  OBVIOUS
      <4>2. p # Err /\ q # Err  BY <1>1, SequencesAreApart
      <4> QED BY <4>1, <4>2
    <3> QED BY <1>2, <3>1 DEF Range
  <2>3. k # 0 /\ terms # << >>  OBVIOUS
  <2> HIDE DEF mentioned
  <2> QED BY <2>1, <2>2, <2>3, Zenon DEF TopK, TryAll
<1> HIDE DEF mentioned, lists, terms
<1>7. AreBest(hits, mentioned, ranked, k)
  <2> HIDE DEF scores
  <2>1. scores = FoldLeft(AddScore, << >>, mentioned)  BY DEF scores
  <2>2. mentioned \in Seq(Posting)  BY <1>4 DEF X
  <2>3. hits = SubSeq(Ranked(scores), 1, Min({k, Len(scores)}))
        /\ ranked = {d \in docs : Mentions(mentioned, d) > 0}
    OBVIOUS
  <2> HIDE DEF hits, ranked
  <2> QED BY <1>5, <2>1, <2>2, <2>3, BestAre
<1> QED BY <1>4, <1>6, <1>7 DEF mentioned, X

LEMMA PairIs ==
    ASSUME NEW X, NEW a \in X, NEW b \in X
    PROVE  /\ << >> \in Seq(X) /\ <<a>> \in Seq(X)
           /\ Append(<< >>, a) = <<a>> /\ Append(<<a>>, b) = <<a, b>>
<1>1. << >> \in Seq(X) /\ Append(<< >>, a) = <<a>>  OBVIOUS
<1>2. <<a>> \in Seq(X)  BY <1>1
<1>3. Append(<<a>>, b) = <<a, b>>
  <2>1. << >> \in Seq(X) /\ a \in X /\ b \in X  BY <1>1
  <2>2. Append(<< >>, a) \in Seq(X) /\ <<a, b>> = Append(Append(<< >>, a), b)
    BY ONLY <2>1
  <2> QED BY ONLY <1>1, <2>2
<1> QED BY <1>1, <1>2, <1>3

(* The mentions in two lists, one behind the other. *)
LEMMA CountsJoin ==
    ASSUME NEW p \in Seq(Posting), NEW q \in Seq(Posting), NEW d
    PROVE  /\ p \o q \in Seq(Posting)
           /\ Counts(p \o q, d) = Counts(p, d) \o Counts(q, d)
<1> DEFINE X == Posting
           m == Len(p)
           n == Len(q)
           both == p \o q
           a == Counts(p, d)
           b == Counts(q, d)
           c == Counts(both, d)
           joined == a \o b
<1>1. p \in Seq(X) /\ q \in Seq(X)  OBVIOUS
<1>2. /\ both \in Seq(X) /\ Len(both) = m + n /\ m \in Nat /\ n \in Nat
      /\ (\A i \in 1..m : both[i] = p[i]) /\ (\A i \in 1..n : both[m + i] = q[i])
  <2> HIDE DEF X
  <2> QED BY <1>1
<1>3. /\ a \in Seq(Int) /\ Len(a) = m
      /\ \A i \in 1..m : a[i] = IF p[i].doc_id = d THEN Len(p[i].positions) ELSE 0
  BY CountsAre
<1>4. /\ b \in Seq(Int) /\ Len(b) = n
      /\ \A i \in 1..n : b[i] = IF q[i].doc_id = d THEN Len(q[i].positions) ELSE 0
  BY CountsAre
<1>5. /\ c \in Seq(Int) /\ Len(c) = m + n
      /\ \A i \in 1..m + n : c[i] = IF both[i].doc_id = d THEN Len(both[i].positions) ELSE 0
  <2>1. both \in Seq(Posting)  BY <1>2
  <2> HIDE DEF both, X
  <2>2. /\ c \in Seq(Int) /\ Len(c) = Len(both)
        /\ \A i \in 1..Len(both) : c[i] = IF both[i].doc_id = d THEN Len(both[i].positions) ELSE 0
    BY ONLY <2>1, CountsAre
  <2> HIDE DEF c
  <2> QED BY ONLY <1>2, <2>2
<1> HIDE DEF a, b, c, both, m, n
<1>6. /\ joined \in Seq(Int) /\ Len(joined) = m + n
      /\ (\A i \in 1..m : joined[i] = a[i]) /\ (\A i \in 1..n : joined[m + i] = b[i])
  <2> DEFINE Y == Int
  <2>1. a \in Seq(Y) /\ b \in Seq(Y)  BY <1>3, <1>4
  <2> HIDE DEF Y
  <2>2. /\ a \o b \in Seq(Y) /\ Len(a \o b) = Len(a) + Len(b)
        /\ \A i \in 1..Len(a) : (a \o b)[i] = a[i]
        /\ \A i \in 1..Len(b) : (a \o b)[Len(a) + i] = b[i]
    BY ONLY <2>1, JoinedAt
  <2>3. /\ joined \in Seq(Y) /\ Len(joined) = Len(a) + Len(b)
        /\ \A i \in 1..Len(a) : joined[i] = a[i]
        /\ \A i \in 1..Len(b) : joined[Len(a) + i] = b[i]
    BY ONLY <2>2
  <2> HIDE DEF joined
  <2>4. Len(a) = m /\ Len(b) = n  BY <1>3, <1>4
  <2>5. joined \in Seq(Int)  BY <2>3 DEF Y
  <2> QED BY ONLY <2>3, <2>4, <2>5
<1>7. ASSUME NEW i \in 1..m + n
      PROVE  c[i] = joined[i]
  <2>1. c[i] = IF both[i].doc_id = d THEN Len(both[i].positions) ELSE 0
    BY <1>5
  <2>2. CASE i <= m
    <3>1. i \in 1..m  BY <1>2, <2>2
    <3>2. both[i] = p[i] /\ joined[i] = a[i]  BY <1>2, <1>6, <3>1
    <3> QED BY <1>3, <2>1, <3>1, <3>2
  <2>3. CASE ~ (i <= m)
    <3> DEFINE j == i - m
    <3>1. j \in 1..n /\ m + j = i  BY <1>2, <2>3
    <3> HIDE DEF j
    <3>2. both[i] = q[j] /\ joined[i] = b[j]  BY <1>2, <1>6, <3>1
    <3> QED BY <1>4, <2>1, <3>1, <3>2
  <2> QED BY <2>2, <2>3
<1> HIDE DEF joined
<1>8. c = joined
  <2>1. DOMAIN c = 1..m + n /\ DOMAIN joined = 1..m + n  BY <1>5, <1>6
  <2>2. c = [i \in 1..m + n |-> c[i]] /\ joined = [i \in 1..m + n |-> joined[i]]
    BY <1>5, <1>6, <2>1
  <2> QED BY <1>7, <2>2
<1> QED BY <1>2, <1>8 DEF a, b, c, both, joined, X

(* The score of a document for two terms is how often both mention it. *)
LEMMA PairScore ==
    ASSUME NEW p \in Seq(Posting), NEW q \in Seq(Posting), NEW d
    PROVE  SumOf(<<SumOf(Counts(p, d)), SumOf(Counts(q, d))>>) = Mentions(p \o q, d)
<1> DEFINE a == SumOf(Counts(p, d))
           b == SumOf(Counts(q, d))
<1>1. Counts(p, d) \in Seq(Int) /\ Counts(q, d) \in Seq(Int)  BY CountsAre
<1>2. a \in Int /\ b \in Int  BY <1>1, SumUnfolds
<1>3. p \o q \in Seq(Posting) /\ Counts(p \o q, d) = Counts(p, d) \o Counts(q, d)
  BY CountsJoin
<1>4. SumOf(Counts(p \o q, d)) = a + b  BY <1>1, <1>3, SumJoins
<1>5. Mentions(p \o q, d) = SumOf(Counts(p \o q, d))
  BY <1>3, TotalIs DEF Mentions
<1> HIDE DEF a, b
<1>6. /\ << >> \in Seq(Int) /\ <<a>> \in Seq(Int)
      /\ Append(<< >>, a) = <<a>> /\ Append(<<a>>, b) = <<a, b>>
  BY <1>2, PairIs
<1>7. SumOf(<<a>>) = 0 + a  BY <1>2, <1>6, SumUnfolds
<1>8. SumOf(<<a, b>>) = SumOf(<<a>>) + b  BY <1>2, <1>6, SumUnfolds
<1>9. SumOf(<<a, b>>) = Mentions(p \o q, d)  BY <1>2, <1>4, <1>5, <1>7, <1>8
<1> QED BY <1>9 DEF a, b

(* The document behind the last one. *)
LEMMA BehindIs ==
    ASSUME NEW docs \in SUBSET Word
    PROVE  (IF docs = {} THEN 0 ELSE Max(docs) + 1) \in Nat
<1>1. PICK n \in Nat : Word = 0..n
  <2> DEFINE M == 2^WordBits - 1
  <2>1. M \in Nat /\ Word = 0..M  BY WordIs DEF Word
  <2> HIDE DEF M
  <2> QED BY <2>1
<1>2. CASE docs # {}
  <2>1. Max(docs) \in docs  BY <1>1, <1>2, MaxFromZero
  <2>2. Max(docs) \in Nat  BY <2>1, WordIs
  <2> QED BY <2>2
<1> QED BY <1>2

-----------------------------------------------------------------------------
(* The index, in a behaviour. *)

(* Every answer of an index is right. *)
LEMMA AnswersComeBack ==
    ASSUME ErrIsApart, NEW entries, EntriesOk(entries), NEW step \in Nat, step > 0,
           Len(entries) <= MaxCollectionEntries
    PROVE  AnswersAreRight(entries, step)
<1> DEFINE dictionary == EncodeTerms(entries, step)
           terms      == {e.term : e \in Range(entries)}
           docs       == UNION {DocsOf(e.postings) : e \in Range(entries)}
           P(t)       == PostingsOf(entries, t)
           readable   == {t \in terms \cup {0} : IsReadable(P(t))}
           score(d, ts) == SumOf([i \in DOMAIN ts |->
                            SumOf([j \in DOMAIN P(ts[i]) |->
                                IF P(ts[i])[j].doc_id = d THEN Len(P(ts[i])[j].positions)
                                ELSE 0])])
           behind     == IF docs = {} THEN 0 ELSE Max(docs) + 1
           Looked(t) ==
               /\ LookupTerm(dictionary, t) = IF t \in readable THEN P(t) ELSE Err
               /\ HasFewPositions(P(t)) => \A d \in 0..behind :
                      /\ SeekTermDoc(dictionary, t, d) =
                             (IF PostingOf(P(t), d) = {} THEN NotFound
                              ELSE CHOOSE p \in PostingOf(P(t), d) : TRUE)
                      /\ TermContainsDoc(dictionary, t, d) <=> d \in DocsOf(P(t))
           Asked(s, t, both, hits, ranked) ==
               /\ IsIncreasing(both)
               /\ Range(both) = DocsOf(P(s)) \cap DocsOf(P(t))
               /\ Len(hits) = Min({2, Cardinality(ranked)})
               /\ \A i \in DOMAIN hits : hits[i].score = score(hits[i].doc_id, <<s, t>>)
               /\ \A i \in DOMAIN hits, d \in ranked :
                      \/ \E j \in 1..i : hits[j].doc_id = d
                      \/ Ranks(hits[i], [doc_id |-> d, score |-> score(d, <<s, t>>)])
               /\ \A d \in docs : HasAdjacentPhrase(dictionary, s, t, d) <=>
                      \E p \in PostingOf(P(s), d), q \in PostingOf(P(t), d) :
                          \E i \in DOMAIN p.positions, j \in DOMAIN q.positions :
                              p.positions[i] + 1 = q.positions[j]
<1>1. (/\ \A t \in terms \cup {0} : Looked(t)
       /\ \A s, t \in readable :
              Asked(s, t, AndDocIds(dictionary, <<s, t>>), TopK(dictionary, <<s, t>>, 2),
                    {d \in docs : score(d, <<s, t>>) > 0}))
      => AnswersAreRight(entries, step)
  BY Zenon DEF AnswersAreRight
<1>2. \A s, t, d : score(d, <<s, t>>) = SumOf(<<SumOf(Counts(P(s), d)), SumOf(Counts(P(t), d))>>)
  <2> TAKE s, t, d
  <2> DEFINE ts == <<s, t>>
             G(x) == SumOf(Counts(P(x), d))
             sums == [i \in DOMAIN ts |-> G(ts[i])]
  <2>1. score(d, ts) = SumOf(sums)  BY Zenon DEF Counts
  <2>2. DOMAIN ts = 1..2 /\ ts[1] = s /\ ts[2] = t  OBVIOUS
  <2> HIDE DEF ts, G
  <2>3. sums = [i \in 1..2 |-> sums[i]] /\ sums[1] = G(s) /\ sums[2] = G(t)
    <3>1. 1 \in 1..2 /\ 2 \in 1..2  OBVIOUS
    <3> QED BY <2>2, <3>1
  <2> HIDE DEF sums
  <2>4. \A x \in 1..2 : x = 1 \/ x = 2  OBVIOUS
  <2>5. \A x \in 1..2 : sums[x] = <<G(s), G(t)>>[x]  BY <2>3, <2>4
  <2>6. <<G(s), G(t)>> = [x \in 1..2 |-> <<G(s), G(t)>>[x]]  OBVIOUS
  <2>7. sums = <<G(s), G(t)>>  BY <2>3, <2>5, <2>6
  <2> QED BY ONLY <2>1, <2>7 DEF G, ts
<1> HIDE DEF score, dictionary, P, docs, behind
<1>3. ASSUME NEW t
      PROVE  /\ PostingsOk(P(t))
             /\ LookupTerm(dictionary, t) = IF IsReadable(P(t)) THEN P(t) ELSE Err
             /\ HasFewPositions(P(t)) =>
                    \A d \in Nat : IsSought(SeekTermDoc(dictionary, t, d), P(t), d)
  BY TermsBack DEF P, dictionary
<1>4. ASSUME NEW t
      PROVE  P(t) \in Seq(Posting) /\ DocsOf(P(t)) \subseteq docs
  <2>1. P(t) \in Seq(Posting)  BY <1>3 DEF PostingsOk
  <2> DEFINE found == {e \in Range(entries) : e.term = t}
  <2>2. P(t) = IF found = {} THEN << >> ELSE (CHOOSE e \in found : TRUE).postings
    BY DEF P, PostingsOf
  <2>3. CASE found = {}
    <3>1. P(t) = << >>  BY <2>2, <2>3
    <3>2. DocsOf(<< >>) = {}  BY DEF DocsOf, Range
    <3> QED BY <2>1, <3>1, <3>2
  <2>4. CASE found # {}
    <3> DEFINE e == CHOOSE e \in found : TRUE
    <3>1. e \in found  BY <2>4
    <3>2. P(t) = e.postings  BY <2>2, <2>4
    <3> HIDE DEF e
    <3>3. e \in Range(entries)  BY <3>1
    <3>4. DocsOf(e.postings) \subseteq docs  BY <3>3 DEF docs
    <3> QED BY <2>1, <3>2, <3>4
  <2> QED BY <2>3, <2>4
<1>5. docs \in SUBSET Word
  <2> SUFFICES ASSUME NEW d \in docs
               PROVE  d \in Word
    OBVIOUS
  <2>1. PICK e \in Range(entries) : d \in DocsOf(e.postings)  BY DEF docs
  <2>2. PostingsOk(e.postings)  BY EntriesAre DEF EntriesOk
  <2>3. PICK i \in 1..Len(e.postings) : d = e.postings[i].doc_id
    BY <2>1, <2>2, PostingsRange
  <2> QED BY <2>2, <2>3, PostingIs
<1>6. behind \in Nat  BY <1>5, BehindIs DEF behind
<1>7. \A s, t, d : score(d, <<s, t>>) = Mentions(P(s) \o P(t), d)
  <2> TAKE s, t, d
  <2>1. score(d, <<s, t>>) = SumOf(<<SumOf(Counts(P(s), d)), SumOf(Counts(P(t), d))>>)
    BY ONLY <1>2, Zenon
  <2>2. P(s) \in Seq(Posting) /\ P(t) \in Seq(Posting)  BY <1>4
  <2>3. SumOf(<<SumOf(Counts(P(s), d)), SumOf(Counts(P(t), d))>>) = Mentions(P(s) \o P(t), d)
    BY ONLY <2>2, PairScore, Zenon
  <2> QED BY ONLY <2>1, <2>3, Zenon
<1>8. ASSUME NEW t \in terms \cup {0}
      PROVE  Looked(t)
  <2> SUFFICES ASSUME HasFewPositions(P(t)), NEW d \in 0..behind
               PROVE  /\ SeekTermDoc(dictionary, t, d) =
                             (IF PostingOf(P(t), d) = {} THEN NotFound
                              ELSE CHOOSE p \in PostingOf(P(t), d) : TRUE)
                      /\ TermContainsDoc(dictionary, t, d) <=> d \in DocsOf(P(t))
    BY <1>3
  <2> DEFINE p == P(t)
             answer == SeekTermDoc(dictionary, t, d)
  <2>1. d \in Nat  BY <1>6
  <2>2. PostingsOk(p) /\ IsSought(answer, p, d)  BY <1>3, <2>1
  <2>3. TermContainsDoc(dictionary, t, d)
            = IF answer = Err THEN Err ELSE answer # NotFound
    BY Zenon DEF TermContainsDoc, Try
  <2> HIDE DEF p, answer
  <2>4. /\ answer = (IF PostingOf(p, d) = {} THEN NotFound
                     ELSE CHOOSE x \in PostingOf(p, d) : TRUE)
        /\ answer # Err /\ (answer # NotFound <=> d \in DocsOf(p))
    BY <2>1, <2>2, SeekAnswers
  <2> QED BY ONLY <2>3, <2>4 DEF p, answer
<1>9. ASSUME NEW s \in readable, NEW t \in readable
      PROVE  Asked(s, t, AndDocIds(dictionary, <<s, t>>), TopK(dictionary, <<s, t>>, 2),
                   {d \in docs : score(d, <<s, t>>) > 0})
  <2> DEFINE both == AndDocIds(dictionary, <<s, t>>)
             hits == TopK(dictionary, <<s, t>>, 2)
             p == P(s)
             q == P(t)
             M(d) == Mentions(p \o q, d)
             ranked == {d \in docs : score(d, <<s, t>>) > 0}
  <2>1. /\ LookupTerm(dictionary, s) = p /\ LookupTerm(dictionary, t) = q
        /\ PostingsOk(p) /\ PostingsOk(q) /\ p # Err /\ q # Err
        /\ DocsOf(p) \subseteq docs /\ DocsOf(q) \subseteq docs
    BY <1>3, <1>4, SequencesAreApart
  <2>2. \A d : score(d, <<s, t>>) = M(d)  BY <1>7
  <2>3. IsIncreasing(both) /\ Range(both) = DocsOf(p) \cap DocsOf(q)
    <3> HIDE DEF p, q
    <3> QED BY <2>1, AndIs
  <2>4. AreBest(hits, p \o q, {d \in docs : Mentions(p \o q, d) > 0}, 2)
    <3> HIDE DEF p, q
    <3>1. 2 \in Nat /\ 2 > 0  OBVIOUS
    <3> HIDE DEF readable
    <3> QED BY <2>1, <3>1, TopIs
  <2>5. ranked = {d \in docs : Mentions(p \o q, d) > 0}  BY <2>2
  <2>6. \A d \in docs : HasAdjacentPhrase(dictionary, s, t, d) <=>
                      \E a \in PostingOf(p, d), b \in PostingOf(q, d) :
                          \E i \in DOMAIN a.positions, j \in DOMAIN b.positions :
                              a.positions[i] + 1 = b.positions[j]
    <3> HIDE DEF p, q
    <3> QED BY <2>1, AdjacentIs
  <2> HIDE DEF both, hits, ranked
  <2>7. /\ Len(hits) = Min({2, Cardinality(ranked)})
        /\ \A i \in DOMAIN hits : hits[i].score = M(hits[i].doc_id)
        /\ \A i \in DOMAIN hits, d \in ranked :
              \/ \E j \in 1..i : hits[j].doc_id = d
              \/ Ranks(hits[i], [doc_id |-> d, score |-> M(d)])
    BY ONLY <2>4, <2>5 DEF AreBest
  <2> HIDE DEF M
  <2>8. /\ \A i \in DOMAIN hits : hits[i].score = score(hits[i].doc_id, <<s, t>>)
        /\ \A i \in DOMAIN hits, d \in ranked :
              \/ \E j \in 1..i : hits[j].doc_id = d
              \/ Ranks(hits[i], [doc_id |-> d, score |-> score(d, <<s, t>>)])
    BY ONLY <2>2, <2>7
  <2>9. Asked(s, t, both, hits, ranked)
    BY ONLY <2>3, <2>6, <2>7, <2>8, Zenon DEF Asked, p, q
  <2> QED BY ONLY <2>9 DEF both, hits, ranked
<1> QED BY ONLY <1>1, <1>8, <1>9

(* The search index answers what the postings say, up to the limits of its   *)
(* decoders, and is refused beyond them: SeeksAgree for every list of terms, *)
(* every posting list and every distance of the skip entries.                *)
THEOREM IndexesAnswer ==
    ASSUME ErrIsApart, IndexesAreTyped
    PROVE  Spec => []SeeksAgree
<1>1. Init => InputInv  BY InputInvInit
<1>2. InputInv /\ [Next]_vars => InputInv'  BY InputInvNext
<1>3. InputInv => SeeksAgree
  <2> SUFFICES ASSUME InputInv, subject = "index"
               PROVE  SeeksAgree
    BY DEF SeeksAgree
  <2> DEFINE entries == input.entries
             dictionary == EncodeTerms(entries, input.step)
  <2>1. EntriesOk(entries) /\ input.step \in Nat /\ input.step > 0
    BY DEF InputInv, IndexesAreTyped
  <2>2. CASE Len(entries) <= MaxCollectionEntries
    <3>1. AnswersAreRight(entries, input.step)  BY <2>1, <2>2, AnswersComeBack
    <3> QED BY <2>2, <3>1 DEF SeeksAgree
  <2>3. CASE ~ (Len(entries) <= MaxCollectionEntries)
    <3>1. Len(dictionary) = Len(entries) /\ Len(entries) \in Nat
      BY <2>1, EncodedTerms, EntriesAre
    <3>2. Len(dictionary) > MaxCollectionEntries  BY <2>3, <3>1, LimitsAssumption
    <3>3. \A x, d : LookupTerm(dictionary, x) = Err /\ SeekTermDoc(dictionary, x, d) = Err
      BY <3>2, Zenon DEF LookupTerm, SeekTermDoc
    <3> QED BY <2>3, <3>3, Zenon DEF SeeksAgree
  <2> QED BY <2>2, <2>3
<1> QED BY <1>1, <1>2, <1>3, PTL DEF Spec
=============================================================================
