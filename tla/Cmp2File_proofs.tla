--------------------------- MODULE Cmp2File_proofs ---------------------------
(***************************************************************************)
(* What the sequential writer and reader compute, step by step.  The cut of *)
(* an input into row groups and SequentialDecode are folds over sequences;  *)
(* here they are unfolded, into one element more at a time and into a table *)
(* of the reader's states, one per cell, so that the proofs about the       *)
(* parallel encoder and decoder and the asynchronous one can compare        *)
(* themselves with them.  Then what recovery keeps of a file, and that the  *)
(* reader of an unsealed stream gets through what it keeps.                 *)
(***************************************************************************)
EXTENDS Recovery, WellFoundedInduction, SequenceTheorems, TLAPS

-----------------------------------------------------------------------------
(* Induction over the numbers up to a bound, for a set of numbers. *)

LEMMA LeastNatural ==
    ASSUME NEW T, T \subseteq Nat, T # {}
    PROVE  \E n \in T : \A m \in T : n <= m
<1>1. PICK n \in T : \A m \in T : <<m, n>> \notin OpToRel(<, Nat)
  BY WFMin, NatLessThanWellFounded, Zenon
<1>2. \A m \in T : ~ (m < n)
  BY <1>1, Zenon DEF OpToRel
<1>3. \A m \in T : n <= m
  BY <1>2
<1> QED
  BY <1>3

LEMMA Induction ==
    ASSUME NEW N \in Nat, NEW T, 0 \in T, \A n \in 0..N - 1 : n \in T => n + 1 \in T
    PROVE  0..N \subseteq T
<1> DEFINE missing == (0..N) \ T
<1> SUFFICES ASSUME missing # {}
             PROVE  FALSE
  OBVIOUS
<1>0. missing \subseteq Nat
  OBVIOUS
<1>1. PICK n \in missing : \A m \in missing : n <= m
  <2> HIDE DEF missing
  <2> QED
    BY <1>0, LeastNatural
<1>2. n \in 0..N /\ n \notin T /\ n # 0
  BY <1>1
<1>3. n - 1 \in 0..N - 1 /\ n - 1 \in 0..N /\ ~ (n <= n - 1) /\ (n - 1) + 1 = n
  BY <1>2
<1>4. n - 1 \in T
  BY <1>1, <1>3
<1> QED
  BY <1>2, <1>3, <1>4

LEMMA MaxIs ==
    ASSUME NEW s \in SUBSET Nat, NEW m \in s, \A y \in s : y <= m
    PROVE  Max(s) = m
<1>1. \A y \in s : m >= y
  OBVIOUS
<1>2. \A x \in s : (\A y \in s : x >= y) => x = m
  OBVIOUS
<1> QED
  BY <1>1, <1>2 DEF Max

LEMMA MaxIn ==
    ASSUME NEW n \in Nat, NEW s \in SUBSET (1..n), s # {}
    PROVE  Max(s) \in s /\ \A y \in s : y <= Max(s)
<1> DEFINE T == {n - x : x \in s}
<1>1. T \subseteq Nat /\ T # {}
  <2>1. \A x \in s : x \in 1..n /\ n - x \in Nat
    OBVIOUS
  <2>2. PICK x : x \in s
    OBVIOUS
  <2> QED
    BY <2>1, <2>2
<1>2. PICK least \in T : \A y \in T : least <= y
  <2> HIDE DEF T
  <2> QED
    BY <1>1, LeastNatural
<1>3. PICK m \in s : least = n - m
  BY <1>2
<1>4. \A y \in s : y <= m
  <2> SUFFICES ASSUME NEW y \in s
               PROVE  y <= m
    OBVIOUS
  <2>1. n - y \in T /\ y \in Nat /\ m \in Nat
    BY <1>3
  <2>2. least <= n - y
    BY <1>2, <2>1
  <2> QED
    BY <1>3, <2>1, <2>2
<1>5. s \in SUBSET Nat
  OBVIOUS
<1> HIDE DEF T
<1> QED
  BY <1>4, <1>5, MaxIs

(* The sets a fold over a sequence goes through. *)
LEMMA PrefixSets ==
    ASSUME NEW n \in Nat, NEW k \in 1..n
    PROVE  /\ 1..k \in SUBSET (1..n) /\ 1..k # {}
           /\ Max(1..k) = k
           /\ (1..k) \ {k} = 1..k - 1
<1>1. k \in 1..k /\ (\A x \in 1..k : x \in 1..n) /\ 1..k \in SUBSET Nat
  OBVIOUS
<1>2. \A y \in 1..k : y <= k
  OBVIOUS
<1>3. \A x : x \in (1..k) \ {k} <=> x \in 1..k - 1
  OBVIOUS
<1>4. Max(1..k) = k
  BY <1>1, <1>2, MaxIs
<1> QED
  BY <1>1, <1>3, <1>4

-----------------------------------------------------------------------------
(* A fold is a table over the sets of positions, as MapThenFoldSet has it.  *)
(* With a step G[k][x] that stays in a set of states there is such a table. *)
Stays(S, n, G) == \A k \in 1..n : \A x \in S : G[k][x] \in S

Tabulates(f, S, base, n, G) ==
    /\ f \in [SUBSET (1..n) -> S]
    /\ \A s \in SUBSET (1..n) :
           f[s] = IF s = {} THEN base ELSE G[Max(s)][f[s \ {Max(s)}]]

LEMMA FoldTable ==
    ASSUME NEW S, NEW base \in S, NEW n \in Nat, NEW G, Stays(S, n, G)
    PROVE  \E f : Tabulates(f, S, base, n, G)
<1> USE DEF Stays, Tabulates
<1> DEFINE Solves(f, m) == Tabulates(f, S, base, m, G)
    solved == {m \in Nat : \E f : Solves(f, m)}
<1>1. 0 \in solved
  <2> DEFINE f == [s \in SUBSET (1..0) |-> base]
  <2>1. \A s \in SUBSET (1..0) : s = {}
    OBVIOUS
  <2>2. Solves(f, 0)
    BY <2>1
  <2> QED
    BY <2>2
<1>2. ASSUME NEW m \in 0..n - 1, m \in solved
      PROVE  m + 1 \in solved
  <2>1. PICK f : Solves(f, m)
    BY <1>2
  <2> DEFINE g == [s \in SUBSET (1..m + 1) |->
                       IF m + 1 \in s THEN G[m + 1][f[s \ {m + 1}]] ELSE f[s]]
  <2>2. ASSUME NEW s \in SUBSET (1..m)
        PROVE  s \in SUBSET (1..m + 1) /\ g[s] = f[s] /\ f[s] \in S
    <3>1. m + 1 \notin s /\ s \in SUBSET (1..m + 1)
      OBVIOUS
    <3> QED
      BY <2>1, <3>1
  <2>3. ASSUME NEW s \in SUBSET (1..m + 1), m + 1 \in s
        PROVE  /\ g[s] = G[m + 1][f[s \ {m + 1}]]
               /\ s \ {m + 1} \in SUBSET (1..m)
               /\ Max(s) = m + 1
               /\ g[s] \in S
    <3>1. g[s] = G[m + 1][f[s \ {m + 1}]]
      BY <2>3
    <3>2. s \ {m + 1} \in SUBSET (1..m)
      OBVIOUS
    <3>3. Max(s) = m + 1
      BY <2>3, MaxIs
    <3>4. f[s \ {m + 1}] \in S
      BY <2>2, <3>2
    <3>5. m + 1 \in 1..n
      OBVIOUS
    <3> HIDE DEF g, Solves
    <3>6. G[m + 1][f[s \ {m + 1}]] \in S
      BY <3>4, <3>5
    <3> QED
      BY <3>1, <3>2, <3>3, <3>6
  <2>4. ASSUME NEW s \in SUBSET (1..m + 1)
        PROVE  g[s] \in S /\ g[s] = IF s = {} THEN base ELSE G[Max(s)][g[s \ {Max(s)}]]
    <3>1. CASE m + 1 \in s
      <4>1. /\ g[s] = G[m + 1][f[s \ {m + 1}]] /\ g[s] \in S
            /\ s \ {m + 1} \in SUBSET (1..m) /\ Max(s) = m + 1
        BY <2>3, <3>1
      <4>2. g[s \ {m + 1}] = f[s \ {m + 1}]
        BY <2>2, <4>1
      <4> HIDE DEF g, Solves
      <4> QED
        BY <3>1, <4>1, <4>2
    <3>2. CASE m + 1 \notin s
      <4>1. s \in SUBSET (1..m)
        BY <3>2
      <4>2. g[s] = f[s] /\ f[s] \in S
        BY <2>2, <4>1
      <4>3. s \ {Max(s)} \in SUBSET (1..m)
        BY <4>1
      <4>4. g[s \ {Max(s)}] = f[s \ {Max(s)}]
        BY <2>2, <4>3
      <4>5. f[s] = IF s = {} THEN base ELSE G[Max(s)][f[s \ {Max(s)}]]
        BY <2>1, <4>1
      <4> HIDE DEF g, Solves
      <4> QED
        BY <4>2, <4>4, <4>5
    <3> QED
      BY <3>1, <3>2
  <2>5. g \in [SUBSET (1..m + 1) -> S]
    <3>1. DOMAIN g = SUBSET (1..m + 1) /\ g = [s \in DOMAIN g |-> g[s]]
      OBVIOUS
    <3> HIDE DEF g, Solves
    <3> QED
      BY <2>4, <3>1
  <2>6. Solves(g, m + 1)
    <3> HIDE DEF g
    <3> QED
      BY <2>4, <2>5
  <2>7. m + 1 \in Nat
    OBVIOUS
  <2> HIDE DEF g, Solves
  <2> QED
    BY <2>6, <2>7
<1>3. n \in solved
  <2> HIDE DEF solved
  <2>1. 0..n \subseteq solved
    BY <1>1, <1>2, Induction
  <2>2. n \in 0..n
    OBVIOUS
  <2> QED
    BY <2>1, <2>2
<1> QED
  BY <1>3

-----------------------------------------------------------------------------
(* The bytes of a group, row by row. *)
BytesSteps(t, cells, n) ==
    /\ t[0] = 0
    /\ \A k \in 1..n : t[k] = t[k - 1] + cells[k].size

LEMMA BytesTable ==
    ASSUME NEW cells \in Seq(Row), NEW n \in Nat, Len(cells) = n
    PROVE  \E t \in [0..n -> Nat] : BytesSteps(t, cells, n) /\ BytesOf(cells) = t[n]
<1> DEFINE G == [k \in 1..n |-> [x \in Nat |-> x + cells[k].size]]
           Solves(f) == f = [s \in SUBSET (1..n) |->
               IF s = {} THEN 0 ELSE f[s \ {Max(s)}] + cells[Max(s)].size]
           iter == CHOOSE f : Solves(f)
<1>1. DOMAIN cells = 1..n /\ \A k \in 1..n : cells[k] \in Row
  OBVIOUS
<1>2. ASSUME NEW k \in 1..n, NEW x \in Nat
      PROVE  G[k][x] = x + cells[k].size /\ x + cells[k].size \in Nat
  BY <1>1 DEF Row, Line
<1>3. 0 \in Nat
  OBVIOUS
<1>4. PICK f \in [SUBSET (1..n) -> Nat] : \A s \in SUBSET (1..n) :
          f[s] = IF s = {} THEN 0 ELSE G[Max(s)][f[s \ {Max(s)}]]
  <2> DEFINE S == Nat
  <2>1. Stays(S, n, G)
    BY <1>2 DEF Stays
  <2>2. 0 \in S
    BY <1>3
  <2>3. S = Nat
    OBVIOUS
  <2> HIDE DEF G, S
  <2>4. PICK f : Tabulates(f, S, 0, n, G)
    BY <2>1, <2>2, FoldTable
  <2> QED
    BY <2>3, <2>4 DEF Tabulates
<1>5. Solves(f)
  <2>1. ASSUME NEW s \in SUBSET (1..n)
        PROVE  f[s] = IF s = {} THEN 0 ELSE f[s \ {Max(s)}] + cells[Max(s)].size
    <3>1. CASE s = {}
      BY <1>4, <3>1
    <3>2. CASE s # {}
      <4>1. Max(s) \in 1..n
        BY <3>2, MaxIn
      <4>2. s \ {Max(s)} \in SUBSET (1..n)
        OBVIOUS
      <4>3. f[s \ {Max(s)}] \in Nat
        BY <4>2
      <4> HIDE DEF G
      <4> QED
        BY <1>2, <1>4, <3>2, <4>1, <4>3
    <3> QED
      BY <3>1, <3>2
  <2>2. f = [s \in SUBSET (1..n) |-> f[s]]
    OBVIOUS
  <2> HIDE DEF G
  <2> QED
    BY <2>1, <2>2
<1>6. Solves(iter)
  BY <1>5, Zenon
<1>7. BytesOf(cells) = iter[1..n]
  BY <1>1, Zenon DEF BytesOf, FoldLeft, MapThenFoldSet
<1> HIDE DEF iter
<1>8. iter[{}] = 0 /\ 1..0 = {}
  BY <1>6
<1>9. ASSUME NEW k \in 1..n
      PROVE  iter[1..k] = iter[1..k - 1] + cells[k].size
  <2>1. 1..k \in SUBSET (1..n) /\ 1..k # {} /\ Max(1..k) = k /\ (1..k) \ {k} = 1..k - 1
    BY PrefixSets
  <2>2. iter[1..k] = iter[(1..k) \ {Max(1..k)}] + cells[Max(1..k)].size
    BY <1>6, <2>1
  <2> QED
    BY <2>1, <2>2
<1> HIDE DEF Solves
<1> DEFINE t == [k \in 0..n |-> iter[1..k]]
           typed == {k \in 0..n : t[k] \in Nat}
<1>10. t[0] = 0 /\ t[n] = iter[1..n]
  BY <1>8
<1>11. ASSUME NEW k \in 1..n
       PROVE  t[k] = t[k - 1] + cells[k].size
  BY <1>9
<1>12. t \in [0..n -> Nat]
  <2>1. 0 \in typed
    <3>1. 0 \in 0..n
      OBVIOUS
    <3> HIDE DEF t
    <3> QED
      BY <1>3, <1>10, <3>1
  <2>2. ASSUME NEW k \in 0..n - 1, k \in typed
        PROVE  k + 1 \in typed
    <3>1. k + 1 \in 1..n /\ (k + 1) - 1 = k /\ k + 1 \in 0..n /\ t[k] \in Nat
      BY <2>2
    <3> HIDE DEF t, G
    <3>2. t[k + 1] = t[k] + cells[k + 1].size
      BY <1>11, <3>1
    <3> QED
      BY <1>2, <3>1, <3>2
  <2>3. 0..n \subseteq typed
    <3> HIDE DEF typed
    <3> QED
      BY <2>1, <2>2, Induction
  <2>4. DOMAIN t = 0..n /\ t = [k \in 0..n |-> t[k]]
    OBVIOUS
  <2> HIDE DEF t
  <2> QED
    BY <2>3, <2>4
<1> HIDE DEF t, G, typed
<1>13. BytesSteps(t, cells, n) /\ BytesOf(cells) = t[n]
  BY <1>7, <1>10, <1>11 DEF BytesSteps
<1> QED
  BY <1>12, <1>13

LEMMA BytesUnfolds ==
    /\ BytesOf(<< >>) = 0
    /\ \A cells \in Seq(Row) :
           /\ BytesOf(cells) \in Nat
           /\ \A c \in Row :
                  BytesOf(Append(cells, c)) = BytesOf(cells) + c.size
<1>1. BytesOf(<< >>) = 0
  <2> DEFINE n == 0
             none == << >>
  <2>1. none \in Seq(Row) /\ n \in Nat /\ Len(none) = n
    OBVIOUS
  <2> HIDE DEF n, none
  <2>2. PICK t : BytesSteps(t, none, n) /\ BytesOf(none) = t[n]
    BY <2>1, BytesTable
  <2> QED
    BY <2>2 DEF n, none, BytesSteps
<1>2. ASSUME NEW cells \in Seq(Row)
      PROVE  BytesOf(cells) \in Nat
  <2>1. Len(cells) \in Nat /\ Len(cells) \in 0..Len(cells)
    OBVIOUS
  <2> DEFINE n == Len(cells)
  <2>2. PICK t \in [0..n -> Nat] : BytesOf(cells) = t[n]
    BY <2>1, BytesTable
  <2> QED
    BY <2>1, <2>2
<1>3. ASSUME NEW cells \in Seq(Row), NEW c \in Row
      PROVE  BytesOf(Append(cells, c)) = BytesOf(cells) + c.size
  <2> DEFINE n == Len(cells)
             m == n + 1
             more == Append(cells, c)
  <2>1. /\ more \in Seq(Row) /\ Len(more) = m /\ n \in Nat /\ m \in Nat
        /\ \A k \in 1..n : more[k] = cells[k]
        /\ more[m] = c /\ m \in 1..m /\ m - 1 = n
        /\ \A k \in 1..n : k \in 1..m
    OBVIOUS
  <2> HIDE DEF n, m, more
  <2>2. PICK t : BytesSteps(t, cells, n) /\ BytesOf(cells) = t[n]
    BY <2>1, BytesTable DEF n
  <2>3. PICK u : BytesSteps(u, more, m) /\ BytesOf(more) = u[m]
    BY <2>1, BytesTable
  <2> DEFINE same == {k \in Nat : u[k] = t[k]}
  <2>4. 0 \in same
    BY <2>2, <2>3 DEF BytesSteps
  <2>5. ASSUME NEW k \in 0..n - 1, k \in same
        PROVE  k + 1 \in same
    <3>1. k + 1 \in 1..n /\ (k + 1) - 1 = k /\ k + 1 \in Nat /\ k + 1 \in 1..m
      BY <2>1
    <3> DEFINE j == k + 1
    <3>2. u[j] = u[k] + more[j].size /\ t[j] = t[k] + cells[j].size /\ more[j] = cells[j]
      <4>1. j \in 1..n /\ j \in 1..m /\ j - 1 = k
        BY <3>1
      <4> HIDE DEF j
      <4> QED
        BY <2>1, <2>2, <2>3, <4>1 DEF BytesSteps
    <3>3. u[k] = t[k]
      BY <2>5
    <3> HIDE DEF j
    <3>4. u[j] = t[j]
      BY <3>2, <3>3
    <3> QED
      BY <3>1, <3>4 DEF j
  <2>6. n \in same
    <3> HIDE DEF same
    <3>1. 0..n \subseteq same
      BY <2>1, <2>4, <2>5, Induction
    <3> QED
      BY <2>1, <3>1
  <2>7. u[m] = u[n] + c.size /\ u[n] = t[n]
    BY <2>1, <2>3, <2>6 DEF BytesSteps
  <2> QED
    BY <2>2, <2>3, <2>7 DEF more
<1> QED
  BY <1>1, <1>2, <1>3


-----------------------------------------------------------------------------
(* The rows among the lines, line by line. *)
RowsSteps(t, cells, n) ==
    /\ t[0] = << >>
    /\ \A k \in 1..n : t[k] = KeepRow(t[k - 1], cells[k])

LEMMA RowsTable ==
    ASSUME NEW cells \in Seq(Line), NEW n \in Nat, Len(cells) = n
    PROVE  \E t \in [0..n -> Seq(Row)] : RowsSteps(t, cells, n) /\ RowsOf(cells) = t[n]
<1> DEFINE G == [k \in 1..n |-> [x \in Seq(Row) |-> KeepRow(x, cells[k])]]
           Solves(f) == f = [s \in SUBSET (1..n) |->
               IF s = {} THEN << >> ELSE KeepRow(f[s \ {Max(s)}], cells[Max(s)])]
           iter == CHOOSE f : Solves(f)
<1>1. DOMAIN cells = 1..n /\ \A k \in 1..n : cells[k] \in Line
  OBVIOUS
<1>2. ASSUME NEW k \in 1..n, NEW x \in Seq(Row)
      PROVE  G[k][x] = KeepRow(x, cells[k]) /\ KeepRow(x, cells[k]) \in Seq(Row)
  BY <1>1 DEF KeepRow, Row
<1>3. << >> \in Seq(Row)
  OBVIOUS
<1>4. PICK f \in [SUBSET (1..n) -> Seq(Row)] : \A s \in SUBSET (1..n) :
          f[s] = IF s = {} THEN << >> ELSE G[Max(s)][f[s \ {Max(s)}]]
  <2> DEFINE S == Seq(Row)
  <2>1. Stays(S, n, G)
    BY <1>2 DEF Stays
  <2>2. << >> \in S
    BY <1>3
  <2>3. S = Seq(Row)
    OBVIOUS
  <2> HIDE DEF G, S
  <2>4. PICK f : Tabulates(f, S, << >>, n, G)
    BY <2>1, <2>2, FoldTable
  <2> QED
    BY <2>3, <2>4 DEF Tabulates
<1>5. Solves(f)
  <2>1. ASSUME NEW s \in SUBSET (1..n)
        PROVE  f[s] = IF s = {} THEN << >> ELSE KeepRow(f[s \ {Max(s)}], cells[Max(s)])
    <3>1. CASE s = {}
      BY <1>4, <3>1
    <3>2. CASE s # {}
      <4>1. Max(s) \in 1..n
        BY <3>2, MaxIn
      <4>2. s \ {Max(s)} \in SUBSET (1..n)
        OBVIOUS
      <4>3. f[s \ {Max(s)}] \in Seq(Row)
        BY <4>2
      <4> HIDE DEF G
      <4> QED
        BY <1>2, <1>4, <3>2, <4>1, <4>3
    <3> QED
      BY <3>1, <3>2
  <2>2. f = [s \in SUBSET (1..n) |-> f[s]]
    OBVIOUS
  <2> HIDE DEF G
  <2> QED
    BY <2>1, <2>2
<1>6. Solves(iter)
  BY <1>5, Zenon
<1>7. RowsOf(cells) = iter[1..n]
  BY <1>1, Zenon DEF RowsOf, FoldLeft, MapThenFoldSet
<1> HIDE DEF iter
<1>8. iter[{}] = << >> /\ 1..0 = {}
  BY <1>6
<1>9. ASSUME NEW k \in 1..n
      PROVE  iter[1..k] = KeepRow(iter[1..k - 1], cells[k])
  <2>1. 1..k \in SUBSET (1..n) /\ 1..k # {} /\ Max(1..k) = k /\ (1..k) \ {k} = 1..k - 1
    BY PrefixSets
  <2>2. iter[1..k] = KeepRow(iter[(1..k) \ {Max(1..k)}], cells[Max(1..k)])
    BY <1>6, <2>1
  <2> QED
    BY <2>1, <2>2
<1> HIDE DEF Solves
<1> DEFINE t == [k \in 0..n |-> iter[1..k]]
           typed == {k \in 0..n : t[k] \in Seq(Row)}
<1>10. t[0] = << >> /\ t[n] = iter[1..n]
  BY <1>8
<1>11. ASSUME NEW k \in 1..n
       PROVE  t[k] = KeepRow(t[k - 1], cells[k])
  BY <1>9
<1>12. t \in [0..n -> Seq(Row)]
  <2>1. 0 \in typed
    <3>1. 0 \in 0..n
      OBVIOUS
    <3> HIDE DEF t
    <3> QED
      BY <1>3, <1>10, <3>1
  <2>2. ASSUME NEW k \in 0..n - 1, k \in typed
        PROVE  k + 1 \in typed
    <3>1. k + 1 \in 1..n /\ (k + 1) - 1 = k /\ k + 1 \in 0..n /\ t[k] \in Seq(Row)
      BY <2>2
    <3> HIDE DEF t, G
    <3>2. t[k + 1] = KeepRow(t[k], cells[k + 1])
      BY <1>11, <3>1
    <3> QED
      BY <1>2, <3>1, <3>2
  <2>3. 0..n \subseteq typed
    <3> HIDE DEF typed
    <3> QED
      BY <2>1, <2>2, Induction
  <2>4. DOMAIN t = 0..n /\ t = [k \in 0..n |-> t[k]]
    OBVIOUS
  <2> HIDE DEF t
  <2> QED
    BY <2>3, <2>4
<1> HIDE DEF t, G, typed
<1>13. RowsSteps(t, cells, n) /\ RowsOf(cells) = t[n]
  BY <1>7, <1>10, <1>11 DEF RowsSteps
<1> QED
  BY <1>12, <1>13

LEMMA RowsUnfolds ==
    /\ RowsOf(<< >>) = << >>
    /\ \A cells \in Seq(Line) :
           /\ RowsOf(cells) \in Seq(Row)
           /\ \A c \in Line :
                  RowsOf(Append(cells, c)) = KeepRow(RowsOf(cells), c)
<1>1. RowsOf(<< >>) = << >>
  <2> DEFINE n == 0
             none == << >>
  <2>1. none \in Seq(Line) /\ n \in Nat /\ Len(none) = n
    OBVIOUS
  <2> HIDE DEF n, none
  <2>2. PICK t : RowsSteps(t, none, n) /\ RowsOf(none) = t[n]
    BY <2>1, RowsTable
  <2> QED
    BY <2>2 DEF n, none, RowsSteps
<1>2. ASSUME NEW cells \in Seq(Line)
      PROVE  RowsOf(cells) \in Seq(Row)
  <2>1. Len(cells) \in Nat /\ Len(cells) \in 0..Len(cells)
    OBVIOUS
  <2> DEFINE n == Len(cells)
  <2>2. PICK t \in [0..n -> Seq(Row)] : RowsOf(cells) = t[n]
    BY <2>1, RowsTable
  <2> QED
    BY <2>1, <2>2
<1>3. ASSUME NEW cells \in Seq(Line), NEW c \in Line
      PROVE  RowsOf(Append(cells, c)) = KeepRow(RowsOf(cells), c)
  <2> DEFINE n == Len(cells)
             m == n + 1
             more == Append(cells, c)
  <2>1. /\ more \in Seq(Line) /\ Len(more) = m /\ n \in Nat /\ m \in Nat
        /\ \A k \in 1..n : more[k] = cells[k]
        /\ more[m] = c /\ m \in 1..m /\ m - 1 = n
        /\ \A k \in 1..n : k \in 1..m
    OBVIOUS
  <2> HIDE DEF n, m, more
  <2>2. PICK t : RowsSteps(t, cells, n) /\ RowsOf(cells) = t[n]
    BY <2>1, RowsTable DEF n
  <2>3. PICK u : RowsSteps(u, more, m) /\ RowsOf(more) = u[m]
    BY <2>1, RowsTable
  <2> DEFINE same == {k \in Nat : u[k] = t[k]}
  <2>4. 0 \in same
    BY <2>2, <2>3 DEF RowsSteps
  <2>5. ASSUME NEW k \in 0..n - 1, k \in same
        PROVE  k + 1 \in same
    <3>1. k + 1 \in 1..n /\ (k + 1) - 1 = k /\ k + 1 \in Nat /\ k + 1 \in 1..m
      BY <2>1
    <3> DEFINE j == k + 1
    <3>2. u[j] = KeepRow(u[k], more[j]) /\ t[j] = KeepRow(t[k], cells[j]) /\ more[j] = cells[j]
      <4>1. j \in 1..n /\ j \in 1..m /\ j - 1 = k
        BY <3>1
      <4> HIDE DEF j
      <4> QED
        BY <2>1, <2>2, <2>3, <4>1 DEF RowsSteps
    <3>3. u[k] = t[k]
      BY <2>5
    <3> HIDE DEF j
    <3>4. u[j] = t[j]
      BY <3>2, <3>3
    <3> QED
      BY <3>1, <3>4 DEF j
  <2>6. n \in same
    <3> HIDE DEF same
    <3>1. 0..n \subseteq same
      BY <2>1, <2>4, <2>5, Induction
    <3> QED
      BY <2>1, <3>1
  <2>7. u[m] = KeepRow(u[n], c) /\ u[n] = t[n]
    BY <2>1, <2>3, <2>6 DEF RowsSteps
  <2> QED
    BY <2>2, <2>3, <2>7 DEF more
<1> QED
  BY <1>1, <1>2, <1>3


-----------------------------------------------------------------------------
(* The sequential writer, line by line. *)

Writer == [done : Seq(Seq(Line)), group : [rows : Seq(Line), bytes : Nat]]

LEMMA WriteLineType ==
    ASSUME NEW s \in Writer, NEW line \in Line
    PROVE  WriteLine(s, line) \in Writer
<1>1. FlushBlock(s) \in Writer
  BY DEF FlushBlock, Writer, EmptyGroup
<1> DEFINE room == IF WouldExceed(s.group, line) THEN FlushBlock(s) ELSE s
           full == [room EXCEPT !.group = PushLine(@, line)]
<1>2. room \in Writer
  BY <1>1
<1>3. full \in Writer
  <2> DEFINE g == PushLine(room.group, line)
  <2> HIDE DEF room
  <2>1. g \in [rows : Seq(Line), bytes : Nat]
    BY <1>2 DEF Writer, PushLine, Line
  <2>2. full = [room EXCEPT !.group = g]
    BY DEF PushLine
  <2> HIDE DEF g, full
  <2> QED
    BY <1>2, <2>1, <2>2 DEF Writer
<1>4. FlushBlock(full) \in Writer
  <2> HIDE DEF full
  <2> QED
    BY <1>3 DEF FlushBlock, Writer, EmptyGroup
<1>5. WriteLine(s, line) = IF line.kind = "blank" THEN s
                           ELSE IF ReachedLimit(full.group) THEN FlushBlock(full) ELSE full
  BY Zenon DEF WriteLine
<1> HIDE DEF full
<1> QED
  BY <1>3, <1>4, <1>5

WriterSteps(t, cells, n) ==
    /\ t[0] = EmptyWriter
    /\ \A k \in 1..n : t[k] = WriteLine(t[k - 1], cells[k])

LEMMA WriterTable ==
    ASSUME NEW cells \in Seq(Line), NEW n \in Nat, Len(cells) = n
    PROVE  \E t \in [0..n -> Writer] : WriterSteps(t, cells, n) /\ WriterAfter(cells) = t[n]
<1> DEFINE G == [k \in 1..n |-> [x \in Writer |-> WriteLine(x, cells[k])]]
           Solves(f) == f = [s \in SUBSET (1..n) |->
               IF s = {} THEN EmptyWriter ELSE WriteLine(f[s \ {Max(s)}], cells[Max(s)])]
           iter == CHOOSE f : Solves(f)
<1>1. DOMAIN cells = 1..n /\ \A k \in 1..n : cells[k] \in Line
  OBVIOUS
<1>2. ASSUME NEW k \in 1..n, NEW x \in Writer
      PROVE  G[k][x] = WriteLine(x, cells[k]) /\ WriteLine(x, cells[k]) \in Writer
  BY <1>1, WriteLineType
<1>3. EmptyWriter \in Writer
  BY DEF EmptyWriter, Writer, EmptyGroup
<1>4. PICK f \in [SUBSET (1..n) -> Writer] : \A s \in SUBSET (1..n) :
          f[s] = IF s = {} THEN EmptyWriter ELSE G[Max(s)][f[s \ {Max(s)}]]
  <2> DEFINE S == Writer
  <2>1. Stays(S, n, G)
    BY <1>2 DEF Stays
  <2>2. EmptyWriter \in S
    BY <1>3
  <2>3. S = Writer
    OBVIOUS
  <2> HIDE DEF G, S
  <2>4. PICK f : Tabulates(f, S, EmptyWriter, n, G)
    BY <2>1, <2>2, FoldTable
  <2> QED
    BY <2>3, <2>4 DEF Tabulates
<1>5. Solves(f)
  <2>1. ASSUME NEW s \in SUBSET (1..n)
        PROVE  f[s] = IF s = {} THEN EmptyWriter ELSE WriteLine(f[s \ {Max(s)}], cells[Max(s)])
    <3>1. CASE s = {}
      BY <1>4, <3>1
    <3>2. CASE s # {}
      <4>1. Max(s) \in 1..n
        BY <3>2, MaxIn
      <4>2. s \ {Max(s)} \in SUBSET (1..n)
        OBVIOUS
      <4>3. f[s \ {Max(s)}] \in Writer
        BY <4>2
      <4> HIDE DEF G
      <4> QED
        BY <1>2, <1>4, <3>2, <4>1, <4>3
    <3> QED
      BY <3>1, <3>2
  <2>2. f = [s \in SUBSET (1..n) |-> f[s]]
    OBVIOUS
  <2> HIDE DEF G
  <2> QED
    BY <2>1, <2>2
<1>6. Solves(iter)
  BY <1>5, Zenon
<1>7. WriterAfter(cells) = iter[1..n]
  BY <1>1, Zenon DEF WriterAfter, FoldLeft, MapThenFoldSet
<1> HIDE DEF iter
<1>8. iter[{}] = EmptyWriter /\ 1..0 = {}
  BY <1>6
<1>9. ASSUME NEW k \in 1..n
      PROVE  iter[1..k] = WriteLine(iter[1..k - 1], cells[k])
  <2>1. 1..k \in SUBSET (1..n) /\ 1..k # {} /\ Max(1..k) = k /\ (1..k) \ {k} = 1..k - 1
    BY PrefixSets
  <2>2. iter[1..k] = WriteLine(iter[(1..k) \ {Max(1..k)}], cells[Max(1..k)])
    BY <1>6, <2>1
  <2> QED
    BY <2>1, <2>2
<1> HIDE DEF Solves
<1> DEFINE t == [k \in 0..n |-> iter[1..k]]
           typed == {k \in 0..n : t[k] \in Writer}
<1>10. t[0] = EmptyWriter /\ t[n] = iter[1..n]
  BY <1>8
<1>11. ASSUME NEW k \in 1..n
       PROVE  t[k] = WriteLine(t[k - 1], cells[k])
  BY <1>9
<1>12. t \in [0..n -> Writer]
  <2>1. 0 \in typed
    <3>1. 0 \in 0..n
      OBVIOUS
    <3> HIDE DEF t
    <3> QED
      BY <1>3, <1>10, <3>1
  <2>2. ASSUME NEW k \in 0..n - 1, k \in typed
        PROVE  k + 1 \in typed
    <3>1. k + 1 \in 1..n /\ (k + 1) - 1 = k /\ k + 1 \in 0..n /\ t[k] \in Writer
      BY <2>2
    <3> HIDE DEF t, G
    <3>2. t[k + 1] = WriteLine(t[k], cells[k + 1])
      BY <1>11, <3>1
    <3> QED
      BY <1>2, <3>1, <3>2
  <2>3. 0..n \subseteq typed
    <3> HIDE DEF typed
    <3> QED
      BY <2>1, <2>2, Induction
  <2>4. DOMAIN t = 0..n /\ t = [k \in 0..n |-> t[k]]
    OBVIOUS
  <2> HIDE DEF t
  <2> QED
    BY <2>3, <2>4
<1> HIDE DEF t, G, typed
<1>13. WriterSteps(t, cells, n) /\ WriterAfter(cells) = t[n]
  BY <1>7, <1>10, <1>11 DEF WriterSteps
<1> QED
  BY <1>12, <1>13

LEMMA WriterUnfolds ==
    /\ WriterAfter(<< >>) = EmptyWriter
    /\ \A cells \in Seq(Line) :
           /\ WriterAfter(cells) \in Writer
           /\ \A c \in Line :
                  WriterAfter(Append(cells, c)) = WriteLine(WriterAfter(cells), c)
<1>1. WriterAfter(<< >>) = EmptyWriter
  <2> DEFINE n == 0
             none == << >>
  <2>1. none \in Seq(Line) /\ n \in Nat /\ Len(none) = n
    OBVIOUS
  <2> HIDE DEF n, none
  <2>2. PICK t : WriterSteps(t, none, n) /\ WriterAfter(none) = t[n]
    BY <2>1, WriterTable
  <2> QED
    BY <2>2 DEF n, none, WriterSteps
<1>2. ASSUME NEW cells \in Seq(Line)
      PROVE  WriterAfter(cells) \in Writer
  <2>1. Len(cells) \in Nat /\ Len(cells) \in 0..Len(cells)
    OBVIOUS
  <2> DEFINE n == Len(cells)
  <2>2. PICK t \in [0..n -> Writer] : WriterAfter(cells) = t[n]
    BY <2>1, WriterTable
  <2> QED
    BY <2>1, <2>2
<1>3. ASSUME NEW cells \in Seq(Line), NEW c \in Line
      PROVE  WriterAfter(Append(cells, c)) = WriteLine(WriterAfter(cells), c)
  <2> DEFINE n == Len(cells)
             m == n + 1
             more == Append(cells, c)
  <2>1. /\ more \in Seq(Line) /\ Len(more) = m /\ n \in Nat /\ m \in Nat
        /\ \A k \in 1..n : more[k] = cells[k]
        /\ more[m] = c /\ m \in 1..m /\ m - 1 = n
        /\ \A k \in 1..n : k \in 1..m
    OBVIOUS
  <2> HIDE DEF n, m, more
  <2>2. PICK t : WriterSteps(t, cells, n) /\ WriterAfter(cells) = t[n]
    BY <2>1, WriterTable DEF n
  <2>3. PICK u : WriterSteps(u, more, m) /\ WriterAfter(more) = u[m]
    BY <2>1, WriterTable
  <2> DEFINE same == {k \in Nat : u[k] = t[k]}
  <2>4. 0 \in same
    BY <2>2, <2>3 DEF WriterSteps
  <2>5. ASSUME NEW k \in 0..n - 1, k \in same
        PROVE  k + 1 \in same
    <3>1. k + 1 \in 1..n /\ (k + 1) - 1 = k /\ k + 1 \in Nat /\ k + 1 \in 1..m
      BY <2>1
    <3> DEFINE j == k + 1
    <3>2. u[j] = WriteLine(u[k], more[j]) /\ t[j] = WriteLine(t[k], cells[j]) /\ more[j] = cells[j]
      <4>1. j \in 1..n /\ j \in 1..m /\ j - 1 = k
        BY <3>1
      <4> HIDE DEF j
      <4> QED
        BY <2>1, <2>2, <2>3, <4>1 DEF WriterSteps
    <3>3. u[k] = t[k]
      BY <2>5
    <3> HIDE DEF j
    <3>4. u[j] = t[j]
      BY <3>2, <3>3
    <3> QED
      BY <3>1, <3>4 DEF j
  <2>6. n \in same
    <3> HIDE DEF same
    <3>1. 0..n \subseteq same
      BY <2>1, <2>4, <2>5, Induction
    <3> QED
      BY <2>1, <3>1
  <2>7. u[m] = WriteLine(u[n], c) /\ u[n] = t[n]
    BY <2>1, <2>3, <2>6 DEF WriterSteps
  <2> QED
    BY <2>2, <2>3, <2>7 DEF more
<1> QED
  BY <1>1, <1>2, <1>3

-----------------------------------------------------------------------------
(* A table of what FlattenSeq has, sequence by sequence. *)
Flattens(f, seqs, n) ==
    f = [i \in 1..n |-> IF i = 1 THEN seqs[i] ELSE f[i - 1] \o seqs[i]]

LEMMA FlattenIs ==
    ASSUME NEW n \in Nat, n # 0, NEW seqs, Len(seqs) = n, NEW f, Flattens(f, seqs, n)
    PROVE  FlattenSeq(seqs) = f[n]
<1> USE DEF Flattens
<1> DEFINE Solves(h) == h = [i \in 1..Len(seqs) |->
                                IF i = 1 THEN seqs[i] ELSE h[i - 1] \o seqs[i]]
           g == CHOOSE h : Solves(h)
<1>1. FlattenSeq(seqs) = g[Len(seqs)]
  <2>1. Len(seqs) # 0
    OBVIOUS
  <2> QED
    BY <2>1, Zenon DEF FlattenSeq
<1>2. Solves(f)
  OBVIOUS
<1>3. Solves(g)
  BY <1>2, Zenon
<1> HIDE DEF g
<1>4. g = [i \in 1..n |-> IF i = 1 THEN seqs[i] ELSE g[i - 1] \o seqs[i]]
  BY <1>3
<1> HIDE DEF Solves
<1> DEFINE same == {k \in Nat : k = 0 \/ f[k] = g[k]}
<1>5. 0 \in same
  OBVIOUS
<1>6. ASSUME NEW k \in 0..n - 1, k \in same
      PROVE  k + 1 \in same
  <2>1. k + 1 \in 1..n /\ (k + 1) - 1 = k /\ k + 1 \in Nat
    OBVIOUS
  <2>2. f[k + 1] = IF k + 1 = 1 THEN seqs[k + 1] ELSE f[(k + 1) - 1] \o seqs[k + 1]
    BY <2>1
  <2>3. g[k + 1] = IF k + 1 = 1 THEN seqs[k + 1] ELSE g[(k + 1) - 1] \o seqs[k + 1]
    BY <1>4, <2>1
  <2>4. k # 0 => f[k] = g[k]
    BY <1>6
  <2>5. f[k + 1] = g[k + 1]
    BY <2>1, <2>2, <2>3, <2>4
  <2> QED
    BY <2>1, <2>5
<1>7. 0..n \subseteq same
  <2> HIDE DEF same
  <2> QED
    BY <1>5, <1>6, Induction
<1>8. f[n] = g[n]
  <2>1. n \in 0..n
    OBVIOUS
  <2> QED
    BY <1>7, <2>1
<1> QED
  BY <1>1, <1>8

LEMMA NoElements ==
    ASSUME NEW X, NEW s \in Seq(X)
    PROVE  /\ Len(s) = 0 => s = << >>
           /\ << >> \o s = s /\ s \o << >> = s
OBVIOUS

(* Group after group, end to end. *)
LEMMA FlattenUnfolds ==
    ASSUME NEW X
    PROVE  /\ FlattenSeq(<< >>) = << >>
           /\ \A gs \in Seq(Seq(X)) :
                  /\ FlattenSeq(gs) \in Seq(X)
                  /\ \A g \in Seq(X) : FlattenSeq(Append(gs, g)) = FlattenSeq(gs) \o g
<1>1. FlattenSeq(<< >>) = << >>
  <2>1. Len(<< >>) = 0
    OBVIOUS
  <2> QED
    BY <2>1, Zenon DEF FlattenSeq
<1>2. ASSUME NEW gs \in Seq(Seq(X)), Len(gs) # 0
      PROVE  \E f : Flattens(f, gs, Len(gs)) /\ f[Len(gs)] \in Seq(X)
  <2> DEFINE n == Len(gs)
             solved == {m \in Nat : m = 0 \/ \E f : Flattens(f, gs, m) /\ f[m] \in Seq(X)}
  <2>1. n \in Nat /\ n # 0 /\ \A i \in 1..n : gs[i] \in Seq(X)
    BY <1>2
  <2> HIDE DEF n
  <2>2. 0 \in solved
    OBVIOUS
  <2>3. ASSUME NEW m \in 0..n - 1, m \in solved
        PROVE  m + 1 \in solved
    <3>1. m + 1 \in 1..n /\ gs[m + 1] \in Seq(X) /\ m + 1 \in Nat
      BY <2>1
    <3>2. CASE m = 0
      <4> DEFINE f == [i \in 1..1 |-> gs[i]]
      <4>1. Flattens(f, gs, 1) /\ f[1] = gs[1]
        BY DEF Flattens
      <4> HIDE DEF f
      <4>2. \E g : Flattens(g, gs, 1) /\ g[1] \in Seq(X)
        BY <3>1, <3>2, <4>1
      <4> QED
        BY <3>2, <4>2
    <3>3. CASE m # 0
      <4>1. PICK f : Flattens(f, gs, m) /\ f[m] \in Seq(X)
        BY <2>3, <3>3
      <4> DEFINE g == [i \in 1..m + 1 |-> IF i = m + 1 THEN f[m] \o gs[m + 1] ELSE f[i]]
      <4>2. ASSUME NEW i \in 1..m + 1
            PROVE  g[i] = IF i = 1 THEN gs[i] ELSE g[i - 1] \o gs[i]
        <5>1. CASE i = m + 1
          <6>1. i # 1 /\ i - 1 = m /\ m \in 1..m + 1 /\ m # m + 1
            BY <3>3, <5>1
          <6>2. g[i] = f[m] \o gs[m + 1] /\ g[m] = f[m]
            BY <5>1, <6>1
          <6> HIDE DEF g
          <6> QED
            BY <5>1, <6>1, <6>2
        <5>2. CASE i # m + 1
          <6>1. i \in 1..m /\ g[i] = f[i]
            BY <5>2
          <6>2. i # 1 => g[i - 1] = f[i - 1]
            BY <6>1
          <6>3. f[i] = IF i = 1 THEN gs[i] ELSE f[i - 1] \o gs[i]
            BY <4>1, <6>1 DEF Flattens
          <6> HIDE DEF g
          <6> QED
            BY <6>1, <6>2, <6>3
        <5> QED
          BY <5>1, <5>2
      <4>3. Flattens(g, gs, m + 1)
        <5> DEFINE h == [i \in 1..m + 1 |-> IF i = 1 THEN gs[i] ELSE g[i - 1] \o gs[i]]
        <5>1. DOMAIN g = 1..m + 1 /\ g = [i \in DOMAIN g |-> g[i]]
          OBVIOUS
        <5> HIDE DEF g
        <5>2. g = h
          BY <4>2, <5>1
        <5> QED
          BY <5>2 DEF Flattens
      <4>4. g[m + 1] = f[m] \o gs[m + 1]
        <5>1. m + 1 \in 1..m + 1
          OBVIOUS
        <5> QED
          BY <5>1
      <4> HIDE DEF g
      <4>5. g[m + 1] \in Seq(X)
        BY <3>1, <4>1, <4>4
      <4> QED
        BY <3>1, <4>3, <4>5
    <3> QED
      BY <3>2, <3>3
  <2>4. n \in solved
    <3> HIDE DEF solved
    <3>1. 0..n \subseteq solved
      BY <2>1, <2>2, <2>3, Induction
    <3> QED
      BY <2>1, <3>1
  <2> QED
    BY <2>1, <2>4 DEF n
<1>3. ASSUME NEW gs \in Seq(Seq(X))
      PROVE  FlattenSeq(gs) \in Seq(X)
  <2>1. CASE Len(gs) = 0
    <3>1. gs = << >>
      <4> DEFINE Y == Seq(X)
      <4>1. gs \in Seq(Y)
        OBVIOUS
      <4> HIDE DEF Y
      <4> QED
        BY <2>1, <4>1, NoElements
    <3>2. << >> \in Seq(X)
      OBVIOUS
    <3> QED
      BY <1>1, <3>1, <3>2
  <2>2. CASE Len(gs) # 0
    <3> DEFINE n == Len(gs)
    <3>1. n \in Nat /\ n # 0 /\ Len(gs) = n
      BY <2>2
    <3> HIDE DEF n
    <3>2. PICK f : Flattens(f, gs, n) /\ f[n] \in Seq(X)
      BY <1>2, <2>2 DEF n
    <3>3. FlattenSeq(gs) = f[n]
      BY <3>1, <3>2, FlattenIs
    <3> QED
      BY <3>2, <3>3
  <2> QED
    BY <2>1, <2>2
<1>4. ASSUME NEW gs \in Seq(Seq(X)), NEW g \in Seq(X)
      PROVE  FlattenSeq(Append(gs, g)) = FlattenSeq(gs) \o g
  <2> DEFINE n == Len(gs)
             m == n + 1
             more == Append(gs, g)
  <2>1. /\ n \in Nat /\ m \in Nat /\ m # 0 /\ Len(more) = m /\ more[m] = g /\ m - 1 = n
        /\ m \in 1..m
        /\ \A i \in 1..n : more[i] = gs[i] /\ i \in 1..m /\ i # m
    OBVIOUS
  <2>2. CASE n = 0
    <3>1. gs = << >> /\ FlattenSeq(gs) = << >> /\ m = 1 /\ << >> \o g = g
      <4> DEFINE Y == Seq(X)
      <4>1. gs \in Seq(Y)
        OBVIOUS
      <4> HIDE DEF Y
      <4>2. gs = << >> /\ << >> \o g = g /\ m = 1
        BY <2>2, <4>1, NoElements
      <4> QED
        BY <1>1, <4>2
    <3> DEFINE f == [i \in 1..1 |-> more[i]]
    <3>2. Flattens(f, more, m) /\ f[1] = more[1]
      BY <3>1 DEF Flattens
    <3> HIDE DEF f, more, m, n
    <3>3. FlattenSeq(more) = f[1]
      BY <2>1, <3>1, <3>2, FlattenIs
    <3> QED
      BY <2>1, <3>1, <3>2, <3>3 DEF more
  <2>3. CASE n # 0
    <3> HIDE DEF more, m, n
    <3>1. PICK f : Flattens(f, gs, n)
      BY <1>2, <2>3 DEF n
    <3>2. FlattenSeq(gs) = f[n]
      BY <2>1, <2>3, <3>1, FlattenIs DEF n
    <3> DEFINE h == [i \in 1..m |-> IF i = m THEN f[n] \o g ELSE f[i]]
    <3>3. ASSUME NEW i \in 1..m
          PROVE  h[i] = IF i = 1 THEN more[i] ELSE h[i - 1] \o more[i]
      <4>1. CASE i = m
        <5>1. i # 1 /\ i - 1 = n /\ n \in 1..m /\ n # m
          BY <2>1, <2>3, <4>1
        <5>2. h[i] = f[n] \o g /\ h[n] = f[n]
          BY <4>1, <5>1
        <5> HIDE DEF h
        <5> QED
          BY <2>1, <4>1, <5>1, <5>2
      <4>2. CASE i # m
        <5>1. i \in 1..n /\ h[i] = f[i] /\ more[i] = gs[i]
          BY <2>1, <4>2
        <5>2. i # 1 => h[i - 1] = f[i - 1]
          BY <2>1, <5>1
        <5>3. f[i] = IF i = 1 THEN gs[i] ELSE f[i - 1] \o gs[i]
          BY <3>1, <5>1 DEF Flattens
        <5> HIDE DEF h
        <5> QED
          BY <5>1, <5>2, <5>3
      <4> QED
        BY <4>1, <4>2
    <3>4. Flattens(h, more, m)
      <4> DEFINE r == [i \in 1..m |-> IF i = 1 THEN more[i] ELSE h[i - 1] \o more[i]]
      <4>1. DOMAIN h = 1..m /\ h = [i \in DOMAIN h |-> h[i]]
        OBVIOUS
      <4> HIDE DEF h
      <4>2. h = r
        BY <3>3, <4>1
      <4> QED
        BY <4>2 DEF Flattens
    <3>5. h[m] = f[n] \o g
      BY <2>1
    <3> HIDE DEF h
    <3>6. FlattenSeq(more) = h[m]
      BY <2>1, <3>4, FlattenIs
    <3> QED
      BY <3>2, <3>5, <3>6 DEF more
  <2> QED
    BY <2>2, <2>3
<1> QED
  BY <1>1, <1>3, <1>4

-----------------------------------------------------------------------------
(* The greedy cut.  What holds of the writer after any number of lines: the *)
(* groups it has flushed are a cut that no group could have grown in, and   *)
(* the rows it still holds, if any, did not fit into the last of them.      *)

(* A group with no room for one more row. *)
IsFullFor(rows, next) ==
    \/ Len(rows) = MaxRowsPerBlock
    \/ BytesOf(rows) + next.size > MaxBytesPerBlock

AtLimit(rows) == Len(rows) >= MaxRowsPerBlock \/ BytesOf(rows) >= MaxBytesPerBlock

Fits(rows) == /\ rows \in Seq(Row)
              /\ Len(rows) \in 1..MaxRowsPerBlock
              /\ BytesOf(rows) <= MaxBytesPerBlock

(* The flushed groups, each within the limits and full for the next one.    *)
GoodGroups(groups) ==
    /\ groups \in Seq(Seq(Row))
    /\ \A i \in DOMAIN groups : Fits(groups[i])
    /\ \A i \in DOMAIN groups : i < Len(groups) => IsFullFor(groups[i], groups[i + 1][1])

(* The group being filled, and how it goes on from the flushed ones. *)
GoodGroup(g) ==
    /\ g \in Group
    /\ g.bytes = BytesOf(g.rows)
    /\ ~IsEmptyGroup(g) => Fits(g.rows)

FollowsOnGroups(groups, g) ==
    groups # << >> =>
        IF IsEmptyGroup(g) THEN AtLimit(groups[Len(groups)])
        ELSE IsFullFor(groups[Len(groups)], g.rows[1])

HoldsRows(w, rows) ==
    /\ FlattenSeq(w.done) \o w.group.rows = rows
    /\ IsEncodable(rows) <=>
           (\A i \in DOMAIN w.done : IsEncodable(w.done[i])) /\ IsEncodable(w.group.rows)

CutSoFar(w, rows) ==
    /\ w \in [done : Seq(Seq(Row)), group : Group]
    /\ rows \in Seq(Row)
    /\ GoodGroups(w.done)
    /\ GoodGroup(w.group)
    /\ FollowsOnGroups(w.done, w.group)
    /\ HoldsRows(w, rows)

LEMMA EncodableAppend ==
    ASSUME NEW rows \in Seq(Row), NEW r \in Row
    PROVE  IsEncodable(Append(rows, r)) <=> IsEncodable(rows) /\ r.kind # "bad"
<1> DEFINE more == Append(rows, r)
           n == Len(rows)
<1>1. /\ n \in Nat /\ DOMAIN rows = 1..n /\ DOMAIN more = 1..n + 1
      /\ \A i \in 1..n : more[i] = rows[i]
      /\ more[n + 1] = r
  OBVIOUS
<1>2. \A i \in 1..n + 1 : i \in 1..n \/ i = n + 1
  BY <1>1
<1>3. n + 1 \in 1..n + 1 /\ \A i \in 1..n : i \in 1..n + 1
  BY <1>1
<1> HIDE DEF more, n
<1> QED
  BY <1>1, <1>2, <1>3 DEF IsEncodable, more

(* A group at its limit, or one the next line does not fit into, is flushed.*)
LEMMA FlushKeepsCut ==
    ASSUME NEW w \in [done : Seq(Seq(Row)), group : Group],
           NEW rows \in Seq(Row),
           GoodGroups(w.done), GoodGroup(w.group), ~IsEmptyGroup(w.group),
           FollowsOnGroups(w.done, w.group), HoldsRows(w, rows)
    PROVE  LET f == FlushBlock(w)
           IN  /\ f = [done |-> Append(w.done, w.group.rows), group |-> EmptyGroup]
               /\ f \in [done : Seq(Seq(Row)), group : Group]
               /\ GoodGroups(f.done) /\ GoodGroup(f.group) /\ IsEmptyGroup(f.group)
               /\ f.done[Len(f.done)] = w.group.rows
               /\ HoldsRows(f, rows)
<1> DEFINE last == w.group.rows
           n == Len(w.done)
           more == Append(w.done, last)
           f == [done |-> more, group |-> EmptyGroup]
           none == << >>
<1>1. FlushBlock(w) = f
  BY DEF FlushBlock
<1>2. last \in Seq(Row) /\ Fits(last) /\ w.done \in Seq(Seq(Row)) /\ more \in Seq(Seq(Row))
  BY DEF GoodGroup, Group
<1>3. EmptyGroup \in Group /\ GoodGroup(EmptyGroup) /\ IsEmptyGroup(EmptyGroup)
      /\ EmptyGroup.rows = none /\ none \in Seq(Row)
  BY BytesUnfolds DEF EmptyGroup, Group, GoodGroup, IsEmptyGroup
<1>4. /\ n \in Nat /\ DOMAIN w.done = 1..n /\ DOMAIN more = 1..n + 1 /\ Len(more) = n + 1
      /\ \A i \in 1..n : more[i] = w.done[i]
      /\ more[n + 1] = last
  BY <1>2
<1>5. f.done = more /\ f.group = EmptyGroup
  OBVIOUS
<1>6. f \in [done : Seq(Seq(Row)), group : Group]
  <2> HIDE DEF more
  <2> QED
    BY <1>2, <1>3
<1> HIDE DEF more, f, last, n, none
<1>7. GoodGroups(more)
  <2>1. ASSUME NEW i \in 1..n + 1
        PROVE  Fits(more[i])
    <3>1. CASE i \in 1..n
      BY <1>4, <3>1 DEF GoodGroups
    <3>2. CASE i = n + 1
      BY <1>2, <1>4, <3>2
    <3> QED
      BY <1>4, <3>1, <3>2
  <2>2. ASSUME NEW i \in 1..n + 1, i < n + 1
        PROVE  IsFullFor(more[i], more[i + 1][1])
    <3>1. i \in 1..n /\ i + 1 \in 1..n + 1
      BY <1>4, <2>2
    <3>2. CASE i < n
      <4>1. i + 1 \in 1..n
        BY <3>1, <3>2, <1>4
      <4> QED
        BY <1>4, <3>1, <3>2, <4>1 DEF GoodGroups, n
    <3>3. CASE i = n
      <4>1. w.done # << >>
        BY <1>4, <3>1
      <4>2. IsFullFor(w.done[n], last[1])
        BY <4>1 DEF FollowsOnGroups, n, last
      <4> QED
        BY <1>4, <3>1, <3>3, <4>2
    <3> QED
      BY <1>4, <3>1, <3>2, <3>3
  <2> QED
    BY <1>2, <1>4, <2>1, <2>2 DEF GoodGroups
<1>8. HoldsRows(f, rows)
  <2>1. FlattenSeq(more) = FlattenSeq(w.done) \o last /\ FlattenSeq(more) \in Seq(Row)
    BY <1>2, FlattenUnfolds DEF more
  <2>2. FlattenSeq(more) \o none = rows
    <3>1. FlattenSeq(w.done) \o last = rows
      BY DEF HoldsRows, last
    <3>2. FlattenSeq(more) \o none = FlattenSeq(more)
      BY <2>1, NoElements DEF none
    <3> QED
      BY <2>1, <3>1, <3>2
  <2>3. IsEncodable(none)
    BY DEF IsEncodable, none
  <2>4. (\A i \in 1..n + 1 : IsEncodable(more[i])) <=>
            (\A i \in 1..n : IsEncodable(w.done[i])) /\ IsEncodable(last)
    <3>1. \A i \in 1..n + 1 : i \in 1..n \/ i = n + 1
      BY <1>4
    <3>2. n + 1 \in 1..n + 1 /\ \A i \in 1..n : i \in 1..n + 1
      BY <1>4
    <3> QED
      BY <1>4, <3>1, <3>2
  <2>5. IsEncodable(rows) <=> (\A i \in 1..n : IsEncodable(w.done[i])) /\ IsEncodable(last)
    BY <1>4 DEF HoldsRows, last
  <2>6. DOMAIN more = 1..n + 1
    BY <1>4
  <2> QED
    BY <1>3, <1>5, <2>2, <2>3, <2>4, <2>5, <2>6 DEF HoldsRows
<1>9. f.done[Len(f.done)] = last
  BY <1>4, <1>5
<1> QED
  BY <1>1, <1>3, <1>5, <1>6, <1>7, <1>8, <1>9 DEF f, more, last

(* A line that fits is pushed. *)
LEMMA PushKeepsCut ==
    ASSUME NEW w \in [done : Seq(Seq(Row)), group : Group],
           NEW rows \in Seq(Row), NEW line \in Row,
           line.size \in 1..MaxBytesPerBlock,
           GoodGroups(w.done), GoodGroup(w.group), HoldsRows(w, rows),
           ~WouldExceed(w.group, line),
           w.done # << >> =>
               IF IsEmptyGroup(w.group) THEN IsFullFor(w.done[Len(w.done)], line)
               ELSE IsFullFor(w.done[Len(w.done)], w.group.rows[1])
    PROVE  LET p == [w EXCEPT !.group = PushLine(@, line)]
           IN  /\ p \in [done : Seq(Seq(Row)), group : Group]
               /\ p.done = w.done /\ p.group = PushLine(w.group, line)
               /\ GoodGroup(p.group) /\ ~IsEmptyGroup(p.group)
               /\ FollowsOnGroups(p.done, p.group)
               /\ HoldsRows(p, Append(rows, line))
<1> DEFINE old == w.group.rows
           new == Append(old, line)
           g == PushLine(w.group, line)
           p == [w EXCEPT !.group = g]
           n == Len(old)
<1>1. old \in Seq(Row) /\ n \in Nat /\ new \in Seq(Row) /\ Len(new) = n + 1
      /\ (n = 0 <=> IsEmptyGroup(w.group)) /\ new # << >>
  <2>1. old \in Seq(Row) /\ line \in Row
    BY DEF Group
  <2> HIDE DEF old
  <2>2. n \in Nat /\ new \in Seq(Row) /\ Len(new) = n + 1
    BY ONLY <2>1
  <2>3. n = 0 <=> old = << >>
    BY <2>1, NoElements
  <2> HIDE DEF new
  <2>4. new # << >>
    BY <2>2
  <2> USE DEF new
  <2> QED
    BY <2>1, <2>2, <2>3, <2>4 DEF IsEmptyGroup, old
<1>2. g.rows = new /\ g.bytes = w.group.bytes + line.size /\ g = [rows |-> new, bytes |-> g.bytes]
  BY DEF PushLine
<1>3. w.group.bytes = BytesOf(old) /\ BytesOf(old) \in Nat /\ line.size \in Nat
      /\ BytesOf(new) = BytesOf(old) + line.size
  BY <1>1, BytesUnfolds DEF GoodGroup, Row, Line
<1>4. [w EXCEPT !.group = PushLine(@, line)] = p
  BY DEF PushLine
<1>5. p.done = w.done /\ p.group = g
  OBVIOUS
<1> HIDE DEF new, g, n
<1>6. g \in Group
  BY <1>1, <1>2, <1>3 DEF Group
<1>7. p \in [done : Seq(Seq(Row)), group : Group]
  BY <1>6
<1> HIDE DEF p, old
<1>8. Fits(new)
  <2>1. CASE n = 0
    <3>1. old = << >>
      BY <1>1, <2>1 DEF IsEmptyGroup, old
    <3>2. BytesOf(old) = 0
      BY <3>1, BytesUnfolds
    <3> QED
      BY <1>1, <1>3, <2>1, <3>2, BlockOptionsAssumption DEF Fits
  <2>2. CASE n # 0
    <3>1. n + 1 <= MaxRowsPerBlock /\ w.group.bytes + line.size <= MaxBytesPerBlock
      BY <1>1, <1>3, <2>2, BlockOptionsAssumption DEF WouldExceed, old, n
    <3> QED
      BY <1>1, <1>3, <3>1, BlockOptionsAssumption DEF Fits
  <2> QED
    BY <2>1, <2>2
<1>9. GoodGroup(g) /\ ~IsEmptyGroup(g)
  BY <1>1, <1>2, <1>3, <1>6, <1>8 DEF GoodGroup, IsEmptyGroup
<1>10. FollowsOnGroups(w.done, g)
  <2>1. CASE n = 0
    <3>1. new[1] = line
      BY <1>1, <2>1 DEF new, n
    <3> QED
      BY <1>1, <1>2, <1>9, <2>1, <3>1 DEF FollowsOnGroups
  <2>2. CASE n # 0
    <3>1. new[1] = old[1]
      BY <1>1, <2>2 DEF new, n
    <3> QED
      BY <1>1, <1>2, <1>9, <2>2, <3>1 DEF FollowsOnGroups, old
  <2> QED
    BY <2>1, <2>2
<1>11. HoldsRows(p, Append(rows, line))
  <2> DEFINE flat == FlattenSeq(w.done)
             more == Append(rows, line)
  <2>1. flat \in Seq(Row) /\ flat \o old = rows
    BY FlattenUnfolds DEF HoldsRows, old
  <2>2. flat \o new = more
    <3> HIDE DEF flat
    <3>1. flat \o Append(old, line) = Append(flat \o old, line)
      BY ONLY <1>1, <2>1
    <3> QED
      BY <2>1, <3>1 DEF new
  <2>3. IsEncodable(more) <=> IsEncodable(rows) /\ line.kind # "bad"
    BY EncodableAppend
  <2>4. IsEncodable(new) <=> IsEncodable(old) /\ line.kind # "bad"
    BY <1>1, EncodableAppend DEF new
  <2>5. IsEncodable(rows) <=>
            (\A i \in DOMAIN w.done : IsEncodable(w.done[i])) /\ IsEncodable(old)
    BY DEF HoldsRows, old
  <2> HIDE DEF flat, more
  <2> QED
    BY <1>2, <1>5, <2>2, <2>3, <2>4, <2>5 DEF HoldsRows, flat, more
<1> QED
  BY <1>4, <1>5, <1>7, <1>9, <1>10, <1>11 DEF g

(* One line more. *)
LEMMA WriteKeepsCut ==
    ASSUME NEW w, NEW rows, CutSoFar(w, rows),
           NEW line \in Line, line.kind # "reject",
           line \in Row => line.size \in 1..MaxBytesPerBlock
    PROVE  CutSoFar(WriteLine(w, line), KeepRow(rows, line))
<1> DEFINE room == IF WouldExceed(w.group, line) THEN FlushBlock(w) ELSE w
           p == [room EXCEPT !.group = PushLine(@, line)]
           more == Append(rows, line)
<1>1. WriteLine(w, line) = IF line.kind = "blank" THEN w
                           ELSE IF ReachedLimit(p.group) THEN FlushBlock(p) ELSE p
  BY Zenon DEF WriteLine
<1>2. CASE line.kind = "blank"
  <2>1. KeepRow(rows, line) = rows
    BY <1>2 DEF KeepRow
  <2> HIDE DEF p
  <2> QED
    BY <1>1, <1>2, <2>1
<1>3. CASE line.kind # "blank"
  <2>1. line \in Row /\ KeepRow(rows, line) = more /\ line.size \in 1..MaxBytesPerBlock
    BY <1>3 DEF Line, LineKinds, Row, KeepRow
  <2>2. /\ w \in [done : Seq(Seq(Row)), group : Group] /\ rows \in Seq(Row)
        /\ GoodGroups(w.done) /\ GoodGroup(w.group)
        /\ FollowsOnGroups(w.done, w.group) /\ HoldsRows(w, rows)
    BY DEF CutSoFar
  <2>3. more \in Seq(Row)
    BY <2>1, <2>2
  <2> HIDE DEF p, more
  <2>4. /\ room \in [done : Seq(Seq(Row)), group : Group]
        /\ GoodGroups(room.done) /\ GoodGroup(room.group) /\ HoldsRows(room, rows)
        /\ ~WouldExceed(room.group, line)
        /\ room.done # << >> =>
               IF IsEmptyGroup(room.group) THEN IsFullFor(room.done[Len(room.done)], line)
               ELSE IsFullFor(room.done[Len(room.done)], room.group.rows[1])
    <3>1. CASE WouldExceed(w.group, line)
      <4>1. ~IsEmptyGroup(w.group) /\ Fits(w.group.rows) /\ w.group.bytes = BytesOf(w.group.rows)
        BY <2>2, <3>1 DEF WouldExceed, GoodGroup
      <4>2. IsFullFor(w.group.rows, line)
        <5>1. Len(w.group.rows) \in Nat /\ Len(w.group.rows) <= MaxRowsPerBlock
          BY <4>1 DEF Fits
        <5> QED
          BY <3>1, <4>1, <5>1, BlockOptionsAssumption DEF WouldExceed, IsFullFor
      <4> DEFINE f == FlushBlock(w)
      <4>3. /\ f \in [done : Seq(Seq(Row)), group : Group]
            /\ GoodGroups(f.done) /\ GoodGroup(f.group) /\ IsEmptyGroup(f.group)
            /\ f.done[Len(f.done)] = w.group.rows
            /\ HoldsRows(f, rows)
        BY <2>2, <4>1, FlushKeepsCut
      <4>4. room = f
        BY <3>1
      <4> HIDE DEF room, f
      <4>5. ~WouldExceed(f.group, line)
        BY <4>3 DEF WouldExceed
      <4> QED
        BY <4>2, <4>3, <4>4, <4>5
    <3>2. CASE ~WouldExceed(w.group, line)
      <4>1. room = w
        BY <3>2
      <4>2. ASSUME w.done # << >>, IsEmptyGroup(w.group)
            PROVE  IsFullFor(w.done[Len(w.done)], line)
        <5>1. Len(w.done) \in DOMAIN w.done
          BY <2>2, <4>2
        <5>2. Fits(w.done[Len(w.done)]) /\ AtLimit(w.done[Len(w.done)])
          BY <2>2, <4>2, <5>1 DEF GoodGroups, FollowsOnGroups
        <5> DEFINE last == w.done[Len(w.done)]
        <5>3. last \in Seq(Row) /\ Len(last) \in Nat /\ BytesOf(last) \in Nat
          BY <5>2, BytesUnfolds DEF Fits
        <5> HIDE DEF last
        <5>4. Fits(last) /\ AtLimit(last)
          BY <5>2 DEF last
        <5> QED
          BY <2>1, <5>3, <5>4, BlockOptionsAssumption DEF Fits, AtLimit, IsFullFor, last
      <4>3. ASSUME w.done # << >>, ~IsEmptyGroup(w.group)
            PROVE  IsFullFor(w.done[Len(w.done)], w.group.rows[1])
        BY <2>2, <4>3 DEF FollowsOnGroups
      <4> HIDE DEF room
      <4> QED
        BY <2>2, <3>2, <4>1, <4>2, <4>3
    <3> QED
      BY <3>1, <3>2
  <2> HIDE DEF room
  <2>5. /\ p \in [done : Seq(Seq(Row)), group : Group]
        /\ p.done = room.done /\ p.group = PushLine(room.group, line)
        /\ GoodGroup(p.group) /\ ~IsEmptyGroup(p.group)
        /\ FollowsOnGroups(p.done, p.group)
        /\ HoldsRows(p, more)
    BY <2>1, <2>2, <2>4, PushKeepsCut DEF p, more
  <2>6. GoodGroups(p.done)
    BY <2>4, <2>5
  <2>7. CASE ReachedLimit(p.group)
    <3> DEFINE f == FlushBlock(p)
    <3>1. /\ f \in [done : Seq(Seq(Row)), group : Group]
          /\ GoodGroups(f.done) /\ GoodGroup(f.group) /\ IsEmptyGroup(f.group)
          /\ f.done[Len(f.done)] = p.group.rows
          /\ HoldsRows(f, more)
      BY <2>3, <2>5, <2>6, FlushKeepsCut
    <3>2. AtLimit(p.group.rows)
      BY <2>5, <2>7 DEF ReachedLimit, AtLimit, GoodGroup
    <3>3. WriteLine(w, line) = f
      BY <1>1, <1>3, <2>7
    <3> HIDE DEF f
    <3>4. FollowsOnGroups(f.done, f.group)
      BY <3>1, <3>2 DEF FollowsOnGroups
    <3> QED
      BY <2>1, <2>3, <3>1, <3>3, <3>4 DEF CutSoFar
  <2>8. CASE ~ReachedLimit(p.group)
    <3>1. WriteLine(w, line) = p
      BY <1>1, <1>3, <2>8
    <3> QED
      BY <2>1, <2>3, <2>5, <2>6, <3>1 DEF CutSoFar
  <2> QED
    BY <2>7, <2>8
<1> QED
  BY <1>2, <1>3

(* The writer after the first k lines. *)
LEMMA LineByLine ==
    ASSUME NEW lines \in Seq(Line)
    PROVE  /\ WriterAfter(SubSeq(lines, 1, 0)) = EmptyWriter
           /\ RowsOf(SubSeq(lines, 1, 0)) = << >>
           /\ \A k \in 0..Len(lines) - 1 :
                  /\ WriterAfter(SubSeq(lines, 1, k + 1))
                         = WriteLine(WriterAfter(SubSeq(lines, 1, k)), lines[k + 1])
                  /\ RowsOf(SubSeq(lines, 1, k + 1))
                         = KeepRow(RowsOf(SubSeq(lines, 1, k)), lines[k + 1])
<1>1. SubSeq(lines, 1, 0) = << >>
  OBVIOUS
<1>2. ASSUME NEW k \in 0..Len(lines) - 1
      PROVE  /\ WriterAfter(SubSeq(lines, 1, k + 1))
                    = WriteLine(WriterAfter(SubSeq(lines, 1, k)), lines[k + 1])
             /\ RowsOf(SubSeq(lines, 1, k + 1))
                    = KeepRow(RowsOf(SubSeq(lines, 1, k)), lines[k + 1])
  <2> DEFINE old == SubSeq(lines, 1, k)
             new == SubSeq(lines, 1, k + 1)
             c == lines[k + 1]
  <2>1. old \in Seq(Line) /\ c \in Line /\ new = Append(old, c)
    OBVIOUS
  <2> HIDE DEF old, new, c
  <2>2. WriterAfter(new) = WriteLine(WriterAfter(old), c)
    BY <2>1, WriterUnfolds
  <2>3. RowsOf(new) = KeepRow(RowsOf(old), c)
    BY <2>1, RowsUnfolds
  <2> QED
    BY <2>2, <2>3 DEF old, new, c
<1> QED
  BY <1>1, <1>2, WriterUnfolds, RowsUnfolds

LEMMA NothingCut == CutSoFar(EmptyWriter, << >>)
<1> DEFINE none == << >>
<1>1. EmptyWriter = [done |-> none, group |-> EmptyGroup]
  BY DEF EmptyWriter
<1>2. none \in Seq(Row) /\ none \in Seq(Seq(Row)) /\ DOMAIN none = {}
  OBVIOUS
<1>3. BytesOf(none) = 0 /\ FlattenSeq(none) = none
  BY BytesUnfolds, FlattenUnfolds
<1>4. EmptyGroup = [rows |-> none, bytes |-> 0]
  BY DEF EmptyGroup
<1>5. none \o none = none
  BY <1>2, NoElements
<1> HIDE DEF none
<1>6. EmptyGroup \in Group /\ EmptyGroup.rows = none /\ EmptyGroup.bytes = 0
  BY <1>2, <1>4 DEF Group
<1>7. /\ EmptyWriter.done = none /\ EmptyWriter.group = EmptyGroup
      /\ EmptyWriter \in [done : Seq(Seq(Row)), group : Group]
  BY <1>1, <1>2, <1>6
<1>8. GoodGroups(none) /\ IsEncodable(none)
  BY <1>2 DEF GoodGroups, IsEncodable
<1>9. GoodGroup(EmptyGroup) /\ FollowsOnGroups(none, EmptyGroup)
  BY <1>3, <1>6 DEF GoodGroup, IsEmptyGroup, FollowsOnGroups, none
<1>10. HoldsRows(EmptyWriter, none)
  BY <1>2, <1>3, <1>5, <1>6, <1>7, <1>8 DEF HoldsRows
<1> QED
  BY <1>2, <1>7, <1>8, <1>9, <1>10 DEF CutSoFar, none

(* Lines a writer gets: none is rejected, and a row is never too long.      *)
Acceptable(lines, k) ==
    \A i \in 1..k : /\ lines[i].kind # "reject"
                    /\ lines[i] \in Row => lines[i].size \in 1..MaxBytesPerBlock

LEMMA CutAfter ==
    ASSUME NEW lines \in Seq(Line), NEW n \in 0..Len(lines), Acceptable(lines, n)
    PROVE  CutSoFar(WriterAfter(SubSeq(lines, 1, n)), RowsOf(SubSeq(lines, 1, n)))
<1> DEFINE good == {k \in 0..n : CutSoFar(WriterAfter(SubSeq(lines, 1, k)),
                                          RowsOf(SubSeq(lines, 1, k)))}
<1>1. 0 \in good
  <2> DEFINE none == << >>
  <2>1. CutSoFar(EmptyWriter, none)
    BY NothingCut
  <2>2. 0 \in 0..n
    OBVIOUS
  <2> QED
    BY <2>1, <2>2, LineByLine
<1>2. ASSUME NEW k \in 0..n - 1, k \in good
      PROVE  k + 1 \in good
  <2>1. k \in 0..Len(lines) - 1 /\ k + 1 \in 1..n /\ k + 1 \in 0..n /\ k + 1 \in 1..Len(lines)
    OBVIOUS
  <2> DEFINE c == lines[k + 1]
             w == WriterAfter(SubSeq(lines, 1, k))
             rows == RowsOf(SubSeq(lines, 1, k))
  <2>2. c \in Line /\ c.kind # "reject" /\ (c \in Row => c.size \in 1..MaxBytesPerBlock)
    BY <2>1 DEF Acceptable
  <2>3. CutSoFar(w, rows)
    BY <1>2
  <2>4. /\ WriterAfter(SubSeq(lines, 1, k + 1)) = WriteLine(w, c)
        /\ RowsOf(SubSeq(lines, 1, k + 1)) = KeepRow(rows, c)
    BY <2>1, LineByLine
  <2> HIDE DEF c, w, rows
  <2>5. CutSoFar(WriteLine(w, c), KeepRow(rows, c))
    BY <2>2, <2>3, WriteKeepsCut
  <2> QED
    BY <2>1, <2>4, <2>5
<1>3. 0..n \subseteq good
  <2> HIDE DEF good
  <2> QED
    BY <1>1, <1>2, Induction
<1>4. n \in 0..n
  OBVIOUS
<1> QED
  BY <1>3, <1>4

-----------------------------------------------------------------------------
(* The cut of a whole input. *)

LEMMA FlushedCut ==
    ASSUME NEW w, NEW rows, CutSoFar(w, rows)
    PROVE  /\ FlushBlock(w).done \in Seq(Seq(Row))
           /\ IsGreedyCut(FlushBlock(w).done, rows)
           /\ IsEncodable(rows) <=>
                  \A i \in DOMAIN FlushBlock(w).done : IsEncodable(FlushBlock(w).done[i])
<1> DEFINE f == FlushBlock(w)
<1>1. /\ w \in [done : Seq(Seq(Row)), group : Group] /\ rows \in Seq(Row)
      /\ GoodGroups(w.done) /\ GoodGroup(w.group)
      /\ FollowsOnGroups(w.done, w.group) /\ HoldsRows(w, rows)
  BY DEF CutSoFar
<1>2. /\ f \in [done : Seq(Seq(Row)), group : Group]
      /\ GoodGroups(f.done) /\ IsEmptyGroup(f.group) /\ HoldsRows(f, rows)
  <2>1. CASE IsEmptyGroup(w.group)
    <3>1. f = w
      BY <2>1 DEF FlushBlock
    <3> HIDE DEF f
    <3> QED
      BY <1>1, <2>1, <3>1
  <2>2. CASE ~IsEmptyGroup(w.group)
    BY <1>1, <2>2, FlushKeepsCut
  <2> QED
    BY <2>1, <2>2
<1> HIDE DEF f
<1>3. FlattenSeq(f.done) = rows
  <2>1. FlattenSeq(f.done) \in Seq(Row)
    BY <1>2, FlattenUnfolds
  <2>2. FlattenSeq(f.done) \o << >> = rows
    BY <1>2 DEF HoldsRows, IsEmptyGroup
  <2> QED
    BY <2>1, <2>2, NoElements
<1>4. IsGreedyCut(f.done, rows)
  BY <1>2, <1>3 DEF GoodGroups, Fits, IsFullFor, IsGreedyCut
<1>5. IsEncodable(f.group.rows)
  BY <1>2 DEF IsEmptyGroup, IsEncodable
<1> QED
  BY <1>2, <1>4, <1>5 DEF HoldsRows, f

(* What is read of an input: everything up to the first line that is        *)
(* rejected.                                                                *)
LEMMA LinesRead ==
    ASSUME NEW lines \in Seq(Line)
    PROVE  \E n \in 0..Len(lines) :
               /\ ReadableLines(lines) = SubSeq(lines, 1, n)
               /\ \A i \in 1..n : lines[i].kind # "reject"
               /\ n < Len(lines) => lines[n + 1].kind = "reject"
               /\ n = Len(lines) <=> Rejects(lines) = {}
<1> DEFINE N == Len(lines)
           accepted == {n \in 0..N : \A i \in Rejects(lines) : n < i}
           most == CHOOSE n \in accepted : \A m \in accepted : m <= n
<1>1. N \in Nat /\ \A i : i \in Rejects(lines) <=> i \in 1..N /\ lines[i].kind = "reject"
  BY DEF Rejects
<1>2. ReadableLines(lines) = SubSeq(lines, 1, most)
  BY Zenon DEF ReadableLines
<1>3. ASSUME NEW n \in 0..N, \A i \in 1..n : lines[i].kind # "reject",
             n < N => lines[n + 1].kind = "reject"
      PROVE  most = n
  <2>1. n \in accepted
    BY <1>1, <1>3
  <2>2. ASSUME NEW m \in accepted
        PROVE  m <= n
    <3>1. m \in 0..N /\ \A i \in Rejects(lines) : m < i
      OBVIOUS
    <3>2. CASE n < N
      <4>1. n + 1 \in Rejects(lines)
        BY <1>1, <1>3, <3>2
      <4>2. m < n + 1
        BY <3>1, <4>1
      <4> QED
        BY <3>1, <4>2
    <3>3. CASE n = N
      BY <3>1, <3>3
    <3> QED
      BY <1>1, <3>2, <3>3
  <2>3. most \in accepted /\ \A m \in accepted : m <= most
    <3> HIDE DEF accepted
    <3> QED
      BY <2>1, <2>2, Zenon
  <2>4. most <= n /\ n <= most /\ most \in Nat /\ n \in Nat
    <3>1. most \in Nat
      BY <2>3
    <3> HIDE DEF most, accepted
    <3> QED
      BY <2>1, <2>2, <2>3, <3>1
  <2> HIDE DEF most
  <2> QED
    BY <2>4
<1> HIDE DEF most
<1>4. CASE Rejects(lines) = {}
  <2>1. N \in 0..N /\ (\A i \in 1..N : lines[i].kind # "reject")
    BY <1>1, <1>4
  <2>2. most = N
    BY <1>1, <1>3, <2>1
  <2> QED
    BY <1>1, <1>2, <1>4, <2>1, <2>2
<1>5. CASE Rejects(lines) # {}
  <2>1. Rejects(lines) \subseteq Nat
    BY <1>1
  <2>2. PICK r \in Rejects(lines) : \A i \in Rejects(lines) : r <= i
    BY <1>5, <2>1, LeastNatural
  <2> DEFINE n == r - 1
  <2>3. n \in 0..N /\ n < N /\ n + 1 = r /\ r \in 1..N /\ lines[r].kind = "reject"
    BY <1>1
  <2>4. \A i \in 1..n : lines[i].kind # "reject"
    <3> SUFFICES ASSUME NEW i \in 1..n, lines[i].kind = "reject"
                 PROVE  FALSE
      OBVIOUS
    <3>1. i \in 1..N /\ i < r
      BY <2>3
    <3>2. i \in Rejects(lines)
      BY <1>1, <3>1
    <3> QED
      BY <2>2, <2>3, <3>1, <3>2
  <2> HIDE DEF n
  <2>5. lines[n + 1].kind = "reject"
    BY <2>3
  <2>6. most = n
    BY <1>3, <2>3, <2>4, <2>5
  <2> QED
    BY <1>1, <1>2, <1>5, <2>3, <2>4, <2>5, <2>6
<1> QED
  BY <1>4, <1>5

(* The sequential writer cuts greedily: for every input without a rejected  *)
(* line the groups of RowGroupBuffer are, end to end, the rows of the input,*)
(* each within both limits, and none could have taken one row more.         *)
THEOREM SequentialCutIsGreedy ==
    \A lines \in Seq(Line) :
        Acceptable(lines, Len(lines)) =>
            IsGreedyCut(SequentialGroups(lines), RowsOf(lines))
<1> SUFFICES ASSUME NEW lines \in Seq(Line), Acceptable(lines, Len(lines))
             PROVE  IsGreedyCut(SequentialGroups(lines), RowsOf(lines))
  OBVIOUS
<1> DEFINE n == Len(lines)
<1>1. n \in 0..Len(lines) /\ SubSeq(lines, 1, n) = lines
  OBVIOUS
<1>2. Rejects(lines) = {}
  BY DEF Rejects, Acceptable
<1>3. ReadableLines(lines) = lines
  BY <1>1, <1>2, LinesRead
<1>4. CutSoFar(WriterAfter(lines), RowsOf(lines))
  <2> HIDE DEF n
  <2>1. CutSoFar(WriterAfter(SubSeq(lines, 1, n)), RowsOf(SubSeq(lines, 1, n)))
    BY <1>1, CutAfter DEF n
  <2> QED
    BY <1>1, <2>1
<1>5. SequentialGroups(lines) = FlushBlock(WriterAfter(lines)).done
  BY <1>2, <1>3 DEF SequentialGroups
<1> QED
  BY <1>4, <1>5, FlushedCut

(* The groups flushed early stay the first ones. *)
StartsWith(s, p) == Len(p) <= Len(s) /\ \A i \in 1..Len(p) : s[i] = p[i]

LEMMA FlushGrows ==
    ASSUME NEW w \in Writer
    PROVE  FlushBlock(w) \in Writer /\ StartsWith(FlushBlock(w).done, w.done)
<1>1. CASE IsEmptyGroup(w.group)
  <2>1. FlushBlock(w) = w
    BY <1>1 DEF FlushBlock
  <2>2. Len(w.done) \in Nat
    BY DEF Writer
  <2> QED
    BY <2>1, <2>2 DEF StartsWith
<1>2. CASE ~IsEmptyGroup(w.group)
  <2> DEFINE d == Append(w.done, w.group.rows)
  <2>1. FlushBlock(w) = [done |-> d, group |-> EmptyGroup]
    BY <1>2 DEF FlushBlock
  <2>2. w.done \in Seq(Seq(Line)) /\ w.group.rows \in Seq(Line)
    BY DEF Writer
  <2>3. /\ d \in Seq(Seq(Line)) /\ Len(w.done) <= Len(d)
        /\ \A i \in 1..Len(w.done) : d[i] = w.done[i]
    BY <2>2
  <2>4. EmptyGroup \in [rows : Seq(Line), bytes : Nat]
    BY DEF EmptyGroup
  <2> HIDE DEF d
  <2> QED
    BY <2>1, <2>3, <2>4 DEF Writer, StartsWith
<1> QED
  BY <1>1, <1>2

LEMMA StartsTransitively ==
    ASSUME NEW X, NEW a \in Seq(X), NEW b \in Seq(X), NEW c \in Seq(X),
           StartsWith(b, a), StartsWith(c, b)
    PROVE  StartsWith(c, a)
<1>1. Len(a) \in Nat /\ Len(b) \in Nat /\ Len(c) \in Nat
  OBVIOUS
<1>2. \A i \in 1..Len(a) : i \in 1..Len(b)
  BY <1>1 DEF StartsWith
<1> QED
  BY <1>1, <1>2 DEF StartsWith

LEMMA WriteGrows ==
    ASSUME NEW w \in Writer, NEW line \in Line
    PROVE  WriteLine(w, line) \in Writer /\ StartsWith(WriteLine(w, line).done, w.done)
<1> DEFINE room == IF WouldExceed(w.group, line) THEN FlushBlock(w) ELSE w
           p == [room EXCEPT !.group = PushLine(@, line)]
<1>1. WriteLine(w, line) = IF line.kind = "blank" THEN w
                           ELSE IF ReachedLimit(p.group) THEN FlushBlock(p) ELSE p
  BY Zenon DEF WriteLine
<1>2. StartsWith(w.done, w.done) /\ w.done \in Seq(Seq(Line))
  BY DEF StartsWith, Writer
<1>3. room \in Writer /\ StartsWith(room.done, w.done) /\ room.done \in Seq(Seq(Line))
  <2>1. room \in Writer /\ StartsWith(room.done, w.done)
    BY <1>2, FlushGrows
  <2> HIDE DEF room
  <2> QED
    BY <2>1 DEF Writer
<1>4. p \in Writer /\ p.done = room.done
  <2> DEFINE g == PushLine(room.group, line)
  <2> HIDE DEF room
  <2>1. g \in [rows : Seq(Line), bytes : Nat]
    BY <1>3 DEF Writer, PushLine, Line
  <2>2. p = [room EXCEPT !.group = g]
    BY DEF PushLine
  <2> HIDE DEF g, p
  <2> QED
    BY <1>3, <2>1, <2>2 DEF Writer
<1> HIDE DEF p, room
<1>5. FlushBlock(p) \in Writer /\ StartsWith(FlushBlock(p).done, p.done)
  BY <1>4, FlushGrows
<1>6. FlushBlock(p).done \in Seq(Seq(Line))
  BY <1>5 DEF Writer
<1>7. StartsWith(FlushBlock(p).done, w.done)
  BY <1>2, <1>3, <1>4, <1>5, <1>6, StartsTransitively
<1> QED
  BY <1>1, <1>2, <1>3, <1>4, <1>5, <1>7

(* Whatever the writer has flushed after some lines it reads, it has flushed*)
(* at the end, as its first groups.                                         *)
LEMMA GroupsGrow ==
    ASSUME NEW lines \in Seq(Line), NEW k \in 0..Len(lines),
           \A i \in 1..k : lines[i].kind # "reject"
    PROVE  StartsWith(SequentialGroups(lines), WriterAfter(SubSeq(lines, 1, k)).done)
<1> DEFINE W(j) == WriterAfter(SubSeq(lines, 1, j))
<1>1. ASSUME NEW j \in 0..Len(lines)
      PROVE  W(j) \in Writer /\ W(j).done \in Seq(Seq(Line))
  <2>1. SubSeq(lines, 1, j) \in Seq(Line)
    OBVIOUS
  <2>2. W(j) \in Writer
    BY <2>1, WriterUnfolds
  <2> QED
    BY <2>2 DEF Writer
<1>2. ASSUME NEW j \in 0..Len(lines) - 1
      PROVE  StartsWith(W(j + 1).done, W(j).done)
  <2>1. j \in 0..Len(lines) /\ j + 1 \in 1..Len(lines)
    OBVIOUS
  <2>2. lines[j + 1] \in Line /\ W(j) \in Writer
    BY <1>1, <2>1
  <2>3. W(j + 1) = WriteLine(W(j), lines[j + 1])
    BY LineByLine
  <2> HIDE DEF W
  <2> QED
    BY <2>2, <2>3, WriteGrows
<1>3. PICK n \in 0..Len(lines) :
          /\ ReadableLines(lines) = SubSeq(lines, 1, n)
          /\ n < Len(lines) => lines[n + 1].kind = "reject"
  BY LinesRead
<1>4. k <= n
  <2> SUFFICES ASSUME n < k
               PROVE  FALSE
    OBVIOUS
  <2>1. n + 1 \in 1..k /\ n < Len(lines)
    OBVIOUS
  <2> QED
    BY <1>3, <2>1
<1> HIDE DEF W
<1> DEFINE later == {d \in Nat : k + d <= n => StartsWith(W(k + d).done, W(k).done)}
           m == n - k
<1>5. m \in Nat /\ k + m = n /\ m \in 0..m
  BY <1>4
<1>6. 0 \in later
  <2>1. StartsWith(W(k).done, W(k).done) /\ k + 0 = k
    BY <1>1 DEF StartsWith
  <2> QED
    BY <2>1
<1>7. ASSUME NEW d \in 0..m - 1, d \in later
      PROVE  d + 1 \in later
  <2> DEFINE j == k + d
  <2>1. j \in 0..Len(lines) - 1 /\ j \in 0..Len(lines) /\ j + 1 \in 0..Len(lines)
        /\ j + 1 = k + (d + 1) /\ j <= n /\ d + 1 \in Nat
    BY <1>5
  <2>2. StartsWith(W(j).done, W(k).done)
    BY <1>7, <2>1
  <2> HIDE DEF j
  <2>3. StartsWith(W(j + 1).done, W(j).done)
    BY <1>2, <2>1
  <2>4. StartsWith(W(j + 1).done, W(k).done)
    BY <1>1, <2>1, <2>2, <2>3, StartsTransitively
  <2> QED
    BY <2>1, <2>4
<1>8. StartsWith(W(n).done, W(k).done)
  <2> HIDE DEF later, m
  <2>1. 0..m \subseteq later
    BY <1>5, <1>6, <1>7, Induction
  <2>2. m \in later
    BY <1>5, <2>1
  <2>3. n <= n
    OBVIOUS
  <2> QED
    BY <1>5, <2>2, <2>3 DEF later
<1>9. SequentialGroups(lines) = IF Rejects(lines) = {} THEN FlushBlock(W(n)).done ELSE W(n).done
  BY <1>3, Zenon DEF SequentialGroups, W
<1>10. StartsWith(FlushBlock(W(n)).done, W(n).done) /\ FlushBlock(W(n)).done \in Seq(Seq(Line))
  <2>1. FlushBlock(W(n)) \in Writer /\ StartsWith(FlushBlock(W(n)).done, W(n).done)
    BY <1>1, FlushGrows
  <2> QED
    BY <2>1 DEF Writer
<1>11. StartsWith(FlushBlock(W(n)).done, W(k).done)
  BY <1>1, <1>8, <1>10, StartsTransitively
<1>12. StartsWith(SequentialGroups(lines), W(k).done)
  BY <1>8, <1>9, <1>11
<1> QED
  BY <1>12 DEF W

-----------------------------------------------------------------------------
(* The fold of DecodeCell, unfolded. *)

DecodeAll(base, cells) == FoldLeft(DecodeCell, base, cells)

LEMMA DecodeUnfolds ==
    ASSUME NEW base, NEW cells, NEW n \in Nat, DOMAIN cells = 1..n
    PROVE  \E t : /\ t[0] = base
                  /\ \A k \in 1..n : t[k] = DecodeCell(t[k - 1], cells[k])
                  /\ DecodeAll(base, cells) = t[n]
<1> DEFINE Step(f, s) == IF s = {} THEN base
                         ELSE DecodeCell(f[s \ {Max(s)}], cells[Max(s)])
           Solves(f, m) == f = [s \in SUBSET (1..m) |-> Step(f, s)]
           solved == {m \in Nat : \E f : Solves(f, m)}
<1>1. 0 \in solved
  <2> DEFINE f == [s \in SUBSET (1..0) |-> base]
  <2>1. \A s \in SUBSET (1..0) : s = {}
    OBVIOUS
  <2>2. Solves(f, 0)
    BY <2>1
  <2> QED
    BY <2>2
<1>2. ASSUME NEW m \in 0..n - 1, m \in solved
      PROVE  m + 1 \in solved
  <2>1. PICK f : Solves(f, m)
    BY <1>2
  <2> DEFINE g == [s \in SUBSET (1..m + 1) |->
                       IF m + 1 \in s THEN DecodeCell(f[s \ {m + 1}], cells[m + 1]) ELSE f[s]]
  <2>2. \A s \in SUBSET (1..m) : s \in SUBSET (1..m + 1) /\ g[s] = f[s]
    <3> SUFFICES ASSUME NEW s \in SUBSET (1..m)
                 PROVE  s \in SUBSET (1..m + 1) /\ g[s] = f[s]
      OBVIOUS
    <3>1. m + 1 \notin s /\ s \in SUBSET (1..m + 1)
      OBVIOUS
    <3> QED
      BY <3>1
  <2>3. ASSUME NEW s \in SUBSET (1..m + 1)
        PROVE  g[s] = Step(g, s)
    <3>1. CASE m + 1 \in s
      <4>1. Max(s) = m + 1 /\ s \ {m + 1} \in SUBSET (1..m) /\ s # {}
        BY <3>1, MaxIs
      <4>2. g[s] = DecodeCell(f[s \ {m + 1}], cells[m + 1])
        BY <3>1
      <4>3. g[s \ {m + 1}] = f[s \ {m + 1}]
        BY <2>2, <4>1
      <4> HIDE DEF g
      <4> QED
        BY <4>1, <4>2, <4>3
    <3>2. CASE m + 1 \notin s
      <4>1. s \in SUBSET (1..m)
        BY <3>2
      <4>2. g[s] = f[s] /\ f[s] = Step(f, s)
        BY <2>1, <2>2, <4>1
      <4>3. s \ {Max(s)} \in SUBSET (1..m)
        BY <4>1
      <4>4. g[s \ {Max(s)}] = f[s \ {Max(s)}]
        BY <2>2, <4>3
      <4> HIDE DEF g
      <4> QED
        BY <4>2, <4>4
    <3> QED
      BY <3>1, <3>2
  <2>4. Solves(g, m + 1)
    <3> DEFINE h == [s \in SUBSET (1..m + 1) |-> Step(g, s)]
    <3>1. DOMAIN g = SUBSET (1..m + 1) /\ g = [s \in DOMAIN g |-> g[s]]
      OBVIOUS
    <3> HIDE DEF g
    <3>2. g = h
      BY <2>3, <3>1
    <3> QED
      BY <3>2
  <2>5. m + 1 \in Nat
    OBVIOUS
  <2> HIDE DEF g, Solves
  <2> QED
    BY <2>4, <2>5
<1>3. n \in solved
  <2> HIDE DEF solved
  <2>1. 0..n \subseteq solved
    BY <1>1, <1>2, Induction
  <2>2. n \in 0..n
    OBVIOUS
  <2> QED
    BY <2>1, <2>2
<1> DEFINE iter == CHOOSE f : Solves(f, n)
<1>4. Solves(iter, n)
  <2>1. \E f : Solves(f, n)
    BY <1>3
  <2> HIDE DEF Solves
  <2> QED
    BY <2>1, Zenon
<1>5. DecodeAll(base, cells) = iter[1..n]
  BY Zenon DEF DecodeAll, FoldLeft, MapThenFoldSet
<1> HIDE DEF iter
<1>6. iter[1..0] = base
  <2>1. {} \in SUBSET (1..n) /\ 1..0 = {}
    OBVIOUS
  <2>2. iter[{}] = Step(iter, {})
    BY <1>4, <2>1
  <2> QED
    BY <2>1, <2>2
<1>7. ASSUME NEW k \in 1..n
      PROVE  iter[1..k] = DecodeCell(iter[1..k - 1], cells[k])
  <2>1. 1..k \in SUBSET (1..n) /\ 1..k # {}
    <3>1. k \in 1..k /\ \A x \in 1..k : x \in 1..n
      OBVIOUS
    <3> QED
      BY <3>1
  <2>2. Max(1..k) = k /\ (1..k) \ {k} = 1..k - 1
    <3>1. 1..k \in SUBSET Nat /\ k \in 1..k /\ \A y \in 1..k : y <= k
      OBVIOUS
    <3>2. \A x : x \in (1..k) \ {k} <=> x \in 1..k - 1
      OBVIOUS
    <3> QED
      BY <3>1, <3>2, MaxIs
  <2>3. iter[1..k] = Step(iter, 1..k)
    <3> HIDE DEF Step
    <3> QED
      BY <1>4, <2>1
  <2> QED
    BY <2>1, <2>2, <2>3
<1> DEFINE t == [k \in 0..n |-> iter[1..k]]
<1>8. t[0] = base /\ t[n] = iter[1..n]
  BY <1>6
<1>9. ASSUME NEW k \in 1..n
      PROVE  t[k] = DecodeCell(t[k - 1], cells[k])
  BY <1>7
<1> HIDE DEF t
<1> QED
  BY <1>5, <1>8, <1>9

-----------------------------------------------------------------------------
(* The reader, cell by cell. *)

LEMMA ReaderUnfolds ==
    ASSUME NEW file \in Seq(Cell)
    PROVE  /\ ReaderAfter(file, 1) = ReaderStart
           /\ \A n \in 2..Len(file) :
                  ReaderAfter(file, n) = DecodeCell(ReaderAfter(file, n - 1), file[n])
<1> DEFINE Cells(n) == SubSeq(file, 2, n)
<1>1. ASSUME NEW n \in 1..Len(file)
      PROVE  /\ DOMAIN Cells(n) = 1..n - 1
             /\ \A i \in 1..n - 1 : Cells(n)[i] = file[i + 1]
  OBVIOUS
<1>2. ASSUME NEW n \in 1..Len(file)
      PROVE  \E t : /\ t[0] = ReaderStart
                    /\ \A k \in 1..n - 1 : t[k] = DecodeCell(t[k - 1], file[k + 1])
                    /\ ReaderAfter(file, n) = t[n - 1]
  <2>1. n - 1 \in Nat /\ DOMAIN Cells(n) = 1..n - 1
    BY <1>1
  <2> DEFINE cells == Cells(n)
             m == n - 1
  <2> HIDE DEF Cells, cells, m
  <2>2. PICK t : /\ t[0] = ReaderStart
                 /\ \A k \in 1..m : t[k] = DecodeCell(t[k - 1], cells[k])
                 /\ DecodeAll(ReaderStart, cells) = t[m]
    <3>1. m \in Nat /\ DOMAIN cells = 1..m
      BY <2>1 DEF m, cells
    <3> QED
      BY <3>1, DecodeUnfolds
  <2>3. ReaderAfter(file, n) = t[n - 1]
    BY <2>2, Zenon DEF ReaderAfter, DecodeAll, Cells, cells, m
  <2>4. \A k \in 1..n - 1 : t[k] = DecodeCell(t[k - 1], file[k + 1])
    BY <1>1, <2>2 DEF m, cells
  <2> QED
    BY <2>2, <2>3, <2>4
<1> HIDE DEF Cells
<1>3. ASSUME NEW n \in 2..Len(file)
      PROVE  ReaderAfter(file, n) = DecodeCell(ReaderAfter(file, n - 1), file[n])
  <2>1. n \in 1..Len(file) /\ n - 1 \in 1..Len(file) /\ n - 1 \in Nat /\ n - 2 \in Nat
    OBVIOUS
  <2>2. PICK t : /\ t[0] = ReaderStart
                 /\ \A k \in 1..n - 1 : t[k] = DecodeCell(t[k - 1], file[k + 1])
                 /\ ReaderAfter(file, n) = t[n - 1]
    BY <1>2, <2>1
  <2>3. PICK u : /\ u[0] = ReaderStart
                 /\ \A k \in 1..(n - 1) - 1 : u[k] = DecodeCell(u[k - 1], file[k + 1])
                 /\ ReaderAfter(file, n - 1) = u[(n - 1) - 1]
    BY <1>2, <2>1
  <2> DEFINE same == {k \in Nat : u[k] = t[k]}
  <2>4. 0 \in same
    BY <2>2, <2>3
  <2>5. ASSUME NEW k \in 0..(n - 2) - 1, k \in same
        PROVE  k + 1 \in same
    <3>1. k + 1 \in 1..n - 1 /\ k + 1 \in 1..(n - 1) - 1 /\ (k + 1) - 1 = k /\ k + 1 \in Nat
      BY <2>1
    <3>2. t[k + 1] = DecodeCell(t[k], file[(k + 1) + 1])
      BY <2>2, <3>1
    <3>3. u[k + 1] = DecodeCell(u[k], file[(k + 1) + 1])
      BY <2>3, <3>1
    <3> QED
      BY <2>5, <3>1, <3>2, <3>3
  <2>6. n - 2 \in same
    <3> HIDE DEF same
    <3>1. 0..n - 2 \subseteq same
      BY <2>1, <2>4, <2>5, Induction
    <3> QED
      BY <2>1, <3>1
  <2>7. (n - 1) - 1 = n - 2 /\ n - 1 \in 1..n - 1 /\ (n - 1) + 1 = n
    BY <2>1
  <2>8. t[n - 1] = DecodeCell(t[n - 2], file[n])
    BY <2>2, <2>7
  <2> QED
    BY <2>2, <2>3, <2>6, <2>7, <2>8
<1>4. ReaderAfter(file, 1) = ReaderStart
  <2> DEFINE cells == SubSeq(file, 2, 1)
  <2>1. DOMAIN cells = 1..0
    OBVIOUS
  <2> DEFINE m == 0
  <2> HIDE DEF cells, m
  <2>2. PICK t : t[0] = ReaderStart /\ DecodeAll(ReaderStart, cells) = t[m]
    <3>1. m \in Nat /\ DOMAIN cells = 1..m
      BY <2>1 DEF m
    <3> QED
      BY <3>1, DecodeUnfolds
  <2> QED
    BY <2>2, Zenon DEF ReaderAfter, DecodeAll, cells, m
<1> QED
  BY <1>3, <1>4

-----------------------------------------------------------------------------
(* The states of the reader. *)

Reader == [status : {"reading", "sealed", "error"}, entries : Seq(EntrySet),
           nextRow : Nat, nextOffset : Nat, rows : Seq(Row)]

LEMMA ReaderFailsIs ==
    ASSUME NEW r \in Reader
    PROVE  /\ ReaderFails(r) \in Reader
           /\ ReaderFails(r).status = "error"
           /\ ReaderFails(r).rows = r.rows
BY DEF ReaderFails, Reader

LEMMA TakeBlockIs ==
    ASSUME NEW r \in Reader, NEW b \in Block
    PROVE  /\ TakeBlock(r, b) \in Reader
           /\ TakeBlock(r, b).status = r.status
           /\ TakeBlock(r, b).entries = Append(r.entries, Entry(b, r.nextOffset))
           /\ TakeBlock(r, b).nextRow = r.nextRow + Len(b.rows)
           /\ TakeBlock(r, b).nextOffset = r.nextOffset + FrameLen(b)
           /\ TakeBlock(r, b).rows = r.rows \o b.rows
<1>1. /\ Entry(b, r.nextOffset) \in EntrySet
      /\ FrameLen(b) \in Nat /\ Len(b.rows) \in Nat /\ b.rows \in Seq(Row)
  BY DEF Reader, Entry, EntrySet, FrameLen, Block
<1>2. /\ Append(r.entries, Entry(b, r.nextOffset)) \in Seq(EntrySet)
      /\ r.rows \o b.rows \in Seq(Row)
  BY <1>1 DEF Reader
<1> DEFINE e == Append(r.entries, Entry(b, r.nextOffset))
           q == r.rows \o b.rows
           n == r.nextRow + Len(b.rows)
           o == r.nextOffset + FrameLen(b)
<1>3. TakeBlock(r, b) = [status |-> r.status, entries |-> e, nextRow |-> n,
                         nextOffset |-> o, rows |-> q]
  BY DEF TakeBlock
<1>4. /\ e \in Seq(EntrySet) /\ q \in Seq(Row) /\ n \in Nat /\ o \in Nat
      /\ r.status \in {"reading", "sealed", "error"}
  BY <1>1, <1>2 DEF Reader
<1> HIDE DEF e, q, n, o
<1>5. TakeBlock(r, b) \in Reader
  BY <1>3, <1>4 DEF Reader
<1>6. /\ TakeBlock(r, b).status = r.status
      /\ TakeBlock(r, b).entries = e
      /\ TakeBlock(r, b).nextRow = n
      /\ TakeBlock(r, b).nextOffset = o
      /\ TakeBlock(r, b).rows = q
  BY <1>3
<1> QED
  BY <1>5, <1>6 DEF e, q, n, o

(* What a cell can be. *)
LEMMA CellParts ==
    ASSUME NEW c \in Cell
    PROVE  /\ c.kind = "frame" => c.block \in Block /\ c = Frame(c.block)
           /\ c.kind = "footer" => c.index \in Seq(EntrySet) /\ c = Footer(c.index)
BY DEF Cell, Frame, Footer

(* The reader on one more cell. *)
LEMMA DecodeCellIs ==
    ASSUME NEW r \in Reader, NEW c \in Cell
    PROVE  /\ DecodeCell(r, c) \in Reader
           /\ (r.status = "reading" /\ c.kind = "frame"
                  /\ IsNextBlock(r, c.block) /\ DecodesToRawSize(c.block)) =>
                 DecodeCell(r, c) = TakeBlock(r, c.block)
           /\ (r.status = "reading" /\ c.kind = "footer"
                  /\ Len(c.index) <= MaxStreamBlocks /\ c.index = r.entries) =>
                 DecodeCell(r, c).status = "sealed"
           /\ DecodeCell(r, c).status = "reading" =>
                 /\ r.status = "reading" /\ c.kind = "frame"
                 /\ IsNextBlock(r, c.block) /\ DecodesToRawSize(c.block)
           /\ DecodeCell(r, c).status = "sealed" =>
                 /\ r.status = "reading" /\ c.kind = "footer"
                 /\ Len(c.index) <= MaxStreamBlocks /\ c.index = r.entries
           /\ \/ /\ c.kind = "frame" /\ DecodeCell(r, c).status = "reading"
                 /\ DecodeCell(r, c).rows = r.rows \o c.block.rows
              \/ DecodeCell(r, c).rows = r.rows
<1> DEFINE d == DecodeCell(r, c)
           takes == /\ c.kind = "frame" /\ IsNextBlock(r, c.block)
                    /\ DecodesToRawSize(c.block)
           seals == /\ c.kind = "footer" /\ Len(c.index) <= MaxStreamBlocks
                    /\ c.index = r.entries
<1>1. /\ ReaderFails(r) \in Reader /\ ReaderFails(r).status = "error"
      /\ ReaderFails(r).rows = r.rows
  BY ReaderFailsIs
<1>2. CASE r.status # "reading"
  <2>1. d = ReaderFails(r)
    BY <1>2 DEF DecodeCell
  <2> HIDE DEF d
  <2> QED
    BY <1>1, <1>2, <2>1 DEF d
<1>3. CASE r.status = "reading" /\ takes
  <2>1. d = TakeBlock(r, c.block)
    BY <1>3 DEF DecodeCell
  <2>2. c.block \in Block
    BY <1>3, CellParts
  <2>3. d \in Reader /\ d.status = "reading" /\ d.rows = r.rows \o c.block.rows
    BY <1>3, <2>1, <2>2, TakeBlockIs
  <2> HIDE DEF d
  <2> QED
    BY <1>3, <2>1, <2>3 DEF d
<1>4. CASE r.status = "reading" /\ seals
  <2>1. d = [r EXCEPT !.status = "sealed"]
    BY <1>4 DEF DecodeCell
  <2>2. d \in Reader /\ d.status = "sealed" /\ d.rows = r.rows
    BY <2>1 DEF Reader
  <2> HIDE DEF d
  <2> QED
    BY <1>4, <2>2 DEF d
<1>5. CASE r.status = "reading" /\ ~takes /\ ~seals
  <2>1. d = ReaderFails(r)
    BY <1>5 DEF DecodeCell
  <2> HIDE DEF d
  <2> QED
    BY <1>1, <1>5, <2>1 DEF d
<1> QED
  BY <1>2, <1>3, <1>4, <1>5

LEMMA CellReads ==
    ASSUME NEW r \in Reader, NEW c \in Cell, NEW d, d = DecodeCell(r, c),
           d.status = "reading"
    PROVE  /\ r.status = "reading" /\ c.kind = "frame"
           /\ IsNextBlock(r, c.block) /\ DecodesToRawSize(c.block)
           /\ d = TakeBlock(r, c.block)
BY DecodeCellIs, Zenon

LEMMA CellSeals ==
    ASSUME NEW r \in Reader, NEW c \in Cell, NEW d, d = DecodeCell(r, c),
           d.status = "sealed"
    PROVE  /\ r.status = "reading" /\ c.kind = "footer"
           /\ Len(c.index) <= MaxStreamBlocks /\ c.index = r.entries
BY DecodeCellIs, Zenon

LEMMA FooterSeals ==
    ASSUME NEW r \in Reader, NEW c \in Cell, r.status = "reading", c.kind = "footer",
           Len(c.index) <= MaxStreamBlocks, c.index = r.entries
    PROVE  DecodeCell(r, c).status = "sealed"
BY DecodeCellIs, Zenon

LEMMA ReaderType ==
    ASSUME NEW file \in Seq(Cell), NEW n \in 1..Len(file)
    PROVE  ReaderAfter(file, n) \in Reader
<1> DEFINE typed == {k \in Nat : ReaderAfter(file, k + 1) \in Reader}
<1>1. 0 \in typed
  <2>1. << >> \in Seq(EntrySet) /\ << >> \in Seq(Row)
    OBVIOUS
  <2>2. ReaderStart \in Reader
    BY <2>1 DEF ReaderStart, Reader, HeaderLen
  <2>3. 0 \in Nat /\ ReaderAfter(file, 0 + 1) = ReaderStart
    <3>1. 0 + 1 = 1
      OBVIOUS
    <3> QED
      BY <3>1, ReaderUnfolds
  <2> QED
    BY <2>2, <2>3
<1>2. ASSUME NEW k \in 0..(n - 1) - 1, k \in typed
      PROVE  k + 1 \in typed
  <2>1. /\ (k + 1) + 1 \in 2..Len(file) /\ ((k + 1) + 1) - 1 = k + 1
        /\ (k + 1) + 1 \in DOMAIN file
    OBVIOUS
  <2>2. ReaderAfter(file, (k + 1) + 1) =
            DecodeCell(ReaderAfter(file, k + 1), file[(k + 1) + 1])
    BY <2>1, ReaderUnfolds
  <2>3. file[(k + 1) + 1] \in Cell /\ k + 1 \in Nat
    BY <2>1
  <2> DEFINE r == ReaderAfter(file, k + 1)
             c == file[(k + 1) + 1]
  <2>4. r \in Reader /\ c \in Cell
    BY <1>2, <2>3
  <2> HIDE DEF r, c
  <2>5. DecodeCell(r, c) \in Reader
    BY <2>4, DecodeCellIs
  <2> QED
    BY <2>2, <2>3, <2>5 DEF r, c
<1>3. n - 1 \in typed
  <2> HIDE DEF typed
  <2>1. 0..n - 1 \subseteq typed /\ n - 1 \in 0..n - 1
    BY <1>1, <1>2, Induction
  <2> QED
    BY <2>1
<1>4. (n - 1) + 1 = n
  OBVIOUS
<1> QED
  BY <1>3, <1>4

(* The reader on the n-th cell of a file. *)
LEMMA ReaderStep ==
    ASSUME NEW file \in Seq(Cell), NEW n \in 2..Len(file)
    PROVE  /\ ReaderAfter(file, n) = DecodeCell(ReaderAfter(file, n - 1), file[n])
           /\ ReaderAfter(file, n - 1) \in Reader
           /\ file[n] \in Cell
<1>1. n - 1 \in 1..Len(file) /\ n \in DOMAIN file
  OBVIOUS
<1> QED
  BY <1>1, ReaderType, ReaderUnfolds

(* The rows decoded only grow. *)
LEMMA RowsOnlyGrow ==
    ASSUME NEW file \in Seq(Cell), NEW m \in 1..Len(file), NEW n \in m..Len(file)
    PROVE  /\ Len(ReaderAfter(file, m).rows) <= Len(ReaderAfter(file, n).rows)
           /\ \A i \in 1..Len(ReaderAfter(file, m).rows) :
                  ReaderAfter(file, n).rows[i] = ReaderAfter(file, m).rows[i]
<1> DEFINE Rows(k) == ReaderAfter(file, k).rows
           Extends(k) == /\ Len(Rows(m)) <= Len(Rows(k))
                         /\ \A i \in 1..Len(Rows(m)) : Rows(k)[i] = Rows(m)[i]
           grown == {k \in Nat : Extends(m + k)}
<1>1. ASSUME NEW k \in 1..Len(file)
      PROVE  Rows(k) \in Seq(Row)
  BY ReaderType DEF Reader
<1>2. 0 \in grown
  <2>1. m + 0 = m /\ Len(Rows(m)) <= Len(Rows(m))
    BY <1>1
  <2> HIDE DEF Rows
  <2> QED
    BY <2>1
<1>3. ASSUME NEW k \in 0..(n - m) - 1, k \in grown
      PROVE  k + 1 \in grown
  <2>1. /\ m + (k + 1) \in 2..Len(file) /\ (m + (k + 1)) - 1 = m + k
        /\ m + k \in 1..Len(file)
    OBVIOUS
  <2>2. PICK tail \in Seq(Row) : Rows(m + (k + 1)) = Rows(m + k) \o tail
    <3>1. /\ ReaderAfter(file, m + (k + 1)) =
                 DecodeCell(ReaderAfter(file, m + k), file[m + (k + 1)])
          /\ ReaderAfter(file, m + k) \in Reader /\ file[m + (k + 1)] \in Cell
      BY <2>1, ReaderStep
    <3> DEFINE r == ReaderAfter(file, m + k)
               c == file[m + (k + 1)]
               d == DecodeCell(r, c)
    <3>2. r \in Reader /\ c \in Cell
      BY <3>1
    <3> HIDE DEF r, c
    <3>3. \E tail \in Seq(Row) : d.rows = r.rows \o tail
      <4>1. CASE d.rows = r.rows
        <5>1. << >> \in Seq(Row) /\ r.rows \in Seq(Row)
          BY <3>2 DEF Reader
        <5>2. r.rows = r.rows \o << >>
          BY <5>1
        <5> HIDE DEF d
        <5> QED
          BY <4>1, <5>1, <5>2
      <4>2. CASE c.kind = "frame" /\ d.rows = r.rows \o c.block.rows
        <5>1. c.block.rows \in Seq(Row)
          BY <3>2, <4>2, CellParts DEF Block
        <5> HIDE DEF d
        <5> QED
          BY <4>2, <5>1
      <4> QED
        BY <3>2, <4>1, <4>2, DecodeCellIs
    <3> HIDE DEF d
    <3>4. ReaderAfter(file, m + (k + 1)) = d
      BY <3>1 DEF d, r, c
    <3> QED
      BY <3>3, <3>4 DEF r
  <2>3. Rows(m + k) \in Seq(Row) /\ Rows(m) \in Seq(Row) /\ Extends(m + k)
    BY <1>1, <1>3, <2>1
  <2> HIDE DEF Rows
  <2>4. Extends(m + (k + 1))
    BY <2>2, <2>3
  <2> QED
    BY <2>4
<1>4. n - m \in grown
  <2> HIDE DEF grown
  <2>1. n - m \in Nat /\ n - m \in 0..n - m
    OBVIOUS
  <2>2. 0..n - m \subseteq grown
    BY <1>2, <1>3, <2>1, Induction
  <2> QED
    BY <2>1, <2>2
<1>5. m + (n - m) = n
  OBVIOUS
<1> QED
  BY <1>4, <1>5
-----------------------------------------------------------------------------
(* A file the sequential reader takes: a header, frames that each follow on *)
(* what was read in front of them, and the footer that lists them.          *)
LEMMA DecodableFile ==
    ASSUME NEW file \in Seq(Cell), IsDecodable(file)
    PROVE  /\ file # << >> /\ file[1] = Header
           /\ Len(file) >= 2
           /\ \A n \in 1..Len(file) - 1 :
                  /\ ReaderAfter(file, n).status = "reading"
                  /\ Len(ReaderAfter(file, n).entries) = n - 1
           /\ \A n \in 2..Len(file) - 1 :
                  /\ file[n].kind = "frame"
                  /\ IsNextBlock(ReaderAfter(file, n - 1), file[n].block)
                  /\ DecodesToRawSize(file[n].block)
           /\ file[Len(file)].kind = "footer"
           /\ Len(file[Len(file)].index) <= MaxStreamBlocks
           /\ file[Len(file)].index = ReaderAfter(file, Len(file) - 1).entries
<1> DEFINE N == Len(file)
           R(n) == ReaderAfter(file, n)
<1>1. file # << >> /\ file[1] = Header
  <2>1. ReaderStart \in Reader
    <3>1. << >> \in Seq(EntrySet) /\ << >> \in Seq(Row)
      OBVIOUS
    <3> QED
      BY <3>1 DEF ReaderStart, Reader, HeaderLen
  <2>2. ReaderFails(ReaderStart).status = "error"
    BY <2>1, ReaderFailsIs
  <2> QED
    BY <2>2 DEF IsDecodable, SequentialDecode
<1>2. N \in Nat /\ N >= 1 /\ N \in 1..N
  BY <1>1
<1>3. R(N).status = "sealed"
  <2>1. R(N) \in Reader
    BY <1>2, ReaderType
  <2>2. ReaderFails(R(N)).status = "error"
    BY <2>1, ReaderFailsIs
  <2> QED
    BY <1>1, <2>2 DEF IsDecodable, SequentialDecode
<1>4. N >= 2
  <2>1. N = 1 => R(N) = ReaderStart
    BY ReaderUnfolds
  <2>2. ReaderStart.status = "reading"
    BY DEF ReaderStart
  <2> HIDE DEF R, N
  <2>3. N # 1
    BY <1>3, <2>1, <2>2
  <2> QED
    BY <1>2, <2>3
<1>5. /\ R(N - 1).status = "reading"
      /\ file[N].kind = "footer" /\ Len(file[N].index) <= MaxStreamBlocks
      /\ file[N].index = R(N - 1).entries
  <2>1. N \in 2..Len(file)
    BY <1>2, <1>4
  <2> DEFINE r == R(N - 1)
             c == file[N]
  <2>2. R(N) = DecodeCell(r, c) /\ r \in Reader /\ c \in Cell
    BY <2>1, ReaderStep
  <2> HIDE DEF r, c, R
  <2>3. /\ r.status = "reading" /\ c.kind = "footer"
        /\ Len(c.index) <= MaxStreamBlocks /\ c.index = r.entries
    BY <1>3, <2>2, CellSeals
  <2> QED
    BY <2>3 DEF r, c
<1>6. ASSUME NEW n \in 2..N, R(n).status = "reading"
      PROVE  /\ R(n - 1).status = "reading"
             /\ file[n].kind = "frame"
             /\ IsNextBlock(R(n - 1), file[n].block)
             /\ DecodesToRawSize(file[n].block)
             /\ Len(R(n).entries) = Len(R(n - 1).entries) + 1
  <2> DEFINE r == R(n - 1)
             c == file[n]
  <2>1. R(n) = DecodeCell(r, c) /\ r \in Reader /\ c \in Cell
    BY ReaderStep
  <2> HIDE DEF r, c, R
  <2>2. /\ r.status = "reading" /\ c.kind = "frame"
        /\ IsNextBlock(r, c.block) /\ DecodesToRawSize(c.block)
    BY <1>6, <2>1, CellReads
  <2>3. R(n) = TakeBlock(r, c.block) /\ c.block \in Block
    BY <1>6, <2>1, <2>2, CellReads, CellParts
  <2>4. R(n).entries = Append(r.entries, Entry(c.block, r.nextOffset))
    BY <2>1, <2>3, TakeBlockIs
  <2>5. r.entries \in Seq(EntrySet)
    BY <2>1 DEF Reader
  <2>6. Len(R(n).entries) = Len(r.entries) + 1
    BY <2>4, <2>5
  <2> QED
    BY <2>2, <2>6 DEF r, c
<1>7. ASSUME NEW n \in 1..N - 1
      PROVE  R(n).status = "reading"
  <2> DEFINE reads == {k \in Nat : R((N - 1) - k).status = "reading"}
             m == (N - 1) - n
  <2>1. 0 \in reads
    <3>1. (N - 1) - 0 = N - 1
      BY <1>2
    <3> QED
      BY <1>5, <3>1
  <2>2. ASSUME NEW k \in 0..m - 1, k \in reads
        PROVE  k + 1 \in reads
    <3>1. /\ (N - 1) - k \in 2..N /\ ((N - 1) - k) - 1 = (N - 1) - (k + 1)
          /\ k + 1 \in Nat
      BY <1>2
    <3> HIDE DEF R
    <3> QED
      BY <1>6, <2>2, <3>1
  <2>3. m \in Nat /\ (N - 1) - m = n /\ m \in 0..m
    BY <1>2
  <2> HIDE DEF reads, m
  <2>4. 0..m \subseteq reads
    BY <2>1, <2>2, <2>3, Induction
  <2> QED
    BY <2>3, <2>4 DEF reads
<1>8. ASSUME NEW n \in 1..N - 1
      PROVE  Len(R(n).entries) = n - 1
  <2> DEFINE counted == {k \in Nat : Len(R(k + 1).entries) = k}
             m == n - 1
  <2>1. 0 \in counted
    <3>1. 0 + 1 = 1 /\ R(1) = ReaderStart
      BY ReaderUnfolds
    <3> QED
      BY <3>1 DEF ReaderStart
  <2>2. ASSUME NEW k \in 0..m - 1, k \in counted
        PROVE  k + 1 \in counted
    <3>1. /\ (k + 1) + 1 \in 2..N /\ (k + 1) + 1 \in 1..N - 1 /\ ((k + 1) + 1) - 1 = k + 1
          /\ k + 1 \in Nat
      BY <1>2
    <3> HIDE DEF R
    <3>2. Len(R((k + 1) + 1).entries) = Len(R(k + 1).entries) + 1
      BY <1>6, <1>7, <3>1
    <3> QED
      BY <2>2, <3>1, <3>2
  <2>3. m \in Nat /\ m + 1 = n /\ m \in 0..m
    BY <1>2
  <2> HIDE DEF counted, m
  <2>4. 0..m \subseteq counted
    BY <2>1, <2>2, <2>3, Induction
  <2> QED
    BY <2>3, <2>4 DEF counted, m
<1>9. ASSUME NEW n \in 2..N - 1
      PROVE  n \in 2..N /\ n \in 1..N - 1
  BY <1>2
<1> HIDE DEF R
<1>10. \A n \in 2..N - 1 : /\ file[n].kind = "frame"
                           /\ IsNextBlock(R(n - 1), file[n].block)
                           /\ DecodesToRawSize(file[n].block)
  BY <1>6, <1>7, <1>9
<1> QED
  BY <1>1, <1>4, <1>5, <1>7, <1>8, <1>10 DEF R

(* One frame more that follows on and decodes. *)
LEMMA ReadFrame ==
    ASSUME NEW file \in Seq(Cell), NEW n \in 2..Len(file), NEW b \in Block,
           file[n] = Frame(b), ReaderAfter(file, n - 1).status = "reading",
           IsNextBlock(ReaderAfter(file, n - 1), b), DecodesToRawSize(b)
    PROVE  ReaderAfter(file, n) = TakeBlock(ReaderAfter(file, n - 1), b)
<1> DEFINE r == ReaderAfter(file, n - 1)
           c == file[n]
<1>1. ReaderAfter(file, n) = DecodeCell(r, c) /\ r \in Reader /\ c \in Cell
  BY ReaderStep
<1>2. c.kind = "frame" /\ c.block = b
  BY DEF Frame
<1>3. r.status = "reading" /\ IsNextBlock(r, b)
  OBVIOUS
<1> HIDE DEF r, c
<1>4. DecodeCell(r, c) = TakeBlock(r, c.block)
  BY <1>1, <1>2, <1>3, DecodeCellIs
<1> QED
  BY <1>1, <1>2, <1>4 DEF r

(* The footer that lists what was read seals the file, if it is the end.    *)
LEMMA ReadFooter ==
    ASSUME NEW file \in Seq(Cell), file[1] = Header, Len(file) >= 2,
           NEW index \in Seq(EntrySet), file[Len(file)] = Footer(index),
           ReaderAfter(file, Len(file) - 1).status = "reading",
           ReaderAfter(file, Len(file) - 1).entries = index,
           Len(index) <= MaxStreamBlocks
    PROVE  /\ IsDecodable(file)
           /\ SequentialDecode(file).rows = ReaderAfter(file, Len(file) - 1).rows
<1> DEFINE N == Len(file)
           r == ReaderAfter(file, N - 1)
           c == file[N]
           d == ReaderAfter(file, N)
<1>1. d = DecodeCell(r, c) /\ r \in Reader /\ c \in Cell
  <2>1. N \in 2..Len(file)
    OBVIOUS
  <2> HIDE DEF N
  <2> QED
    BY <2>1, ReaderStep
<1>2. c.kind = "footer" /\ c.index = index
  BY DEF Footer
<1>3. r.status = "reading" /\ r.entries = index
  OBVIOUS
<1>4. file # << >>
  OBVIOUS
<1> HIDE DEF r, c
<1>5. DecodeCell(r, c).status = "sealed"
  BY <1>1, <1>2, <1>3, FooterSeals
<1>6. DecodeCell(r, c).rows = r.rows
  BY <1>1, <1>5, DecodeCellIs
<1>7. SequentialDecode(file) = d
  <2>1. d.status # "reading"
    BY <1>1, <1>5
  <2> HIDE DEF d
  <2> QED
    BY <1>4, <2>1 DEF SequentialDecode, d, N
<1> QED
  BY <1>1, <1>5, <1>6, <1>7 DEF IsDecodable, r, N

(* What the sequential reader makes of a file with a header is what it has  *)
(* read to the end of it.                                                   *)
LEMMA RowsOfFile ==
    ASSUME NEW file \in Seq(Cell), file # << >>, file[1] = Header
    PROVE  SequentialDecode(file).rows = ReaderAfter(file, Len(file)).rows
<1> DEFINE end == ReaderAfter(file, Len(file))
<1>1. end \in Reader
  <2>1. Len(file) \in 1..Len(file)
    OBVIOUS
  <2> QED
    BY <2>1, ReaderType
<1> HIDE DEF end
<1>2. ReaderFails(end).rows = end.rows
  BY <1>1, ReaderFailsIs
<1> QED
  BY <1>2 DEF SequentialDecode, end
-----------------------------------------------------------------------------
(* Rows that are written bit by bit. *)

LEMMA TornIsNoRow == Torn \notin Row
BY DEF Torn, Row

(* A sequence that begins like another goes on like it. *)
LEMMA PrefixGoesOn ==
    ASSUME NEW S, NEW front \in Seq(S), NEW more \in Seq(S), NEW whole \in Seq(S),
           Len(front \o more) <= Len(whole),
           \A i \in 1..Len(front \o more) : whole[i] = (front \o more)[i],
           NEW n \in 0..Len(more)
    PROVE  front \o SubSeq(more, 1, n) = SubSeq(whole, 1, Len(front) + n)
<1> DEFINE part == SubSeq(more, 1, n)
           left == front \o part
           right == SubSeq(whole, 1, Len(front) + n)
           far == Len(front \o more)
           l == Len(front)
<1>1. /\ far = l + Len(more) /\ l + n <= Len(whole)
      /\ l \in Nat /\ n \in Nat /\ Len(more) \in Nat /\ n <= Len(more)
  OBVIOUS
<1>2. part \in Seq(S) /\ Len(part) = n /\ \A i \in 1..n : part[i] = more[i]
  OBVIOUS
<1>3. right \in Seq(S) /\ Len(right) = Len(front) + n
      /\ \A i \in 1..Len(front) + n : right[i] = whole[i]
  BY <1>1
<1> HIDE DEF part, right
<1>4. left \in Seq(S) /\ Len(left) = Len(front) + n
  <2>1. front \in Seq(S) /\ part \in Seq(S) /\ Len(part) = n
    BY <1>2
  <2> QED
    BY ONLY <2>1
<1> HIDE DEF left
<1>5. ASSUME NEW i \in 1..Len(front) + n
      PROVE  left[i] = right[i]
  <2>1. i \in 1..Len(front \o more) /\ right[i] = (front \o more)[i]
    <3>1. i \in 1..l + n
      BY <1>5
    <3> HIDE DEF far, l
    <3>2. i \in 1..far
      BY ONLY <1>1, <3>1
    <3> QED
      BY <1>3, <3>2 DEF far, l
  <2>2. CASE i <= Len(front)
    BY <1>2, <2>1, <2>2 DEF left
  <2>3. CASE i > Len(front)
    <3>1. left[i] = part[i - Len(front)] /\ i - Len(front) \in 1..n
      BY <1>2, <2>3 DEF left
    <3>2. (front \o more)[i] = more[i - Len(front)]
      BY <2>1, <2>3
    <3> QED
      BY <1>2, <2>1, <3>1, <3>2
  <2>4. i <= Len(front) \/ i > Len(front)
    BY <1>5
  <2> QED
    BY <2>2, <2>3, <2>4, Zenon
<1> QED
  BY <1>3, <1>4, <1>5 DEF left, part, right

(* A sequence handed on piece by piece. *)
LEMMA PiecesJoin ==
    ASSUME NEW S, NEW front \in Seq(S), NEW more \in Seq(S),
           NEW m \in 0..Len(more), NEW n \in m..Len(more)
    PROVE  (front \o SubSeq(more, 1, m)) \o SubSeq(more, m + 1, n)
               = front \o SubSeq(more, 1, n)
<1>1. SubSeq(more, 1, m) \in Seq(S) /\ Len(SubSeq(more, 1, m)) = m
      /\ \A i \in 1..m : SubSeq(more, 1, m)[i] = more[i]
  OBVIOUS
<1>2. SubSeq(more, m + 1, n) \in Seq(S) /\ Len(SubSeq(more, m + 1, n)) = n - m
      /\ \A i \in 1..n - m : SubSeq(more, m + 1, n)[i] = more[m + i]
  OBVIOUS
<1>3. SubSeq(more, 1, n) \in Seq(S) /\ Len(SubSeq(more, 1, n)) = n
      /\ \A i \in 1..n : SubSeq(more, 1, n)[i] = more[i]
  OBVIOUS
<1> DEFINE x == SubSeq(more, 1, m)
           y == SubSeq(more, m + 1, n)
           z == SubSeq(more, 1, n)
           joined == x \o y
<1>4. x \in Seq(S) /\ Len(x) = m /\ \A i \in 1..m : x[i] = more[i]
  BY <1>1
<1>5. y \in Seq(S) /\ Len(y) = n - m /\ \A i \in 1..n - m : y[i] = more[m + i]
  BY <1>2
<1>6. z \in Seq(S) /\ Len(z) = n /\ \A i \in 1..n : z[i] = more[i]
  BY <1>3
<1> HIDE DEF x, y, z
<1>7. joined \in Seq(S) /\ Len(joined) = n
  BY <1>4, <1>5
<1>8. ASSUME NEW i \in 1..n PROVE joined[i] = z[i]
  <2>1. CASE i <= m
    <3>1. i \in 1..m
      BY <2>1
    <3>2. joined[i] = x[i]
      BY <1>4, <1>5, <3>1
    <3> QED
      BY <1>4, <1>6, <3>1, <3>2
  <2>2. CASE i > m
    <3>1. i - m \in 1..n - m /\ m + (i - m) = i
      BY <2>2
    <3>2. joined[i] = y[i - m]
      BY <1>4, <1>5, <2>2, <3>1
    <3> QED
      BY <1>5, <1>6, <3>1, <3>2
  <2>3. i <= m \/ i > m
    OBVIOUS
  <2> QED
    BY <2>1, <2>2, <2>3, Zenon
<1> HIDE DEF joined
<1>9. joined = z
  BY <1>6, <1>7, <1>8
<1>10. (front \o x) \o y = front \o (x \o y)
  BY <1>4, <1>5
<1> QED
  BY <1>9, <1>10 DEF joined, x, y, z

-----------------------------------------------------------------------------
(* The index of some frames: the fold of TakeBlock, unfolded. *)

ScanAll(base, cells) == FoldLeft(LAMBDA r, c : TakeBlock(r, c.block), base, cells)

(* t holds the reader behind each of the n cells. *)
ScansTo(t, base, cells, n) ==
    /\ t[0] = base
    /\ \A k \in 1..n : t[k] = TakeBlock(t[k - 1], cells[k].block)
    /\ ScanAll(base, cells) = t[n]

LEMMA ScanUnfolds ==
    ASSUME NEW base, NEW cells, NEW n \in Nat, DOMAIN cells = 1..n
    PROVE  \E t : ScansTo(t, base, cells, n)
<1> DEFINE Step(f, s) == IF s = {} THEN base
                         ELSE TakeBlock(f[s \ {Max(s)}], cells[Max(s)].block)
           Solves(f, m) == f = [s \in SUBSET (1..m) |-> Step(f, s)]
           solved == {m \in Nat : \E f : Solves(f, m)}
<1>1. 0 \in solved
  <2> DEFINE f == [s \in SUBSET (1..0) |-> base]
  <2>1. \A s \in SUBSET (1..0) : s = {}
    OBVIOUS
  <2>2. Solves(f, 0)
    BY <2>1
  <2> QED
    BY <2>2
<1>2. ASSUME NEW m \in 0..n - 1, m \in solved
      PROVE  m + 1 \in solved
  <2>1. PICK f : Solves(f, m)
    BY <1>2
  <2> DEFINE g == [s \in SUBSET (1..m + 1) |->
                       IF m + 1 \in s THEN TakeBlock(f[s \ {m + 1}], cells[m + 1].block) ELSE f[s]]
  <2>2. \A s \in SUBSET (1..m) : s \in SUBSET (1..m + 1) /\ g[s] = f[s]
    <3> SUFFICES ASSUME NEW s \in SUBSET (1..m)
                 PROVE  s \in SUBSET (1..m + 1) /\ g[s] = f[s]
      OBVIOUS
    <3>1. m + 1 \notin s /\ s \in SUBSET (1..m + 1)
      OBVIOUS
    <3> QED
      BY <3>1
  <2>3. ASSUME NEW s \in SUBSET (1..m + 1)
        PROVE  g[s] = Step(g, s)
    <3>1. CASE m + 1 \in s
      <4>1. Max(s) = m + 1 /\ s \ {m + 1} \in SUBSET (1..m) /\ s # {}
        BY <3>1, MaxIs
      <4>2. g[s] = TakeBlock(f[s \ {m + 1}], cells[m + 1].block)
        BY <3>1
      <4>3. g[s \ {m + 1}] = f[s \ {m + 1}]
        BY <2>2, <4>1
      <4> HIDE DEF g
      <4> QED
        BY <4>1, <4>2, <4>3
    <3>2. CASE m + 1 \notin s
      <4>1. s \in SUBSET (1..m)
        BY <3>2
      <4>2. g[s] = f[s] /\ f[s] = Step(f, s)
        BY <2>1, <2>2, <4>1
      <4>3. s \ {Max(s)} \in SUBSET (1..m)
        BY <4>1
      <4>4. g[s \ {Max(s)}] = f[s \ {Max(s)}]
        BY <2>2, <4>3
      <4> HIDE DEF g
      <4> QED
        BY <4>2, <4>4
    <3> QED
      BY <3>1, <3>2
  <2>4. Solves(g, m + 1)
    <3> DEFINE h == [s \in SUBSET (1..m + 1) |-> Step(g, s)]
    <3>1. DOMAIN g = SUBSET (1..m + 1) /\ g = [s \in DOMAIN g |-> g[s]]
      OBVIOUS
    <3> HIDE DEF g
    <3>2. g = h
      BY <2>3, <3>1
    <3> QED
      BY <3>2
  <2>5. m + 1 \in Nat
    OBVIOUS
  <2> HIDE DEF g, Solves
  <2> QED
    BY <2>4, <2>5
<1>3. n \in solved
  <2> HIDE DEF solved
  <2>1. 0..n \subseteq solved
    BY <1>1, <1>2, Induction
  <2>2. n \in 0..n
    OBVIOUS
  <2> QED
    BY <2>1, <2>2
<1> DEFINE iter == CHOOSE f : Solves(f, n)
<1>4. Solves(iter, n)
  <2>1. \E f : Solves(f, n)
    BY <1>3
  <2> HIDE DEF Solves
  <2> QED
    BY <2>1, Zenon
<1>5. ScanAll(base, cells) = iter[1..n]
  BY Zenon DEF ScanAll, FoldLeft, MapThenFoldSet
<1> HIDE DEF iter
<1>6. iter[1..0] = base
  <2>1. {} \in SUBSET (1..n) /\ 1..0 = {}
    OBVIOUS
  <2>2. iter[{}] = Step(iter, {})
    BY <1>4, <2>1
  <2> QED
    BY <2>1, <2>2
<1>7. ASSUME NEW k \in 1..n
      PROVE  iter[1..k] = TakeBlock(iter[1..k - 1], cells[k].block)
  <2>1. 1..k \in SUBSET (1..n) /\ 1..k # {}
    <3>1. k \in 1..k /\ \A x \in 1..k : x \in 1..n
      OBVIOUS
    <3> QED
      BY <3>1
  <2>2. Max(1..k) = k /\ (1..k) \ {k} = 1..k - 1
    <3>1. 1..k \in SUBSET Nat /\ k \in 1..k /\ \A y \in 1..k : y <= k
      OBVIOUS
    <3>2. \A x : x \in (1..k) \ {k} <=> x \in 1..k - 1
      OBVIOUS
    <3> QED
      BY <3>1, <3>2, MaxIs
  <2>3. iter[1..k] = Step(iter, 1..k)
    <3> HIDE DEF Step
    <3> QED
      BY <1>4, <2>1
  <2> QED
    BY <2>1, <2>2, <2>3
<1> DEFINE t == [k \in 0..n |-> iter[1..k]]
<1>8. t[0] = base /\ t[n] = iter[1..n]
  BY <1>6
<1>9. ASSUME NEW k \in 1..n
      PROVE  t[k] = TakeBlock(t[k - 1], cells[k].block)
  BY <1>7
<1> HIDE DEF t
<1>10. ScansTo(t, base, cells, n)
  BY <1>5, <1>8, <1>9 DEF ScansTo
<1> QED
  BY <1>10

(* The entries of blocks that lie one behind the other, from the header on.  *)
LEMMA ScanFinds ==
    ASSUME NEW blocks \in Seq(Block), NEW entries \in Seq(EntrySet), NEW frames,
           Len(entries) = Len(blocks),
           DOMAIN frames = 1..Len(blocks),
           \A k \in 1..Len(blocks) : frames[k] = Frame(blocks[k]),
           \A k \in 1..Len(blocks) :
               entries[k] = Entry(blocks[k], IF k = 1 THEN HeaderLen
                                             ELSE entries[k - 1].encoded_offset
                                                  + entries[k - 1].compressed_size)
    PROVE  ScanAll(ReaderStart, frames).entries = entries
<1> DEFINE n == Len(blocks)
           End(k) == IF k = 0 THEN HeaderLen
                     ELSE entries[k].encoded_offset + entries[k].compressed_size
<1>1. n \in Nat /\ DOMAIN frames = 1..n /\ n \in 0..n
  OBVIOUS
<1>2. ASSUME NEW k \in 1..n
      PROVE  /\ entries[k] = Entry(blocks[k], End(k - 1))
             /\ End(k) = End(k - 1) + FrameLen(blocks[k])
             /\ frames[k].block = blocks[k]
  <2>1. entries[k] = Entry(blocks[k], End(k - 1))
    OBVIOUS
  <2>2. Entry(blocks[k], End(k - 1)).encoded_offset = End(k - 1)
        /\ Entry(blocks[k], End(k - 1)).compressed_size = FrameLen(blocks[k])
    BY DEF Entry
  <2>3. frames[k].block = blocks[k]
    BY DEF Frame
  <2> QED
    BY <2>1, <2>2, <2>3
<1> HIDE DEF n, End
<1>10. PICK t : ScansTo(t, ReaderStart, frames, n)
  BY <1>1, ScanUnfolds
<1>3. /\ t[0] = ReaderStart
      /\ \A k \in 1..n : t[k] = TakeBlock(t[k - 1], frames[k].block)
      /\ ScanAll(ReaderStart, frames) = t[n]
  BY <1>10 DEF ScansTo
<1> DEFINE found == {k \in 0..n : /\ t[k].entries = SubSeq(entries, 1, k)
                                 /\ t[k].nextOffset = End(k)}
<1>4. 0 \in found
  <2>1. SubSeq(entries, 1, 0) = << >> /\ 0 \in 0..n
    BY <1>1
  <2>2. End(0) = HeaderLen
    BY DEF End
  <2>3. t[0] = ReaderStart
    BY <1>3
  <2>4. t[0].entries = << >> /\ t[0].nextOffset = HeaderLen
    BY <2>3 DEF ReaderStart
  <2> HIDE DEF End
  <2>5. t[0].entries = SubSeq(entries, 1, 0) /\ t[0].nextOffset = End(0)
    BY <2>1, <2>2, <2>4
  <2> QED
    BY <2>1, <2>5
<1>5. ASSUME NEW k \in 0..n - 1, k \in found
      PROVE  k + 1 \in found
  <2> DEFINE j == k + 1
  <2>1. j \in 1..n /\ j - 1 = k /\ j \in 0..n /\ k \in 0..Len(entries) - 1
    BY <1>1 DEF n
  <2>2. t[k].entries = SubSeq(entries, 1, k) /\ t[k].nextOffset = End(k)
    BY <1>5
  <2>3. SubSeq(entries, 1, k + 1) = Append(SubSeq(entries, 1, k), entries[k + 1])
    BY <2>1
  <2> HIDE DEF found, j
  <2>4. t[j] = TakeBlock(t[k], blocks[j])
    BY <1>2, <1>3, <2>1
  <2>5. /\ t[j].entries = Append(t[k].entries, Entry(blocks[j], t[k].nextOffset))
        /\ t[j].nextOffset = t[k].nextOffset + FrameLen(blocks[j])
    BY <2>4 DEF TakeBlock
  <2>6. entries[j] = Entry(blocks[j], End(k)) /\ End(j) = End(k) + FrameLen(blocks[j])
    BY <1>2, <2>1
  <2>7. t[j].entries = SubSeq(entries, 1, j) /\ t[j].nextOffset = End(j)
    BY <2>2, <2>3, <2>5, <2>6 DEF j
  <2> QED
    BY <2>1, <2>7 DEF found, j
<1>6. n \in found
  <2> HIDE DEF found
  <2>1. 0..n \subseteq found
    BY <1>1, <1>4, <1>5, Induction
  <2> QED
    BY <1>1, <2>1
<1>7. SubSeq(entries, 1, n) = entries
  BY DEF n
<1> QED
  BY <1>3, <1>6, <1>7

-----------------------------------------------------------------------------
(* Recovery. *)

LEMMA ValidLenExists ==
    ASSUME NEW cells \in Seq(Cell)
    PROVE  \E n \in 0..Len(cells) : IsValidLen(cells, n)
<1> DEFINE T == {n \in 0..Len(cells) : n = Len(cells) \/ ~FollowsOn(cells, n + 1)}
<1>1. T \subseteq Nat /\ Len(cells) \in T
  OBVIOUS
<1>2. PICK n \in T : \A m \in T : n <= m
  BY <1>1, LeastNatural
<1>3. \A m \in 0..n - 1 : FollowsOn(cells, m + 1)
  <2> SUFFICES ASSUME NEW m \in 0..n - 1 PROVE FollowsOn(cells, m + 1)
    OBVIOUS
  <2>1. m \in 0..Len(cells) /\ m # Len(cells) /\ ~ (n <= m)
    BY <1>2
  <2>2. m \notin T
    BY <2>1, <1>2
  <2> QED
    BY <2>1, <2>2
<1>4. \A i \in 1..n : FollowsOn(cells, i)
  <2> SUFFICES ASSUME NEW i \in 1..n PROVE FollowsOn(cells, i)
    OBVIOUS
  <2>1. i - 1 \in 0..n - 1 /\ (i - 1) + 1 = i
    BY <1>2
  <2> QED
    BY <2>1, <1>3
<1> QED
  BY <1>2, <1>4 DEF IsValidLen

LEMMA ValidLenIs ==
    ASSUME NEW cells \in Seq(Cell)
    PROVE  ValidLen(cells) \in 0..Len(cells) /\ IsValidLen(cells, ValidLen(cells))
BY ValidLenExists DEF ValidLen

LEMMA ValidLenUnique ==
    ASSUME NEW cells \in Seq(Cell), NEW n \in 0..Len(cells), IsValidLen(cells, n)
    PROVE  ValidLen(cells) = n
<1> DEFINE v == ValidLen(cells)
<1>1. v \in 0..Len(cells) /\ IsValidLen(cells, v)
  BY ValidLenIs
<1> HIDE DEF v
<1>2. ~ (v < n)
  BY <1>1 DEF IsValidLen
<1>3. ~ (n < v)
  BY <1>1 DEF IsValidLen
<1> QED
  BY <1>1, <1>2, <1>3 DEF v

(* Whether a cell follows on depends on it and on the one in front of it. *)
LEMMA FollowsOnLocal ==
    ASSUME NEW cells \in Seq(Cell), NEW other \in Seq(Cell), NEW n \in Nat,
           NEW i \in 1..n, \A j \in 1..n : cells[j] = other[j]
    PROVE  FollowsOn(cells, i) <=> FollowsOn(other, i)
<1>1. CASE i = 1
  BY <1>1 DEF FollowsOn
<1>2. CASE i > 1
  <2>1. cells[i] = other[i] /\ cells[i - 1] = other[i - 1]
    BY <1>2
  <2> QED
    BY <1>2, <2>1 DEF FollowsOn, NextRow
<1> QED
  BY <1>1, <1>2

LEMMA FrameInPrefix ==
    ASSUME NEW cells \in Seq(Cell), NEW i \in 2..ValidLen(cells)
    PROVE  /\ i \in 1..Len(cells)
           /\ cells[i].kind = "frame"
           /\ cells[i].block \in Block
<1> DEFINE v == ValidLen(cells)
<1>1. v \in 0..Len(cells) /\ IsValidLen(cells, v)
  BY ValidLenIs
<1> HIDE DEF v
<1>2. i \in 2..v
  BY DEF v
<1>3. i \in 1..Len(cells) /\ FollowsOn(cells, i)
  BY <1>1, <1>2 DEF IsValidLen
<1>4. cells[i] \in Cell /\ cells[i].kind = "frame"
  BY <1>2, <1>3 DEF FollowsOn
<1> QED
  BY <1>3, <1>4 DEF Cell

LEMMA RecoveredIs ==
    ASSUME NEW cells \in Seq(Cell)
    PROVE  /\ Recovered(cells) \in Seq(Seq(Row))
           /\ Len(Recovered(cells)) = IF ValidLen(cells) = 0 THEN 0
                                      ELSE ValidLen(cells) - 1
           /\ \A k \in 1..ValidLen(cells) - 1 :
                  Recovered(cells)[k] = cells[k + 1].block.rows
<1> DEFINE v == ValidLen(cells)
           n == IF v = 0 THEN 0 ELSE v - 1
<1>1. v \in Nat /\ n \in Nat /\ 1..v - 1 = 1..n
  BY ValidLenIs
<1>2. \A k \in 1..n : cells[k + 1].block.rows \in Seq(Row)
  <2> TAKE k \in 1..n
  <2>1. k + 1 \in 2..v
    BY <1>1
  <2> QED
    BY <2>1, FrameInPrefix DEF Block
<1>3. Recovered(cells) = [k \in 1..n |-> cells[k + 1].block.rows]
  BY <1>1, Zenon DEF Recovered
<1> HIDE DEF v, n
<1>4. /\ Recovered(cells) \in Seq(Seq(Row))
      /\ Len(Recovered(cells)) = n
      /\ \A k \in 1..n : Recovered(cells)[k] = cells[k + 1].block.rows
  BY <1>1, <1>2, <1>3
<1> QED
  BY <1>1, <1>4 DEF n, v

LEMMA PrefixIs ==
    ASSUME NEW S, NEW r \in Seq(S), NEW s \in Seq(S), Len(r) <= Len(s),
           \A k \in 1..Len(r) : r[k] = s[k]
    PROVE  IsPrefix(r, s)
<1>1. /\ SubSeq(s, 1, Len(r)) \in Seq(S)
      /\ Len(SubSeq(s, 1, Len(r))) = Len(r)
      /\ \A k \in 1..Len(r) : SubSeq(s, 1, Len(r))[k] = s[k]
  OBVIOUS
<1>2. SubSeq(s, 1, Len(r)) = r
  BY <1>1, SeqEqual
<1>3. SubSeq(r, 1, Len(r)) = r
  BY SubSeqFull
<1> QED
  BY <1>2, <1>3 DEF IsPrefix

(* Cells that start with the valid prefix of others recover at least as much.*)
LEMMA RecoveredGrows ==
    ASSUME NEW cells \in Seq(Cell), NEW more \in Seq(Cell),
           ValidLen(cells) <= Len(more),
           \A i \in 1..ValidLen(cells) : more[i] = cells[i]
    PROVE  /\ ValidLen(cells) <= ValidLen(more)
           /\ IsPrefix(Recovered(cells), Recovered(more))
<1> DEFINE v == ValidLen(cells)
           w == ValidLen(more)
           r == Recovered(cells)
           s == Recovered(more)
<1>1. /\ v \in 0..Len(cells) /\ IsValidLen(cells, v)
      /\ w \in 0..Len(more) /\ IsValidLen(more, w)
  BY ValidLenIs
<1>2. /\ r \in Seq(Seq(Row)) /\ Len(r) = IF v = 0 THEN 0 ELSE v - 1
      /\ \A k \in 1..v - 1 : r[k] = cells[k + 1].block.rows
      /\ s \in Seq(Seq(Row)) /\ Len(s) = IF w = 0 THEN 0 ELSE w - 1
      /\ \A k \in 1..w - 1 : s[k] = more[k + 1].block.rows
  BY RecoveredIs
<1>3. /\ v <= Len(more)
      /\ \A i \in 1..v : more[i] = cells[i]
  OBVIOUS
<1> HIDE DEF v, w, r, s
<1>4. v <= w
  <2> SUFFICES ASSUME w < v PROVE FALSE
    BY <1>1
  <2>1. w + 1 \in 1..v /\ w < Len(more)
    BY <1>1, <1>3
  <2>2. FollowsOn(cells, w + 1)
    BY <1>1, <2>1 DEF IsValidLen
  <2>3. FollowsOn(more, w + 1)
    BY <1>1, <1>3, <2>1, <2>2, FollowsOnLocal
  <2> QED
    BY <1>1, <2>1, <2>3 DEF IsValidLen
<1>5. Len(r) <= Len(s)
  BY <1>1, <1>2, <1>4
<1>6. \A k \in 1..Len(r) : r[k] = s[k]
  <2> SUFFICES ASSUME NEW k \in 1..Len(r) PROVE r[k] = s[k]
    OBVIOUS
  <2>1. k \in 1..v - 1 /\ k \in 1..w - 1 /\ k + 1 \in 1..v
    BY <1>1, <1>2, <1>4
  <2>2. more[k + 1] = cells[k + 1]
    BY <1>3, <2>1
  <2> QED
    BY <1>2, <2>1, <2>2
<1>7. IsPrefix(r, s)
  BY <1>2, <1>5, <1>6, PrefixIs
<1> QED
  BY <1>4, <1>7 DEF v, w, r, s

LEMMA RecoveredSame ==
    ASSUME NEW cells \in Seq(Cell), NEW other \in Seq(Cell),
           ValidLen(other) = ValidLen(cells),
           \A i \in 1..ValidLen(cells) : other[i] = cells[i]
    PROVE  Recovered(other) = Recovered(cells)
<1>1. ValidLen(cells) \in Nat
  BY ValidLenIs
<1>2. \A k \in 1..ValidLen(cells) - 1 : k + 1 \in 1..ValidLen(cells)
  BY <1>1
<1> QED
  BY <1>2 DEF Recovered

LEMMA CellTypes ==
    /\ Header \in Cell /\ Torn \in Cell /\ Corrupt \in Cell
    /\ \A block \in Block : Frame(block) \in Cell
    /\ \A index \in Seq(EntrySet) : Footer(index) \in Cell
BY DEF Cell, Header, Torn, Corrupt, Frame, Footer

(* What recovery hands to resume. *)
LEMMA PrefixIsValid ==
    ASSUME NEW cells \in Seq(Cell), ValidLen(cells) > 0
    PROVE  /\ ValidPrefix(cells) \in Seq(Cell)
           /\ Len(ValidPrefix(cells)) = ValidLen(cells)
           /\ \A i \in 1..ValidLen(cells) : ValidPrefix(cells)[i] = cells[i]
           /\ IsValidLen(ValidPrefix(cells), ValidLen(cells))
           /\ NextRow(ValidPrefix(cells), ValidLen(cells)) = NextRow(cells, ValidLen(cells))
           /\ NextRow(cells, ValidLen(cells)) \in Nat
<1> DEFINE v == ValidLen(cells)
           p == SubSeq(cells, 1, v)
<1>1. v \in 1..Len(cells) /\ IsValidLen(cells, v)
  BY ValidLenIs
<1>2. NextRow(cells, v) \in Nat
  <2>1. CASE v = 1
    BY <2>1 DEF NextRow
  <2>2. CASE v > 1
    <3>1. cells[v].block \in Block
      BY <1>1, <2>2, FrameInPrefix
    <3> DEFINE from == cells[v].block.first
               rows == cells[v].block.rows
    <3>2. from \in Nat /\ rows \in Seq(Row)
      BY <3>1 DEF Block
    <3>3. NextRow(cells, v) = from + Len(rows)
      <4>1. ~(v <= 1)
        BY <1>1, <2>2
      <4> QED
        BY <4>1, Zenon DEF NextRow
    <3> HIDE DEF from, rows, v
    <3>4. from + Len(rows) \in Nat
      BY ONLY <3>2
    <3> QED
      BY <3>3, <3>4
  <2> QED
    BY <1>1, <2>1, <2>2
<1> HIDE DEF v
<1>3. /\ p \in Seq(Cell)
      /\ Len(p) = v
      /\ \A i \in 1..v : p[i] = cells[i]
  BY <1>1
<1>4. NextRow(p, v) = NextRow(cells, v)
  BY <1>1, <1>3 DEF NextRow
<1>5. ValidPrefix(cells) = p
  BY DEF ValidPrefix, v
<1> HIDE DEF p
<1>6. \A i \in 1..v : FollowsOn(p, i)
  <2> SUFFICES ASSUME NEW i \in 1..v PROVE FollowsOn(p, i)
    OBVIOUS
  <2>1. FollowsOn(cells, i)
    BY <1>1 DEF IsValidLen
  <2> QED
    BY <1>1, <1>3, <2>1, FollowsOnLocal
<1>7. IsValidLen(p, v)
  BY <1>3, <1>6 DEF IsValidLen
<1> QED
  BY <1>1, <1>2, <1>3, <1>4, <1>5, <1>7 DEF v

(* One cell more behind a file that recovery would keep whole. *)
LEMMA AppendedFrame ==
    ASSUME NEW cells \in Seq(Cell), cells # << >>, IsValidLen(cells, Len(cells)),
           NEW block \in Block,
           block.index = Len(cells) - 1,
           block.index < MaxStreamBlocks,
           block.first = NextRow(cells, Len(cells))
    PROVE  LET longer == Append(cells, Frame(block))
           IN  /\ longer \in Seq(Cell)
               /\ IsValidLen(longer, Len(longer))
               /\ Len(longer) = Len(cells) + 1
               /\ NextRow(longer, Len(longer)) = block.first + Len(block.rows)
               /\ Recovered(longer) = Append(Recovered(cells), block.rows)
<1> DEFINE n == Len(cells)
           longer == Append(cells, Frame(block))
<1>1. n \in Nat /\ n >= 1
  BY EmptySeq
<1>2. Frame(block) \in Cell
  BY CellTypes
<1>3. /\ longer \in Seq(Cell)
      /\ Len(longer) = n + 1
      /\ \A i \in 1..n : longer[i] = cells[i]
      /\ longer[n + 1] = Frame(block)
  BY <1>2, AppendProperties
<1>4. NextRow(longer, n) = NextRow(cells, n)
  BY <1>1, <1>3 DEF NextRow
<1> HIDE DEF longer
<1>5. longer[n + 1].kind = "frame" /\ longer[n + 1].block = block
  BY <1>3 DEF Frame
<1>6. FollowsOn(longer, n + 1)
  BY <1>1, <1>4, <1>5 DEF FollowsOn
<1>7. \A i \in 1..n : FollowsOn(longer, i)
  <2> SUFFICES ASSUME NEW i \in 1..n PROVE FollowsOn(longer, i)
    OBVIOUS
  <2>1. FollowsOn(cells, i)
    BY DEF IsValidLen
  <2> QED
    BY <1>1, <1>3, <2>1, FollowsOnLocal
<1>8. IsValidLen(longer, n + 1)
  BY <1>1, <1>3, <1>6, <1>7 DEF IsValidLen
<1>9. NextRow(longer, n + 1) = block.first + Len(block.rows)
  BY <1>1, <1>5 DEF NextRow
<1>10. ValidLen(cells) = n /\ ValidLen(longer) = n + 1
  BY <1>1, <1>3, <1>8, ValidLenUnique
<1>11. /\ Recovered(cells) \in Seq(Seq(Row))
       /\ Len(Recovered(cells)) = n - 1
       /\ \A k \in 1..n - 1 : Recovered(cells)[k] = cells[k + 1].block.rows
       /\ Recovered(longer) \in Seq(Seq(Row))
       /\ Len(Recovered(longer)) = n
       /\ \A k \in 1..n : Recovered(longer)[k] = longer[k + 1].block.rows
  <2> DEFINE v == ValidLen(cells)
             w == ValidLen(longer)
             r == Recovered(cells)
             s == Recovered(longer)
  <2>1. /\ r \in Seq(Seq(Row)) /\ Len(r) = IF v = 0 THEN 0 ELSE v - 1
        /\ \A k \in 1..v - 1 : r[k] = cells[k + 1].block.rows
    BY RecoveredIs
  <2>2. /\ s \in Seq(Seq(Row)) /\ Len(s) = IF w = 0 THEN 0 ELSE w - 1
        /\ \A k \in 1..w - 1 : s[k] = longer[k + 1].block.rows
    BY <1>3, RecoveredIs
  <2>3. v = n /\ w = n + 1
    BY <1>10
  <2> HIDE DEF v, w, r, s, n
  <2>4. w - 1 = n /\ w # 0 /\ v # 0
    BY <1>1, <2>3
  <2>5. /\ r \in Seq(Seq(Row)) /\ Len(r) = n - 1
        /\ \A k \in 1..n - 1 : r[k] = cells[k + 1].block.rows
    BY <2>1, <2>3, <2>4
  <2>6. /\ s \in Seq(Seq(Row)) /\ Len(s) = n
        /\ \A k \in 1..n : s[k] = longer[k + 1].block.rows
    BY <2>2, <2>4
  <2> QED
    BY <2>5, <2>6 DEF r, s
<1>12. Recovered(longer) = Append(Recovered(cells), block.rows)
  <2> DEFINE r == Recovered(cells)
             s == Recovered(longer)
  <2>1. block.rows \in Seq(Row)
    BY DEF Block
  <2>2. /\ Append(r, block.rows) \in Seq(Seq(Row))
        /\ Len(Append(r, block.rows)) = n
        /\ \A k \in 1..n - 1 : Append(r, block.rows)[k] = r[k]
        /\ Append(r, block.rows)[n] = block.rows
    BY <1>1, <1>11, <2>1, AppendProperties
  <2> DEFINE t == Append(r, block.rows)
  <2>3. \A k \in 1..n : s[k] = t[k]
    <3> SUFFICES ASSUME NEW k \in 1..n PROVE s[k] = t[k]
      OBVIOUS
    <3>1. CASE k = n
      BY <3>1, <1>5, <1>11, <2>2
    <3>2. CASE k # n
      <4>1. k \in 1..n - 1 /\ k + 1 \in 1..n
        BY <3>2, <1>1
      <4>2. longer[k + 1] = cells[k + 1]
        BY <4>1, <1>3
      <4> QED
        BY <4>1, <4>2, <1>11, <2>2
    <3> QED
      BY <3>1, <3>2
  <2>4. s \in Seq(Seq(Row)) /\ t \in Seq(Seq(Row)) /\ Len(s) = n /\ Len(t) = n
    BY <1>11, <2>2
  <2> HIDE DEF s, t, n
  <2>5. s = t
    BY <2>3, <2>4, SeqEqual
  <2> QED
    BY <2>5 DEF s, t
<1> QED
  BY <1>3, <1>8, <1>9, <1>12 DEF longer

(* A cell that is no frame adds nothing to what recovery finds. *)
LEMMA AppendedOther ==
    ASSUME NEW cells \in Seq(Cell), cells # << >>, IsValidLen(cells, Len(cells)),
           NEW cell \in Cell, cell.kind # "frame"
    PROVE  Recovered(Append(cells, cell)) = Recovered(cells)
<1> DEFINE n == Len(cells)
           longer == Append(cells, cell)
<1>1. n \in Nat /\ n >= 1
  BY EmptySeq
<1>2. /\ longer \in Seq(Cell)
      /\ Len(longer) = n + 1
      /\ \A i \in 1..n : longer[i] = cells[i]
      /\ longer[n + 1] = cell
  BY AppendProperties
<1> HIDE DEF longer
<1>3. ~FollowsOn(longer, n + 1)
  BY <1>1, <1>2 DEF FollowsOn
<1>4. \A i \in 1..n : FollowsOn(longer, i)
  <2> SUFFICES ASSUME NEW i \in 1..n PROVE FollowsOn(longer, i)
    OBVIOUS
  <2>1. FollowsOn(cells, i)
    BY DEF IsValidLen
  <2> QED
    BY <1>1, <1>2, <2>1, FollowsOnLocal
<1>5. IsValidLen(longer, n)
  BY <1>1, <1>2, <1>3, <1>4 DEF IsValidLen
<1>6. ValidLen(cells) = n /\ ValidLen(longer) = n
  BY <1>1, <1>2, <1>5, ValidLenUnique
<1>7. Recovered(longer) = Recovered(cells)
  BY <1>2, <1>6, RecoveredSame
<1> QED
  BY <1>7 DEF longer

LEMMA PrefixOfItself ==
    ASSUME NEW cells \in Seq(Cell)
    PROVE  IsPrefix(Recovered(cells), Recovered(cells))
BY RecoveredGrows, ValidLenIs

LEMMA AppendRecovers ==
    ASSUME NEW cells \in Seq(Cell), NEW cell \in Cell
    PROVE  IsPrefix(Recovered(cells), Recovered(Append(cells, cell)))
<1>1. ValidLen(cells) \in 0..Len(cells)
  BY ValidLenIs
<1>2. /\ Append(cells, cell) \in Seq(Cell)
      /\ ValidLen(cells) <= Len(Append(cells, cell))
      /\ \A i \in 1..ValidLen(cells) : Append(cells, cell)[i] = cells[i]
  BY <1>1, AppendProperties
<1> QED
  BY <1>2, RecoveredGrows

(* resume keeps exactly what recovery found. *)
LEMMA ResumeRecovers ==
    ASSUME NEW cells \in Seq(Cell), ValidLen(cells) > 0
    PROVE  Recovered(ValidPrefix(cells)) = Recovered(cells)
<1> DEFINE v == ValidLen(cells)
           p == ValidPrefix(cells)
<1>1. /\ p \in Seq(Cell) /\ Len(p) = v /\ IsValidLen(p, v)
      /\ \A i \in 1..v : p[i] = cells[i]
  BY PrefixIsValid
<1>2. v \in 0..Len(p)
  BY <1>1, ValidLenIs
<1>3. ValidLen(p) = v
  BY <1>1, <1>2, ValidLenUnique
<1> QED
  BY <1>1, <1>3, RecoveredSame

LEMMA NothingRecovered ==
    ASSUME NEW cells \in Seq(Cell), NEW other \in Seq(Cell), ValidLen(cells) = 0
    PROVE  IsPrefix(Recovered(cells), Recovered(other))
BY RecoveredGrows

LEMMA EmptyRecovers ==
    ASSUME NEW cells \in Seq(Cell), cells = << >>
    PROVE  ValidLen(cells) = 0 /\ Recovered(cells) = << >>
<1>1. Len(cells) = 0
  OBVIOUS
<1>2. ValidLen(cells) \in 0..Len(cells)
  BY ValidLenIs
<1>3. ValidLen(cells) = 0
  BY <1>1, <1>2
<1>4. Recovered(cells) \in Seq(Seq(Row)) /\ Len(Recovered(cells)) = 0
  BY <1>3, RecoveredIs
<1>5. Recovered(cells) = << >>
  BY <1>4, EmptySeq
<1> QED
  BY <1>3, <1>5

LEMMA HeaderRecovers ==
    Recovered(<<Header>>) = << >>
<1> DEFINE cells == <<Header>>
<1>1. cells \in Seq(Cell) /\ Len(cells) = 1 /\ cells[1] = Header
  BY CellTypes
<1> HIDE DEF cells
<1>2. 1 \in 0..Len(cells) /\ IsValidLen(cells, 1)
  BY <1>1 DEF IsValidLen, FollowsOn
<1>3. ValidLen(cells) = 1
  BY <1>1, <1>2, ValidLenUnique
<1>4. Recovered(cells) = << >>
  BY <1>1, <1>3, RecoveredIs
<1> QED
  BY <1>4 DEF cells

-----------------------------------------------------------------------------
(* The unsealed reader gets through a file that recovery would keep. *)

(* The row groups in the frames of the first n cells. *)
Groups(cells, n) == [k \in 1..n - 1 |-> cells[k + 1].block.rows]

EntryAt(cells, k) == Entry(cells[k + 1].block, HeaderLen + (k - 1) + cells[k + 1].block.first)

ReadsTo(cells, n) ==
    LET r == ReaderAfter(cells, n)
    IN  /\ r \in Reader
        /\ r.status = "reading"
        /\ Len(r.entries) = n - 1
        /\ \A k \in 1..n - 1 : r.entries[k] = EntryAt(cells, k)
        /\ r.nextRow = NextRow(cells, n)
        /\ r.nextOffset = HeaderLen + (n - 1) + NextRow(cells, n)
        /\ Groups(cells, n) \in Seq(Seq(Row))
        /\ r.rows = FlattenSeq(Groups(cells, n))

LEMMA ReadsHeader ==
    ASSUME NEW cells \in Seq(Cell)
    PROVE  ReadsTo(cells, 1)
<1>1. ReaderAfter(cells, 1) = ReaderStart
  BY ReaderUnfolds
<1>2. Groups(cells, 1) = << >>
  BY DEF Groups
<1>3. FlattenSeq(Groups(cells, 1)) = << >>
  BY <1>2, FlattenUnfolds
<1>4. /\ ReaderStart \in Reader /\ ReaderStart.status = "reading"
      /\ ReaderStart.entries = << >> /\ ReaderStart.rows = << >>
      /\ ReaderStart.nextRow = 0 /\ ReaderStart.nextOffset = HeaderLen
  BY DEF ReaderStart, Reader, HeaderLen
<1>5. NextRow(cells, 1) = 0 /\ HeaderLen \in Nat
  BY DEF NextRow, HeaderLen
<1> DEFINE r == ReaderAfter(cells, 1)
           groups == Groups(cells, 1)
<1>6. /\ r \in Reader /\ r.status = "reading" /\ r.entries = << >> /\ r.rows = << >>
      /\ r.nextRow = 0 /\ r.nextOffset = HeaderLen
  BY <1>1, <1>4
<1>7. groups = << >> /\ FlattenSeq(groups) = << >> /\ groups \in Seq(Seq(Row))
  <2>1. groups = << >> /\ FlattenSeq(groups) = << >>
    BY <1>2, <1>3, Zenon
  <2> HIDE DEF groups
  <2> QED
    BY <2>1
<1> HIDE DEF r, groups
<1>8. Len(r.entries) = 1 - 1 /\ \A k \in 1..1 - 1 : r.entries[k] = EntryAt(cells, k)
  BY <1>6
<1>9. r.nextOffset = HeaderLen + (1 - 1) + NextRow(cells, 1)
  BY <1>5, <1>6
<1> QED
  BY <1>5, <1>6, <1>7, <1>8, <1>9, Zenon DEF ReadsTo, r, groups

LEMMA ReadsOneMore ==
    ASSUME NEW cells \in Seq(Cell), IsReadable(cells),
           NEW n \in 1..Len(cells) - 1, ReadsTo(cells, n), FollowsOn(cells, n + 1)
    PROVE  ReadsTo(cells, n + 1)
<1> DEFINE m == n + 1
           b == cells[m].block
           r == ReaderAfter(cells, n)
           d == ReaderAfter(cells, m)
           groups == Groups(cells, n)
           more == Groups(cells, m)
<1>1. /\ m \in 2..Len(cells) /\ m - 1 = n /\ n \in Nat /\ m \in DOMAIN cells
      /\ m # 1 /\ ~(m <= 1)
  OBVIOUS
<1>2. /\ cells[m].kind = "frame"
      /\ b.index = n - 1 /\ b.first = NextRow(cells, n)
  <2>1. m - 2 = n - 1
    OBVIOUS
  <2> QED
    BY <1>1, <2>1 DEF FollowsOn
<1>3. b \in Block /\ cells[m] = Frame(b)
  BY <1>1, <1>2, CellParts
<1>4. DecodesToRawSize(b)
  BY <1>1, <1>2 DEF IsReadable
<1>5. /\ r \in Reader /\ r.status = "reading" /\ Len(r.entries) = n - 1
      /\ \A k \in 1..n - 1 : r.entries[k] = EntryAt(cells, k)
      /\ r.nextRow = NextRow(cells, n)
      /\ r.nextOffset = HeaderLen + (n - 1) + NextRow(cells, n)
      /\ groups \in Seq(Seq(Row)) /\ r.rows = FlattenSeq(groups)
  BY DEF ReadsTo
<1>6. b.first \in Nat /\ b.rows \in Seq(Row) /\ Len(b.rows) \in Nat
  <2>1. b.first \in Nat /\ b.rows \in Seq(Row)
    BY <1>3 DEF Block
  <2> QED
    BY <2>1
<1>7. more = Append(groups, b.rows)
  <2>1. more = [k \in 1..n |-> cells[k + 1].block.rows]
    BY <1>1 DEF Groups
  <2>2. groups = [k \in 1..n - 1 |-> cells[k + 1].block.rows]
    BY DEF Groups
  <2>3. Len(groups) = n - 1
    BY <1>1, <2>2
  <2> DEFINE longer == Append(groups, b.rows)
  <2>4. /\ longer \in Seq(Seq(Row)) /\ Len(longer) = n
        /\ longer[n] = b.rows
        /\ \A k \in 1..n - 1 : longer[k] = groups[k]
    BY <1>1, <1>5, <1>6, <2>3
  <2> HIDE DEF longer
  <2>5. \A k \in 1..n : longer[k] = cells[k + 1].block.rows
    <3> TAKE k \in 1..n
    <3>1. CASE k = n
      BY <2>4, <3>1
    <3>2. CASE k # n
      <4>1. k \in 1..n - 1
        BY <1>1, <3>2
      <4> QED
        BY <2>2, <2>4, <4>1
    <3> QED
      BY <3>1, <3>2
  <2>6. longer = [k \in 1..n |-> longer[k]]
    BY <2>4
  <2>7. longer = more
    BY <2>1, <2>5, <2>6
  <2> QED
    BY <2>7 DEF longer
<1> HIDE DEF b, r, d, groups, more, m
<1>8. d = TakeBlock(r, b)
  <2>1. IsNextBlock(r, b)
    BY <1>2, <1>5 DEF IsNextBlock
  <2>2. IsNextBlock(ReaderAfter(cells, m - 1), b)
        /\ ReaderAfter(cells, m - 1).status = "reading"
    BY <1>1, <1>5, <2>1 DEF r
  <2>3. ReaderAfter(cells, m) = TakeBlock(ReaderAfter(cells, m - 1), b)
    BY <1>1, <1>3, <1>4, <2>2, ReadFrame
  <2> QED
    BY <1>1, <2>3 DEF d, r
<1>9. /\ d \in Reader /\ d.status = "reading"
      /\ d.entries = Append(r.entries, Entry(b, r.nextOffset))
      /\ d.nextRow = r.nextRow + Len(b.rows)
      /\ d.nextOffset = r.nextOffset + FrameLen(b)
      /\ d.rows = r.rows \o b.rows
  BY <1>3, <1>5, <1>8, TakeBlockIs
<1>10. NextRow(cells, m) = b.first + Len(b.rows)
  BY <1>1 DEF NextRow, b
<1>11. d.nextRow = NextRow(cells, m)
  BY <1>2, <1>5, <1>9, <1>10
<1>12. d.nextOffset = HeaderLen + (m - 1) + NextRow(cells, m)
  <2>1. d.nextOffset = HeaderLen + (n - 1) + b.first + (1 + Len(b.rows))
    BY <1>2, <1>5, <1>9 DEF FrameLen
  <2> DEFINE rows == Len(b.rows)
             first == b.first
  <2>2. rows \in Nat /\ first \in Nat /\ n \in Nat
    BY <1>1, <1>6
  <2>3. d.nextOffset = HeaderLen + (n - 1) + first + (1 + rows)
        /\ NextRow(cells, m) = first + rows
    BY <1>10, <2>1
  <2> HIDE DEF rows, first
  <2>4. m = n + 1
    BY DEF m
  <2> QED
    BY <2>2, <2>3, <2>4 DEF HeaderLen
<1>13. Len(d.entries) = m - 1 /\ \A k \in 1..m - 1 : d.entries[k] = EntryAt(cells, k)
  <2> DEFINE e == Entry(b, r.nextOffset)
  <2>1. e = EntryAt(cells, n)
    <3>1. cells[n + 1].block = b /\ cells[n + 1].block.first = b.first
      BY DEF b, m
    <3>2. r.nextOffset = HeaderLen + (n - 1) + b.first
      BY <1>2, <1>5
    <3> QED
      BY <3>1, <3>2 DEF EntryAt
  <2>2. r.entries \in Seq(EntrySet) /\ e \in EntrySet
    <3>1. d.entries \in Seq(EntrySet) /\ r.entries \in Seq(EntrySet)
      BY <1>5, <1>9 DEF Reader
    <3>2. r.nextOffset \in Nat
      BY <1>5 DEF Reader
    <3> QED
      BY <1>3, <1>6, <3>1, <3>2 DEF Entry, EntrySet, Block, FrameLen
  <2>3. d.entries = Append(r.entries, e)
    BY <1>9
  <2> HIDE DEF e
  <2>4. /\ Len(d.entries) = n
        /\ d.entries[n] = e
        /\ \A k \in 1..n - 1 : d.entries[k] = r.entries[k]
    BY <1>1, <1>5, <2>2, <2>3
  <2>5. \A k \in 1..n : d.entries[k] = EntryAt(cells, k)
    <3> TAKE k \in 1..n
    <3>1. CASE k = n
      BY <2>1, <2>4, <3>1
    <3>2. CASE k # n
      <4>1. k \in 1..n - 1
        BY <1>1, <3>2
      <4> QED
        BY <1>5, <2>4, <4>1
    <3> QED
      BY <3>1, <3>2
  <2> QED
    BY <1>1, <2>4, <2>5
<1>14. more \in Seq(Seq(Row)) /\ d.rows = FlattenSeq(more)
  <2>1. more \in Seq(Seq(Row))
    BY <1>5, <1>6, <1>7
  <2>2. FlattenSeq(more) = FlattenSeq(groups) \o b.rows
    BY <1>5, <1>6, <1>7, FlattenUnfolds
  <2> QED
    BY <1>5, <1>9, <2>1, <2>2
<1>15. ReadsTo(cells, m)
  BY <1>9, <1>11, <1>12, <1>13, <1>14 DEF ReadsTo, d, more
<1> QED
  BY <1>15 DEF m

LEMMA ReadsValid ==
    ASSUME NEW cells \in Seq(Cell), cells # << >>, IsReadable(cells),
           IsValidLen(cells, Len(cells))
    PROVE  ReadsTo(cells, Len(cells))
<1> DEFINE last == Len(cells) - 1
           read == {k \in 0..last : ReadsTo(cells, k + 1)}
<1>1. last \in Nat /\ last + 1 = Len(cells)
  OBVIOUS
<1>2. 0 \in read
  BY <1>1, ReadsHeader
<1>3. ASSUME NEW k \in 0..last - 1, k \in read
      PROVE  k + 1 \in read
  <2> DEFINE n == k + 1
  <2>1. n \in 1..Len(cells) - 1 /\ n + 1 \in 1..Len(cells) /\ n \in 0..last
    BY <1>1
  <2>2. ReadsTo(cells, n) /\ FollowsOn(cells, n + 1)
    BY <1>3, <2>1 DEF IsValidLen
  <2> HIDE DEF n, last
  <2>3. ReadsTo(cells, n + 1)
    BY <2>1, <2>2, ReadsOneMore DEF last
  <2>4. n \in read
    BY <2>1, <2>3
  <2> QED
    BY <2>4 DEF n
<1>4. 0..last \subseteq read
  <2> HIDE DEF read, last
  <2> QED
    BY <1>1, <1>2, <1>3, Induction
<1>5. last \in 0..last
  BY <1>1
<1> QED
  BY <1>1, <1>4, <1>5

LEMMA ReplayReads ==
    ASSUME NEW cells \in Seq(Cell), IsReadable(cells), ValidLen(cells) > 0
    PROVE  /\ Replay(cells).status = "reading"
           /\ Replay(cells).rows = FlattenSeq(Recovered(cells))
<1> DEFINE prefix == ValidPrefix(cells)
           v == ValidLen(cells)
<1>1. /\ prefix \in Seq(Cell) /\ Len(prefix) = v
      /\ \A i \in 1..v : prefix[i] = cells[i]
      /\ IsValidLen(prefix, v) /\ v \in 1..Len(cells)
  BY PrefixIsValid, ValidLenIs
<1> HIDE DEF prefix, v
<1>2. prefix # << >> /\ 1 \in 1..v
  BY <1>1
<1>3. prefix[1] = Header
  BY <1>1, <1>2 DEF IsValidLen, FollowsOn
<1>4. IsReadable(prefix)
  <2>1. \A i \in DOMAIN prefix : i \in DOMAIN cells /\ prefix[i] = cells[i]
    BY <1>1
  <2> QED
    BY <2>1 DEF IsReadable
<1>5. ReadsTo(prefix, v)
  BY <1>1, <1>2, <1>4, ReadsValid
<1>6. Tail(prefix) = SubSeq(prefix, 2, v)
  BY <1>1, <1>2
<1>7. Replay(cells) = ReaderAfter(prefix, v)
  <2>1. Replay(cells) = FoldLeft(DecodeCell, ReaderStart, Tail(prefix))
    BY <1>2, <1>3, Zenon DEF Replay, prefix
  <2> QED
    BY <1>6, <2>1, Zenon DEF ReaderAfter
<1>8. Groups(prefix, v) = Recovered(cells)
  <2>1. \A k \in 1..v - 1 : prefix[k + 1] = cells[k + 1]
    BY <1>1
  <2> QED
    BY <2>1 DEF Groups, Recovered, v
<1> QED
  BY <1>5, <1>7, <1>8 DEF ReadsTo

IsReadableCell(cell) == cell.kind = "frame" => DecodesToRawSize(cell.block)

LEMMA ReadableCells ==
    /\ IsReadableCell(Header) /\ IsReadableCell(Torn) /\ IsReadableCell(Corrupt)
    /\ \A index : IsReadableCell(Footer(index))
    /\ IsReadable(<< >>)
BY DEF IsReadableCell, IsReadable, Header, Torn, Corrupt, Footer

LEMMA ReadableAppend ==
    ASSUME NEW cells \in Seq(Cell), IsReadable(cells),
           NEW cell \in Cell, IsReadableCell(cell)
    PROVE  IsReadable(Append(cells, cell))
<1> DEFINE more == Append(cells, cell)
<1>1. /\ \A i \in DOMAIN more : i \in 1..Len(cells) \/ i = Len(cells) + 1
      /\ \A i \in 1..Len(cells) : more[i] = cells[i] /\ i \in DOMAIN cells
      /\ more[Len(cells) + 1] = cell
  OBVIOUS
<1> HIDE DEF more
<1>2. \A i \in DOMAIN more : more[i].kind = "frame" => DecodesToRawSize(more[i].block)
  <2> TAKE i \in DOMAIN more
  <2>1. CASE i \in 1..Len(cells)
    BY <1>1, <2>1 DEF IsReadable
  <2>2. CASE i = Len(cells) + 1
    BY <1>1, <2>2 DEF IsReadableCell
  <2> QED
    BY <1>1, <2>1, <2>2
<1> QED
  BY <1>2 DEF IsReadable, more

LEMMA ReadableJoin ==
    ASSUME NEW cells \in Seq(Cell), IsReadable(cells),
           NEW rest \in Seq(Cell), IsReadable(rest)
    PROVE  IsReadable(cells \o rest)
<1> DEFINE more == cells \o rest
<1>1. \A i \in DOMAIN more :
          \/ i \in DOMAIN cells /\ more[i] = cells[i]
          \/ i - Len(cells) \in DOMAIN rest /\ more[i] = rest[i - Len(cells)]
  OBVIOUS
<1> HIDE DEF more
<1>2. \A i \in DOMAIN more : more[i].kind = "frame" => DecodesToRawSize(more[i].block)
  BY <1>1 DEF IsReadable
<1> QED
  BY <1>2 DEF IsReadable, more

LEMMA ReadablePart ==
    ASSUME NEW cells \in Seq(Cell), IsReadable(cells),
           NEW m \in 1..Len(cells) + 1, NEW n \in 0..Len(cells)
    PROVE  SubSeq(cells, m, n) \in Seq(Cell) /\ IsReadable(SubSeq(cells, m, n))
<1> DEFINE part == SubSeq(cells, m, n)
<1>1. part \in Seq(Cell)
  OBVIOUS
<1>2. \A i \in DOMAIN part : part[i] = cells[m + i - 1] /\ m + i - 1 \in DOMAIN cells
  OBVIOUS
<1> HIDE DEF part
<1>3. \A i \in DOMAIN part : part[i].kind = "frame" => DecodesToRawSize(part[i].block)
  BY <1>2 DEF IsReadable
<1> QED
  BY <1>1, <1>3 DEF IsReadable, part

LEMMA ReadableTail ==
    ASSUME NEW cells \in Seq(Cell), IsReadable(cells), cells # << >>
    PROVE  IsReadable(Tail(cells))
<1>1. /\ Tail(cells) = SubSeq(cells, 2, Len(cells))
      /\ 2 \in 1..Len(cells) + 1 /\ Len(cells) \in 0..Len(cells)
  OBVIOUS
<1> QED
  BY <1>1, ReadablePart

-----------------------------------------------------------------------------
(* The inspector, cell by cell: as the reader, without decoding columns. *)

InspectAll(cells) == FoldLeft(InspectCell, ReaderStart, cells)

LEMMA InspectUnfolds ==
    ASSUME NEW cells, NEW n \in Nat, DOMAIN cells = 1..n
    PROVE  \E t : /\ t[0] = ReaderStart
                  /\ \A k \in 1..n : t[k] = InspectCell(t[k - 1], cells[k])
                  /\ InspectAll(cells) = t[n]
<1> DEFINE More(f, s) == IF s = {} THEN ReaderStart
                         ELSE InspectCell(f[s \ {Max(s)}], cells[Max(s)])
           Solves(f, m) == f = [s \in SUBSET (1..m) |-> More(f, s)]
           solved == {m \in Nat : \E f : Solves(f, m)}
<1>1. 0 \in solved
  <2> DEFINE f == [s \in SUBSET (1..0) |-> ReaderStart]
  <2>1. \A s \in SUBSET (1..0) : s = {}
    OBVIOUS
  <2>2. Solves(f, 0)
    BY <2>1
  <2> QED
    BY <2>2
<1>2. ASSUME NEW m \in 0..n - 1, m \in solved
      PROVE  m + 1 \in solved
  <2>1. PICK f : Solves(f, m)
    BY <1>2
  <2> DEFINE g == [s \in SUBSET (1..m + 1) |->
                       IF m + 1 \in s THEN InspectCell(f[s \ {m + 1}], cells[m + 1]) ELSE f[s]]
  <2>2. \A s \in SUBSET (1..m) : s \in SUBSET (1..m + 1) /\ g[s] = f[s]
    <3> SUFFICES ASSUME NEW s \in SUBSET (1..m)
                 PROVE  s \in SUBSET (1..m + 1) /\ g[s] = f[s]
      OBVIOUS
    <3>1. m + 1 \notin s /\ s \in SUBSET (1..m + 1)
      OBVIOUS
    <3> QED
      BY <3>1
  <2>3. ASSUME NEW s \in SUBSET (1..m + 1)
        PROVE  g[s] = More(g, s)
    <3>1. CASE m + 1 \in s
      <4>1. Max(s) = m + 1 /\ s \ {m + 1} \in SUBSET (1..m) /\ s # {}
        BY <3>1, MaxIs
      <4>2. g[s] = InspectCell(f[s \ {m + 1}], cells[m + 1])
        BY <3>1
      <4>3. g[s \ {m + 1}] = f[s \ {m + 1}]
        BY <2>2, <4>1
      <4> HIDE DEF g
      <4> QED
        BY <4>1, <4>2, <4>3
    <3>2. CASE m + 1 \notin s
      <4>1. s \in SUBSET (1..m)
        BY <3>2
      <4>2. g[s] = f[s] /\ f[s] = More(f, s)
        BY <2>1, <2>2, <4>1
      <4>3. s \ {Max(s)} \in SUBSET (1..m)
        BY <4>1
      <4>4. g[s \ {Max(s)}] = f[s \ {Max(s)}]
        BY <2>2, <4>3
      <4> HIDE DEF g
      <4> QED
        BY <4>2, <4>4
    <3> QED
      BY <3>1, <3>2
  <2>4. Solves(g, m + 1)
    <3> DEFINE h == [s \in SUBSET (1..m + 1) |-> More(g, s)]
    <3>1. DOMAIN g = SUBSET (1..m + 1) /\ g = [s \in DOMAIN g |-> g[s]]
      OBVIOUS
    <3> HIDE DEF g
    <3>2. g = h
      BY <2>3, <3>1
    <3> QED
      BY <3>2
  <2>5. m + 1 \in Nat
    OBVIOUS
  <2> HIDE DEF g, Solves
  <2> QED
    BY <2>4, <2>5
<1>3. n \in solved
  <2> HIDE DEF solved
  <2>1. 0..n \subseteq solved
    BY <1>1, <1>2, Induction
  <2>2. n \in 0..n
    OBVIOUS
  <2> QED
    BY <2>1, <2>2
<1> DEFINE iter == CHOOSE f : Solves(f, n)
<1>4. Solves(iter, n)
  <2>1. \E f : Solves(f, n)
    BY <1>3
  <2> HIDE DEF Solves
  <2> QED
    BY <2>1, Zenon
<1>5. InspectAll(cells) = iter[1..n]
  BY Zenon DEF InspectAll, FoldLeft, MapThenFoldSet
<1> HIDE DEF iter
<1>6. iter[1..0] = ReaderStart
  <2>1. {} \in SUBSET (1..n) /\ 1..0 = {}
    OBVIOUS
  <2>2. iter[{}] = More(iter, {})
    BY <1>4, <2>1
  <2> QED
    BY <2>1, <2>2
<1>7. ASSUME NEW k \in 1..n
      PROVE  iter[1..k] = InspectCell(iter[1..k - 1], cells[k])
  <2>1. 1..k \in SUBSET (1..n) /\ 1..k # {}
    <3>1. k \in 1..k /\ \A x \in 1..k : x \in 1..n
      OBVIOUS
    <3> QED
      BY <3>1
  <2>2. Max(1..k) = k /\ (1..k) \ {k} = 1..k - 1
    <3>1. 1..k \in SUBSET Nat /\ k \in 1..k /\ \A y \in 1..k : y <= k
      OBVIOUS
    <3>2. \A x : x \in (1..k) \ {k} <=> x \in 1..k - 1
      OBVIOUS
    <3> QED
      BY <3>1, <3>2, MaxIs
  <2>3. iter[1..k] = More(iter, 1..k)
    <3> HIDE DEF More
    <3> QED
      BY <1>4, <2>1
  <2> QED
    BY <2>1, <2>2, <2>3
<1> DEFINE t == [k \in 0..n |-> iter[1..k]]
<1>8. t[0] = ReaderStart /\ t[n] = iter[1..n]
  BY <1>6
<1>9. ASSUME NEW k \in 1..n
      PROVE  t[k] = InspectCell(t[k - 1], cells[k])
  BY <1>7
<1> HIDE DEF t
<1> QED
  BY <1>5, <1>8, <1>9

LEMMA InspectTable ==
    ASSUME NEW body \in Seq(Cell), body # << >>, body[1] = Header, NEW last
    PROVE  LET file == Append(body, last)
               n    == Len(body)
           IN  \E t : /\ t[1] = ReaderStart
                      /\ \A k \in 1..n - 1 : t[k + 1] = InspectCell(t[k], body[k + 1])
                      /\ Inspect(file) = InspectCell(t[n], last)
<1> DEFINE file == Append(body, last)
           m == Len(body)
           rest == Tail(file)
<1> DEFINE X == Cell \cup {last}
<1>1. m \in Nat \ {0} /\ DOMAIN body = 1..m /\ body \in Seq(X) /\ last \in X
  OBVIOUS
<1> HIDE DEF X
<1>2. /\ file \in Seq(X) /\ Len(file) = m + 1 /\ file[m + 1] = last
      /\ \A k \in 1..m : file[k] = body[k]
  BY <1>1
<1> HIDE DEF file, m
<1>3. file # << >>
  BY <1>1, <1>2
<1>4. file[1] = Header
  BY <1>1, <1>2
<1>5. /\ rest \in Seq(X) /\ Len(rest) = m /\ DOMAIN rest = 1..m
      /\ \A k \in 1..m : rest[k] = file[k + 1]
  BY <1>1, <1>2, <1>3
<1>6. Inspect(file) = InspectAll(rest)
  BY <1>3, <1>4 DEF Inspect, InspectAll
<1> HIDE DEF rest
<1>7. PICK u : /\ u[0] = ReaderStart
               /\ \A k \in 1..m : u[k] = InspectCell(u[k - 1], rest[k])
               /\ InspectAll(rest) = u[m]
  <2>1. DOMAIN rest = 1..m
    BY <1>5
  <2>2. m \in Nat
    BY <1>1
  <2> QED
    BY <2>1, <2>2, InspectUnfolds
<1> DEFINE t == [k \in 1..m |-> u[k - 1]]
<1>8. t[1] = ReaderStart
  BY <1>1, <1>7
<1>9. ASSUME NEW k \in 1..m - 1
      PROVE  t[k + 1] = InspectCell(t[k], body[k + 1])
  <2>1. k \in 1..m /\ k + 1 \in 1..m /\ (k + 1) - 1 = k
    BY <1>1
  <2>2. t[k + 1] = u[k] /\ t[k] = u[k - 1]
    BY <2>1
  <2>3. rest[k] = body[k + 1]
    BY <1>2, <1>5, <2>1
  <2> QED
    BY <1>7, <2>1, <2>2, <2>3
<1>10. Inspect(file) = InspectCell(t[m], last)
  <2>1. m \in 1..m /\ t[m] = u[m - 1]
    BY <1>1
  <2>2. rest[m] = last
    BY <1>2, <1>5, <2>1
  <2>3. u[m] = InspectCell(u[m - 1], rest[m])
    BY <1>7, <2>1
  <2> QED
    BY <1>6, <1>7, <2>1, <2>2, <2>3
<1> HIDE DEF t
<1> QED
  BY <1>8, <1>9, <1>10, Zenon DEF file, m

LEMMA InspectCellIs ==
    ASSUME NEW r \in Reader, NEW c \in Cell, NEW d, d = InspectCell(r, c)
    PROVE  /\ d \in Reader
           /\ d.status = "reading" =>
                  /\ r.status = "reading" /\ c.kind = "frame" /\ c.block \in Block
                  /\ IsNextBlock(r, c.block) /\ d = TakeBlock(r, c.block)
<1> DEFINE takes == c.kind = "frame" /\ IsNextBlock(r, c.block)
           seals == /\ c.kind = "footer" /\ Len(c.index) <= MaxStreamBlocks
                    /\ c.index = r.entries
<1>1. ReaderFails(r) \in Reader /\ ReaderFails(r).status = "error"
  BY ReaderFailsIs
<1>2. CASE r.status = "reading" /\ takes
  <2>1. d = TakeBlock(r, c.block)
    BY <1>2 DEF InspectCell
  <2>2. c.block \in Block
    BY <1>2, CellParts
  <2>3. d \in Reader
    BY <2>1, <2>2, TakeBlockIs
  <2> QED
    BY <1>2, <2>1, <2>2, <2>3
<1>3. CASE r.status = "reading" /\ seals
  <2>1. d = [r EXCEPT !.status = "sealed"]
    BY <1>3 DEF InspectCell
  <2> QED
    BY <2>1 DEF Reader
<1>4. CASE r.status # "reading" \/ (~takes /\ ~seals)
  <2>1. d = ReaderFails(r)
    BY <1>4 DEF InspectCell
  <2> QED
    BY <1>1, <2>1
<1> QED
  BY <1>2, <1>3, <1>4

(* Only a footer that lists what was read seals a stream. *)
LEMMA FooterInspected ==
    ASSUME NEW r \in Reader, NEW c, InspectCell(r, c).status = "sealed"
    PROVE  /\ r.status = "reading" /\ c.kind = "footer"
           /\ Len(c.index) <= MaxStreamBlocks /\ c.index = r.entries
           /\ InspectCell(r, c).rows = r.rows
<1>1. ReaderFails(r).status = "error"
  BY ReaderFailsIs
<1>2. r.status = "reading"
  BY <1>1 DEF InspectCell
<1>3. c.kind # "frame"
  <2> SUFFICES ASSUME c.kind = "frame"
               PROVE  FALSE
    OBVIOUS
  <2>1. InspectCell(r, c) = TakeBlock(r, c.block) \/ InspectCell(r, c) = ReaderFails(r)
    BY <1>2 DEF InspectCell
  <2>2. TakeBlock(r, c.block).status = r.status
    BY DEF TakeBlock
  <2> QED
    BY <1>1, <1>2, <2>1, <2>2
<1>4. /\ c.kind = "footer" /\ Len(c.index) <= MaxStreamBlocks /\ c.index = r.entries
      /\ InspectCell(r, c) = [r EXCEPT !.status = "sealed"]
  BY <1>1, <1>2, <1>3 DEF InspectCell
<1> QED
  BY <1>2, <1>4 DEF Reader

(* The inspector after n cells of a file, if it still reads. *)
InspectsTo(r, cells, n) ==
    /\ r \in Reader
    /\ Len(r.entries) = n - 1
    /\ r.nextRow = NextRow(cells, n)
    /\ Groups(cells, n) \in Seq(Seq(Row))
    /\ r.rows = FlattenSeq(Groups(cells, n))
    /\ \A i \in 2..n : /\ cells[i].kind = "frame"
                       /\ cells[i].block.index = i - 2
                       /\ cells[i].block.first = NextRow(cells, i - 1)

LEMMA GroupsMore ==
    ASSUME NEW cells, NEW n \in Nat \ {0}, Groups(cells, n) \in Seq(Seq(Row)),
           cells[n + 1].block.rows \in Seq(Row)
    PROVE  Groups(cells, n + 1) = Append(Groups(cells, n), cells[n + 1].block.rows)
<1> DEFINE groups == Groups(cells, n)
           rows == cells[n + 1].block.rows
           longer == Append(groups, rows)
<1>1. groups = [k \in 1..n - 1 |-> cells[k + 1].block.rows]
  BY DEF Groups
<1>2. groups \in Seq(Seq(Row)) /\ rows \in Seq(Row) /\ Len(groups) = n - 1
  BY <1>1
<1> HIDE DEF groups
<1>3. /\ longer \in Seq(Seq(Row)) /\ Len(longer) = n /\ longer[n] = rows
      /\ \A k \in 1..n - 1 : longer[k] = groups[k]
  <2> HIDE DEF rows
  <2> QED
    BY <1>2
<1> HIDE DEF longer
<1>4. \A k \in 1..n : longer[k] = cells[k + 1].block.rows
  <2> TAKE k \in 1..n
  <2>1. CASE k = n
    BY <1>3, <2>1
  <2>2. CASE k # n
    <3>1. k \in 1..n - 1
      BY <2>2
    <3> QED
      BY <1>1, <1>3, <3>1
  <2> QED
    BY <2>1, <2>2
<1>5. longer = [k \in 1..n |-> longer[k]]
  BY <1>3
<1>6. Groups(cells, n + 1) = [k \in 1..n |-> cells[k + 1].block.rows]
  <2>1. (n + 1) - 1 = n
    OBVIOUS
  <2> QED
    BY <2>1 DEF Groups
<1>7. longer = Groups(cells, n + 1)
  BY <1>4, <1>5, <1>6
<1> QED
  BY <1>7 DEF longer, groups

LEMMA InspectsMore ==
    ASSUME NEW cells \in Seq(Cell), NEW n \in 1..Len(cells) - 1, NEW r,
           InspectsTo(r, cells, n), NEW d, d = InspectCell(r, cells[n + 1]),
           d.status = "reading"
    PROVE  InspectsTo(d, cells, n + 1)
<1> DEFINE c == cells[n + 1]
           b == c.block
           groups == Groups(cells, n)
           more == Groups(cells, n + 1)
<1>1. n \in Nat /\ n # 0 /\ n + 1 \in 1..Len(cells) /\ c \in Cell
  OBVIOUS
<1>2. /\ r \in Reader /\ Len(r.entries) = n - 1 /\ r.nextRow = NextRow(cells, n)
      /\ groups \in Seq(Seq(Row)) /\ r.rows = FlattenSeq(groups)
      /\ \A i \in 2..n : /\ cells[i].kind = "frame"
                         /\ cells[i].block.index = i - 2
                         /\ cells[i].block.first = NextRow(cells, i - 1)
  BY DEF InspectsTo
<1>3. /\ d \in Reader /\ c.kind = "frame" /\ b \in Block
      /\ IsNextBlock(r, b) /\ d = TakeBlock(r, b)
  BY <1>1, <1>2, InspectCellIs
<1>4. b.index \in Nat /\ b.first \in Nat /\ b.rows \in Seq(Row) /\ Len(b.rows) \in Nat
  <2>1. b.index \in Nat /\ b.first \in Nat /\ b.rows \in Seq(Row)
    <3> HIDE DEF b
    <3> QED
      BY <1>3 DEF Block
  <2> QED
    BY <2>1
<1>5. b.index = n - 1 /\ b.first = NextRow(cells, n)
  BY <1>2, <1>3 DEF IsNextBlock
<1>6. /\ d.entries = Append(r.entries, Entry(b, r.nextOffset))
      /\ d.nextRow = r.nextRow + Len(b.rows)
      /\ d.rows = r.rows \o b.rows
  <2>1. r \in Reader /\ b \in Block /\ d = TakeBlock(r, b)
    BY <1>2, <1>3
  <2> HIDE DEF b
  <2> QED
    BY ONLY <2>1, TakeBlockIs, Zenon
<1>7. Len(d.entries) = n
  <2> DEFINE e == Entry(b, r.nextOffset)
  <2>1. d.entries \in Seq(EntrySet) /\ r.entries \in Seq(EntrySet)
    BY <1>2, <1>3 DEF Reader
  <2>2. e \in EntrySet
    <3>1. r.nextOffset \in Nat
      BY <1>2 DEF Reader
    <3> HIDE DEF b
    <3> QED
      BY <1>3, <1>4, <3>1 DEF Entry, EntrySet, FrameLen
  <2> HIDE DEF e, b, c
  <2>3. Len(Append(r.entries, e)) = Len(r.entries) + 1
    BY <2>1, <2>2
  <2> QED
    BY <1>1, <1>2, <1>6, <2>3 DEF e
<1>8. d.nextRow = NextRow(cells, n + 1)
  <2>1. NextRow(cells, n + 1) = b.first + Len(b.rows)
    BY <1>1 DEF NextRow
  <2> QED
    BY <1>2, <1>5, <1>6, <2>1
<1>9. more = Append(groups, b.rows)
  BY <1>1, <1>2, <1>4, GroupsMore
<1>10. more \in Seq(Seq(Row)) /\ d.rows = FlattenSeq(more)
  <2> HIDE DEF b, groups, more, c
  <2>1. more \in Seq(Seq(Row))
    BY <1>2, <1>4, <1>9
  <2>2. FlattenSeq(more) = FlattenSeq(groups) \o b.rows
    BY <1>2, <1>4, <1>9, FlattenUnfolds
  <2> QED
    BY <1>2, <1>6, <2>1, <2>2
<1>11. \A i \in 2..n + 1 : /\ cells[i].kind = "frame"
                            /\ cells[i].block.index = i - 2
                            /\ cells[i].block.first = NextRow(cells, i - 1)
  <2> TAKE i \in 2..n + 1
  <2>1. CASE i = n + 1
    <3>1. (n + 1) - 2 = n - 1 /\ (n + 1) - 1 = n
      BY <1>1
    <3> QED
      BY <1>3, <1>5, <2>1, <3>1
  <2>2. CASE i # n + 1
    <3>1. i \in 2..n
      BY <1>1, <2>2
    <3> QED
      BY <1>2, <3>1
  <2> QED
    BY <2>1, <2>2
<1> HIDE DEF b, c, groups, more
<1>12. (n + 1) - 1 = n
  BY <1>1
<1> QED
  BY <1>3, <1>7, <1>8, <1>10, <1>11, <1>12 DEF InspectsTo, more

(* A sealed stream is a header, frames that follow on and a footer, and the  *)
(* inspector counted the rows of those frames.                               *)
LEMMA SealedIs ==
    ASSUME NEW body \in Seq(Cell), body # << >>, body[1] = Header, NEW last,
           Inspect(Append(body, last)).status = "sealed"
    PROVE  /\ last.kind = "footer"
           /\ \A i \in 1..Len(body) : FollowsOn(body, i)
           /\ Inspect(Append(body, last)).rows = FlattenSeq(Groups(body, Len(body)))
<1> DEFINE n == Len(body)
           seen == Inspect(Append(body, last))
<1>1. PICK t : /\ t[1] = ReaderStart
               /\ \A k \in 1..n - 1 : t[k + 1] = InspectCell(t[k], body[k + 1])
               /\ seen = InspectCell(t[n], last)
  BY InspectTable
<1>2. n \in Nat \ {0}
  OBVIOUS
<1>3. InspectsTo(t[1], body, 1)
  <2>1. Groups(body, 1) = << >>
    BY DEF Groups
  <2>2. FlattenSeq(Groups(body, 1)) = << >>
    BY <2>1, FlattenUnfolds
  <2>3. /\ << >> \in Seq(EntrySet) /\ << >> \in Seq(Row) /\ << >> \in Seq(Seq(Row))
        /\ Len(<< >>) = 0
    OBVIOUS
  <2>4. /\ t[1] \in Reader /\ t[1].entries = << >> /\ t[1].rows = << >> /\ t[1].nextRow = 0
    BY <1>1, <2>3 DEF ReaderStart, Reader, HeaderLen
  <2>5. NextRow(body, 1) = 0
    BY DEF NextRow
  <2>6. Groups(body, 1) \in Seq(Seq(Row))
    BY <2>1, <2>3
  <2> QED
    BY <2>1, <2>2, <2>3, <2>4, <2>5, <2>6 DEF InspectsTo
<1> HIDE DEF n, seen
<1>4. ASSUME NEW k \in 1..n - 1, t[k] \in Reader,
             t[k].status = "reading" => InspectsTo(t[k], body, k)
      PROVE  /\ t[k + 1] \in Reader
             /\ t[k + 1].status = "reading" => InspectsTo(t[k + 1], body, k + 1)
  <2>1. k \in 1..Len(body) - 1 /\ body[k + 1] \in Cell /\ t[k + 1] = InspectCell(t[k], body[k + 1])
    <3>1. k \in 1..Len(body) - 1
      BY DEF n
    <3>2. body[k + 1] \in Cell
      BY <3>1
    <3> QED
      BY <1>1, <3>1, <3>2
  <2>2. /\ t[k + 1] \in Reader
        /\ t[k + 1].status = "reading" => t[k].status = "reading"
    BY <1>4, <2>1, InspectCellIs
  <2> QED
    BY <1>4, <2>1, <2>2, InspectsMore
<1> DEFINE good == {k \in 0..n - 1 : /\ t[k + 1] \in Reader
                                     /\ t[k + 1].status = "reading" =>
                                            InspectsTo(t[k + 1], body, k + 1)}
<1>5. 0 \in good
  BY <1>2, <1>3 DEF InspectsTo
<1>6. ASSUME NEW k \in 0..(n - 1) - 1, k \in good
      PROVE  k + 1 \in good
  <2>1. k + 1 \in 1..n - 1 /\ k + 1 \in 0..n - 1
    BY <1>2
  <2> QED
    BY <1>4, <1>6, <2>1
<1>7. n - 1 \in good
  <2> HIDE DEF good
  <2>1. 0..n - 1 \subseteq good /\ n - 1 \in 0..n - 1
    BY <1>2, <1>5, <1>6, Induction
  <2> QED
    BY <2>1
<1>8. (n - 1) + 1 = n
  BY <1>2
<1>9. t[n] \in Reader /\ (t[n].status = "reading" => InspectsTo(t[n], body, n))
  BY <1>7, <1>8
<1>10. /\ t[n].status = "reading" /\ last.kind = "footer"
       /\ Len(last.index) <= MaxStreamBlocks /\ last.index = t[n].entries
       /\ seen.rows = t[n].rows
  <2>1. seen.status = "sealed"
    BY DEF seen
  <2> QED
    BY <1>1, <1>9, <2>1, FooterInspected
<1>11. /\ n - 1 <= MaxStreamBlocks /\ seen.rows = FlattenSeq(Groups(body, n))
       /\ \A i \in 2..n : /\ body[i].kind = "frame"
                          /\ body[i].block.index = i - 2
                          /\ body[i].block.first = NextRow(body, i - 1)
  BY <1>9, <1>10 DEF InspectsTo
<1>12. \A i \in 1..n : FollowsOn(body, i)
  <2> TAKE i \in 1..n
  <2>1. CASE i = 1
    BY <2>1 DEF FollowsOn
  <2>2. CASE i # 1
    <3>1. i \in 2..n /\ i - 2 < MaxStreamBlocks
      BY <1>2, <1>11, <2>2, MaxStreamBlocksAssumption
    <3> QED
      BY <1>11, <2>2, <3>1 DEF FollowsOn
  <2> QED
    BY <2>1, <2>2
<1> QED
  BY <1>10, <1>11, <1>12 DEF n, seen

(* A stream that is sealed holds what recovery would find in it. *)
LEMMA SealedRows ==
    ASSUME NEW file \in Seq(Cell), file # << >>, file[1] = Header,
           Inspect(file).status = "sealed"
    PROVE  Inspect(file).rows = FlattenSeq(Recovered(file))
<1> DEFINE n == Len(file) - 1
           body == SubSeq(file, 1, n)
           last == file[Len(file)]
<1>1. n # 0
  <2> SUFFICES ASSUME Len(file) = 1
               PROVE  FALSE
    OBVIOUS
  <2> DEFINE rest == Tail(file)
  <2>1. rest \in Seq(Cell) /\ Len(rest) = 0
    OBVIOUS
  <2> HIDE DEF rest
  <2>2. InspectAll(rest) = ReaderStart
    <3>1. DOMAIN rest = 1..0 /\ 0 \in Nat
      BY <2>1
    <3>2. PICK t : /\ t[0] = ReaderStart
                   /\ \A k \in 1..0 : t[k] = InspectCell(t[k - 1], rest[k])
                   /\ InspectAll(rest) = t[0]
      BY <3>1, InspectUnfolds
    <3> QED
      BY <3>2
  <2>3. Inspect(file) = ReaderStart
    BY <2>2 DEF Inspect, InspectAll, rest
  <2> QED
    BY <2>3 DEF ReaderStart
<1>2. Len(file) \in Nat \ {0}
  OBVIOUS
<1>3. n \in Nat \ {0} /\ Len(file) = n + 1
  BY <1>1, <1>2
<1>4. /\ body \in Seq(Cell) /\ Len(body) = n /\ \A i \in 1..n : body[i] = file[i]
      /\ last \in Cell
  BY <1>3
<1>5. file = Append(body, last)
  <2> DEFINE other == Append(body, last)
  <2>1. /\ other \in Seq(Cell) /\ Len(other) = n + 1 /\ other[n + 1] = last
        /\ \A i \in 1..n : other[i] = body[i]
    <3> HIDE DEF body, last, n
    <3> QED
      BY <1>3, <1>4
  <2> HIDE DEF body, other
  <2>2. \A i \in 1..n + 1 : other[i] = file[i]
    BY <1>3, <1>4, <2>1
  <2>3. other = file
    BY <1>3, <2>1, <2>2, SeqEqual
  <2> QED
    BY <2>3 DEF other
<1> HIDE DEF body, last, n
<1>6. body # << >> /\ body[1] = Header
  BY <1>3, <1>4
<1>7. Inspect(Append(body, last)).status = "sealed"
  BY <1>5
<1>8. /\ last.kind = "footer" /\ \A i \in 1..n : FollowsOn(body, i)
      /\ Inspect(file).rows = FlattenSeq(Groups(body, n))
  BY <1>4, <1>5, <1>6, <1>7, SealedIs
<1>9. IsValidLen(body, n)
  BY <1>3, <1>4, <1>8 DEF IsValidLen
<1>10. Recovered(file) = Recovered(body)
  BY <1>4, <1>5, <1>6, <1>8, <1>9, AppendedOther
<1>11. ValidLen(body) = n
  BY <1>3, <1>4, <1>9, ValidLenUnique
<1>12. Recovered(body) = Groups(body, n)
  BY <1>11 DEF Recovered, Groups
<1> QED
  BY <1>8, <1>10, <1>12
=============================================================================
