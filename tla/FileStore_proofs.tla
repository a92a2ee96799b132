--------------------------- MODULE FileStore_proofs ---------------------------
(***************************************************************************)
(* Proofs about the files of the CLI: what append_jsonl_stream makes of any *)
(* file it finds, and what the log holds whatever is killed, fails, loses   *)
(* its power or overlaps; that a roll has the rows it was given in its      *)
(* segments, in order; and that a repair puts down what the bytes it read   *)
(* lead to, whole, for any file.                                            *)
(***************************************************************************)
EXTENDS FileStore, Cmp2File_proofs, FiniteSetTheorems

-----------------------------------------------------------------------------
(* Groups end to end. *)

LEMMA OneGroupMore ==
    ASSUME NEW X, NEW groups \in Seq(Seq(X)), NEW m \in 0..Len(groups) - 1
    PROVE  /\ SubSeq(groups, 1, m) \in Seq(Seq(X))
           /\ SubSeq(groups, 1, m + 1) = Append(SubSeq(groups, 1, m), groups[m + 1])
           /\ groups[m + 1] \in Seq(X)
           /\ FlattenSeq(SubSeq(groups, 1, m + 1))
                  = FlattenSeq(SubSeq(groups, 1, m)) \o groups[m + 1]
           /\ FlattenSeq(SubSeq(groups, 1, m)) \in Seq(X)
<1> DEFINE Y == Seq(X)
           front == SubSeq(groups, 1, m)
           g == groups[m + 1]
<1>1. groups \in Seq(Y)
  OBVIOUS
<1> HIDE DEF Y
<1>2. front \in Seq(Y) /\ g \in Y /\ SubSeq(groups, 1, m + 1) = Append(front, g)
  BY <1>1
<1> HIDE DEF front, g
<1>3. FlattenSeq(Append(front, g)) = FlattenSeq(front) \o g /\ FlattenSeq(front) \in Seq(X)
  BY <1>2, FlattenUnfolds DEF Y
<1> QED
  BY <1>2, <1>3 DEF Y, front, g

LEMMA NoGroups ==
    ASSUME NEW X, NEW groups \in Seq(Seq(X))
    PROVE  /\ SubSeq(groups, 1, 0) = << >>
           /\ FlattenSeq(SubSeq(groups, 1, 0)) = << >>
           /\ SubSeq(groups, 1, Len(groups)) = groups
<1>1. SubSeq(groups, 1, 0) = << >>
  OBVIOUS
<1>2. SubSeq(groups, 1, Len(groups)) = groups
  OBVIOUS
<1> QED
  BY <1>1, <1>2, FlattenUnfolds, Zenon

LEMMA JoinAssociates ==
    ASSUME NEW X, NEW a \in Seq(X), NEW b \in Seq(X), NEW c \in Seq(X)
    PROVE  (a \o b) \o c = a \o (b \o c)
OBVIOUS

LEMMA JoinOneMore ==
    ASSUME NEW X, NEW a \in Seq(X), NEW b \in Seq(X), NEW x \in X
    PROVE  a \o Append(b, x) = Append(a \o b, x)
OBVIOUS

LEMMA FlattenJoins ==
    ASSUME NEW X, NEW a \in Seq(Seq(X)), NEW b \in Seq(Seq(X))
    PROVE  FlattenSeq(a \o b) = FlattenSeq(a) \o FlattenSeq(b)
<1> DEFINE Y == Seq(X)
           n == Len(b)
           B(m) == SubSeq(b, 1, m)
           F(m) == FlattenSeq(B(m))
           flat == FlattenSeq(a)
           joined == {m \in 0..n : FlattenSeq(a \o B(m)) = flat \o F(m)}
<1>1. /\ a \in Seq(Y) /\ flat \in Seq(X) /\ n \in Nat
      /\ B(0) = << >> /\ F(0) = << >> /\ B(n) = b
  <2>1. flat \in Seq(X)
    BY FlattenUnfolds
  <2> QED
    BY <2>1, NoGroups
<1>2. \A m \in 0..n - 1 :
          /\ B(m) \in Seq(Y) /\ b[m + 1] \in Y /\ B(m + 1) = Append(B(m), b[m + 1])
          /\ F(m + 1) = F(m) \o b[m + 1] /\ F(m) \in Seq(X)
  BY OneGroupMore
<1>3. \A gs \in Seq(Y), g \in Y : FlattenSeq(Append(gs, g)) = FlattenSeq(gs) \o g
  BY FlattenUnfolds
<1> HIDE DEF Y, n, B, F, flat
<1>5. a \o << >> = a /\ flat \o << >> = flat
  BY <1>1, NoElements
<1>6. 0 \in joined
  <2>1. a \o B(0) = a /\ flat \o F(0) = flat
    BY <1>1, <1>5
  <2>2. FlattenSeq(a \o B(0)) = flat \o F(0)
    BY <2>1 DEF flat
  <2> QED
    BY <1>1, <2>2
<1>7. ASSUME NEW m \in 0..n - 1, m \in joined
      PROVE  m + 1 \in joined
  <2> DEFINE front == B(m)
             g == b[m + 1]
             both == a \o front
  <2>1. /\ front \in Seq(Y) /\ g \in Y /\ B(m + 1) = Append(front, g)
        /\ F(m + 1) = F(m) \o g /\ F(m) \in Seq(X)
        /\ FlattenSeq(both) = flat \o F(m)
    BY <1>2, <1>7
  <2> HIDE DEF front, g
  <2>2. both \in Seq(Y) /\ a \o Append(front, g) = Append(both, g)
    <3>1. a \in Seq(Y) /\ front \in Seq(Y) /\ g \in Y
      BY <1>1, <2>1
    <3>2. a \o Append(front, g) = Append(a \o front, g) /\ a \o front \in Seq(Y)
      BY ONLY <3>1
    <3> QED
      BY <3>2
  <2> HIDE DEF both
  <2>3. FlattenSeq(Append(both, g)) = (flat \o F(m)) \o g
    BY <1>3, <2>1, <2>2
  <2>4. (flat \o F(m)) \o g = flat \o F(m + 1)
    <3>1. flat \in Seq(X) /\ F(m) \in Seq(X) /\ g \in Seq(X)
      BY <1>1, <2>1 DEF Y
    <3>2. (flat \o F(m)) \o g = flat \o (F(m) \o g)
      BY ONLY <3>1
    <3> QED
      BY <2>1, <3>2
  <2>5. FlattenSeq(a \o B(m + 1)) = flat \o F(m + 1)
    BY <2>1, <2>2, <2>3, <2>4
  <2>6. m + 1 \in 0..n
    BY <1>1
  <2> QED
    BY <2>5, <2>6
<1>8. 0..n \subseteq joined
  <2> HIDE DEF joined
  <2> QED
    BY <1>1, <1>6, <1>7, Induction
<1>9. FlattenSeq(a \o B(n)) = flat \o F(n)
  BY <1>1, <1>8
<1> QED
  BY <1>1, <1>9 DEF flat, F

(* A row of a group is a row. *)
LEMMA FlattenHas ==
    ASSUME NEW X, NEW groups \in Seq(Seq(X)), NEW k \in 1..Len(groups),
           NEW i \in 1..Len(groups[k])
    PROVE  \E j \in DOMAIN FlattenSeq(groups) : FlattenSeq(groups)[j] = groups[k][i]
<1> DEFINE F(m) == FlattenSeq(SubSeq(groups, 1, m))
           n == Len(groups)
           found == {m \in 0..n - k : \E j \in DOMAIN F(k + m) : F(k + m)[j] = groups[k][i]}
<1>1. n \in Nat /\ k \in Nat /\ k >= 1 /\ n - k \in Nat /\ k <= n
  OBVIOUS
<1>2. \A m \in 0..n - 1 :
          F(m) \in Seq(X) /\ groups[m + 1] \in Seq(X) /\ F(m + 1) = F(m) \o groups[m + 1]
  BY OneGroupMore
<1> HIDE DEF F, n
<1>3. 0 \in found
  <2> DEFINE f == F(k - 1)
             g == groups[k]
  <2>1. k - 1 \in 0..n - 1 /\ (k - 1) + 1 = k
    BY <1>1
  <2>2. f \in Seq(X) /\ g \in Seq(X) /\ F(k) = f \o g
    BY <1>2, <2>1
  <2> HIDE DEF f
  <2>3. (f \o g)[Len(f) + i] = g[i] /\ Len(f) + i \in DOMAIN (f \o g)
    BY <2>2
  <2>4. k + 0 = k
    BY <1>1
  <2> QED
    BY <1>1, <2>2, <2>3, <2>4
<1>4. ASSUME NEW m \in 0..n - k - 1, m \in found
      PROVE  m + 1 \in found
  <2> DEFINE f == F(k + m)
             g == groups[k + m + 1]
             x == groups[k][i]
  <2>1. k + m \in 0..n - 1 /\ k + (m + 1) = (k + m) + 1 /\ m + 1 \in 0..n - k
    BY <1>1
  <2>2. f \in Seq(X) /\ g \in Seq(X) /\ F(k + (m + 1)) = f \o g
    BY <1>2, <2>1
  <2>3. PICK j \in DOMAIN f : f[j] = x
    BY <1>4
  <2> HIDE DEF f, g, x
  <2>4. j \in DOMAIN (f \o g) /\ (f \o g)[j] = x
    BY <2>2, <2>3
  <2> QED
    BY <2>1, <2>2, <2>4 DEF x
<1>5. 0..n - k \subseteq found
  <2> HIDE DEF found
  <2>1. n - k \in Nat
    BY <1>1
  <2> QED
    BY <1>3, <1>4, <2>1, Induction
<1>6. n - k \in found /\ k + (n - k) = n
  <2>1. n - k \in 0..n - k /\ k + (n - k) = n
    BY <1>1
  <2> HIDE DEF found
  <2> QED
    BY <1>5, <2>1
<1>7. F(n) = FlattenSeq(groups)
  BY NoGroups DEF F, n
<1>8. \E j \in DOMAIN F(n) : F(n)[j] = groups[k][i]
  BY <1>6
<1> QED
  BY <1>7, <1>8

-----------------------------------------------------------------------------
(* Frames put behind a file that recovery keeps whole. *)

IsWhole(cells) == cells \in Seq(Cell) /\ cells # << >> /\ IsValidLen(cells, Len(cells))

AreDecodable(groups) ==
    \A k \in DOMAIN groups : \A i \in DOMAIN groups[k] : groups[k][i].kind = "row"

LEMMA FramesType ==
    ASSUME NEW groups \in Seq(Seq(Row)), NEW index \in Nat, NEW first \in Nat
    PROVE  /\ Frames(groups, index, first) \in Seq(Cell)
           /\ Len(Frames(groups, index, first)) = Len(groups)
           /\ \A k \in 1..Len(groups) :
                 LET b == [index |-> index + k - 1,
                           first |-> first + Len(FlattenSeq(SubSeq(groups, 1, k - 1))),
                           rows  |-> groups[k]]
                 IN  b \in Block /\ Frames(groups, index, first)[k] = Frame(b)
<1> DEFINE B(k) == [index |-> index + k - 1,
                    first |-> first + Len(FlattenSeq(SubSeq(groups, 1, k - 1))),
                    rows  |-> groups[k]]
           frames == Frames(groups, index, first)
<1>1. frames = [k \in 1..Len(groups) |-> Frame(B(k))]
  BY DEF Frames
<1>2. \A k \in 1..Len(groups) : B(k) \in Block
  <2> TAKE k \in 1..Len(groups)
  <2>1. k - 1 \in 0..Len(groups) - 1 /\ (k - 1) + 1 = k
    OBVIOUS
  <2>2. FlattenSeq(SubSeq(groups, 1, k - 1)) \in Seq(Row) /\ groups[k] \in Seq(Row)
    BY <2>1, OneGroupMore
  <2>3. Len(FlattenSeq(SubSeq(groups, 1, k - 1))) \in Nat /\ index + k - 1 \in Nat
    BY <2>2
  <2> QED
    BY <2>2, <2>3 DEF Block
<1> HIDE DEF B
<1>3. \A k \in 1..Len(groups) : Frame(B(k)) \in Cell
  BY <1>2, CellTypes
<1>4. frames \in Seq(Cell) /\ Len(frames) = Len(groups)
  BY <1>1, <1>3
<1>5. \A k \in 1..Len(groups) : B(k) \in Block /\ frames[k] = Frame(B(k))
  BY <1>1, <1>2
<1> QED
  BY <1>4, <1>5 DEF B

LEMMA FramesFollow ==
    ASSUME NEW kept, IsWhole(kept), NEW groups \in Seq(Seq(Row)),
           Len(kept) - 1 + Len(groups) <= MaxStreamBlocks,
           NEW index, index = Len(kept) - 1, NEW first, first = NextRow(kept, Len(kept)),
           first \in Nat
    PROVE  LET whole == kept \o Frames(groups, index, first)
           IN  /\ IsWhole(whole)
               /\ Recovered(whole) = Recovered(kept) \o groups
               /\ IsReadable(kept) /\ AreDecodable(groups) => IsReadable(whole)
<1> DEFINE frames == Frames(groups, index, first)
           n == Len(groups)
           l == Len(kept)
           W(m) == kept \o SubSeq(frames, 1, m)
           F(m) == FlattenSeq(SubSeq(groups, 1, m))
           R(m) == Recovered(kept) \o SubSeq(groups, 1, m)
           Good(m) == /\ IsWhole(W(m)) /\ Len(W(m)) = l + m
                      /\ NextRow(W(m), l + m) = first + Len(F(m))
                      /\ Recovered(W(m)) = R(m)
                      /\ IsReadable(kept) /\ AreDecodable(groups) => IsReadable(W(m))
           good == {m \in 0..n : Good(m)}
<1>1. /\ kept \in Seq(Cell) /\ l \in Nat /\ l >= 1 /\ n \in Nat /\ index \in Nat
  BY EmptySeq DEF IsWhole
<1>2. /\ frames \in Seq(Cell) /\ Len(frames) = n
      /\ \A k \in 1..n :
             LET b == [index |-> index + k - 1,
                       first |-> first + Len(FlattenSeq(SubSeq(groups, 1, k - 1))),
                       rows  |-> groups[k]]
             IN  b \in Block /\ frames[k] = Frame(b)
  BY <1>1, FramesType
<1> HIDE DEF frames
<1>3. Recovered(kept) \in Seq(Seq(Row))
  BY <1>1, RecoveredIs
<1>4. W(0) = kept /\ F(0) = << >> /\ R(0) = Recovered(kept) /\ W(n) = kept \o frames
      /\ R(n) = Recovered(kept) \o groups
  <2>1. SubSeq(frames, 1, 0) = << >> /\ SubSeq(frames, 1, n) = frames
    BY <1>2
  <2>2. SubSeq(groups, 1, 0) = << >> /\ SubSeq(groups, 1, n) = groups /\ F(0) = << >>
    BY NoGroups
  <2>3. kept \o << >> = kept /\ Recovered(kept) \o << >> = Recovered(kept)
    BY <1>1, <1>3, NoElements
  <2> QED
    BY <2>1, <2>2, <2>3
<1>5. ASSUME NEW m \in 0..n - 1
      PROVE  /\ W(m + 1) = Append(W(m), frames[m + 1])
             /\ groups[m + 1] \in Seq(Row) /\ F(m) \in Seq(Row)
             /\ F(m + 1) = F(m) \o groups[m + 1]
             /\ R(m + 1) = Append(R(m), groups[m + 1])
  <2> DEFINE Y == Seq(Row)
             fs(k) == SubSeq(frames, 1, k)
             gs(k) == SubSeq(groups, 1, k)
             c == frames[m + 1]
             g == groups[m + 1]
             found == Recovered(kept)
  <2>1. fs(m + 1) = Append(fs(m), c) /\ fs(m) \in Seq(Cell) /\ c \in Cell
    BY <1>1, <1>2
  <2>2. /\ gs(m) \in Seq(Y) /\ gs(m + 1) = Append(gs(m), g) /\ g \in Y
        /\ F(m) \in Seq(Row) /\ F(m + 1) = F(m) \o g /\ found \in Seq(Y)
    BY <1>3, OneGroupMore
  <2>3. /\ W(m) = kept \o fs(m) /\ W(m + 1) = kept \o fs(m + 1)
        /\ R(m) = found \o gs(m) /\ R(m + 1) = found \o gs(m + 1)
    OBVIOUS
  <2> HIDE DEF fs, gs, c, found, W, R, F
  <2>4. kept \o Append(fs(m), c) = Append(kept \o fs(m), c)
    <3> DEFINE part == fs(m)
    <3>1. part \in Seq(Cell) /\ kept \in Seq(Cell) /\ c \in Cell
      BY <1>1, <2>1
    <3> HIDE DEF part
    <3>2. kept \o Append(part, c) = Append(kept \o part, c)
      BY ONLY <3>1
    <3> QED
      BY <3>2 DEF part
  <2>5. found \o Append(gs(m), g) = Append(found \o gs(m), g)
    <3> DEFINE part == gs(m)
    <3>1. part \in Seq(Y) /\ found \in Seq(Y) /\ g \in Y
      BY <2>2
    <3> HIDE DEF Y, g, part
    <3>2. found \o Append(part, g) = Append(found \o part, g)
      BY ONLY <3>1
    <3> QED
      BY <3>2 DEF part, g
  <2>6. W(m + 1) = Append(W(m), c) /\ R(m + 1) = Append(R(m), g)
    BY <2>1, <2>2, <2>3, <2>4, <2>5
  <2> QED
    BY <2>2, <2>6 DEF c
<1>6. ASSUME NEW m \in 0..n - 1
      PROVE  LET b == [index |-> index + m, first |-> first + Len(F(m)), rows |-> groups[m + 1]]
             IN  b \in Block /\ frames[m + 1] = Frame(b)
  <2> DEFINE k == m + 1
  <2>1. k \in 1..n /\ k - 1 = m /\ index + k - 1 = index + m
    BY <1>1
  <2>2. LET b == [index |-> index + m, first |-> first + Len(F(k - 1)), rows |-> groups[k]]
        IN  b \in Block /\ frames[k] = Frame(b)
    <3> HIDE DEF k
    <3> QED
      BY <1>2, <2>1
  <2> QED
    BY <2>1, <2>2
<1> HIDE DEF W, R, F
<1>7. 0 \in good
  <2>1. NextRow(kept, l + 0) = first /\ Len(F(0)) = 0 /\ l + 0 = l
    BY <1>1, <1>4
  <2>2. Len(W(0)) = l + 0
    BY <1>1, <1>4
  <2>3. Good(0)
    BY <1>4, <2>1, <2>2
  <2> QED
    BY <1>1, <2>3
<1>8. ASSUME NEW m \in 0..n - 1, m \in good
      PROVE  m + 1 \in good
  <2> DEFINE w == W(m)
             b == [index |-> index + m, first |-> first + Len(F(m)), rows |-> groups[m + 1]]
             longer == Append(w, Frame(b))
             g == groups[m + 1]
             r == Recovered(w)
             f == F(m)
  <2>1. Good(m)
    BY <1>8
  <2>2. w \in Seq(Cell) /\ w # << >> /\ IsValidLen(w, Len(w)) /\ Len(w) = l + m
        /\ r = R(m) /\ NextRow(w, l + m) = first + Len(f)
    BY <2>1 DEF IsWhole
  <2>3. b \in Block /\ frames[m + 1] = Frame(b)
    BY <1>6
  <2>4. W(m + 1) = longer /\ R(m + 1) = Append(r, g) /\ F(m + 1) = f \o g
        /\ f \in Seq(Row) /\ g \in Seq(Row)
    BY <1>5, <2>2, <2>3
  <2>5. b.index = Len(w) - 1 /\ b.index < MaxStreamBlocks /\ b.first = NextRow(w, Len(w))
        /\ b.rows = g /\ b.first = first + Len(f)
    <3>1. b.index = index + m /\ b.first = first + Len(f) /\ b.rows = g
      OBVIOUS
    <3>2. Len(w) - 1 = index + m /\ index + m < MaxStreamBlocks
      <4> HIDE DEF w
      <4> QED
        BY <1>1, <2>2, MaxStreamBlocksAssumption
    <3> HIDE DEF b, w, f
    <3> QED
      BY <2>2, <3>1, <3>2
  <2> HIDE DEF w, b, g, r, f
  <2>6. /\ longer \in Seq(Cell) /\ IsValidLen(longer, Len(longer)) /\ Len(longer) = Len(w) + 1
        /\ NextRow(longer, Len(longer)) = b.first + Len(b.rows)
        /\ Recovered(longer) = Append(r, b.rows)
    BY <2>2, <2>3, <2>5, AppendedFrame DEF r
  <2>7. longer # << >>
    <3> HIDE DEF longer
    <3>1. Len(longer) # 0
      BY <1>1, <2>2, <2>6
    <3> QED
      BY <3>1
  <2>8. IsReadable(kept) /\ AreDecodable(groups) => IsReadable(longer)
    <3> SUFFICES ASSUME IsReadable(kept), AreDecodable(groups)
                 PROVE  IsReadable(longer)
      OBVIOUS
    <3>1. IsReadable(w)
      BY <2>1 DEF w
    <3>2. DecodesToRawSize(b)
      <4>1. m + 1 \in DOMAIN groups
        BY <1>1
      <4> QED
        BY <2>5, <4>1 DEF AreDecodable, DecodesToRawSize, g
    <3>3. IsReadableCell(Frame(b)) /\ Frame(b) \in Cell
      BY <2>3, <3>2, CellTypes DEF IsReadableCell, Frame
    <3> QED
      BY <2>2, <3>1, <3>3, ReadableAppend
  <2> HIDE DEF longer
  <2>9. Len(longer) = l + (m + 1) /\ m + 1 \in 0..n
    BY <1>1, <2>2, <2>6
  <2>10. Len(F(m + 1)) = Len(f) + Len(g)
    BY <2>4
  <2>11. NextRow(longer, l + (m + 1)) = first + Len(F(m + 1))
    <3>1. Len(f) \in Nat /\ Len(g) \in Nat
      BY ONLY <2>4
    <3>2. NextRow(longer, Len(longer)) = (first + Len(f)) + Len(g)
      BY <2>5, <2>6
    <3>3. NextRow(longer, l + (m + 1)) = (first + Len(f)) + Len(g)
      BY <2>9, <3>2
    <3> DEFINE x == Len(f)
               y == Len(g)
               z == Len(F(m + 1))
               next == NextRow(longer, l + (m + 1))
    <3>4. x \in Nat /\ y \in Nat /\ z = x + y /\ next = (first + x) + y
      BY <2>10, <3>1, <3>3
    <3> HIDE DEF x, y, z, next
    <3>5. next = first + z
      BY <3>4
    <3> QED
      BY <3>5 DEF z, next
  <2>12. Good(m + 1)
    BY <2>4, <2>5, <2>6, <2>7, <2>8, <2>9, <2>11 DEF IsWhole
  <2> QED
    BY <2>9, <2>12
<1>9. 0..n \subseteq good
  <2> HIDE DEF good
  <2> QED
    BY <1>1, <1>7, <1>8, Induction
<1>10. Good(n)
  BY ONLY <1>1, <1>9
<1> QED
  BY <1>4, <1>10 DEF frames

-----------------------------------------------------------------------------
(* append_jsonl_stream. *)

AreLines(lines) ==
    /\ lines \in Seq(Line)
    /\ \A line \in Range(lines) : line \in Row => line.size \in 1..MaxBytesPerBlock

LEMMA LinesCut ==
    ASSUME NEW lines, AreLines(lines), Rejects(lines) = {}
    PROVE  /\ SequentialGroups(lines) \in Seq(Seq(Row))
           /\ FlattenSeq(SequentialGroups(lines)) = RowsOf(lines)
           /\ RowsOf(lines) \in Seq(Row)
           /\ IsEncodable(RowsOf(lines)) /\ IsCanonical(RowsOf(lines)) =>
                  AreDecodable(SequentialGroups(lines))
<1> DEFINE n == Len(lines)
           groups == SequentialGroups(lines)
           rows == RowsOf(lines)
<1>1. lines \in Seq(Line) /\ n \in 0..Len(lines) /\ SubSeq(lines, 1, n) = lines
  BY DEF AreLines
<1>2. Acceptable(lines, n)
  <2>1. \A i \in 1..n : lines[i] \in Range(lines) /\ i \in DOMAIN lines
    BY <1>1 DEF Range
  <2> QED
    BY <2>1 DEF Acceptable, AreLines, Rejects
<1>3. ReadableLines(lines) = lines
  BY <1>1, LinesRead
<1>4. CutSoFar(WriterAfter(lines), rows)
  <2> HIDE DEF n
  <2>1. CutSoFar(WriterAfter(SubSeq(lines, 1, n)), RowsOf(SubSeq(lines, 1, n)))
    BY <1>1, <1>2, CutAfter DEF n
  <2> QED
    BY <1>1, <2>1
<1>5. groups = FlushBlock(WriterAfter(lines)).done
  BY <1>3 DEF SequentialGroups
<1> HIDE DEF rows
<1>6. groups \in Seq(Seq(Row)) /\ IsGreedyCut(groups, rows)
  BY <1>4, <1>5, FlushedCut
<1>7. FlattenSeq(groups) = rows
  BY <1>6 DEF IsGreedyCut
<1>8. rows \in Seq(Row)
  BY <1>1, RowsUnfolds DEF rows
<1> HIDE DEF groups
<1>9. ASSUME IsEncodable(rows), IsCanonical(rows)
      PROVE  AreDecodable(groups)
  <2> SUFFICES ASSUME NEW k \in DOMAIN groups, NEW i \in DOMAIN groups[k]
               PROVE  groups[k][i].kind = "row"
    BY DEF AreDecodable
  <2>1. k \in 1..Len(groups) /\ i \in 1..Len(groups[k])
    BY <1>6
  <2>2. PICK j \in DOMAIN rows : rows[j] = groups[k][i]
    BY <1>6, <1>7, <2>1, FlattenHas
  <2>3. rows[j] \in Row /\ rows[j].kind # "bad" /\ rows[j].kind # "loose"
    BY <1>8, <1>9, <2>2 DEF IsEncodable, IsCanonical
  <2>4. rows[j].kind = "row"
    BY <2>3 DEF Row
  <2> QED
    BY <2>2, <2>4
<1> QED
  BY <1>6, <1>7, <1>8, <1>9 DEF groups, rows

(* append_jsonl_stream, for any file: if it succeeds its result is a stream *)
(* that recovery keeps whole, with the rows of the lines behind those that  *)
(* were recovered.                                                          *)
THEOREM AppendAddsItsRows ==
    ASSUME NEW existing \in Seq(Cell), NEW lines, AreLines(lines),
           AppendLines(existing, lines) # Err
    PROVE  LET result == AppendLines(existing, lines)
           IN  /\ IsWhole(result)
               /\ FlattenSeq(Recovered(result))
                      = FlattenSeq(Recovered(existing)) \o RowsOf(lines)
               /\ RowsOf(lines) \in Seq(Row)
               /\ FlattenSeq(Recovered(existing)) \in Seq(Row)
               /\ IsReadable(existing) /\ IsCanonical(RowsOf(lines)) => IsReadable(result)
<1> DEFINE n == ValidLen(existing)
           groups == SequentialGroups(lines)
           rows == RowsOf(lines)
           found == Recovered(existing)
           result == AppendLines(existing, lines)
<1>1. /\ Rejects(lines) = {}
      /\ IsEncodable(FlattenSeq(groups))
      /\ ~ (Len(found) + Len(groups) > MaxStreamBlocks)
      /\ result = IF n = 0 THEN AppendFile(groups)
                  ELSE ValidPrefix(existing) \o Frames(groups, n - 1, NextRow(existing, n))
  BY DEF AppendLines
<1>2. /\ groups \in Seq(Seq(Row)) /\ FlattenSeq(groups) = rows /\ rows \in Seq(Row)
      /\ IsEncodable(rows) /\ IsCanonical(rows) => AreDecodable(groups)
  BY <1>1, LinesCut
<1>3. n \in 0..Len(existing) /\ found \in Seq(Seq(Row))
      /\ Len(found) = IF n = 0 THEN 0 ELSE n - 1
  BY ValidLenIs, RecoveredIs
<1> DEFINE kept == IF n = 0 THEN <<Header>> ELSE ValidPrefix(existing)
           index == IF n = 0 THEN 0 ELSE n - 1
           first == IF n = 0 THEN 0 ELSE NextRow(existing, n)
<1>4. /\ IsWhole(kept) /\ Len(kept) - 1 = index /\ first = NextRow(kept, Len(kept))
      /\ first \in Nat /\ Recovered(kept) = found
      /\ result = kept \o Frames(groups, index, first)
      /\ index = Len(found)
      /\ IsReadable(existing) => IsReadable(kept)
  <2>1. CASE n = 0
    <3> DEFINE cells == <<Header>>
    <3>1. cells \in Seq(Cell) /\ Len(cells) = 1 /\ cells[1] = Header /\ cells # << >>
      BY CellTypes
    <3> HIDE DEF cells
    <3>2. IsValidLen(cells, Len(cells)) /\ NextRow(cells, Len(cells)) = 0
      BY <3>1 DEF IsValidLen, FollowsOn, NextRow
    <3>3. IsReadable(cells)
      BY <3>1 DEF IsReadable, Header
    <3>4. found = << >>
      BY <1>3, <2>1, EmptySeq
    <3>5. Recovered(cells) = << >>
      BY HeaderRecovers DEF cells
    <3>6. kept = cells /\ index = 0 /\ first = 0
      BY <2>1 DEF cells
    <3>7. result = cells \o Frames(groups, 0, 0)
      BY <1>1, <2>1 DEF AppendFile, cells
    <3>8. Len(found) = 0
      BY <1>3, <2>1
    <3> HIDE DEF kept, index, first, result, found, groups
    <3>9. IsWhole(cells) /\ Len(cells) - 1 = 0
      BY <3>1, <3>2 DEF IsWhole
    <3>10. Recovered(cells) = found
      BY <3>4, <3>5
    <3> QED
      BY <3>2, <3>3, <3>6, <3>7, <3>8, <3>9, <3>10
  <2>2. CASE n # 0
    <3> DEFINE cells == ValidPrefix(existing)
    <3>1. n > 0 /\ n \in Nat
      BY <1>3, <2>2
    <3>2. /\ cells \in Seq(Cell) /\ Len(cells) = n
          /\ IsValidLen(cells, n) /\ NextRow(cells, n) = NextRow(existing, n)
          /\ NextRow(existing, n) \in Nat
      BY <3>1, PrefixIsValid
    <3>3. Recovered(cells) = found
      BY <3>1, ResumeRecovers
    <3>4. IsReadable(existing) => IsReadable(cells)
      <4>1. 1 \in 1..Len(existing) + 1
        OBVIOUS
      <4> QED
        BY <1>3, <4>1, ReadablePart DEF ValidPrefix
    <3>5. kept = cells /\ index = n - 1 /\ first = NextRow(existing, n)
      BY <2>2
    <3>6. result = cells \o Frames(groups, n - 1, NextRow(existing, n))
      BY <1>1, <2>2
    <3>7. Len(found) = n - 1
      BY <1>3, <2>2
    <3> HIDE DEF cells
    <3>8. cells # << >>
      BY <3>1, <3>2
    <3> HIDE DEF kept, index, first, result, found, groups, n
    <3> QED
      BY <3>2, <3>3, <3>4, <3>5, <3>6, <3>7, <3>8 DEF IsWhole
  <2> QED
    BY <2>1, <2>2
<1> HIDE DEF kept, index, first, result
<1>5. Len(kept) - 1 + Len(groups) <= MaxStreamBlocks
  <2>1. Len(found) \in Nat /\ Len(groups) \in Nat
    BY <1>2, <1>3
  <2> HIDE DEF found, groups
  <2> QED
    BY <1>1, <1>4, <2>1, MaxStreamBlocksAssumption
<1>6. /\ IsWhole(result) /\ Recovered(result) = found \o groups
      /\ IsReadable(kept) /\ AreDecodable(groups) => IsReadable(result)
  <2> DEFINE whole == kept \o Frames(groups, index, first)
  <2> HIDE DEF groups, found
  <2>1. /\ IsWhole(whole) /\ Recovered(whole) = Recovered(kept) \o groups
        /\ IsReadable(kept) /\ AreDecodable(groups) => IsReadable(whole)
    BY <1>2, <1>4, <1>5, FramesFollow
  <2> QED
    BY <1>4, <2>1
<1>7. FlattenSeq(found \o groups) = FlattenSeq(found) \o rows
  <2> HIDE DEF groups, found, rows
  <2> QED
    BY <1>2, <1>3, FlattenJoins
<1>8. FlattenSeq(found) \in Seq(Row)
  <2> HIDE DEF found
  <2> QED
    BY <1>3, FlattenUnfolds
<1>9. FlattenSeq(Recovered(result)) = FlattenSeq(found) \o rows
  BY <1>6, <1>7
<1> QED
  BY <1>1, <1>2, <1>4, <1>6, <1>8, <1>9 DEF result

-----------------------------------------------------------------------------
(* What the invariant says of a file, without the variables. *)

GoodLogIn(file, first) ==
    /\ file \in Seq(Cell) \cup {Absent}
    /\ IsPrefix(RowsIn(first), RowsIn(file))
    /\ file # first =>
           file \in Seq(Cell) /\ file # << >> /\ IsValidLen(file, Len(file))
    /\ ReadableLogs /\ CanonicalCommands => IsReadable(Bytes(file))

Holds(file, commands, p) == IsIn(RowsOf(commands[p].lines), RowsIn(file))

RowsFrom(first, commands, appends) ==
    Range(RowsIn(first)) \cup UNION {Range(RowsOf(commands[p].lines)) : p \in Range(appends)}

ExplainedIn(file, appends, commands, first, read) ==
    /\ \A i \in DOMAIN appends :
           \/ Holds(file, commands, appends[i])
           \/ \E j \in i + 1..Len(appends) : read[appends[j]] < i
    /\ Range(RowsIn(file)) \subseteq RowsFrom(first, commands, appends)

LEMMA WithoutVariables ==
    /\ \A file : IsGoodLog(file) <=> GoodLogIn(file, original)
    /\ \A file, appends :
           IsExplainedBy(file, appends) <=> ExplainedIn(file, appends, command, original, base)
BY DEF IsGoodLog, GoodLogIn, IsExplainedBy, ExplainedIn, AppendedBy, Holds, RowsFrom

LEMMA LogsAre ==
    LogsInv <=>
        /\ GoodLogIn(original, original) /\ GoodLogIn(log, original)
        /\ GoodLogIn(stable, original)
        /\ ExplainedIn(log, applied, command, original, base)
        /\ ExplainedIn(stable, stableApplied, command, original, base)
BY WithoutVariables, Zenon DEF LogsInv

HandIs(file, temp, place, read, commands, first, appends, p) ==
    /\ GoodLogIn(file, first)
    /\ IsWhole(file)
    /\ ExplainedIn(file, Append(SubSeq(appends, 1, read[p]), p), commands, first, read)
    /\ place = "synced" => temp = file

LEMMA HandsAre ==
    HandsInv <=>
        \A p \in Procs : IsAppending(p) =>
            HandIs(hand[p], temps[p], pc[p], base, command, original, applied, p)
BY WithoutVariables, Zenon DEF HandsInv, HandIs, IsWhole

LEMMA LogsAreNext ==
    LogsInv' <=>
        /\ GoodLogIn(original', original') /\ GoodLogIn(log', original')
        /\ GoodLogIn(stable', original')
        /\ ExplainedIn(log', applied', command', original', base')
        /\ ExplainedIn(stable', stableApplied', command', original', base')
BY DEF LogsInv, IsGoodLog, GoodLogIn, IsExplainedBy, ExplainedIn, AppendedBy, Holds, RowsFrom

LEMMA HandsAreNext ==
    HandsInv' <=>
        \A p \in Procs : command'[p].kind = "append" /\ pc'[p] \in InHand =>
            HandIs(hand'[p], temps'[p], pc'[p], base', command', original', applied', p)
BY DEF HandsInv, IsAppending, IsGoodLog, GoodLogIn, IsExplainedBy, ExplainedIn, AppendedBy,
       Holds, RowsFrom, HandIs, IsWhole, InHand

-----------------------------------------------------------------------------
(* The rows of an append that is in a log. *)

LEMMA RowsInIs ==
    ASSUME NEW file \in Seq(Cell) \cup {Absent}
    PROVE  Bytes(file) \in Seq(Cell) /\ RowsIn(file) \in Seq(Row)
<1>1. << >> \in Seq(Cell)
  OBVIOUS
<1>2. Bytes(file) \in Seq(Cell)
  BY <1>1 DEF Bytes
<1>3. Recovered(Bytes(file)) \in Seq(Seq(Row))
  BY <1>2, RecoveredIs
<1> QED
  BY <1>2, <1>3, FlattenUnfolds DEF RowsIn

LEMMA PartIs ==
    ASSUME NEW s \in Seq(Row), NEW m \in Nat, NEW n \in Nat, m + n <= Len(s)
    PROVE  /\ SubSeq(s, m + 1, m + n) \in Seq(Row)
           /\ Len(SubSeq(s, m + 1, m + n)) = n
           /\ \A k \in 1..n : SubSeq(s, m + 1, m + n)[k] = s[m + k]
OBVIOUS

LEMMA RowsJoined ==
    ASSUME NEW a \in Seq(Row), NEW b \in Seq(Row)
    PROVE  /\ IsPrefix(a, a \o b) /\ IsIn(b, a \o b)
           /\ Range(a \o b) = Range(a) \cup Range(b)
           /\ \A c \in Seq(Row) : /\ IsIn(c, a) => IsIn(c, a \o b)
                                  /\ IsPrefix(c, a) => IsPrefix(c, a \o b)
<1> DEFINE ab == a \o b
           la == Len(a)
           lb == Len(b)
<1>1. /\ ab \in Seq(Row) /\ Len(ab) = la + lb /\ la \in Nat /\ lb \in Nat
      /\ \A i \in 1..la : ab[i] = a[i]
      /\ \A i \in 1..lb : ab[la + i] = b[i]
  OBVIOUS
<1>2. DOMAIN a = 1..la /\ DOMAIN b = 1..lb /\ DOMAIN ab = 1..la + lb
  BY <1>1
<1> HIDE DEF ab, la, lb
<1>3. IsPrefix(a, ab)
  <2>1. Len(a) <= Len(ab) /\ \A i \in 1..Len(a) : a[i] = ab[i]
    BY <1>1 DEF la
  <2> QED
    BY <1>1, <2>1, PrefixIs
<1>4. IsIn(b, ab)
  <2>1. /\ SubSeq(ab, la + 1, la + lb) \in Seq(Row)
        /\ Len(SubSeq(ab, la + 1, la + lb)) = lb
        /\ \A i \in 1..lb : SubSeq(ab, la + 1, la + lb)[i] = ab[la + i]
    BY <1>1
  <2>2. SubSeq(ab, la + 1, la + lb) = b
    BY <1>1, <2>1, SeqEqual DEF lb
  <2>3. la \in 0..Len(ab) - Len(b)
    BY <1>1 DEF lb
  <2> QED
    BY <2>2, <2>3 DEF IsIn, lb
<1>5. Range(ab) = Range(a) \cup Range(b)
  <2>1. ASSUME NEW x \in Range(ab)
        PROVE  x \in Range(a) \cup Range(b)
    <3>1. PICK i \in 1..la + lb : x = ab[i]
      BY <1>2, <2>1 DEF Range
    <3>2. CASE i <= la
      <4>1. i \in DOMAIN a /\ x = a[i]
        BY <1>1, <1>2, <3>1, <3>2
      <4> QED
        BY <4>1 DEF Range
    <3>3. CASE i > la
      <4>1. i - la \in 1..lb /\ la + (i - la) = i
        BY <1>1, <3>3
      <4> QED
        BY <1>1, <1>2, <3>1, <4>1 DEF Range
    <3> QED
      BY <1>1, <3>2, <3>3
  <2>2. ASSUME NEW x \in Range(a)
        PROVE  x \in Range(ab)
    <3>1. PICK i \in 1..la : x = a[i]
      BY <1>2, <2>2 DEF Range
    <3>2. i \in 1..la + lb
      BY <1>1
    <3> QED
      BY <1>1, <1>2, <3>1, <3>2 DEF Range
  <2>3. ASSUME NEW x \in Range(b)
        PROVE  x \in Range(ab)
    <3>1. PICK i \in 1..lb : x = b[i]
      BY <1>2, <2>3 DEF Range
    <3>2. la + i \in 1..la + lb
      BY <1>1
    <3> QED
      BY <1>1, <1>2, <3>1, <3>2 DEF Range
  <2> QED
    BY <2>1, <2>2, <2>3
<1>6. ASSUME NEW c \in Seq(Row), IsIn(c, a)
      PROVE  IsIn(c, ab)
  <2>1. PICK i \in 0..Len(a) - Len(c) : SubSeq(a, i + 1, i + Len(c)) = c
    BY <1>6 DEF IsIn
  <2> DEFINE lc == Len(c)
             u == SubSeq(a, i + 1, i + lc)
             v == SubSeq(ab, i + 1, i + lc)
  <2>2. lc \in Nat /\ i \in Nat /\ i + lc <= la
    BY <1>1, <2>1 DEF la
  <2>3. /\ u \in Seq(Row) /\ Len(u) = lc /\ \A k \in 1..lc : u[k] = a[i + k]
    <3> HIDE DEF lc
    <3> QED
      BY <2>2, PartIs DEF la
  <2>4. /\ v \in Seq(Row) /\ Len(v) = lc /\ \A k \in 1..lc : v[k] = ab[i + k]
    <3> HIDE DEF lc
    <3>1. i + lc <= Len(ab)
      BY <1>1, <2>2
    <3> QED
      BY <1>1, <2>2, <3>1, PartIs
  <2>5. \A k \in 1..lc : v[k] = u[k]
    <3> TAKE k \in 1..lc
    <3>1. i + k \in 1..la
      BY <1>1, <2>2
    <3> QED
      BY <1>1, <2>3, <2>4, <3>1
  <2>6. v = c
    <3> HIDE DEF u, v, lc
    <3>1. u = v
      BY <2>3, <2>4, <2>5, SeqEqual
    <3> QED
      BY <2>1, <3>1 DEF u, lc
  <2>7. i \in 0..Len(ab) - Len(c)
    BY <1>1, <2>2
  <2> QED
    BY <2>6, <2>7 DEF IsIn
<1>7. ASSUME NEW c \in Seq(Row), IsPrefix(c, a)
      PROVE  IsPrefix(c, ab)
  <2> DEFINE lc == Len(c)
  <2>1. lc <= la /\ lc \in Nat /\ SubSeq(c, 1, lc) = SubSeq(a, 1, lc)
    BY <1>7 DEF IsPrefix, la
  <2>2. \A k \in 1..lc : SubSeq(c, 1, lc)[k] = c[k]
    OBVIOUS
  <2>3. \A k \in 1..lc : SubSeq(a, 1, lc)[k] = a[k] /\ k \in 1..la
    BY <1>1, <2>1 DEF la
  <2>4. \A k \in 1..lc : c[k] = ab[k]
    BY <1>1, <2>1, <2>2, <2>3
  <2>5. lc <= Len(ab)
    BY <1>1, <2>1
  <2> QED
    BY <1>1, <2>4, <2>5, PrefixIs
<1> QED
  BY <1>3, <1>4, <1>5, <1>6, <1>7 DEF ab

-----------------------------------------------------------------------------
(* Which appends explain the rows of a file. *)

(* What is explained stays explained by processes that are not in it. *)
LEMMA ExplainedSame ==
    ASSUME NEW file, NEW appends \in Seq(Procs), NEW commands, NEW first, NEW read, NEW read2,
           \A p \in Range(appends) : read2[p] = read[p],
           ExplainedIn(file, appends, commands, first, read)
    PROVE  ExplainedIn(file, appends, commands, first, read2)
<1>1. \A i \in DOMAIN appends : \A j \in i + 1..Len(appends) :
          j \in DOMAIN appends /\ read2[appends[j]] = read[appends[j]]
  <2>1. \A i \in DOMAIN appends : \A j \in i + 1..Len(appends) : j \in DOMAIN appends
    OBVIOUS
  <2> QED
    BY <2>1 DEF Range
<1>2. \A i \in DOMAIN appends :
          \/ Holds(file, commands, appends[i])
          \/ \E j \in i + 1..Len(appends) : read[appends[j]] < i
  BY DEF ExplainedIn
<1>3. Range(RowsIn(file)) \subseteq RowsFrom(first, commands, appends)
  BY DEF ExplainedIn
<1>4. \A i \in DOMAIN appends :
          \/ Holds(file, commands, appends[i])
          \/ \E j \in i + 1..Len(appends) : read2[appends[j]] < i
  BY <1>1, <1>2
<1> QED
  BY <1>3, <1>4 DEF ExplainedIn

LEMMA RowsFromGrow ==
    ASSUME NEW first, NEW commands, NEW some, NEW more, Range(some) \subseteq Range(more)
    PROVE  RowsFrom(first, commands, some) \subseteq RowsFrom(first, commands, more)
BY DEF RowsFrom

LEMMA OneAppendMore ==
    ASSUME NEW appends \in Seq(Procs), NEW p \in Procs
    PROVE  LET more == Append(appends, p)
           IN  /\ more \in Seq(Procs) /\ Len(more) = Len(appends) + 1
               /\ more[Len(appends) + 1] = p
               /\ \A i \in 1..Len(appends) : more[i] = appends[i]
               /\ DOMAIN more = 1..Len(appends) + 1
               /\ Range(more) = Range(appends) \cup {p}
               /\ \A n \in 0..Len(appends) : SubSeq(more, 1, n) = SubSeq(appends, 1, n)
<1> DEFINE more == Append(appends, p)
           n == Len(appends)
<1>1. /\ more \in Seq(Procs) /\ Len(more) = n + 1 /\ more[n + 1] = p /\ n \in Nat
      /\ \A i \in 1..n : more[i] = appends[i]
      /\ DOMAIN more = 1..n + 1 /\ DOMAIN appends = 1..n
  OBVIOUS
<1>2. ASSUME NEW m \in 0..n
      PROVE  SubSeq(more, 1, m) = SubSeq(appends, 1, m)
  <2>1. /\ SubSeq(more, 1, m) \in Seq(Procs) /\ SubSeq(appends, 1, m) \in Seq(Procs)
        /\ Len(SubSeq(more, 1, m)) = m /\ Len(SubSeq(appends, 1, m)) = m
        /\ \A i \in 1..m : SubSeq(appends, 1, m)[i] = appends[i]
    OBVIOUS
  <2>2. \A i \in 1..m : SubSeq(more, 1, m)[i] = appends[i]
    <3> TAKE i \in 1..m
    <3>1. i \in 1..n
      OBVIOUS
    <3>2. SubSeq(more, 1, m)[i] = more[i]
      OBVIOUS
    <3> QED
      BY <1>1, <3>1, <3>2
  <2> QED
    BY <2>1, <2>2, SeqEqual
<1> HIDE DEF more, n
<1>3. Range(more) = Range(appends) \cup {p}
  <2>1. ASSUME NEW x \in Range(more)
        PROVE  x \in Range(appends) \cup {p}
    <3>1. PICK i \in 1..n + 1 : x = more[i]
      BY <1>1, <2>1 DEF Range
    <3>2. i \in 1..n \/ i = n + 1
      BY <1>1, <3>1
    <3> QED
      BY <1>1, <3>1, <3>2 DEF Range
  <2>2. ASSUME NEW x \in Range(appends)
        PROVE  x \in Range(more)
    <3>1. PICK i \in 1..n : x = appends[i]
      BY <1>1, <2>2 DEF Range
    <3>2. i \in 1..n + 1 /\ more[i] = x
      BY <1>1, <3>1
    <3> QED
      BY <1>1, <3>2 DEF Range
  <2>3. p \in Range(more)
    BY <1>1 DEF Range
  <2> QED
    BY <2>1, <2>2, <2>3
<1> QED
  BY <1>1, <1>2, <1>3 DEF more, n

(* A process that has read the log as it is, and appended its rows. *)
LEMMA ExplainedWithMine ==
    ASSUME NEW file \in Seq(Cell) \cup {Absent}, NEW mine \in Seq(Cell) \cup {Absent},
           NEW appends \in Seq(Procs), NEW p \in Procs,
           NEW commands, NEW first, NEW read,
           \A q \in Procs : RowsOf(commands[q].lines) \in Seq(Row) \/ q \notin Range(appends),
           RowsOf(commands[p].lines) \in Seq(Row),
           RowsIn(mine) = RowsIn(file) \o RowsOf(commands[p].lines),
           ExplainedIn(file, appends, commands, first, read)
    PROVE  ExplainedIn(mine, Append(appends, p), commands, first, read)
<1> DEFINE more == Append(appends, p)
           n == Len(appends)
           a == RowsIn(file)
           b == RowsOf(commands[p].lines)
<1>1. /\ n \in Nat /\ more \in Seq(Procs) /\ Len(more) = n + 1 /\ more[n + 1] = p
      /\ \A i \in 1..n : more[i] = appends[i]
      /\ DOMAIN more = 1..n + 1 /\ DOMAIN appends = 1..n
      /\ Range(more) = Range(appends) \cup {p}
  BY OneAppendMore
<1>2. a \in Seq(Row) /\ b \in Seq(Row) /\ RowsIn(mine) = a \o b
  BY RowsInIs
<1> HIDE DEF more, n, a, b
<1>3. \A i \in 1..n : \/ Holds(file, commands, appends[i])
                      \/ \E j \in i + 1..n : read[appends[j]] < i
  BY <1>1 DEF ExplainedIn, n
<1>4. IsIn(b, a \o b) /\ Range(a \o b) = Range(a) \cup Range(b)
      /\ \A c \in Seq(Row) : IsIn(c, a) => IsIn(c, a \o b)
  BY <1>2, RowsJoined
<1>5. ASSUME NEW i \in 1..n + 1
      PROVE  \/ Holds(mine, commands, more[i])
             \/ \E j \in i + 1..n + 1 : read[more[j]] < i
  <2>1. CASE i = n + 1
    BY <1>1, <1>2, <1>4, <2>1 DEF Holds, b
  <2>2. CASE i \in 1..n /\ Holds(file, commands, appends[i])
    <3> DEFINE q == appends[i]
               c == RowsOf(commands[q].lines)
    <3>1. q \in Range(appends) /\ q \in Procs
      BY <1>1, <2>2 DEF Range
    <3>2. c \in Seq(Row) /\ IsIn(c, a)
      BY <2>2, <3>1 DEF Holds, a
    <3> HIDE DEF c
    <3>3. IsIn(c, RowsIn(mine))
      BY <1>2, <1>4, <3>2
    <3> QED
      BY <1>1, <2>2, <3>3 DEF Holds, c
  <2>3. CASE i \in 1..n /\ \E j \in i + 1..n : read[appends[j]] < i
    <3>1. PICK j \in i + 1..n : read[appends[j]] < i
      BY <2>3
    <3>2. j \in 1..n /\ j \in i + 1..n + 1
      BY <1>1, <2>3
    <3> QED
      BY <1>1, <3>1, <3>2
  <2>4. i = n + 1 \/ i \in 1..n
    BY <1>1
  <2> QED
    BY <1>3, <2>1, <2>2, <2>3, <2>4
<1>6. Range(RowsIn(mine)) \subseteq RowsFrom(first, commands, more)
  <2>1. Range(a) \subseteq RowsFrom(first, commands, appends)
    BY DEF ExplainedIn, a
  <2>2. RowsFrom(first, commands, appends) \subseteq RowsFrom(first, commands, more)
    BY <1>1, RowsFromGrow
  <2>3. Range(b) \subseteq RowsFrom(first, commands, more)
    BY <1>1 DEF RowsFrom, b
  <2> QED
    BY <1>2, <1>4, <2>1, <2>2, <2>3
<1> QED
  BY <1>1, <1>5, <1>6 DEF ExplainedIn, more

(* Its file put in place of the log, after others have been: they read what  *)
(* they replaced, so what it had read came before them.                      *)
LEMMA ExplainedReplaced ==
    ASSUME NEW mine, NEW appends \in Seq(Procs), NEW p \in Procs, NEW b \in 0..Len(appends),
           NEW commands, NEW first, NEW read, read[p] = b,
           ExplainedIn(mine, Append(SubSeq(appends, 1, b), p), commands, first, read)
    PROVE  ExplainedIn(mine, Append(appends, p), commands, first, read)
<1> DEFINE more == Append(appends, p)
           n == Len(appends)
           had == SubSeq(appends, 1, b)
           mineOnly == Append(had, p)
<1>1. /\ n \in Nat /\ more \in Seq(Procs) /\ Len(more) = n + 1 /\ more[n + 1] = p
      /\ \A i \in 1..n : more[i] = appends[i]
      /\ DOMAIN more = 1..n + 1 /\ DOMAIN appends = 1..n
      /\ Range(more) = Range(appends) \cup {p}
  BY OneAppendMore
<1>2. had \in Seq(Procs) /\ Len(had) = b /\ \A i \in 1..b : had[i] = appends[i]
  OBVIOUS
<1> HIDE DEF had
<1>3. /\ mineOnly \in Seq(Procs) /\ Len(mineOnly) = b + 1 /\ mineOnly[b + 1] = p
      /\ \A i \in 1..b : mineOnly[i] = had[i]
      /\ DOMAIN mineOnly = 1..b + 1
      /\ Range(mineOnly) = Range(had) \cup {p}
  BY <1>2, OneAppendMore
<1> HIDE DEF more, n, mineOnly
<1>4. /\ \A i \in 1..b + 1 : \/ Holds(mine, commands, mineOnly[i])
                             \/ \E j \in i + 1..b + 1 : read[mineOnly[j]] < i
      /\ Range(RowsIn(mine)) \subseteq RowsFrom(first, commands, mineOnly)
  BY <1>3 DEF ExplainedIn, mineOnly, had
<1>5. b \in Nat /\ b <= n
  BY DEF n
<1>6. ASSUME NEW i \in 1..n + 1
      PROVE  \/ Holds(mine, commands, more[i])
             \/ \E j \in i + 1..n + 1 : read[more[j]] < i
  <2>1. CASE i = n + 1
    <3>1. b + 1 \in 1..b + 1 /\ ~ (\E j \in (b + 1) + 1..b + 1 : TRUE)
      BY <1>5
    <3>2. Holds(mine, commands, mineOnly[b + 1])
      BY <1>4, <3>1
    <3> QED
      BY <1>1, <1>3, <2>1, <3>2
  <2>2. CASE i > b /\ i \in 1..n
    <3>1. n + 1 \in i + 1..n + 1 /\ read[more[n + 1]] < i
      BY <1>1, <1>5, <2>2
    <3> QED
      BY <3>1
  <2>3. CASE i <= b
    <3>1. i \in 1..b /\ i \in 1..b + 1 /\ i \in 1..n
      BY <1>1, <1>5, <2>3
    <3>2. more[i] = mineOnly[i]
      BY <1>1, <1>2, <1>3, <3>1
    <3>3. CASE \E j \in i + 1..b + 1 : read[mineOnly[j]] < i
      <4>1. PICK j \in i + 1..b + 1 : read[mineOnly[j]] < i
        BY <3>3
      <4>2. CASE j = b + 1
        <5>1. b < i
          BY <1>3, <4>1, <4>2
        <5> QED
          BY <1>5, <2>3, <5>1
      <4>3. CASE j \in 1..b
        <5>1. j \in 1..n /\ j \in i + 1..n + 1 /\ more[j] = mineOnly[j]
          BY <1>1, <1>2, <1>3, <1>5, <4>1, <4>3
        <5> QED
          BY <4>1, <5>1
      <4> QED
        BY <1>5, <4>1, <4>2, <4>3
    <3> QED
      BY <1>4, <3>1, <3>2, <3>3
  <2> QED
    BY <1>1, <1>5, <2>1, <2>2, <2>3
<1>7. Range(RowsIn(mine)) \subseteq RowsFrom(first, commands, more)
  <2>1. Range(had) \subseteq Range(appends)
    <3>1. \A i \in 1..b : i \in 1..n
      BY <1>1, <1>5
    <3>2. DOMAIN had = 1..b
      BY <1>2
    <3> QED
      BY <1>1, <1>2, <3>1, <3>2 DEF Range
  <2>2. Range(mineOnly) \subseteq Range(more)
    BY <1>1, <1>3, <2>1
  <2>3. RowsFrom(first, commands, mineOnly) \subseteq RowsFrom(first, commands, more)
    BY <2>2, RowsFromGrow
  <2> QED
    BY <1>4, <2>3
<1> QED
  BY <1>1, <1>6, <1>7 DEF ExplainedIn, more

-----------------------------------------------------------------------------
LEMMA NoFileIsAbsent ==
    ASSUME NEW file \in Seq(Cell)
    PROVE  file # Absent /\ Bytes(file) = file
BY FileStoreAssumption DEF Bytes

LEMMA AppendsAreLines ==
    ASSUME NEW commands \in Commands, NEW p \in Procs, commands[p].kind = "append"
    PROVE  /\ AreLines(commands[p].lines) /\ RowsOf(commands[p].lines) \in Seq(Row)
           /\ CanonicalCommands => IsCanonical(RowsOf(commands[p].lines))
BY FileStoreAssumption, RowsUnfolds DEF AreLines, CanonicalCommands

LEMMA InitInv == Init => AppendsInv
<1> SUFFICES ASSUME Init
             PROVE  AppendsInv
  OBVIOUS
<1>1. PICK start \in Starts : log = start.log
  BY DEF Init
<1>2. /\ log \in Seq(Cell) \cup {Absent} /\ original = log /\ stable = log
      /\ applied = << >> /\ stableApplied = << >>
  BY <1>1, FileStoreAssumption DEF Init
<1>3. AppendsTypeOK
  <2>1. /\ command \in Commands
        /\ pc = [p \in Procs |-> "idle"] /\ hand = [p \in Procs |-> Absent]
        /\ temps = [p \in Procs |-> Absent] /\ base = [p \in Procs |-> 0]
        /\ powerLosses = 0
    BY DEF Init
  <2>2. /\ applied \in Seq(Procs) /\ Range(applied) = {} /\ Range(stableApplied) = {}
        /\ stableApplied \in Seq(Procs)
    BY <1>2 DEF Range
  <2>3. \A p \in Procs : ~IsAppending(p)
    BY <2>1 DEF IsAppending, InHand
  <2>4. /\ pc = [p \in Procs |-> pc[p]] /\ hand = [p \in Procs |-> hand[p]]
        /\ temps = [p \in Procs |-> temps[p]] /\ base \in [Procs -> Nat]
    BY <2>1
  <2> QED
    BY <2>1, <2>2, <2>3, <2>4 DEF AppendsTypeOK
<1>4. GoodLogIn(log, log)
  <2>1. RowsIn(log) \in Seq(Row)
    BY <1>2, RowsInIs
  <2>2. IsPrefix(RowsIn(log), RowsIn(log))
    BY <2>1, PrefixIs
  <2>3. ReadableLogs => IsReadable(Bytes(log))
    BY <1>1 DEF ReadableLogs
  <2> QED
    BY <1>2, <2>2, <2>3 DEF GoodLogIn
<1>5. ExplainedIn(log, << >>, command, log, base)
  BY DEF ExplainedIn, RowsFrom
<1>6. LogsInv
  BY <1>2, <1>4, <1>5, LogsAre
<1>7. HandsInv
  <2>1. \A p \in Procs : ~IsAppending(p)
    BY DEF Init, IsAppending, InHand
  <2> QED
    BY <2>1, HandsAre
<1> QED
  BY <1>3, <1>6, <1>7 DEF AppendsInv

(* A step of a process that ends in no append, and touches no log.          *)
LEMMA AsideKeeps ==
    ASSUME AppendsInv, NEW p \in Procs, NEW place,
           pc[p] # "done", place \notin InHand,
           pc' = [pc EXCEPT ![p] = place],
           \A q \in Procs \ {p} : hand'[q] = hand[q],
           hand' = [q \in Procs |-> hand'[q]],
           \A q \in Procs \ {p} : temps'[q] = temps[q],
           temps' = [q \in Procs |-> temps'[q]],
           UNCHANGED <<log, stable, command, original, applied, stableApplied, base, powerLosses>>
    PROVE  AppendsInv'
<1>1. AppendsTypeOK /\ LogsInv /\ HandsInv
  BY DEF AppendsInv
<1>2. /\ pc' = [q \in Procs |-> pc'[q]] /\ hand' = [q \in Procs |-> hand'[q]]
      /\ \A q \in Procs \ {p} : pc'[q] = pc[q] /\ hand'[q] = hand[q]
      /\ pc'[p] = place
  BY <1>1 DEF AppendsTypeOK
<1>3. \A q \in Procs : command'[q].kind = "append" /\ pc'[q] \in InHand =>
          q # p /\ IsAppending(q)
  BY <1>2 DEF IsAppending
<1>4. AppendsTypeOK'
  <2>1. \A q \in Range(applied) \cup Range(stableApplied) :
            pc'[q] = "done" /\ command[q].kind = "append"
    <3>1. \A q \in Range(applied) \cup Range(stableApplied) :
              q \in Procs /\ q # p /\ pc[q] = "done" /\ command[q].kind = "append"
      <4>1. Range(applied) \cup Range(stableApplied) \subseteq Procs
        BY <1>1 DEF AppendsTypeOK, Range
      <4> QED
        BY <1>1, <4>1 DEF AppendsTypeOK
    <3> QED
      BY <1>2, <3>1
  <2>2. \A q \in Procs : command'[q].kind = "append" /\ pc'[q] \in InHand =>
            base'[q] <= Len(applied')
    BY <1>1, <1>3 DEF AppendsTypeOK
  <2> QED
    BY <1>1, <1>2, <2>1, <2>2 DEF AppendsTypeOK, IsAppending, InHand
<1>5. LogsInv'
  BY <1>1, LogsAre, LogsAreNext
<1>6. HandsInv'
  <2>1. \A q \in Procs : command'[q].kind = "append" /\ pc'[q] \in InHand =>
            HandIs(hand'[q], temps'[q], pc'[q], base', command', original', applied', q)
    BY <1>1, <1>2, <1>3, HandsAre
  <2> QED
    BY <2>1, HandsAreNext
<1> QED
  BY <1>4, <1>5, <1>6 DEF AppendsInv

(* A step of an append with the result in its hand. *)
LEMMA OwnKeeps ==
    ASSUME AppendsInv, NEW p \in Procs, NEW place,
           IsAppending(p), place \in InHand,
           pc' = [pc EXCEPT ![p] = place], hand' = hand,
           place = "synced" => temps'[p] = hand[p],
           \A q \in Procs \ {p} : temps'[q] = temps[q],
           temps' = [q \in Procs |-> temps'[q]],
           UNCHANGED <<log, stable, command, original, applied, stableApplied, base, powerLosses>>
    PROVE  AppendsInv'
<1>1. AppendsTypeOK /\ LogsInv /\ HandsInv
  BY DEF AppendsInv
<1>2. /\ pc' = [q \in Procs |-> pc'[q]]
      /\ \A q \in Procs \ {p} : pc'[q] = pc[q]
      /\ pc'[p] = place /\ pc[p] # "done"
  BY <1>1 DEF AppendsTypeOK, IsAppending, InHand
<1>3. \A q \in Procs : command'[q].kind = "append" /\ pc'[q] \in InHand => IsAppending(q)
  BY <1>2 DEF IsAppending
<1>4. AppendsTypeOK'
  <2>1. \A q \in Range(applied) \cup Range(stableApplied) :
            pc'[q] = "done" /\ command[q].kind = "append"
    <3>1. Range(applied) \cup Range(stableApplied) \subseteq Procs
      BY <1>1 DEF AppendsTypeOK, Range
    <3>2. \A q \in Range(applied) \cup Range(stableApplied) :
              q \in Procs /\ q # p /\ pc[q] = "done" /\ command[q].kind = "append"
      BY <1>1, <1>2, <3>1 DEF AppendsTypeOK
    <3> QED
      BY <1>2, <3>2
  <2>2. \A q \in Procs : command'[q].kind = "append" /\ pc'[q] \in InHand =>
            base'[q] <= Len(applied')
    BY <1>1, <1>3 DEF AppendsTypeOK
  <2> QED
    BY <1>1, <1>2, <2>1, <2>2 DEF AppendsTypeOK, IsAppending, InHand
<1>5. LogsInv'
  BY <1>1, LogsAre, LogsAreNext
<1>6. HandsInv'
  <2>1. ASSUME NEW q \in Procs, command'[q].kind = "append" /\ pc'[q] \in InHand
        PROVE  HandIs(hand'[q], temps'[q], pc'[q], base', command', original', applied', q)
    <3>1. HandIs(hand[q], temps[q], pc[q], base, command, original, applied, q)
      BY <1>1, <1>3, <2>1, HandsAre
    <3>2. pc'[q] = "synced" => temps'[q] = hand[q]
      BY <1>2, <3>1 DEF HandIs
    <3> QED
      BY <3>1, <3>2 DEF HandIs
  <2> QED
    BY <2>1, HandsAreNext
<1> QED
  BY <1>4, <1>5, <1>6 DEF AppendsInv

LEMMA ReadLogKeeps ==
    ASSUME AppendsInv, NEW p \in Procs, ReadLog(p)
    PROVE  AppendsInv'
<1> DEFINE lines == command[p].lines
           result == AppendLines(Bytes(log), lines)
           rows == RowsOf(lines)
<1>1. AppendsTypeOK /\ LogsInv /\ HandsInv
  BY DEF AppendsInv
<1>2. /\ command[p].kind = "append" /\ pc[p] = "idle"
      /\ hand' = [hand EXCEPT ![p] = result]
      /\ pc' = [pc EXCEPT ![p] = IF result = Err THEN "failed" ELSE "encoded"]
      /\ base' = [base EXCEPT ![p] = Len(applied)]
      /\ UNCHANGED <<log, temps, stable, command, original, applied, stableApplied, powerLosses>>
  BY DEF ReadLog, Is, Go, files
<1>3. /\ Len(applied) \in Nat /\ base \in [Procs -> Nat] /\ base' \in [Procs -> Nat]
      /\ base'[p] = Len(applied)
      /\ \A q \in Procs \ {p} : base'[q] = base[q] /\ hand'[q] = hand[q] /\ pc'[q] = pc[q]
      /\ hand'[p] = result /\ pc'[p] = IF result = Err THEN "failed" ELSE "encoded"
      /\ pc' = [q \in Procs |-> pc'[q]] /\ hand' = [q \in Procs |-> hand'[q]]
      /\ temps' = [q \in Procs |-> temps'[q]]
      /\ applied \in Seq(Procs) /\ stableApplied \in Seq(Procs) /\ command \in Commands
  <2>1. Len(applied) \in Nat /\ base \in [Procs -> Nat]
    BY <1>1 DEF AppendsTypeOK
  <2> HIDE DEF result
  <2> QED
    BY <1>1, <1>2, <2>1 DEF AppendsTypeOK
<1> HIDE DEF result, rows, lines
<1>4. \A q \in Range(applied) \cup Range(stableApplied) :
          /\ q \in Procs /\ q # p /\ base'[q] = base[q]
          /\ pc'[q] = "done" /\ command[q].kind = "append"
  <2>1. Range(applied) \cup Range(stableApplied) \subseteq Procs
    BY <1>3 DEF Range
  <2>2. \A q \in Range(applied) \cup Range(stableApplied) :
            q \in Procs /\ q # p /\ pc[q] = "done" /\ command[q].kind = "append"
    BY <1>1, <1>2, <2>1 DEF AppendsTypeOK
  <2> QED
    BY <1>3, <2>2
<1>5. \A q \in Procs \ {p} : command'[q].kind = "append" /\ pc'[q] \in InHand => IsAppending(q)
  BY <1>2, <1>3 DEF IsAppending
<1>6. AppendsTypeOK'
  <2>1. \A q \in Procs : command'[q].kind = "append" /\ pc'[q] \in InHand =>
            base'[q] <= Len(applied')
    <3> TAKE q \in Procs
    <3>1. CASE q = p
      BY <1>2, <1>3, <3>1
    <3>2. CASE q # p
      BY <1>1, <1>2, <1>3, <1>5, <3>2 DEF AppendsTypeOK
    <3> QED
      BY <3>1, <3>2
  <2> QED
    BY <1>1, <1>2, <1>3, <1>4, <2>1 DEF AppendsTypeOK, IsAppending, InHand
<1>7. /\ GoodLogIn(original, original) /\ GoodLogIn(log, original)
      /\ GoodLogIn(stable, original)
      /\ ExplainedIn(log, applied, command, original, base)
      /\ ExplainedIn(stable, stableApplied, command, original, base)
  BY <1>1, LogsAre
<1>8. /\ ExplainedIn(log, applied, command, original, base')
      /\ ExplainedIn(stable, stableApplied, command, original, base')
  <2>1. /\ \A q \in Range(applied) : base'[q] = base[q]
        /\ \A q \in Range(stableApplied) : base'[q] = base[q]
    BY <1>4
  <2> QED
    BY <1>3, <1>7, <2>1, ExplainedSame
<1>9. LogsInv'
  BY <1>2, <1>7, <1>8, LogsAreNext
<1>10. ASSUME result # Err
       PROVE  /\ GoodLogIn(result, original)
              /\ IsWhole(result)
              /\ ExplainedIn(result, Append(applied, p), command, original, base')
  <2> DEFINE old == Bytes(log)
  <2>1. /\ log \in Seq(Cell) \cup {Absent} /\ IsPrefix(RowsIn(original), RowsIn(log))
        /\ ReadableLogs /\ CanonicalCommands => IsReadable(old)
        /\ original \in Seq(Cell) \cup {Absent}
    BY <1>7 DEF GoodLogIn
  <2>2. AreLines(lines) /\ rows \in Seq(Row) /\ (CanonicalCommands => IsCanonical(rows))
    BY <1>2, <1>3, AppendsAreLines DEF lines, rows
  <2>3. old \in Seq(Cell) /\ RowsIn(log) \in Seq(Row) /\ RowsIn(original) \in Seq(Row)
    BY <2>1, RowsInIs
  <2>4. result = AppendLines(old, lines)
    BY DEF result
  <2> HIDE DEF old
  <2>5. /\ IsWhole(result)
        /\ FlattenSeq(Recovered(result)) = FlattenSeq(Recovered(old)) \o rows
        /\ IsReadable(old) /\ IsCanonical(rows) => IsReadable(result)
    <3>1. AppendLines(old, lines) # Err
      BY <1>10, <2>4
    <3> QED
      BY <2>2, <2>3, <2>4, <3>1, AppendAddsItsRows DEF rows
  <2>6. result \in Seq(Cell) /\ result # << >> /\ IsValidLen(result, Len(result))
    BY <2>5 DEF IsWhole
  <2>7. Bytes(result) = result
    BY <2>6, NoFileIsAbsent
  <2>8. RowsIn(result) = RowsIn(log) \o rows
    BY <2>5, <2>7 DEF RowsIn, old
  <2>9. IsPrefix(RowsIn(original), RowsIn(result))
    BY <2>1, <2>2, <2>3, <2>8, RowsJoined
  <2>10. GoodLogIn(result, original)
    BY <2>1, <2>2, <2>5, <2>6, <2>7, <2>9 DEF GoodLogIn
  <2>11. \A q \in Procs : RowsOf(command[q].lines) \in Seq(Row) \/ q \notin Range(applied)
    BY <1>3, <1>4, AppendsAreLines
  <2>12. ExplainedIn(result, Append(applied, p), command, original, base')
    BY <1>3, <1>8, <2>1, <2>2, <2>6, <2>8, <2>11, ExplainedWithMine DEF rows, lines
  <2> QED
    BY <2>5, <2>10, <2>12
<1>11. HandsInv'
  <2>1. ASSUME NEW q \in Procs, command'[q].kind = "append" /\ pc'[q] \in InHand
        PROVE  HandIs(hand'[q], temps'[q], pc'[q], base', command', original', applied', q)
    <3>1. CASE q = p
      <4>1. result # Err /\ pc'[p] = "encoded"
        BY <1>3, <2>1, <3>1 DEF InHand
      <4>2. SubSeq(applied, 1, base'[p]) = applied
        BY <1>3
      <4> QED
        BY <1>2, <1>3, <1>10, <3>1, <4>1, <4>2 DEF HandIs
    <3>2. CASE q # p
      <4> DEFINE had == SubSeq(applied, 1, base[q])
                 with == Append(had, q)
      <4>1. HandIs(hand[q], temps[q], pc[q], base, command, original, applied, q)
        BY <1>1, <1>5, <2>1, <3>2, HandsAre
      <4>2. base[q] \in 0..Len(applied)
        <5>1. base[q] <= Len(applied) /\ base[q] \in Nat
          BY <1>1, <1>3, <1>5, <2>1, <3>2 DEF AppendsTypeOK
        <5> QED
          BY <1>3, <5>1
      <4>3. had \in Seq(Procs) /\ Range(had) \subseteq Range(applied)
        <5> DEFINE l == base[q]
        <5>1. applied \in Seq(Procs) /\ l \in 0..Len(applied)
          BY <1>3, <4>2
        <5> HIDE DEF l
        <5>2. /\ SubSeq(applied, 1, l) \in Seq(Procs) /\ DOMAIN SubSeq(applied, 1, l) = 1..l
              /\ \A i \in 1..l : SubSeq(applied, 1, l)[i] = applied[i] /\ i \in DOMAIN applied
          BY ONLY <5>1
        <5>3. /\ had \in Seq(Procs) /\ DOMAIN had = 1..l
              /\ \A i \in 1..l : had[i] = applied[i] /\ i \in DOMAIN applied
          BY <5>2 DEF l
        <5> HIDE DEF had
        <5> QED
          BY <5>3 DEF Range
      <4> HIDE DEF had
      <4>4. with \in Seq(Procs) /\ Range(with) = Range(had) \cup {q}
        BY <4>3, OneAppendMore
      <4>5. \A r \in Range(with) : base'[r] = base[r]
        BY <1>3, <1>4, <3>2, <4>3, <4>4
      <4> HIDE DEF with
      <4>6. ExplainedIn(hand[q], with, command, original, base)
        BY <4>1 DEF HandIs, with, had
      <4>7. ExplainedIn(hand[q], with, command, original, base')
        BY <4>4, <4>5, <4>6, ExplainedSame
      <4>8. with = Append(SubSeq(applied, 1, base'[q]), q)
        BY <1>3, <3>2 DEF with, had
      <4> QED
        BY <1>2, <1>3, <3>2, <4>1, <4>7, <4>8 DEF HandIs
    <3> QED
      BY <3>1, <3>2
  <2> QED
    BY <2>1, HandsAreNext
<1> QED
  BY <1>6, <1>9, <1>11 DEF AppendsInv

LEMMA OwnStepsKeep ==
    ASSUME AppendsInv, NEW p \in Procs,
           CreateTemporary(p) \/ WriteTemporary(p) \/ RenameFails(p)
    PROVE  AppendsInv'
<1>1. /\ temps = [q \in Procs |-> temps[q]] /\ hand = [q \in Procs |-> hand[q]]
  BY DEF AppendsInv, AppendsTypeOK
<1>2. /\ IsAppending(p) /\ pc[p] # "done" /\ hand' = hand
      /\ UNCHANGED <<log, stable, command, original, applied, stableApplied, base, powerLosses>>
  BY DEF CreateTemporary, WriteTemporary, RenameFails, Is, IsAppending, InHand, history
<1>3. CASE CreateTemporary(p)
  <2>1. pc' = [pc EXCEPT ![p] = "temporary"] /\ temps' = [temps EXCEPT ![p] = << >>]
    BY <1>3 DEF CreateTemporary, Go
  <2>2. temps' = [q \in Procs |-> temps'[q]] /\ \A q \in Procs \ {p} : temps'[q] = temps[q]
    BY <1>1, <2>1
  <2>3. "temporary" \in InHand /\ "temporary" # "synced"
    BY DEF InHand
  <2> QED
    BY <1>2, <2>1, <2>2, <2>3, OwnKeeps
<1>4. CASE WriteTemporary(p) /\ temps' = [temps EXCEPT ![p] = hand[p]] /\ Go(p, "synced")
  <2>1. pc' = [pc EXCEPT ![p] = "synced"] /\ temps' = [temps EXCEPT ![p] = hand[p]]
    BY <1>4 DEF Go
  <2>2. /\ temps' = [q \in Procs |-> temps'[q]] /\ temps'[p] = hand[p]
        /\ \A q \in Procs \ {p} : temps'[q] = temps[q]
    BY <1>1, <2>1
  <2>3. "synced" \in InHand
    BY DEF InHand
  <2> QED
    BY <1>2, <2>1, <2>2, <2>3, OwnKeeps
<1>5. CASE /\ WriteTemporary(p) \/ RenameFails(p)
           /\ temps' = [temps EXCEPT ![p] = Absent] /\ Go(p, "failed")
  <2>1. pc' = [pc EXCEPT ![p] = "failed"] /\ temps' = [temps EXCEPT ![p] = Absent]
    BY <1>5 DEF Go
  <2>2. /\ temps' = [q \in Procs |-> temps'[q]]
        /\ \A q \in Procs \ {p} : temps'[q] = temps[q]
    BY <1>1, <2>1
  <2>3. "failed" \notin InHand
    BY DEF InHand
  <2>4. hand' = [q \in Procs |-> hand'[q]] /\ \A q \in Procs \ {p} : hand'[q] = hand[q]
    BY <1>1, <1>2
  <2> QED
    BY <1>2, <2>1, <2>2, <2>3, <2>4, AsideKeeps
<1> QED
  BY <1>3, <1>4, <1>5 DEF WriteTemporary, RenameFails

LEMMA OtherCommandsKeep ==
    ASSUME AppendsInv, NEW p \in Procs,
           \/ PlanRepair(p) \/ CreateOutput(p) \/ WriteOutput(p)
           \/ Roll(p) \/ OpenSegment(p) \/ WriteSegment(p) \/ Crash(p)
    PROVE  AppendsInv'
<1>1. /\ temps = [q \in Procs |-> temps[q]] /\ hand = [q \in Procs |-> hand[q]]
  BY DEF AppendsInv, AppendsTypeOK
<1> DEFINE Aside(place) ==
        /\ pc[p] # "done" /\ place \notin InHand
        /\ pc' = [pc EXCEPT ![p] = place]
        /\ \A q \in Procs \ {p} : hand'[q] = hand[q]
        /\ hand' = [q \in Procs |-> hand'[q]]
        /\ \A q \in Procs \ {p} : temps'[q] = temps[q]
        /\ temps' = [q \in Procs |-> temps'[q]]
        /\ UNCHANGED <<log, stable, command, original, applied, stableApplied, base, powerLosses>>
<1>2. CASE PlanRepair(p)
  <2> DEFINE plan == Plan(SourceOf(p))
             place == IF hand'[p] = Err THEN "failed" ELSE "planned"
  <2>1. /\ pc[p] = "idle" /\ hand' = [hand EXCEPT ![p] = plan] /\ pc' = [pc EXCEPT ![p] = place]
        /\ UNCHANGED <<log, temps, stable, command, original, applied, stableApplied,
                       base, powerLosses>>
    BY <1>2 DEF PlanRepair, Go, files, history
  <2>2. place \notin InHand
    BY DEF InHand
  <2> HIDE DEF plan, place
  <2>3. Aside(place)
    BY <1>1, <2>1, <2>2
  <2> QED
    BY <2>3, AsideKeeps
<1>3. CASE CreateOutput(p)
  <2> DEFINE result == Execute(ExecutedOn(p), hand[p])
             place == IF result # Err /\ out = Absent THEN "creating" ELSE "failed"
             g == [plan |-> hand[p], result |-> result]
  <2>1. /\ pc[p] = "planned" /\ hand' = [hand EXCEPT ![p] = g] /\ pc' = [pc EXCEPT ![p] = place]
        /\ UNCHANGED <<log, temps, stable, command, original, applied, stableApplied,
                       base, powerLosses>>
    BY <1>3 DEF CreateOutput, Go, history
  <2>2. place \notin InHand
    BY DEF InHand
  <2> HIDE DEF g, place
  <2>3. Aside(place)
    BY <1>1, <2>1, <2>2
  <2> QED
    BY <2>3, AsideKeeps
<1>4. CASE WriteOutput(p)
  <2>1. PICK place \in {"done", "failed"} : pc' = [pc EXCEPT ![p] = place]
    BY <1>4 DEF WriteOutput, Go
  <2>2. /\ pc[p] = "creating" /\ hand' = hand
        /\ UNCHANGED <<log, temps, stable, command, original, applied, stableApplied,
                       base, powerLosses>>
    BY <1>4 DEF WriteOutput, history
  <2>3. place \notin InHand
    BY <2>1 DEF InHand
  <2>4. Aside(place)
    BY <1>1, <2>1, <2>2, <2>3
  <2> QED
    BY <2>4, AsideKeeps
<1>5. CASE Roll(p)
  <2> DEFINE result == RollSegments(command[p].lines)
             place == CASE result = Err -> "failed" [] result = << >> -> "done"
                        [] OTHER -> "rolling"
             g == IF result = Err THEN Err
                  ELSE [left |-> result, all |-> result, old |-> segments,
                        before |-> {q \in Procs : pc[q] # "idle"}]
  <2>1. /\ pc[p] = "idle" /\ hand' = [hand EXCEPT ![p] = g] /\ pc' = [pc EXCEPT ![p] = place]
        /\ UNCHANGED <<log, temps, stable, command, original, applied, stableApplied,
                       base, powerLosses>>
    BY <1>5 DEF Roll, Is, Go, files, history
  <2>2. place \notin InHand
    <3> HIDE DEF result
    <3>1. place \in {"failed", "done", "rolling"}
      BY Zenon
    <3> QED
      BY <3>1 DEF InHand
  <2> HIDE DEF g, place
  <2>3. Aside(place)
    BY <1>1, <2>1, <2>2
  <2> QED
    BY <2>3, AsideKeeps
<1>6. CASE OpenSegment(p)
  <2>1. /\ pc[p] = "rolling" /\ hand' = hand /\ pc' = [pc EXCEPT ![p] = "opened"]
        /\ UNCHANGED <<log, temps, stable, command, original, applied, stableApplied,
                       base, powerLosses>>
    BY <1>6 DEF OpenSegment, Is, Go, history
  <2>2. Aside("opened")
    BY <1>1, <2>1 DEF InHand
  <2> QED
    BY <2>2, AsideKeeps
<1>7. CASE WriteSegment(p)
  <2>1. PICK place \in {"done", "rolling", "failed"} : pc' = [pc EXCEPT ![p] = place]
    BY <1>7 DEF WriteSegment, Go
  <2>2. /\ pc[p] = "opened"
        /\ UNCHANGED <<log, temps, stable, command, original, applied, stableApplied,
                       base, powerLosses>>
    BY <1>7 DEF WriteSegment, Is, history
  <2>3. hand' = hand \/ \E g : hand' = [hand EXCEPT ![p] = g]
    <3>1. hand' = hand \/ hand' = [hand EXCEPT ![p].left = Tail(@)]
      BY <1>7 DEF WriteSegment
    <3> QED
      BY <3>1
  <2>4. hand' = [q \in Procs |-> hand'[q]] /\ \A q \in Procs \ {p} : hand'[q] = hand[q]
    BY <1>1, <2>3
  <2>5. place \notin InHand
    BY <2>1 DEF InHand
  <2>6. Aside(place)
    BY <1>1, <2>1, <2>2, <2>4, <2>5
  <2> QED
    BY <2>6, AsideKeeps
<1>8. CASE Crash(p)
  <2>1. /\ pc[p] \in Running /\ hand' = hand /\ pc' = [pc EXCEPT ![p] = "crashed"]
        /\ UNCHANGED <<log, stable, command, original, applied, stableApplied, base, powerLosses>>
    BY <1>8 DEF Crash, Go, history
  <2>2. temps' = temps \/ \E c : temps' = [temps EXCEPT ![p] = c]
    BY <1>8 DEF Crash
  <2>3. temps' = [q \in Procs |-> temps'[q]] /\ \A q \in Procs \ {p} : temps'[q] = temps[q]
    BY <1>1, <2>2
  <2>4. pc[p] # "done"
    BY <2>1 DEF Running
  <2>5. Aside("crashed")
    BY <1>1, <2>1, <2>3, <2>4 DEF InHand
  <2> QED
    BY <2>5, AsideKeeps
<1> QED
  BY <1>2, <1>3, <1>4, <1>5, <1>6, <1>7, <1>8

LEMMA RenameKeeps ==
    ASSUME AppendsInv, NEW p \in Procs, Rename(p)
    PROVE  AppendsInv'
<1>1. AppendsTypeOK /\ LogsInv /\ HandsInv
  BY DEF AppendsInv
<1>2. /\ command[p].kind = "append" /\ pc[p] = "synced"
      /\ log' = temps[p] /\ temps' = [temps EXCEPT ![p] = Absent]
      /\ pc' = [pc EXCEPT ![p] = "done"] /\ applied' = Append(applied, p)
      /\ UNCHANGED <<hand, stable, command, original, stableApplied, base, powerLosses>>
  BY DEF Rename, RenameFrom, Is, Go
<1>3. /\ applied \in Seq(Procs) /\ stableApplied \in Seq(Procs)
      /\ base[p] \in 0..Len(applied) /\ base \in [Procs -> Nat]
      /\ \A q \in Procs \ {p} : pc'[q] = pc[q] /\ temps'[q] = temps[q]
      /\ pc'[p] = "done" /\ pc' = [q \in Procs |-> pc'[q]]
      /\ temps' = [q \in Procs |-> temps'[q]]
      /\ IsAppending(p)
  <2>1. IsAppending(p)
    BY <1>2 DEF IsAppending, InHand
  <2>2. applied \in Seq(Procs) /\ base[p] <= Len(applied) /\ base \in [Procs -> Nat]
    BY <1>1, <2>1 DEF AppendsTypeOK
  <2>3. base[p] \in 0..Len(applied)
    BY <2>2
  <2> QED
    BY <1>1, <1>2, <2>1, <2>2, <2>3 DEF AppendsTypeOK
<1>4. /\ applied' \in Seq(Procs) /\ Len(applied') = Len(applied) + 1
      /\ Range(applied') = Range(applied) \cup {p}
      /\ \A n \in 0..Len(applied) : SubSeq(applied', 1, n) = SubSeq(applied, 1, n)
  BY <1>2, <1>3, OneAppendMore
<1>5. /\ \A q \in Procs : command'[q].kind = "append" /\ pc'[q] \in InHand =>
             q # p /\ IsAppending(q)
  BY <1>2, <1>3 DEF IsAppending, InHand
<1>6. \A q \in Procs : command'[q].kind = "append" /\ pc'[q] \in InHand =>
          base[q] \in 0..Len(applied)
  <2>1. \A q \in Procs : command'[q].kind = "append" /\ pc'[q] \in InHand =>
            base[q] \in Nat /\ base[q] <= Len(applied)
    BY <1>1, <1>3, <1>5 DEF AppendsTypeOK
  <2> QED
    BY <1>3, <2>1
<1>7. AppendsTypeOK'
  <2>1. \A q \in Procs : command'[q].kind = "append" /\ pc'[q] \in InHand =>
            base'[q] <= Len(applied')
    BY <1>2, <1>3, <1>4, <1>6
  <2>2. \A q \in Range(applied') \cup Range(stableApplied) :
            pc'[q] = "done" /\ command[q].kind = "append"
    <3>1. Range(applied) \cup Range(stableApplied) \subseteq Procs
      BY <1>3 DEF Range
    <3>2. \A q \in Range(applied) \cup Range(stableApplied) :
              pc[q] = "done" /\ command[q].kind = "append"
      BY <1>1 DEF AppendsTypeOK
    <3> QED
      BY <1>2, <1>3, <1>4, <3>1, <3>2
  <2> QED
    BY <1>1, <1>2, <1>3, <1>4, <2>1, <2>2 DEF AppendsTypeOK, IsAppending, InHand
<1>8. HandIs(hand[p], temps[p], "synced", base, command, original, applied, p)
  BY <1>1, <1>2, <1>3, HandsAre
<1>9. GoodLogIn(log', original) /\ log' = hand[p]
  BY <1>2, <1>8 DEF HandIs
<1>10. ExplainedIn(log', applied', command, original, base)
  <2> DEFINE mine == hand[p]
             b == base[p]
  <2>1. ExplainedIn(mine, Append(SubSeq(applied, 1, b), p), command, original, base)
    BY <1>8 DEF HandIs
  <2>2. b \in 0..Len(applied)
    BY <1>3
  <2>3. base[p] = b
    OBVIOUS
  <2> HIDE DEF mine, b
  <2>4. ExplainedIn(mine, Append(applied, p), command, original, base)
    BY <1>3, <2>1, <2>2, <2>3, ExplainedReplaced
  <2> QED
    BY <1>2, <1>9, <2>4 DEF mine
<1>11. LogsInv'
  <2>1. /\ GoodLogIn(original, original) /\ GoodLogIn(stable, original)
        /\ ExplainedIn(stable, stableApplied, command, original, base)
    BY <1>1, LogsAre
  <2> QED
    BY <1>2, <1>9, <1>10, <2>1, LogsAreNext
<1>12. HandsInv'
  <2>1. ASSUME NEW q \in Procs, command'[q].kind = "append" /\ pc'[q] \in InHand
        PROVE  HandIs(hand'[q], temps'[q], pc'[q], base', command', original', applied', q)
    <3>1. q # p /\ IsAppending(q)
      BY <1>5, <2>1
    <3>2. HandIs(hand[q], temps[q], pc[q], base, command, original, applied, q)
      BY <1>1, <3>1, HandsAre
    <3>3. SubSeq(applied', 1, base[q]) = SubSeq(applied, 1, base[q])
      BY <1>4, <1>6, <2>1
    <3> QED
      BY <1>2, <1>3, <3>1, <3>2, <3>3 DEF HandIs
  <2> QED
    BY <2>1, HandsAreNext
<1> QED
  BY <1>7, <1>11, <1>12 DEF AppendsInv

LEMMA SyncDirectoryKeeps == AppendsInv /\ SyncDirectory => AppendsInv'
<1> SUFFICES ASSUME AppendsInv, SyncDirectory
             PROVE  AppendsInv'
  OBVIOUS
<1>1. AppendsTypeOK /\ LogsInv /\ HandsInv
  BY DEF AppendsInv
<1>2. /\ stable' = log /\ stableApplied' = applied
      /\ UNCHANGED <<log, temps, command, pc, hand, original, applied, base, powerLosses>>
  BY DEF SyncDirectory, files
<1>3. AppendsTypeOK'
  BY <1>1, <1>2 DEF AppendsTypeOK, IsAppending
<1>4. LogsInv'
  BY <1>1, <1>2, LogsAre, LogsAreNext
<1>5. HandsInv'
  BY <1>1, <1>2, HandsAre, HandsAreNext DEF IsAppending
<1> QED
  BY <1>3, <1>4, <1>5 DEF AppendsInv

LEMMA PowerLossKeeps == AppendsInv /\ PowerLoss => AppendsInv'
<1> SUFFICES ASSUME AppendsInv, PowerLoss
             PROVE  AppendsInv'
  OBVIOUS
<1>1. AppendsTypeOK /\ LogsInv /\ HandsInv
  BY DEF AppendsInv
<1>2. /\ powerLosses' = powerLosses + 1
      /\ pc' = [p \in Procs |-> IF pc[p] \in Running THEN "crashed" ELSE pc[p]]
      /\ log' = stable /\ applied' = stableApplied
      /\ UNCHANGED <<temps, stable, command, hand, original, stableApplied, base>>
  BY DEF PowerLoss
<1>3. \A q \in Procs : pc'[q] \notin InHand /\ (pc[q] = "done" => pc'[q] = "done")
  BY <1>2 DEF InHand, Running
<1>4. AppendsTypeOK'
  <2>1. Range(stableApplied) \subseteq Procs
    BY <1>1 DEF AppendsTypeOK, Range
  <2>2. \A q \in Range(applied') \cup Range(stableApplied') :
            pc'[q] = "done" /\ command'[q].kind = "append"
    BY <1>1, <1>2, <1>3, <2>1 DEF AppendsTypeOK
  <2>3. powerLosses' \in Nat
    BY <1>1, <1>2 DEF AppendsTypeOK
  <2>4. pc' = [q \in Procs |-> pc'[q]]
    BY <1>2
  <2> QED
    BY <1>1, <1>2, <1>3, <2>2, <2>3, <2>4 DEF AppendsTypeOK, IsAppending, InHand
<1>5. LogsInv'
  BY <1>1, <1>2, LogsAre, LogsAreNext
<1>6. HandsInv'
  BY <1>3, HandsAreNext
<1> QED
  BY <1>4, <1>5, <1>6 DEF AppendsInv

LEMMA StutterKeeps == AppendsInv /\ UNCHANGED vars => AppendsInv'
<1> SUFFICES ASSUME AppendsInv, UNCHANGED vars
             PROVE  AppendsInv'
  OBVIOUS
<1>1. AppendsTypeOK /\ LogsInv /\ HandsInv
  BY DEF AppendsInv
<1>2. AppendsTypeOK'
  BY <1>1 DEF AppendsTypeOK, IsAppending, vars
<1>3. LogsInv'
  BY <1>1, LogsAre, LogsAreNext DEF vars
<1>4. HandsInv'
  BY <1>1, HandsAre, HandsAreNext DEF IsAppending, vars
<1> QED
  BY <1>2, <1>3, <1>4 DEF AppendsInv

(* Whatever is killed, fails, loses its power or overlaps, the log, what of  *)
(* it is on the disk, and what every append under way is about to put in its *)
(* place hold the first log and whole appends (write_all, rename).           *)
THEOREM AppendsInvariant == Spec => []AppendsInv
<1>1. AppendsInv /\ [Next]_vars => AppendsInv'
  <2> SUFFICES ASSUME AppendsInv, [Next]_vars
               PROVE  AppendsInv'
    OBVIOUS
  <2>1. ASSUME NEW p \in Procs, Step(p)
        PROVE  AppendsInv'
    BY <2>1, ReadLogKeeps, OwnStepsKeep, RenameKeeps, OtherCommandsKeep DEF Step
  <2>2. CASE SyncDirectory
    BY <2>2, SyncDirectoryKeeps
  <2>3. CASE PowerLoss
    BY <2>3, PowerLossKeeps
  <2>4. CASE Ended \/ UNCHANGED vars
    BY <2>4, StutterKeeps DEF Ended
  <2> QED
    BY <2>1, <2>2, <2>3, <2>4 DEF Next
<1> QED
  BY <1>1, InitInv, PTL DEF Spec

(* stream-append: an append that ended well loses its rows only to another   *)
(* that had read the log before it and replaced it after; and no rows get in *)
(* but those of appends that reached their rename.                           *)
THEOREM AppendsAreLostOnlyToOverlaps == Spec => []LostRowsMeanOverlap
<1>1. AppendsInv => LostRowsMeanOverlap
  BY DEF AppendsInv, LogsInv, LostRowsMeanOverlap
<1> QED
  BY <1>1, AppendsInvariant, PTL

(* atomic_write_with, append_jsonl_stream: the log is as it was at first or a*)
(* stream that recovery keeps to its last byte and replay reads, and its     *)
(* first rows stay in front; for logs that can be decoded and lines in the   *)
(* text the decoder renders, whatever else the commands are.                 *)
THEOREM TheLogStaysWhole ==
    ASSUME ReadableLogs, CanonicalCommands
    PROVE  Spec => []LogIsWhole
<1>1. AppendsInv => LogIsWhole
  <2> SUFFICES ASSUME AppendsInv
               PROVE  LogIsWhole
    OBVIOUS
  <2>1. GoodLogIn(log, original)
    BY LogsAre DEF AppendsInv
  <2>2. IsPrefix(RowsIn(original), RowsIn(log))
    BY <2>1 DEF GoodLogIn
  <2>3. ASSUME log # original
        PROVE  IsValidLen(log, Len(log)) /\ Replay(log).status = "reading"
    <3>1. log \in Seq(Cell) /\ log # << >> /\ IsValidLen(log, Len(log))
      BY <2>1, <2>3 DEF GoodLogIn
    <3>2. IsReadable(log)
      BY <2>1, <3>1, NoFileIsAbsent DEF GoodLogIn
    <3>3. Len(log) \in 0..Len(log) /\ Len(log) > 0
      BY <3>1, EmptySeq
    <3>4. ValidLen(log) = Len(log)
      BY <3>1, <3>3, ValidLenUnique
    <3> QED
      BY <3>1, <3>2, <3>3, <3>4, ReplayReads
  <2> QED
    BY <2>2, <2>3 DEF LogIsWhole
<1> QED
  BY <1>1, AppendsInvariant, PTL

(* write_new_file: create_new refuses a file that is there, so no repair     *)
(* touches one of an earlier repair, and none removes it when it fails.      *)
THEOREM RepairsLeaveOtherFiles == Spec => OutputsStay
<1> DEFINE A == out # Absent /\ powerLosses' = powerLosses
                    /\ (\A p \in Procs : pc[p] # "creating") => out' = out
<1>1. AppendsInv /\ [Next]_vars => [A]_vars
  <2> SUFFICES ASSUME AppendsInv, [Next]_vars, out # Absent, powerLosses' = powerLosses,
                      \A p \in Procs : pc[p] # "creating"
               PROVE  out' = out
    OBVIOUS
  <2>1. powerLosses \in Nat
    BY DEF AppendsInv, AppendsTypeOK
  <2>2. ASSUME NEW p \in Procs, Step(p)
        PROVE  out' = out
    <3>1. CASE CreateOutput(p)
      BY <3>1 DEF CreateOutput
    <3>2. CASE WriteOutput(p)
      BY <3>2 DEF WriteOutput
    <3>3. CASE Crash(p)
      BY <3>3 DEF Crash
    <3>4. CASE ReadLog(p) \/ CreateTemporary(p) \/ WriteTemporary(p) \/ Rename(p)
                   \/ RenameFails(p)
      BY <3>4 DEF ReadLog, CreateTemporary, WriteTemporary, Rename, RenameFrom, RenameFails, files
    <3>5. CASE PlanRepair(p) \/ Roll(p) \/ OpenSegment(p) \/ WriteSegment(p)
      BY <3>5 DEF PlanRepair, Roll, OpenSegment, WriteSegment, files
    <3> QED
      BY <2>2, <3>1, <3>2, <3>3, <3>4, <3>5 DEF Step
  <2>3. CASE SyncDirectory
    BY <2>3 DEF SyncDirectory, files
  <2>4. CASE PowerLoss
    <3>1. powerLosses' = powerLosses + 1
      BY <2>4 DEF PowerLoss
    <3> QED
      BY <2>1, <3>1
  <2>5. CASE Ended \/ UNCHANGED vars
    BY <2>5 DEF Ended, vars
  <2> QED
    BY <2>2, <2>3, <2>4, <2>5 DEF Next
<1> QED
  BY <1>1, AppendsInvariant, PTL DEF Spec, OutputsStay

-----------------------------------------------------------------------------
(* roll_jsonl_append_segments, line by line. *)

RollAll(origin, cells) == FoldLeft(RollLine, origin, cells)

LEMMA RollUnfolds ==
    ASSUME NEW origin, NEW cells, NEW n \in Nat, DOMAIN cells = 1..n
    PROVE  \E t : /\ t[0] = origin
                  /\ \A k \in 1..n : t[k] = RollLine(t[k - 1], cells[k])
                  /\ RollAll(origin, cells) = t[n]
<1> DEFINE More(f, s) == IF s = {} THEN origin
                         ELSE RollLine(f[s \ {Max(s)}], cells[Max(s)])
           Solves(f, m) == f = [s \in SUBSET (1..m) |-> More(f, s)]
           solved == {m \in Nat : \E f : Solves(f, m)}
<1>1. 0 \in solved
  <2> DEFINE f == [s \in SUBSET (1..0) |-> origin]
  <2>1. \A s \in SUBSET (1..0) : s = {}
    OBVIOUS
  <2>2. Solves(f, 0)
    BY <2>1
  <2> QED
    BY <2>2
<1>2. ASSUME NEW m \in 0..n - 1, m \in solved
      PROVE  m + 1 \in solved
  <2>1. PICK f : Solves(f, m)
    BY <1>2
  <2> DEFINE g == [s \in SUBSET (1..m + 1) |->
                       IF m + 1 \in s THEN RollLine(f[s \ {m + 1}], cells[m + 1]) ELSE f[s]]
  <2>2. \A s \in SUBSET (1..m) : s \in SUBSET (1..m + 1) /\ g[s] = f[s]
    <3> SUFFICES ASSUME NEW s \in SUBSET (1..m)
                 PROVE  s \in SUBSET (1..m + 1) /\ g[s] = f[s]
      OBVIOUS
    <3>1. m + 1 \notin s /\ s \in SUBSET (1..m + 1)
      OBVIOUS
    <3> QED
      BY <3>1
  <2>3. ASSUME NEW s \in SUBSET (1..m + 1)
        PROVE  g[s] = More(g, s)
    <3>1. CASE m + 1 \in s
      <4>1. Max(s) = m + 1 /\ s \ {m + 1} \in SUBSET (1..m) /\ s # {}
        BY <3>1, MaxIs
      <4>2. g[s] = RollLine(f[s \ {m + 1}], cells[m + 1])
        BY <3>1
      <4>3. g[s \ {m + 1}] = f[s \ {m + 1}]
        BY <2>2, <4>1
      <4> HIDE DEF g
      <4> QED
        BY <4>1, <4>2, <4>3
    <3>2. CASE m + 1 \notin s
      <4>1. s \in SUBSET (1..m)
        BY <3>2
      <4>2. g[s] = f[s] /\ f[s] = More(f, s)
        BY <2>1, <2>2, <4>1
      <4>3. s \ {Max(s)} \in SUBSET (1..m)
        BY <4>1
      <4>4. g[s \ {Max(s)}] = f[s \ {Max(s)}]
        BY <2>2, <4>3
      <4> HIDE DEF g
      <4> QED
        BY <4>2, <4>4
    <3> QED
      BY <3>1, <3>2
  <2>4. Solves(g, m + 1)
    <3> DEFINE h == [s \in SUBSET (1..m + 1) |-> More(g, s)]
    <3>1. DOMAIN g = SUBSET (1..m + 1) /\ g = [s \in DOMAIN g |-> g[s]]
      OBVIOUS
    <3> HIDE DEF g
    <3>2. g = h
      BY <2>3, <3>1
    <3> QED
      BY <3>2
  <2>5. m + 1 \in Nat
    OBVIOUS
  <2> HIDE DEF g, Solves
  <2> QED
    BY <2>4, <2>5
<1>3. n \in solved
  <2> HIDE DEF solved
  <2>1. 0..n \subseteq solved
    BY <1>1, <1>2, Induction
  <2>2. n \in 0..n
    OBVIOUS
  <2> QED
    BY <2>1, <2>2
<1> DEFINE iter == CHOOSE f : Solves(f, n)
<1>4. Solves(iter, n)
  <2>1. \E f : Solves(f, n)
    BY <1>3
  <2> HIDE DEF Solves
  <2> QED
    BY <2>1, Zenon
<1>5. RollAll(origin, cells) = iter[1..n]
  BY Zenon DEF RollAll, FoldLeft, MapThenFoldSet
<1> HIDE DEF iter
<1>6. iter[1..0] = origin
  <2>1. {} \in SUBSET (1..n) /\ 1..0 = {}
    OBVIOUS
  <2>2. iter[{}] = More(iter, {})
    BY <1>4, <2>1
  <2> QED
    BY <2>1, <2>2
<1>7. ASSUME NEW k \in 1..n
      PROVE  iter[1..k] = RollLine(iter[1..k - 1], cells[k])
  <2>1. 1..k \in SUBSET (1..n) /\ 1..k # {}
    <3>1. k \in 1..k /\ \A x \in 1..k : x \in 1..n
      OBVIOUS
    <3> QED
      BY <3>1
  <2>2. Max(1..k) = k /\ (1..k) \ {k} = 1..k - 1
    <3>1. 1..k \in SUBSET Nat /\ k \in 1..k /\ \A y \in 1..k : y <= k
      OBVIOUS
    <3>2. \A x : x \in (1..k) \ {k} <=> x \in 1..k - 1
      OBVIOUS
    <3> QED
      BY <3>1, <3>2, MaxIs
  <2>3. iter[1..k] = More(iter, 1..k)
    <3> HIDE DEF More
    <3> QED
      BY <1>4, <2>1
  <2> QED
    BY <2>1, <2>2, <2>3
<1> DEFINE t == [k \in 0..n |-> iter[1..k]]
<1>8. t[0] = origin /\ t[n] = iter[1..n]
  BY <1>6
<1>9. ASSUME NEW k \in 1..n
      PROVE  t[k] = RollLine(t[k - 1], cells[k])
  BY <1>7
<1> HIDE DEF t
<1> QED
  BY <1>5, <1>8, <1>9

-----------------------------------------------------------------------------

LEMMA LengthsAdd ==
    ASSUME NEW X, NEW a \in Seq(X), NEW b \in Seq(X)
    PROVE  Len(a \o b) = Len(a) + Len(b) /\ Len(a) \in Nat /\ Len(b) \in Nat
OBVIOUS

LEMMA AppendTable ==
    ASSUME NEW X, NEW a \in Seq(X), NEW x \in X
    PROVE  /\ Append(a, x) = [i \in 1..Len(a) + 1 |-> Append(a, x)[i]]
           /\ \A i \in 1..Len(a) : Append(a, x)[i] = a[i]
           /\ Append(a, x)[Len(a) + 1] = x
<1> DEFINE f == Append(a, x)
           n == Len(a) + 1
<1>1. /\ f \in Seq(X) /\ Len(f) = n
      /\ \A i \in 1..Len(a) : f[i] = a[i]
      /\ f[n] = x
  OBVIOUS
<1> HIDE DEF f, n
<1>2. f = [i \in 1..n |-> f[i]]
  BY <1>1
<1> QED
  BY <1>1, <1>2 DEF f, n

(* A segment of groups alone is a stream that recovery keeps whole. *)
LEMMA AppendFileIs ==
    ASSUME NEW groups \in Seq(Seq(Row)), Len(groups) <= MaxStreamBlocks
    PROVE  /\ IsWhole(AppendFile(groups))
           /\ Len(AppendFile(groups)) = Len(groups) + 1
           /\ RowsIn(AppendFile(groups)) = FlattenSeq(groups)
<1> DEFINE kept == <<Header>>
           file == AppendFile(groups)
<1>1. kept \in Seq(Cell) /\ Len(kept) = 1 /\ kept[1] = Header /\ kept # << >>
  BY CellTypes
<1>2. file = kept \o Frames(groups, 0, 0)
  BY DEF AppendFile
<1>3. Recovered(kept) = << >>
  BY HeaderRecovers
<1> HIDE DEF kept, file
<1>4. IsWhole(kept) /\ NextRow(kept, Len(kept)) = 0
  BY <1>1 DEF IsWhole, IsValidLen, FollowsOn, NextRow
<1>5. /\ 0 = Len(kept) - 1 /\ Len(kept) - 1 + Len(groups) <= MaxStreamBlocks
      /\ 0 \in Nat /\ Len(groups) \in Nat
  BY <1>1, MaxStreamBlocksAssumption
<1>6. IsWhole(file) /\ Recovered(file) = Recovered(kept) \o groups
  BY <1>2, <1>4, <1>5, FramesFollow
<1>7. Len(file) = Len(groups) + 1
  <2> DEFINE frames == Frames(groups, 0, 0)
  <2>1. frames \in Seq(Cell) /\ Len(frames) = Len(groups)
    BY FramesType
  <2>2. file = kept \o frames
    BY <1>2
  <2> HIDE DEF frames
  <2>3. Len(kept \o frames) = Len(kept) + Len(frames)
    BY <1>1, <2>1, LengthsAdd
  <2>4. Len(file) = 1 + Len(groups)
    BY <1>1, <2>1, <2>2, <2>3
  <2> QED
    BY <1>5, <2>4
<1>8. Recovered(file) = groups
  BY <1>3, <1>6, NoElements
<1>9. Bytes(file) = file
  BY <1>6, NoFileIsAbsent DEF IsWhole
<1> QED
  BY <1>6, <1>7, <1>8, <1>9 DEF RowsIn, file

(* Blocks a writer has in hand: those done and the one being filled. *)
InHandOf(writer) == Len(writer.done) + (IF IsEmptyGroup(writer.group) THEN 0 ELSE 1)

RowWriter == [done : Seq(Seq(Row)), group : Group]

LEMMA FlushInHand ==
    ASSUME NEW w \in RowWriter
    PROVE  /\ FlushBlock(w) \in RowWriter
           /\ InHandOf(FlushBlock(w)) = InHandOf(w)
           /\ Len(FlushBlock(w).done) = InHandOf(w)
           /\ InHandOf(w) \in Nat /\ Len(w.done) <= InHandOf(w)
           /\ InHandOf(w) <= Len(w.done) + 1
<1>1. CASE IsEmptyGroup(w.group)
  BY <1>1 DEF FlushBlock, InHandOf, RowWriter
<1>2. CASE ~IsEmptyGroup(w.group)
  <2> DEFINE more == Append(w.done, w.group.rows)
  <2>1. FlushBlock(w) = [done |-> more, group |-> EmptyGroup]
    BY <1>2 DEF FlushBlock
  <2>2. w.group.rows \in Seq(Row) /\ w.done \in Seq(Seq(Row))
    BY DEF RowWriter, Group
  <2>3. more \in Seq(Seq(Row)) /\ Len(more) = Len(w.done) + 1 /\ Len(w.done) \in Nat
    BY <2>2
  <2>4. EmptyGroup \in Group /\ IsEmptyGroup(EmptyGroup)
    BY DEF EmptyGroup, Group, IsEmptyGroup
  <2> HIDE DEF more
  <2> QED
    BY <1>2, <2>1, <2>3, <2>4 DEF InHandOf, RowWriter
<1> QED
  BY <1>1, <1>2

LEMMA LineAddsTwo ==
    ASSUME NEW w \in RowWriter, NEW line \in Row
    PROVE  InHandOf(WriteLine(w, line)) <= Len(w.done) + 2
<1> DEFINE room == IF WouldExceed(w.group, line) THEN FlushBlock(w) ELSE w
           p == [room EXCEPT !.group = PushLine(@, line)]
<1>1. WriteLine(w, line) = IF ReachedLimit(p.group) THEN FlushBlock(p) ELSE p
  BY Zenon DEF WriteLine, Row
<1>2. room \in RowWriter /\ Len(room.done) <= Len(w.done) + 1 /\ Len(w.done) \in Nat
  <2>1. Len(w.done) \in Nat
    BY DEF RowWriter
  <2> QED
    BY <2>1, FlushInHand
<1> HIDE DEF room
<1>3. p \in RowWriter /\ p.done = room.done
  <2> DEFINE g == PushLine(room.group, line)
  <2>1. g \in Group
    BY <1>2 DEF RowWriter, PushLine, Group, Row, Line
  <2>2. p = [room EXCEPT !.group = g]
    OBVIOUS
  <2> HIDE DEF g, p
  <2> QED
    BY <1>2, <2>1, <2>2 DEF RowWriter
<1> HIDE DEF p
<1>4. InHandOf(p) <= Len(room.done) + 1 /\ InHandOf(FlushBlock(p)) = InHandOf(p) /\ InHandOf(p) \in Nat
  BY <1>3, FlushInHand
<1>5. Len(room.done) \in Nat
  BY <1>2 DEF RowWriter
<1> QED
  BY <1>1, <1>2, <1>4, <1>5

SegmentRows(cut) == [s \in DOMAIN cut |-> FlattenSeq(cut[s])]

IsPastLimit(groups) ==
    \/ Len(groups) >= MaxBlocksPerSegment
    \/ HeaderLen + Len(groups) + Len(FlattenSeq(groups)) >= MaxSegmentBytes

(* A roll after n lines that held some rows. *)
RollsTo(roll, rows, n) ==
    /\ roll = [segments |-> roll.segments, writer |-> roll.writer]
    /\ roll.segments \in Seq(Seq(Seq(Row)))
    /\ \A s \in DOMAIN roll.segments :
           /\ Len(roll.segments[s]) <= MaxBlocksPerSegment + 1
           /\ IsPastLimit(roll.segments[s])
    /\ InHandOf(roll.writer) <= MaxBlocksPerSegment + 1
    /\ Len(roll.segments) + (IF roll.writer = NoRows THEN 0 ELSE 1) <= n
    /\ \E mine : /\ CutSoFar(roll.writer, mine)
                 /\ rows = FlattenSeq(SegmentRows(roll.segments)) \o mine

LEMMA SegmentRowsMore ==
    ASSUME NEW cut \in Seq(Seq(Seq(Row))), NEW groups \in Seq(Seq(Row))
    PROVE  /\ FlattenSeq(SegmentRows(cut)) \in Seq(Row)
           /\ SegmentRows(cut) \in Seq(Seq(Row))
           /\ FlattenSeq(SegmentRows(Append(cut, groups)))
                  = FlattenSeq(SegmentRows(cut)) \o FlattenSeq(groups)
<1> DEFINE Groups2 == Seq(Seq(Row))
           more == Append(cut, groups)
           rows == SegmentRows(cut)
           n == Len(cut)
           g == FlattenSeq(groups)
<1>1. \A gs \in Groups2 : FlattenSeq(gs) \in Seq(Row)
  BY FlattenUnfolds
<1>2. cut \in Seq(Groups2) /\ groups \in Groups2
  OBVIOUS
<1> HIDE DEF Groups2
<1>3. /\ n \in Nat /\ DOMAIN cut = 1..n /\ \A s \in 1..n : cut[s] \in Groups2 /\ more[s] = cut[s]
      /\ DOMAIN more = 1..n + 1 /\ more[n + 1] = groups
  BY <1>2
<1> HIDE DEF more, n
<1>4. rows = [s \in 1..n |-> FlattenSeq(cut[s])]
  BY <1>3 DEF SegmentRows
<1>5. rows \in Seq(Seq(Row)) /\ Len(rows) = n
  <2>1. \A s \in 1..n : FlattenSeq(cut[s]) \in Seq(Row)
    BY <1>1, <1>3
  <2> QED
    BY <1>3, <1>4, <2>1
<1>6. g \in Seq(Row)
  BY <1>1, <1>2
<1> HIDE DEF rows
<1>7. SegmentRows(more) = Append(rows, g)
  <2> DEFINE Y == Seq(Row)
             two == [s \in 1..n + 1 |-> FlattenSeq(more[s])]
             one == Append(rows, g)
  <2>1. SegmentRows(more) = two
    BY <1>3 DEF SegmentRows
  <2>2. rows \in Seq(Y) /\ g \in Y
    BY <1>5, <1>6
  <2> HIDE DEF Y
  <2>3. /\ one = [s \in 1..n + 1 |-> one[s]]
        /\ \A s \in 1..n : one[s] = rows[s]
        /\ one[n + 1] = g
    <3> HIDE DEF g
    <3> QED
      BY <1>5, <2>2, AppendTable
  <2>4. \A s \in 1..n + 1 : one[s] = FlattenSeq(more[s])
    <3> TAKE s \in 1..n + 1
    <3>1. s \in 1..n \/ s = n + 1
      BY <1>3
    <3> HIDE DEF one
    <3> QED
      BY <1>3, <1>4, <2>3, <3>1 DEF g
  <2> HIDE DEF one, g
  <2>5. SegmentRows(more) = one
    BY <2>1, <2>3, <2>4
  <2> QED
    BY <2>5 DEF one
<1>8. FlattenSeq(Append(rows, g)) = FlattenSeq(rows) \o g /\ FlattenSeq(rows) \in Seq(Row)
  <2> HIDE DEF g
  <2> QED
    BY <1>5, <1>6, FlattenUnfolds
<1> QED
  BY <1>5, <1>7, <1>8 DEF more, rows, g

(* finish of a writer, and what it adds to the segments. *)
LEMMA CutIs ==
    ASSUME NEW roll, NEW rows, NEW n, RollsTo(roll, rows, n)
    PROVE  LET groups == FlushBlock(roll.writer).done
               cut    == Append(roll.segments, groups)
           IN  /\ Cut(roll) = [segments |-> cut, writer |-> NoRows]
               /\ groups \in Seq(Seq(Row)) /\ cut \in Seq(Seq(Seq(Row)))
               /\ Len(groups) <= MaxBlocksPerSegment + 1
               /\ IsFull(roll.writer) => IsPastLimit(groups)
               /\ FlattenSeq(SegmentRows(cut)) = rows
<1> DEFINE w == roll.writer
           f == FlushBlock(w)
           groups == f.done
           cut == Append(roll.segments, groups)
           old == FlattenSeq(SegmentRows(roll.segments))
<1>1. PICK mine : CutSoFar(w, mine) /\ rows = old \o mine
  BY DEF RollsTo
<1>2. w \in RowWriter /\ InHandOf(w) <= MaxBlocksPerSegment + 1
  BY <1>1 DEF CutSoFar, RowWriter, RollsTo
<1>3. groups \in Seq(Seq(Row)) /\ IsGreedyCut(groups, mine)
  BY <1>1, FlushedCut
<1>4. FlattenSeq(groups) = mine
  BY <1>3 DEF IsGreedyCut
<1>5. roll.segments \in Seq(Seq(Seq(Row)))
  BY DEF RollsTo
<1> DEFINE Y == Seq(Seq(Row))
<1>6. cut \in Seq(Seq(Seq(Row)))
  <2>1. groups \in Y /\ roll.segments \in Seq(Y)
    BY <1>3, <1>5
  <2> HIDE DEF Y, groups
  <2>2. cut \in Seq(Y)
    BY <2>1
  <2> QED
    BY <2>2 DEF Y
<1> HIDE DEF cut, f
<1>7. FlattenSeq(SegmentRows(cut)) = rows
  <2> HIDE DEF old
  <2> QED
    BY <1>1, <1>3, <1>4, <1>5, SegmentRowsMore DEF cut, old
<1>8. Len(groups) = InHandOf(w) /\ Len(w.done) <= InHandOf(w) /\ InHandOf(w) \in Nat
  BY <1>2, FlushInHand DEF f
<1>9. ASSUME IsFull(w)
      PROVE  IsPastLimit(groups)
  <2>1. Len(w.done) \in Nat
    BY <1>2 DEF RowWriter
  <2>2. Len(FlattenSeq(w.done)) <= Len(FlattenSeq(groups))
        /\ Len(FlattenSeq(w.done)) \in Nat /\ Len(FlattenSeq(groups)) \in Nat
    <3>1. /\ FlattenSeq(w.done) \in Seq(Row) /\ w.group.rows \in Seq(Row)
          /\ w.done \in Seq(Seq(Row)) /\ mine \in Seq(Row)
      BY <1>1, <1>2, FlattenUnfolds DEF RowWriter, Group, CutSoFar
    <3>2. FlattenSeq(w.done) \o w.group.rows = mine
      BY <1>1 DEF CutSoFar, HoldsRows
    <3> DEFINE a == FlattenSeq(w.done)
               b == w.group.rows
    <3> HIDE DEF a, b
    <3>3. a \in Seq(Row) /\ b \in Seq(Row) /\ a \o b = mine
      BY <3>1, <3>2 DEF a, b
    <3>4. Len(a) <= Len(mine) /\ Len(a) \in Nat /\ Len(mine) \in Nat
      <4>1. Len(a \o b) = Len(a) + Len(b) /\ Len(a) \in Nat /\ Len(b) \in Nat
        BY <3>3, LengthsAdd
      <4> QED
        BY <3>3, <4>1
    <3> QED
      BY <1>4, <3>4 DEF a
  <2>3. \/ Len(w.done) >= MaxBlocksPerSegment
        \/ HeaderLen + Len(w.done) + Len(FlattenSeq(w.done)) >= MaxSegmentBytes
    BY <1>9 DEF IsFull, BytesWritten
  <2> DEFINE a == Len(w.done)
             b == Len(groups)
             c == Len(FlattenSeq(w.done))
             d == Len(FlattenSeq(groups))
  <2>4. /\ a \in Nat /\ b \in Nat /\ c \in Nat /\ d \in Nat /\ a <= b /\ c <= d
        /\ a >= MaxBlocksPerSegment \/ HeaderLen + a + c >= MaxSegmentBytes
    BY <1>8, <2>1, <2>2, <2>3
  <2> HIDE DEF a, b, c, d
  <2>5. b >= MaxBlocksPerSegment \/ HeaderLen + b + d >= MaxSegmentBytes
    BY <2>4, RollingAssumption DEF HeaderLen
  <2> QED
    BY <2>5 DEF IsPastLimit, b, d
<1> QED
  BY <1>2, <1>3, <1>6, <1>7, <1>8, <1>9 DEF Cut, cut, f

(* Before a line is written, a full writer is finished. *)
LEMMA RoomIs ==
    ASSUME NEW roll, NEW rows, NEW n \in Nat, RollsTo(roll, rows, n),
           NEW room, room = IF IsFull(roll.writer) THEN Cut(roll) ELSE roll
    PROVE  /\ RollsTo(room, rows, n)
           /\ Len(room.segments) <= n
           /\ Len(room.writer.done) <= MaxBlocksPerSegment - 1
<1>1. CASE IsFull(roll.writer)
  <2> DEFINE old == roll.segments
             groups == FlushBlock(roll.writer).done
             cut == Append(old, groups)
  <2>1. /\ room = [segments |-> cut, writer |-> NoRows]
        /\ groups \in Seq(Seq(Row)) /\ cut \in Seq(Seq(Seq(Row)))
        /\ Len(groups) <= MaxBlocksPerSegment + 1
        /\ IsPastLimit(groups)
        /\ FlattenSeq(SegmentRows(cut)) = rows
    BY <1>1, CutIs
  <2>2. /\ old \in Seq(Seq(Seq(Row))) /\ roll.writer # NoRows /\ rows \in Seq(Row)
        /\ \A s \in DOMAIN old : /\ Len(old[s]) <= MaxBlocksPerSegment + 1
                                  /\ IsPastLimit(old[s])
        /\ Len(old) + 1 <= n
    <3>1. roll.writer # NoRows
      BY <1>1 DEF IsFull
    <3>2. rows \in Seq(Row)
      BY <2>1, SegmentRowsMore
    <3> QED
      BY <3>1, <3>2 DEF RollsTo
  <2> DEFINE Y == Seq(Seq(Row))
  <2>3. /\ DOMAIN cut = 1..Len(old) + 1 /\ Len(cut) = Len(old) + 1
        /\ \A s \in 1..Len(old) : cut[s] = old[s] /\ s \in DOMAIN old
        /\ cut[Len(old) + 1] = groups
    <3>1. old \in Seq(Y) /\ groups \in Y
      BY <2>1, <2>2
    <3> HIDE DEF Y, old, groups
    <3>2. /\ cut = [i \in 1..Len(old) + 1 |-> cut[i]]
          /\ \A s \in 1..Len(old) : cut[s] = old[s]
          /\ cut[Len(old) + 1] = groups
      BY <3>1, AppendTable
    <3>3. Len(cut) = Len(old) + 1 /\ DOMAIN old = 1..Len(old)
      BY <3>1
    <3> HIDE DEF cut
    <3> QED
      BY <3>2, <3>3
  <2> HIDE DEF cut, groups
  <2>4. ASSUME NEW s \in DOMAIN cut
        PROVE  Len(cut[s]) <= MaxBlocksPerSegment + 1 /\ IsPastLimit(cut[s])
    <3>1. s \in 1..Len(old) \/ s = Len(old) + 1
      BY <2>2, <2>3
    <3> QED
      BY <2>1, <2>2, <2>3, <3>1
  <2>5. /\ NoRows.done = << >> /\ IsEmptyGroup(NoRows.group) /\ Len(NoRows.done) = 0
        /\ InHandOf(NoRows) = 0
    BY DEF NoRows, EmptyGroup, IsEmptyGroup, InHandOf
  <2>6. CutSoFar(NoRows, << >>)
    <3>1. CutSoFar(EmptyWriter, << >>)
      BY NothingCut
    <3> QED
      BY <3>1 DEF NoRows, EmptyWriter
  <2>7. rows = FlattenSeq(SegmentRows(cut)) \o << >>
    BY <2>1, <2>2, NoElements
  <2>8. Len(cut) <= n
    BY <2>2, <2>3
  <2>9. Len(cut) + 0 <= n /\ 0 <= MaxBlocksPerSegment - 1 /\ 0 <= MaxBlocksPerSegment + 1
    BY <2>8, <2>3, <2>2, RollingAssumption
  <2>10. room.segments = cut /\ room.writer = NoRows
    BY <2>1
  <2> QED
    BY <2>1, <2>4, <2>5, <2>6, <2>7, <2>8, <2>9, <2>10 DEF RollsTo
<1>2. CASE ~IsFull(roll.writer)
  <2>1. Len(roll.segments) <= n
    <3>1. Len(roll.segments) \in Nat
      BY DEF RollsTo
    <3> QED
      BY <3>1 DEF RollsTo
  <2>2. Len(roll.writer.done) <= MaxBlocksPerSegment - 1
    <3>1. CASE roll.writer = NoRows
      BY <3>1, RollingAssumption DEF NoRows
    <3>2. CASE roll.writer # NoRows
      <4>1. ~ (Len(roll.writer.done) >= MaxBlocksPerSegment)
        BY <1>2, <3>2 DEF IsFull
      <4>2. Len(roll.writer.done) \in Nat
        BY DEF RollsTo, CutSoFar
      <4> QED
        BY <4>1, <4>2, RollingAssumption
    <3> QED
      BY <3>1, <3>2
  <2> QED
    BY <1>2, <2>1, <2>2
<1> QED
  BY <1>1, <1>2

(* One line more. *)
LEMMA LineRolls ==
    ASSUME NEW roll, NEW rows, NEW n \in Nat, RollsTo(roll, rows, n),
           NEW line \in Line, line.kind # "reject",
           line \in Row => line.size \in 1..MaxBytesPerBlock
    PROVE  RollsTo(RollLine(roll, line), KeepRow(rows, line), n + 1)
<1>1. CASE line.kind = "blank"
  <2>1. RollLine(roll, line) = roll /\ KeepRow(rows, line) = rows
    BY <1>1 DEF RollLine, KeepRow
  <2>2. Len(roll.segments) \in Nat
    BY DEF RollsTo
  <2>3. Len(roll.segments) + (IF roll.writer = NoRows THEN 0 ELSE 1) <= n + 1
    BY <2>2 DEF RollsTo
  <2> QED
    BY <2>1, <2>3 DEF RollsTo
<1>2. CASE line.kind # "blank"
  <2> DEFINE room == IF IsFull(roll.writer) THEN Cut(roll) ELSE roll
             w == room.writer
             next == WriteLine(w, line)
             done == FlattenSeq(SegmentRows(room.segments))
  <2>1. /\ RollsTo(room, rows, n) /\ Len(room.segments) <= n
        /\ Len(w.done) <= MaxBlocksPerSegment - 1
    BY RoomIs
  <2>2. RollLine(roll, line) = [room EXCEPT !.writer = next]
    BY <1>2, Zenon DEF RollLine
  <2>3. line \in Row /\ KeepRow(rows, line) = Append(rows, line)
    BY <1>2 DEF Line, LineKinds, Row, KeepRow
  <2> HIDE DEF room
  <2>4. PICK mine : CutSoFar(w, mine) /\ rows = done \o mine
    BY <2>1 DEF RollsTo
  <2>5. CutSoFar(next, KeepRow(mine, line)) /\ KeepRow(mine, line) = Append(mine, line)
    BY <2>3, <2>4, WriteKeepsCut DEF KeepRow, Row
  <2>6. room.segments \in Seq(Seq(Seq(Row))) /\ mine \in Seq(Row) /\ w \in RowWriter
    BY <2>1, <2>4 DEF RollsTo, CutSoFar, RowWriter
  <2>7. done \in Seq(Row)
    BY <2>6, SegmentRowsMore
  <2>8. Append(rows, line) = done \o Append(mine, line)
    <3> HIDE DEF done
    <3>1. done \o Append(mine, line) = Append(done \o mine, line)
      BY <2>3, <2>6, <2>7, JoinOneMore
    <3> QED
      BY <2>4, <3>1
  <2>9. InHandOf(next) <= MaxBlocksPerSegment + 1
    <3>1. InHandOf(next) <= Len(w.done) + 2
      BY <2>3, <2>6, LineAddsTwo
    <3>2. InHandOf(next) \in Nat /\ Len(w.done) \in Nat
      <4>1. next \in RowWriter
        BY <2>5 DEF CutSoFar, RowWriter
      <4> QED
        BY <2>6, <4>1, FlushInHand DEF RowWriter
    <3> HIDE DEF next, w
    <3> QED
      BY <2>1, <3>1, <3>2, RollingAssumption
  <2> HIDE DEF next
  <2>10. /\ RollLine(roll, line) = [segments |-> room.segments, writer |-> next]
    BY <2>1, <2>2 DEF RollsTo
  <2>11. Len(room.segments) + (IF next = NoRows THEN 0 ELSE 1) <= n + 1
    <3> DEFINE l == Len(room.segments)
    <3>1. l \in Nat /\ l <= n
      BY <2>1, <2>6
    <3> HIDE DEF l
    <3>2. l + 1 <= n + 1 /\ l + 0 <= n + 1
      BY <3>1
    <3> QED
      BY <3>2 DEF l
  <2> DEFINE end == [segments |-> room.segments, writer |-> next]
  <2>12. end.segments = room.segments /\ end.writer = next
    OBVIOUS
  <2>13. \A s \in DOMAIN room.segments :
             /\ Len(room.segments[s]) <= MaxBlocksPerSegment + 1
             /\ IsPastLimit(room.segments[s])
    BY <2>1 DEF RollsTo
  <2>14. CutSoFar(next, Append(mine, line))
    BY <2>5
  <2>15. RollsTo(end, Append(rows, line), n + 1)
    BY <2>6, <2>8, <2>9, <2>11, <2>12, <2>13, <2>14 DEF RollsTo
  <2> QED
    BY <2>3, <2>10, <2>15
<1> QED
  BY <1>1, <1>2

LEMMA RollStarts == RollsTo([segments |-> << >>, writer |-> NoRows], << >>, 0)
<1> DEFINE none == << >>
           start == [segments |-> none, writer |-> NoRows]
<1>1. /\ none \in Seq(Seq(Seq(Row))) /\ DOMAIN none = {} /\ Len(none) = 0
      /\ none \in Seq(Row) /\ none \in Seq(Seq(Row))
  OBVIOUS
<1>2. start.segments = none /\ start.writer = NoRows /\ start = [segments |-> none, writer |-> NoRows]
  OBVIOUS
<1>3. CutSoFar(NoRows, none)
  <2>1. NoRows = EmptyWriter
    BY DEF NoRows, EmptyWriter
  <2> QED
    BY <2>1, NothingCut
<1>4. InHandOf(NoRows) <= MaxBlocksPerSegment + 1
  BY RollingAssumption DEF NoRows, EmptyGroup, IsEmptyGroup, InHandOf
<1>5. FlattenSeq(SegmentRows(none)) \o none = none
  <2>1. SegmentRows(none) = none
    BY DEF SegmentRows
  <2>2. FlattenSeq(none) = none
    BY FlattenUnfolds
  <2> HIDE DEF none
  <2> QED
    BY <1>1, <2>1, <2>2, NoElements
<1> HIDE DEF none, start
<1>6. RollsTo(start, none, 0)
  BY <1>1, <1>2, <1>3, <1>4, <1>5 DEF RollsTo
<1> QED
  BY <1>6 DEF start, none

(* The roll after all lines. *)
LEMMA LinesRoll ==
    ASSUME NEW lines, AreLines(lines), Rejects(lines) = {}
    PROVE  RollsTo(RollAll([segments |-> << >>, writer |-> NoRows], lines),
                   RowsOf(lines), Len(lines))
<1> DEFINE start == [segments |-> << >>, writer |-> NoRows]
           n == Len(lines)
           R(k) == RowsOf(SubSeq(lines, 1, k))
<1>1. lines \in Seq(Line) /\ n \in Nat /\ DOMAIN lines = 1..n /\ SubSeq(lines, 1, n) = lines
  BY DEF AreLines
<1>2. PICK t : /\ t[0] = start
               /\ \A k \in 1..n : t[k] = RollLine(t[k - 1], lines[k])
               /\ RollAll(start, lines) = t[n]
  <2>1. DOMAIN lines = 1..n /\ n \in Nat
    BY <1>1
  <2> HIDE DEF start, n
  <2> QED
    BY <2>1, RollUnfolds
<1>3. R(0) = << >> /\ \A k \in 0..n - 1 : R(k + 1) = KeepRow(R(k), lines[k + 1])
  BY <1>1, LineByLine
<1>4. \A k \in 1..n : /\ lines[k] \in Line /\ lines[k].kind # "reject"
                      /\ lines[k] \in Row => lines[k].size \in 1..MaxBytesPerBlock
  <2>1. \A k \in 1..n : lines[k] \in Range(lines) /\ lines[k] \in Line
    BY <1>1 DEF Range
  <2> QED
    BY <1>1, <2>1 DEF AreLines, Rejects
<1> DEFINE good == {k \in 0..n : RollsTo(t[k], R(k), k)}
<1> HIDE DEF R
<1>5. 0 \in good
  BY <1>1, <1>2, <1>3, RollStarts
<1> HIDE DEF start
<1>6. ASSUME NEW k \in 0..n - 1, k \in good
      PROVE  k + 1 \in good
  <2>1. k + 1 \in 1..n /\ (k + 1) - 1 = k /\ k \in Nat /\ k + 1 \in 0..n
    BY <1>1
  <2>4. /\ lines[k + 1] \in Line /\ lines[k + 1].kind # "reject"
        /\ lines[k + 1] \in Row => lines[k + 1].size \in 1..MaxBytesPerBlock
    BY <1>4, <2>1
  <2> DEFINE j == k + 1
  <2>2. t[j] = RollLine(t[k], lines[j]) /\ R(j) = KeepRow(R(k), lines[j])
    <3>1. j \in 1..n /\ j - 1 = k
      BY <2>1
    <3>2. R(j) = KeepRow(R(k), lines[j])
      BY <1>3
    <3> HIDE DEF j
    <3> QED
      BY <1>2, <3>1, <3>2
  <2>3. RollsTo(t[k], R(k), k)
    BY <1>6
  <2> DEFINE line == lines[j]
             rows == R(k)
             roll == t[k]
  <2>9. /\ line \in Line /\ line.kind # "reject"
        /\ line \in Row => line.size \in 1..MaxBytesPerBlock
    BY <2>4
  <2> HIDE DEF n, line, rows, roll
  <2>5. RollsTo(roll, rows, k) /\ k \in Nat
    BY <2>1, <2>3 DEF rows, roll
  <2>6. RollsTo(RollLine(roll, line), KeepRow(rows, line), k + 1)
    BY <2>5, <2>9, LineRolls
  <2> QED
    BY <2>1, <2>2, <2>6 DEF line, rows, roll
<1>7. 0..n \subseteq good
  <2> HIDE DEF good
  <2> QED
    BY <1>1, <1>5, <1>6, Induction
<1>8. RollsTo(t[n], R(n), n)
  BY <1>1, <1>7
<1> QED
  BY <1>1, <1>2, <1>8 DEF R, start

(* roll_jsonl_append_segments, for any input: if it succeeds, its segments   *)
(* are streams that recovery keeps whole, together they hold the rows of the *)
(* lines in their order, none has more than one block above the limit, and   *)
(* each but the last had reached one of the limits.                          *)
THEOREM SegmentsHoldTheirRows ==
    ASSUME NEW lines, AreLines(lines), RollSegments(lines) # Err
    PROVE  LET all == RollSegments(lines)
               n   == Len(all)
           IN  /\ all \in Seq(Seq(Cell)) /\ n <= Len(lines)
               /\ \A i \in 1..n :
                      /\ IsWhole(all[i])
                      /\ Len(all[i]) - 1 <= MaxBlocksPerSegment + 1
                      /\ i < n => \/ Len(all[i]) - 1 >= MaxBlocksPerSegment
                                  \/ Len(all[i]) + Len(RowsIn(all[i])) >= MaxSegmentBytes
               /\ FlattenSeq([i \in 1..n |-> RowsIn(all[i])]) = RowsOf(lines)
<1> DEFINE start == [segments |-> << >>, writer |-> NoRows]
           end == RollAll(start, lines)
           cut == IF end.writer = NoRows THEN end.segments ELSE Cut(end).segments
           all == RollSegments(lines)
           rows == RowsOf(lines)
           m == Len(lines)
           n == Len(cut)
<1>1. lines \in Seq(Line) /\ m \in Nat /\ rows \in Seq(Row)
  BY RowsUnfolds DEF AreLines
<1>2. /\ Rejects(lines) = {}
      /\ \A s \in DOMAIN cut : ~(Len(cut[s]) > MaxStreamBlocks)
      /\ all = [s \in DOMAIN cut |-> AppendFile(cut[s])]
  <2>1. ReadableLines(lines) = lines \/ Rejects(lines) # {}
    <3> SUFFICES ASSUME Rejects(lines) = {}
                 PROVE  ReadableLines(lines) = lines
      OBVIOUS
    <3>1. SubSeq(lines, 1, Len(lines)) = lines
      BY <1>1
    <3> QED
      BY <1>1, <3>1, LinesRead
  <2>2. Rejects(lines) = {}
    BY DEF RollSegments
  <2>3. end = FoldLeft(RollLine, start, ReadableLines(lines))
    BY <2>1, <2>2 DEF RollAll
  <2> HIDE DEF end, start
  <2> QED
    BY <2>2, <2>3 DEF RollSegments, start
<1>3. RollsTo(end, rows, m)
  BY <1>2, LinesRoll
<1> HIDE DEF end, all, start, rows, m
<1>4. /\ cut \in Seq(Seq(Seq(Row))) /\ n <= m
      /\ \A s \in 1..n : Len(cut[s]) <= MaxBlocksPerSegment + 1
      /\ \A s \in 1..n : s < n => IsPastLimit(cut[s])
      /\ FlattenSeq(SegmentRows(cut)) = rows
  <2> DEFINE old == end.segments
             l == Len(old)
  <2>1. /\ old \in Seq(Seq(Seq(Row))) /\ l \in Nat /\ DOMAIN old = 1..l
        /\ \A s \in 1..l : /\ Len(old[s]) <= MaxBlocksPerSegment + 1
                            /\ IsPastLimit(old[s])
        /\ l + (IF end.writer = NoRows THEN 0 ELSE 1) <= m
    BY <1>3 DEF RollsTo
  <2>2. CASE end.writer = NoRows
    <3>1. cut = old
      BY <2>2
    <3>2. PICK mine : CutSoFar(NoRows, mine) /\ rows = FlattenSeq(SegmentRows(old)) \o mine
      BY <1>3, <2>2 DEF RollsTo
    <3>3. mine = << >>
      <4>1. FlattenSeq(<< >>) \o << >> = mine
        BY <3>2 DEF CutSoFar, HoldsRows, NoRows, EmptyGroup
      <4>2. FlattenSeq(<< >>) = << >>
        BY FlattenUnfolds
      <4> QED
        BY <4>1, <4>2
    <3>4. FlattenSeq(SegmentRows(old)) \in Seq(Row)
      <4> HIDE DEF old
      <4>1. << >> \in Seq(Seq(Row))
        OBVIOUS
      <4> QED
        BY <2>1, <4>1, SegmentRowsMore
    <3>5. FlattenSeq(SegmentRows(old)) = rows
      BY <3>2, <3>3, <3>4, NoElements
    <3>6. l <= m
      BY <2>1, <2>2
    <3> HIDE DEF cut, old
    <3> QED
      BY <2>1, <3>1, <3>5, <3>6
  <2>3. CASE end.writer # NoRows
    <3> DEFINE groups == FlushBlock(end.writer).done
               more == Append(old, groups)
               Y == Seq(Seq(Row))
    <3>1. /\ Cut(end) = [segments |-> more, writer |-> NoRows]
          /\ groups \in Y /\ more \in Seq(Y)
          /\ Len(groups) <= MaxBlocksPerSegment + 1
          /\ FlattenSeq(SegmentRows(more)) = rows
      BY <1>3, CutIs
    <3>2. cut = more
      BY <2>3, <3>1
    <3> HIDE DEF groups, old
    <3>3. more[l + 1] = groups /\ Len(more) = l + 1 /\ \A s \in 1..l : more[s] = old[s]
      <4>1. old \in Seq(Y)
        BY <2>1
      <4> HIDE DEF Y
      <4>2. more[Len(old) + 1] = groups /\ \A s \in 1..l : more[s] = old[s]
        BY <3>1, <4>1, AppendTable
      <4>3. Len(more) = Len(old) + 1
        BY <3>1, <4>1
      <4> QED
        BY <4>2, <4>3
    <3>4. l + 1 <= m
      BY <2>1, <2>3
    <3> HIDE DEF more, cut, l
    <3>5. \A s \in 1..l + 1 : s \in 1..l \/ s = l + 1
      BY <2>1
    <3>6. \A s \in 1..l + 1 : Len(more[s]) <= MaxBlocksPerSegment + 1
      BY <2>1, <3>1, <3>3, <3>5
    <3>7. \A s \in 1..l + 1 : s < l + 1 => IsPastLimit(more[s])
      BY <2>1, <3>3, <3>5
    <3>8. more \in Seq(Seq(Seq(Row)))
      BY <3>1
    <3> QED
      BY <3>1, <3>2, <3>3, <3>4, <3>6, <3>7, <3>8
  <2> QED
    BY <2>2, <2>3
<1> HIDE DEF cut
<1>5. n \in Nat /\ DOMAIN cut = 1..n /\ \A s \in 1..n : cut[s] \in Seq(Seq(Row))
  <2> DEFINE Y == Seq(Seq(Row))
  <2>1. cut \in Seq(Y)
    BY <1>4
  <2> HIDE DEF Y
  <2>2. n \in Nat /\ DOMAIN cut = 1..n /\ \A s \in 1..n : cut[s] \in Y
    BY <2>1
  <2> QED
    BY <2>2 DEF Y
<1>6. all = [s \in 1..n |-> AppendFile(cut[s])]
  BY <1>2, <1>5
<1>7. \A s \in 1..n : /\ IsWhole(AppendFile(cut[s]))
                       /\ Len(AppendFile(cut[s])) = Len(cut[s]) + 1
                       /\ RowsIn(AppendFile(cut[s])) = FlattenSeq(cut[s])
  <2> TAKE s \in 1..n
  <2>1. Len(cut[s]) \in Nat /\ cut[s] \in Seq(Seq(Row))
    BY <1>5
  <2>2. Len(cut[s]) <= MaxStreamBlocks
    <3> DEFINE l == Len(cut[s])
    <3>1. l \in Nat /\ ~(l > MaxStreamBlocks)
      BY <1>2, <1>5, <2>1
    <3> HIDE DEF l
    <3>2. l <= MaxStreamBlocks
      BY <3>1, MaxStreamBlocksAssumption
    <3> QED
      BY <3>2 DEF l
  <2> QED
    BY <2>1, <2>2, AppendFileIs
<1>8. all \in Seq(Seq(Cell)) /\ Len(all) = n
  <2>1. \A s \in 1..n : AppendFile(cut[s]) \in Seq(Cell)
    BY <1>7 DEF IsWhole
  <2> QED
    BY <1>5, <1>6, <2>1
<1>9. FlattenSeq([i \in 1..n |-> RowsIn(all[i])]) = rows
  <2>1. [i \in 1..n |-> RowsIn(all[i])] = SegmentRows(cut)
    BY <1>5, <1>6, <1>7 DEF SegmentRows
  <2> QED
    BY <1>4, <2>1
<1>10. ASSUME NEW i \in 1..n
       PROVE  /\ IsWhole(all[i])
              /\ Len(all[i]) - 1 <= MaxBlocksPerSegment + 1
              /\ i < n => \/ Len(all[i]) - 1 >= MaxBlocksPerSegment
                          \/ Len(all[i]) + Len(RowsIn(all[i])) >= MaxSegmentBytes
  <2> DEFINE a == Len(cut[i])
             b == Len(FlattenSeq(cut[i]))
             file == AppendFile(cut[i])
             c == Len(file)
  <2>1. a \in Nat /\ b \in Nat
    <3>1. FlattenSeq(cut[i]) \in Seq(Row)
      BY <1>5, FlattenUnfolds
    <3> QED
      BY <1>5, <3>1
  <2>2. all[i] = file /\ c = a + 1 /\ RowsIn(all[i]) = FlattenSeq(cut[i]) /\ IsWhole(file)
    BY <1>6, <1>7
  <2>3. a <= MaxBlocksPerSegment + 1 /\ (i < n => IsPastLimit(cut[i]))
    BY <1>4
  <2>4. i < n => a >= MaxBlocksPerSegment \/ 1 + a + b >= MaxSegmentBytes
    BY <2>3 DEF IsPastLimit, HeaderLen
  <2> HIDE DEF a, b, c
  <2>5. /\ c - 1 <= MaxBlocksPerSegment + 1
        /\ i < n => c - 1 >= MaxBlocksPerSegment \/ c + b >= MaxSegmentBytes
    BY <2>1, <2>2, <2>3, <2>4, RollingAssumption
  <2> QED
    BY <2>2, <2>5 DEF b, c
<1> QED
  BY <1>4, <1>8, <1>9, <1>10 DEF all, rows, m

-----------------------------------------------------------------------------
(* The segments on the disk, step by step. *)

RollDone == {"done", "failed", "crashed"}

LEMMA RollsAreLines ==
    ASSUME NEW commands \in Commands, NEW p \in Procs, commands[p].kind = "roll"
    PROVE  AreLines(commands[p].lines) /\ Len(commands[p].lines) <= MaxSegments
BY FileStoreAssumption DEF AreLines

LEMMA SegmentsAreFew ==
    ASSUME NEW lines, AreLines(lines), Len(lines) <= MaxSegments, RollSegments(lines) # Err
    PROVE  LET all == RollSegments(lines)
           IN  /\ all \in Seq(Seq(Cell)) /\ Len(all) \in 0..MaxSegments
               /\ \A i \in 1..Len(all) : IsSegment(all[i])
<1> DEFINE all == RollSegments(lines)
<1>1. /\ all \in Seq(Seq(Cell)) /\ Len(all) <= Len(lines)
      /\ \A i \in 1..Len(all) : IsWhole(all[i])
  BY SegmentsHoldTheirRows
<1>2. lines \in Seq(Line)
  BY DEF AreLines
<1> HIDE DEF all
<1>3. Len(all) \in Nat /\ Len(lines) \in Nat /\ MaxSegments \in Nat
  BY <1>1, <1>2, FileStoreAssumption
<1>4. Len(all) \in 0..MaxSegments
  BY <1>1, <1>3
<1>5. \A i \in 1..Len(all) : IsSegment(all[i])
  BY <1>1 DEF IsWhole, IsSegment
<1> QED
  BY <1>1, <1>4, <1>5 DEF all

(* A process that other processes' steps do not touch. *)
LEMMA RollHandStays ==
    ASSUME NEW q \in Procs, RollHand(q),
           command' = command, hand'[q] = hand[q], pc'[q] = pc[q],
           \A r \in Procs : command[r].kind = "roll" /\ pc[r] \in RollDone => pc'[r] = pc[r]
    PROVE  RollHand(q)'
BY DEF RollHand, NextSegment, RollDone

LEMMA RolledStays ==
    ASSUME NEW q \in Procs, RolledSoFar(q), segments' = segments,
           hand'[q] = hand[q], pc'[q] = pc[q]
    PROVE  RolledSoFar(q)'
BY DEF RolledSoFar, NextSegment

LEMMA LastStays ==
    ASSUME NEW q \in Procs, command' = command, hand'[q] = hand[q],
           \A r \in Procs : pc'[r] = "idle" => pc[r] = "idle",
           IsLastRoll(q)'
    PROVE  IsLastRoll(q)
BY DEF IsLastRoll

(* A step of a process that is no roll. *)
LEMMA OthersLeaveSegments ==
    ASSUME AppendsInv, SegmentsInv, NEW p \in Procs, command[p].kind # "roll",
           NEW place, place \notin {"idle", "rolling", "opened"},
           pc' = [pc EXCEPT ![p] = place],
           \A q \in Procs \ {p} : hand'[q] = hand[q],
           UNCHANGED <<segments, command>>
    PROVE  SegmentsInv'
<1>1. /\ \A q \in Procs \ {p} : pc'[q] = pc[q]
      /\ pc'[p] = place
  BY DEF AppendsInv, AppendsTypeOK
<1>2. \A q \in Procs : command[q].kind = "roll" => q # p /\ pc'[q] = pc[q] /\ hand'[q] = hand[q]
  BY <1>1
<1>3. \A q \in Procs : HasRolled(q)' => HasRolled(q) /\ command[q].kind = "roll"
  BY <1>2 DEF HasRolled
<1>4. \A q \in Procs : HasRolled(q)' => RollHand(q)'
  <2> SUFFICES ASSUME NEW q \in Procs, HasRolled(q)'
               PROVE  RollHand(q)'
    OBVIOUS
  <2>1. RollHand(q) /\ pc'[q] = pc[q] /\ hand'[q] = hand[q]
    BY <1>2, <1>3 DEF SegmentsInv
  <2> QED
    BY <1>2, <2>1, RollHandStays
<1>5. \A q \in Procs : HasRolled(q)' /\ IsLastRoll(q)' => RolledSoFar(q)'
  <2> SUFFICES ASSUME NEW q \in Procs, HasRolled(q)', IsLastRoll(q)'
               PROVE  RolledSoFar(q)'
    OBVIOUS
  <2>1. HasRolled(q) /\ pc'[q] = pc[q] /\ hand'[q] = hand[q]
    BY <1>2, <1>3
  <2>2. \A r \in Procs : pc'[r] = "idle" => pc[r] = "idle"
    BY <1>1
  <2>3. RolledSoFar(q)
    BY <2>1, <2>2, LastStays DEF SegmentsInv
  <2> QED
    BY <2>1, <2>3, RolledStays
<1>6. \A q, r \in Procs : IsRolling(q)' /\ IsRolling(r)' => q = r
  BY <1>2 DEF IsRolling, SegmentsInv
<1>7. \A q \in Procs :
          IF command'[q].kind = "roll"
          THEN pc'[q] \in {"idle", "rolling", "opened", "done", "failed", "crashed"}
          ELSE pc'[q] \notin {"rolling", "opened"}
  BY <1>1 DEF SegmentsInv
<1>8. \A i \in 1..MaxSegments :
          \/ segments'[i] = Absent \/ IsSegment(segments'[i])
          \/ \E q \in Procs : IsCulprit(q, i)'
  <2> SUFFICES ASSUME NEW i \in 1..MaxSegments, NEW q \in Procs, IsCulprit(q, i)
               PROVE  IsCulprit(q, i)'
    BY DEF SegmentsInv
  <2> QED
    BY <1>2 DEF IsCulprit, NextSegment
<1> QED
  BY <1>4, <1>5, <1>6, <1>7, <1>8 DEF SegmentsInv

(* A step of the one roll that is under way, at its next segment. *)
LEMMA RollStepKeeps ==
    ASSUME AppendsInv, SegmentsInv, NEW p \in Procs, IsRolling(p),
           NEW place \in {"rolling", "opened", "done", "failed", "crashed"},
           pc' = [pc EXCEPT ![p] = place],
           \A q \in Procs \ {p} : hand'[q] = hand[q],
           hand'[p].before = hand[p].before,
           NEW file, NextSegment(p) \in 1..MaxSegments,
           segments' = [segments EXCEPT ![NextSegment(p)] = file],
           command' = command,
           HasRolled(p)' => RollHand(p)',
           HasRolled(p)' /\ IsLastRoll(p) => RolledSoFar(p)',
           \/ IsSegment(file)
           \/ IsCulprit(p, NextSegment(p))' /\ NextSegment(p)' = NextSegment(p)
    PROVE  SegmentsInv'
<1> DEFINE k == NextSegment(p)
<1>1. /\ \A q \in Procs \ {p} : pc'[q] = pc[q]
      /\ pc'[p] = place
      /\ command[p].kind = "roll" /\ pc[p] \in {"rolling", "opened"}
  BY DEF AppendsInv, AppendsTypeOK, IsRolling
<1>2. /\ segments' = [i \in 1..MaxSegments |-> segments'[i]]
      /\ segments'[k] = file
      /\ \A i \in 1..MaxSegments : i # k => segments'[i] = segments[i]
  BY DEF SegmentsInv
<1>3. \A q \in Procs \ {p} : HasRolled(q)' => HasRolled(q) /\ RollHand(q)
  BY <1>1 DEF HasRolled, SegmentsInv
<1>4. \A q \in Procs : HasRolled(q)' => RollHand(q)'
  <2> SUFFICES ASSUME NEW q \in Procs \ {p}, HasRolled(q)'
               PROVE  RollHand(q)'
    OBVIOUS
  <2>1. \A r \in Procs : command[r].kind = "roll" /\ pc[r] \in RollDone => pc'[r] = pc[r]
    BY <1>1 DEF RollDone
  <2> QED
    BY <1>1, <1>3, <2>1, RollHandStays
<1>5. \A q \in Procs : HasRolled(q)' /\ IsLastRoll(q)' => RolledSoFar(q)'
  <2>1. \A r \in Procs : pc'[r] = "idle" => pc[r] = "idle"
    BY <1>1
  <2>2. IsLastRoll(p)' => IsLastRoll(p)
    BY <2>1 DEF IsLastRoll
  <2>3. \A q \in Procs \ {p} : ~(HasRolled(q)' /\ IsLastRoll(q)')
    <3> SUFFICES ASSUME NEW q \in Procs \ {p}, HasRolled(q)', IsLastRoll(q)'
                 PROVE  FALSE
      OBVIOUS
    <3>1. p \in hand[q].before
      BY <1>1 DEF IsLastRoll
    <3>2. pc[p] \in {"done", "failed", "crashed"}
      BY <1>1, <1>3, <3>1 DEF RollHand
    <3> QED
      BY <1>1, <3>2
  <2> QED
    BY <2>2, <2>3
<1>6. \A q, r \in Procs : IsRolling(q)' /\ IsRolling(r)' => q = r
  BY <1>1 DEF IsRolling, SegmentsInv
<1>7. \A q \in Procs :
          IF command'[q].kind = "roll"
          THEN pc'[q] \in {"idle", "rolling", "opened", "done", "failed", "crashed"}
          ELSE pc'[q] \notin {"rolling", "opened"}
  BY <1>1 DEF SegmentsInv
<1>8. \A i \in 1..MaxSegments :
          \/ segments'[i] = Absent \/ IsSegment(segments'[i])
          \/ \E q \in Procs : IsCulprit(q, i)'
  <2> SUFFICES ASSUME NEW i \in 1..MaxSegments,
                      segments'[i] # Absent, ~IsSegment(segments'[i])
               PROVE  \E q \in Procs : IsCulprit(q, i)'
    OBVIOUS
  <2>1. CASE i = k
    <3>1. IsCulprit(p, NextSegment(p))' /\ NextSegment(p)' = NextSegment(p)
      BY <1>2, <2>1
    <3>2. IsCulprit(p, i)'
      BY <2>1, <3>1 DEF IsCulprit
    <3> QED
      BY <3>2
  <2>2. CASE i # k
    <3>1. PICK q \in Procs : IsCulprit(q, i)
      BY <1>2, <2>2 DEF SegmentsInv
    <3>2. q # p
      BY <2>2, <3>1 DEF IsCulprit
    <3>3. IsCulprit(q, i)'
      BY <1>1, <3>1, <3>2 DEF IsCulprit, NextSegment
    <3> QED
      BY <3>3
  <2> QED
    BY <2>1, <2>2
<1> QED
  BY <1>2, <1>4, <1>5, <1>6, <1>7, <1>8 DEF SegmentsInv

(* What a roll under way has in memory. *)
LEMMA RollingHand ==
    ASSUME AppendsInv, SegmentsInv, NEW p \in Procs, IsRolling(p)
    PROVE  LET all == RollSegments(command[p].lines)
               h   == hand[p]
               k   == NextSegment(p)
           IN  /\ RollHand(p) /\ all # Err
               /\ h = [left |-> h.left, all |-> all, old |-> h.old, before |-> h.before]
               /\ all \in Seq(Seq(Cell)) /\ Len(all) \in 0..MaxSegments
               /\ \A i \in 1..Len(all) : IsSegment(all[i])
               /\ k \in 1..Len(all) /\ k \in 1..MaxSegments
               /\ h.left = SubSeq(all, k, Len(all))
               /\ hand = [q \in Procs |-> hand[q]]
<1> DEFINE all == RollSegments(command[p].lines)
<1>1. command \in Commands /\ command[p].kind = "roll" /\ pc[p] \in {"rolling", "opened"}
  BY DEF IsRolling, AppendsInv, AppendsTypeOK
<1>2. RollHand(p)
  BY <1>1 DEF SegmentsInv, HasRolled
<1>3. all # Err
  BY <1>2 DEF RollHand
<1>4. AreLines(command[p].lines) /\ Len(command[p].lines) <= MaxSegments
  BY <1>1, RollsAreLines
<1>5. /\ all \in Seq(Seq(Cell)) /\ Len(all) \in 0..MaxSegments
      /\ \A i \in 1..Len(all) : IsSegment(all[i])
  BY <1>3, <1>4, SegmentsAreFew
<1>6. NextSegment(p) \in 1..Len(all) + 1 /\ NextSegment(p) # Len(all) + 1
  BY <1>1, <1>2 DEF RollHand
<1>7. /\ hand[p] = [left |-> hand[p].left, all |-> all, old |-> hand[p].old,
                    before |-> hand[p].before]
      /\ hand[p].left = SubSeq(all, NextSegment(p), Len(all))
  BY <1>2 DEF RollHand
<1>8. hand = [q \in Procs |-> hand[q]]
  BY DEF AppendsInv, AppendsTypeOK
<1> HIDE DEF all
<1>9. NextSegment(p) \in 1..Len(all) /\ NextSegment(p) \in 1..MaxSegments
  <2> DEFINE k == NextSegment(p)
             n == Len(all)
  <2>1. k \in 1..n + 1 /\ k # n + 1 /\ n \in 0..MaxSegments /\ MaxSegments \in Nat
    BY <1>5, <1>6, FileStoreAssumption
  <2> HIDE DEF k, n
  <2>2. k \in 1..n /\ k \in 1..MaxSegments
    BY <2>1
  <2> QED
    BY <2>2 DEF k, n
<1> QED
  BY <1>2, <1>3, <1>5, <1>7, <1>8, <1>9 DEF all

LEMMA OpenSegmentKeeps ==
    ASSUME AppendsInv, SegmentsInv, NEW p \in Procs, OpenSegment(p)
    PROVE  SegmentsInv'
<1>1. /\ command[p].kind = "roll" /\ pc[p] = "rolling" /\ pc' = [pc EXCEPT ![p] = "opened"]
      /\ segments' = [segments EXCEPT ![NextSegment(p)] = << >>]
      /\ UNCHANGED <<command, hand>>
  BY DEF OpenSegment, Is, Go, history
<1>2. IsRolling(p)
  BY <1>1 DEF IsRolling
<1>3. RollHand(p) /\ NextSegment(p) \in 1..MaxSegments
  BY <1>2, RollingHand
<1>4. pc'[p] = "opened" /\ \A q \in Procs \ {p} : pc'[q] = pc[q]
  BY <1>1 DEF AppendsInv, AppendsTypeOK
<1>5. RollHand(p)'
  BY <1>1, <1>3, <1>4 DEF RollHand, NextSegment
<1>6. IsCulprit(p, NextSegment(p))' /\ NextSegment(p)' = NextSegment(p)
  BY <1>1, <1>4 DEF IsCulprit, NextSegment
<1>7. ASSUME IsLastRoll(p)
      PROVE  RolledSoFar(p)'
  <2>1. RolledSoFar(p)
    BY <1>1, <1>7 DEF SegmentsInv, HasRolled
  <2>2. \A i \in 1..MaxSegments : i # NextSegment(p) => segments'[i] = segments[i]
    BY <1>1 DEF SegmentsInv
  <2>3. NextSegment(p)' = NextSegment(p)
    BY <1>1 DEF NextSegment
  <2> DEFINE k == NextSegment(p)
  <2>4. k \in 1..MaxSegments /\ MaxSegments \in Nat
    BY <1>3, FileStoreAssumption
  <2>5. \A i \in 1..k - 1 : segments[i] = hand[p].all[i]
    BY <2>1 DEF RolledSoFar
  <2>6. \A i \in k..MaxSegments : segments[i] = hand[p].old[i]
    BY <1>1, <2>1 DEF RolledSoFar
  <2>7. \A i \in 1..MaxSegments : i # k => segments'[i] = segments[i]
    BY <2>2
  <2> HIDE DEF k
  <2>8. \A i \in 1..k - 1 : segments'[i] = hand[p].all[i]
    BY <2>4, <2>5, <2>7
  <2>9. \A i \in k..MaxSegments : i # k => segments'[i] = hand[p].old[i]
    BY <2>4, <2>6, <2>7
  <2> QED
    BY <1>1, <1>4, <2>3, <2>8, <2>9 DEF RolledSoFar, k
<1>8. /\ \A q \in Procs \ {p} : hand'[q] = hand[q]
      /\ hand'[p].before = hand[p].before
  BY <1>1
<1> QED
  BY <1>1, <1>2, <1>3, <1>5, <1>6, <1>7, <1>8, RollStepKeeps

LEMMA LeftReplaced ==
    ASSUME NEW left, NEW all, NEW old, NEW before, NEW rest
    PROVE  [[left |-> left, all |-> all, old |-> old, before |-> before] EXCEPT !.left = rest]
               = [left |-> rest, all |-> all, old |-> old, before |-> before]
OBVIOUS

(* fs::write comes to its end, or is cut short. *)
LEMMA WriteSegmentKeeps ==
    ASSUME AppendsInv, SegmentsInv, NEW p \in Procs, WriteSegment(p)
    PROVE  SegmentsInv'
<1> DEFINE all == RollSegments(command[p].lines)
           h == hand[p]
           k == NextSegment(p)
           n == Len(all)
<1>1. /\ command[p].kind = "roll" /\ pc[p] = "opened" /\ command' = command
      /\ IsRolling(p)
  BY DEF WriteSegment, Is, history, IsRolling
<1>2. /\ RollHand(p) /\ all # Err
      /\ h = [left |-> h.left, all |-> all, old |-> h.old, before |-> h.before]
      /\ all \in Seq(Seq(Cell)) /\ Len(all) \in 0..MaxSegments
      /\ \A i \in 1..n : IsSegment(all[i])
      /\ k \in 1..n /\ k \in 1..MaxSegments
      /\ h.left = SubSeq(all, k, n)
      /\ hand = [q \in Procs |-> hand[q]]
  BY <1>1, RollingHand
<1>3. CASE /\ segments' = [segments EXCEPT ![k] = Head(h.left)]
           /\ hand' = [hand EXCEPT ![p].left = Tail(@)]
           /\ pc' = [pc EXCEPT ![p] = IF Len(h.left) = 1 THEN "done" ELSE "rolling"]
  <2> DEFINE place == IF Len(h.left) = 1 THEN "done" ELSE "rolling"
  <2>1. /\ Head(h.left) = all[k] /\ Tail(h.left) = SubSeq(all, k + 1, n)
        /\ Len(h.left) = n - k + 1 /\ Len(Tail(h.left)) = n - k
    <3> HIDE DEF all
    <3>1. k \in Nat /\ n \in Nat /\ 1 <= k /\ k <= n /\ all \in Seq(Seq(Cell))
      BY <1>2
    <3> DEFINE X == Seq(Cell)
    <3> HIDE DEF k, X
    <3>2. /\ Head(SubSeq(all, k, n)) = all[k]
          /\ Tail(SubSeq(all, k, n)) = SubSeq(all, k + 1, n)
          /\ Len(SubSeq(all, k, n)) = n - k + 1 /\ Len(SubSeq(all, k + 1, n)) = n - k
      BY <3>1 DEF X
    <3> QED
      BY <1>2, <3>2
  <2>2. /\ hand'[p] = [left |-> Tail(h.left), all |-> all, old |-> h.old, before |-> h.before]
        /\ \A q \in Procs \ {p} : hand'[q] = hand[q]
    <3>1. hand' = [hand EXCEPT ![p] = [hand[p] EXCEPT !.left = Tail(h.left)]]
      BY <1>3
    <3> HIDE DEF all
    <3> DEFINE left == h.left
               old == h.old
               before == h.before
               rest == Tail(h.left)
    <3>2. hand[p] = [left |-> left, all |-> all, old |-> old, before |-> before]
      BY <1>2
    <3>3. [hand[p] EXCEPT !.left = rest]
              = [left |-> rest, all |-> all, old |-> old, before |-> before]
      <4> HIDE DEF left, old, before, rest
      <4> QED
        BY <3>2, LeftReplaced
    <3>4. hand' = [hand EXCEPT ![p] = [left |-> rest, all |-> all, old |-> old,
                                       before |-> before]]
      BY <3>1, <3>3
    <3> HIDE DEF rest, left, old, before
    <3>5. /\ hand'[p] = [left |-> rest, all |-> all, old |-> old, before |-> before]
          /\ \A q \in Procs \ {p} : hand'[q] = hand[q]
      BY <1>2, <3>4
    <3> QED
      BY <3>5 DEF rest, left, old, before
  <2>3. pc'[p] = place /\ \A q \in Procs \ {p} : pc'[q] = pc[q]
    BY <1>3 DEF AppendsInv, AppendsTypeOK
  <2>4. NextSegment(p)' = k + 1
    <3>1. NextSegment(p)' = Len(all) - Len(Tail(h.left)) + 1
      <4> HIDE DEF all
      <4> QED
        BY <2>2 DEF NextSegment
    <3>2. Len(Tail(h.left)) = n - k /\ k \in Int /\ n \in Int
      BY <1>2, <2>1
    <3> DEFINE rest == Len(Tail(h.left))
    <3>3. NextSegment(p)' = n - rest + 1 /\ rest = n - k
      BY <3>1, <3>2
    <3> HIDE DEF rest, k, n
    <3>4. n - rest + 1 = k + 1
      BY <3>2, <3>3
    <3> QED
      BY <3>3, <3>4
  <2>5. RollHand(p)'
    <3>1. command'[p].lines = command[p].lines
      BY <1>1
    <3>2. k + 1 \in 1..n + 1 /\ (place = "done" <=> k + 1 = n + 1)
      <4>1. Len(h.left) = n - k + 1 /\ k \in 1..n /\ n \in Nat
        BY <1>2, <2>1
      <4> HIDE DEF all, h, k
      <4> QED
        BY <4>1
    <3>3. \A q \in hand'[p].before \cap Procs :
              command'[q].kind = "roll" => pc'[q] \in {"done", "failed", "crashed"}
      <4>1. \A q \in h.before \cap Procs :
                command[q].kind = "roll" => pc[q] \in {"done", "failed", "crashed"}
        BY <1>2 DEF RollHand
      <4>2. hand'[p].before = h.before
        BY <2>2
      <4>3. p \notin h.before
        BY <1>1, <4>1
      <4> QED
        BY <1>1, <2>3, <4>1, <4>2, <4>3
    <3>4. /\ hand'[p] = [left |-> hand'[p].left, all |-> all, old |-> hand'[p].old,
                         before |-> hand'[p].before]
          /\ hand'[p].left = SubSeq(all, k + 1, n)
      <4>1. /\ hand'[p].left = Tail(h.left) /\ hand'[p].old = h.old
            /\ hand'[p].before = h.before
        BY <2>2
      <4> HIDE DEF all, h
      <4> QED
        BY <2>1, <2>2, <4>1
    <3> HIDE DEF k
    <3>5. RollSegments(command'[p].lines) = all
      BY <3>1
    <3> QED
      BY <1>2, <2>3, <2>4, <3>2, <3>3, <3>4, <3>5 DEF RollHand
  <2>6. /\ segments'[k] = all[k]
        /\ \A i \in 1..MaxSegments : i # k => segments'[i] = segments[i]
    BY <1>2, <1>3, <2>1 DEF SegmentsInv
  <2>7. ASSUME IsLastRoll(p)
        PROVE  RolledSoFar(p)'
    <3>1. RolledSoFar(p)
      BY <1>1, <2>7 DEF SegmentsInv, HasRolled
    <3>2. hand'[p].all = all /\ hand'[p].old = h.old /\ h.all = all
      <4> HIDE DEF all
      <4> QED
        BY <1>2, <2>2
    <3>3. /\ \A i \in 1..k - 1 : segments[i] = all[i]
          /\ \A i \in k..MaxSegments : i # k => segments[i] = h.old[i]
      BY <3>1, <3>2 DEF RolledSoFar
    <3>4. k \in 1..MaxSegments /\ MaxSegments \in Nat
      BY <1>2, FileStoreAssumption
    <3> HIDE DEF all, k, h
    <3>5. \A i \in 1..(k + 1) - 1 : segments'[i] = all[i]
      BY <2>6, <3>3, <3>4
    <3>6. \A i \in k + 1..MaxSegments : segments'[i] = h.old[i]
      BY <2>6, <3>3, <3>4
    <3> QED
      BY <2>4, <3>2, <3>5, <3>6 DEF RolledSoFar
  <2>8. place \in {"rolling", "opened", "done", "failed", "crashed"}
    OBVIOUS
  <2>9. hand'[p].before = hand[p].before
    BY <2>2
  <2>10. IsSegment(Head(h.left))
    BY <1>2, <2>1
  <2> HIDE DEF place
  <2>11. pc' = [pc EXCEPT ![p] = place]
    BY <1>3 DEF place
  <2> QED
    BY <1>1, <1>2, <1>3, <2>2, <2>5, <2>7, <2>8, <2>9, <2>10, <2>11, RollStepKeeps
<1>4. CASE /\ segments' \in {[segments EXCEPT ![k] = torn] : torn \in {<< >>, <<Torn>>}}
           /\ hand' = hand
           /\ pc' = [pc EXCEPT ![p] = "failed"]
  <2>1. PICK torn : segments' = [segments EXCEPT ![k] = torn]
    BY <1>4
  <2>2. pc'[p] = "failed"
    BY <1>4 DEF AppendsInv, AppendsTypeOK
  <2>3. ~HasRolled(p)'
    BY <2>2 DEF HasRolled
  <2>4. IsCulprit(p, NextSegment(p))' /\ NextSegment(p)' = NextSegment(p)
    BY <1>1, <1>4, <2>2 DEF IsCulprit, NextSegment
  <2>5. hand'[p].before = hand[p].before /\ \A q \in Procs \ {p} : hand'[q] = hand[q]
    BY <1>4
  <2> QED
    BY <1>1, <1>2, <1>4, <2>1, <2>3, <2>4, <2>5, RollStepKeeps
<1> QED
  BY <1>3, <1>4 DEF WriteSegment, Go

(* A roll that is killed. *)
LEMMA CrashKeepsSegments ==
    ASSUME AppendsInv, SegmentsInv, NEW p \in Procs, Crash(p)
    PROVE  SegmentsInv'
<1>1. /\ pc[p] \in Running /\ pc' = [pc EXCEPT ![p] = "crashed"]
      /\ UNCHANGED <<command, hand>>
      /\ segments' \in IF pc[p] = "opened"
                       THEN {[segments EXCEPT ![NextSegment(p)] = c] : c \in Cuts}
                       ELSE {segments}
  BY DEF Crash, Go, history
<1>2. pc'[p] = "crashed"
  BY <1>1 DEF AppendsInv, AppendsTypeOK
<1>3. CASE command[p].kind # "roll"
  <2>1. pc[p] # "opened"
    BY <1>3 DEF SegmentsInv
  <2> QED
    BY <1>1, <1>3, <2>1, OthersLeaveSegments
<1>4. CASE command[p].kind = "roll"
  <2>1. IsRolling(p)
    BY <1>1, <1>4 DEF IsRolling, Running, SegmentsInv
  <2>2. NextSegment(p) \in 1..MaxSegments
    BY <2>1, RollingHand
  <2>3. PICK file : segments' = [segments EXCEPT ![NextSegment(p)] = file]
    <3>1. CASE pc[p] = "opened"
      BY <1>1, <3>1
    <3>2. CASE pc[p] # "opened"
      <4>1. segments' = segments
        BY <1>1, <3>2
      <4>2. segments' = [segments EXCEPT ![NextSegment(p)] = segments[NextSegment(p)]]
        BY <4>1, <2>2 DEF SegmentsInv
      <4> QED
        BY <4>2
    <3> QED
      BY <3>1, <3>2
  <2>4. ~HasRolled(p)'
    BY <1>2 DEF HasRolled
  <2>5. IsCulprit(p, NextSegment(p))' /\ NextSegment(p)' = NextSegment(p)
    BY <1>1, <1>2, <1>4 DEF IsCulprit, NextSegment
  <2>6. hand'[p].before = hand[p].before /\ \A q \in Procs \ {p} : hand'[q] = hand[q]
    BY <1>1
  <2> QED
    BY <1>1, <2>1, <2>2, <2>3, <2>4, <2>5, <2>6, RollStepKeeps
<1> QED
  BY <1>3, <1>4

LEMMA RollKeeps ==
    ASSUME AppendsInv, SegmentsInv, NEW p \in Procs, Roll(p)
    PROVE  SegmentsInv'
<1> DEFINE all == RollSegments(command[p].lines)
           place == CASE all = Err -> "failed" [] all = << >> -> "done" [] OTHER -> "rolling"
           before == {q \in Procs : pc[q] # "idle"}
           h == [left |-> all, all |-> all, old |-> segments, before |-> before]
           n == Len(all)
<1>1. /\ command[p].kind = "roll" /\ pc[p] = "idle"
      /\ \A q \in Procs : ~(command[q].kind = "roll" /\ pc[q] \in {"rolling", "opened"})
      /\ hand' = [hand EXCEPT ![p] = IF all = Err THEN Err ELSE h]
      /\ pc' = [pc EXCEPT ![p] = place]
      /\ UNCHANGED <<segments, command>>
  BY DEF Roll, Is, Go, files, history
<1>2. /\ pc'[p] = place /\ \A q \in Procs \ {p} : pc'[q] = pc[q] /\ hand'[q] = hand[q]
      /\ hand'[p] = IF all = Err THEN Err ELSE h
  <2>1. pc = [q \in Procs |-> pc[q]] /\ hand = [q \in Procs |-> hand[q]]
    BY DEF AppendsInv, AppendsTypeOK
  <2> HIDE DEF all, place, h
  <2> QED
    BY <1>1, <2>1
<1>3. all # Err => all \in Seq(Seq(Cell)) /\ n \in 0..MaxSegments
  <2>1. AreLines(command[p].lines) /\ Len(command[p].lines) <= MaxSegments
    BY <1>1, RollsAreLines DEF AppendsInv, AppendsTypeOK
  <2> QED
    BY <2>1, SegmentsAreFew
<1>4. /\ place \in {"failed", "done", "rolling"}
      /\ all = Err => place = "failed"
      /\ all # Err => (place = "done" <=> all = << >>) /\ place # "failed"
  <2>1. Err # << >>
    <3>1. << >> \in Seq(Cell)
      OBVIOUS
    <3> QED
      BY <3>1, FileStoreAssumption
  <2> HIDE DEF all
  <2>2. CASE all = Err
    BY <2>1, <2>2
  <2>3. CASE all = << >>
    BY <2>1, <2>3
  <2>4. CASE all # Err /\ all # << >>
    BY <2>4
  <2> QED
    BY <2>1, <2>2, <2>3, <2>4
<1> HIDE DEF place
<1>5. \A q \in Procs \ {p} : HasRolled(q)' => HasRolled(q) /\ RollHand(q)
  BY <1>1, <1>2 DEF HasRolled, SegmentsInv
<1>6. all # Err => RollHand(p)' /\ RolledSoFar(p)'
  <2> SUFFICES ASSUME all # Err
               PROVE  RollHand(p)' /\ RolledSoFar(p)'
    OBVIOUS
  <2>1. hand'[p] = h
    BY <1>2
  <2>2. /\ hand'[p].left = all /\ hand'[p].all = all /\ hand'[p].old = segments
        /\ hand'[p].before = before
    <3> HIDE DEF all, before
    <3> QED
      BY <2>1
  <2>3. NextSegment(p)' = 1
    <3>1. n \in Int
      BY <1>3
    <3>2. NextSegment(p)' = n - n + 1
      BY <2>2 DEF NextSegment
    <3> HIDE DEF n
    <3> QED
      BY <3>1, <3>2
  <2>4. /\ 1 \in 1..n + 1 /\ SubSeq(all, 1, n) = all
        /\ all = << >> <=> 1 = n + 1
    <3>1. n \in Nat /\ all \in Seq(Seq(Cell))
      BY <1>3, FileStoreAssumption
    <3> DEFINE X == Seq(Cell)
    <3> HIDE DEF all, X
    <3> QED
      BY <3>1, EmptySeq DEF X
  <2>5. \A q \in hand'[p].before \cap Procs :
            command'[q].kind = "roll" => pc'[q] \in {"done", "failed", "crashed"}
    <3> SUFFICES ASSUME NEW q \in Procs, pc[q] # "idle", command[q].kind = "roll"
                 PROVE  pc'[q] \in {"done", "failed", "crashed"}
      BY <1>1, <2>2
    <3>1. q # p
      BY <1>1
    <3>2. pc[q] \in {"idle", "rolling", "opened", "done", "failed", "crashed"}
      BY DEF SegmentsInv
    <3> QED
      BY <1>1, <1>2, <3>1, <3>2
  <2>6. pc'[p] = "done" <=> 1 = n + 1
    BY <1>2, <1>4, <2>4
  <2>7. RollSegments(command'[p].lines) = all
    BY <1>1
  <2>8. hand'[p] = [left |-> hand'[p].left, all |-> all, old |-> hand'[p].old,
                    before |-> hand'[p].before]
    <3> HIDE DEF all, before
    <3> QED
      BY <2>1, <2>2
  <2>9. RollHand(p)'
    BY <2>2, <2>3, <2>4, <2>5, <2>6, <2>7, <2>8 DEF RollHand
  <2>10. RolledSoFar(p)'
    BY <1>1, <2>2, <2>3 DEF RolledSoFar
  <2> QED
    BY <2>9, <2>10
<1>7. HasRolled(p)' => all # Err
  BY <1>2, <1>4 DEF HasRolled
<1>8. \A q \in Procs : HasRolled(q)' => RollHand(q)'
  <2> SUFFICES ASSUME NEW q \in Procs \ {p}, HasRolled(q)'
               PROVE  RollHand(q)'
    BY <1>6, <1>7
  <2>1. \A r \in Procs : command[r].kind = "roll" /\ pc[r] \in RollDone => pc'[r] = pc[r]
    BY <1>1, <1>2 DEF RollDone
  <2> QED
    BY <1>1, <1>2, <1>5, <2>1, RollHandStays
<1>9. \A q \in Procs : HasRolled(q)' /\ IsLastRoll(q)' => RolledSoFar(q)'
  <2> SUFFICES ASSUME NEW q \in Procs \ {p}, HasRolled(q)', IsLastRoll(q)'
               PROVE  RolledSoFar(q)'
    BY <1>6, <1>7
  <2>1. \A r \in Procs : pc'[r] = "idle" => pc[r] = "idle"
    BY <1>1, <1>2
  <2>2. IsLastRoll(q)
    BY <1>1, <1>2, <2>1, LastStays
  <2>3. RolledSoFar(q)
    BY <1>5, <2>2 DEF SegmentsInv
  <2> QED
    BY <1>1, <1>2, <2>3, RolledStays
<1>10. \A q, r \in Procs : IsRolling(q)' /\ IsRolling(r)' => q = r
  BY <1>1, <1>2 DEF IsRolling
<1>11. \A q \in Procs :
           IF command'[q].kind = "roll"
           THEN pc'[q] \in {"idle", "rolling", "opened", "done", "failed", "crashed"}
           ELSE pc'[q] \notin {"rolling", "opened"}
  BY <1>1, <1>2, <1>4 DEF SegmentsInv
<1>12. \A i \in 1..MaxSegments :
           \/ segments'[i] = Absent \/ IsSegment(segments'[i])
           \/ \E q \in Procs : IsCulprit(q, i)'
  <2> SUFFICES ASSUME NEW i \in 1..MaxSegments, NEW q \in Procs, IsCulprit(q, i)
               PROVE  IsCulprit(q, i)'
    BY <1>1 DEF SegmentsInv
  <2>1. q # p
    BY <1>1 DEF IsCulprit
  <2> QED
    BY <1>1, <1>2, <2>1 DEF IsCulprit, NextSegment
<1> QED
  BY <1>1, <1>8, <1>9, <1>10, <1>11, <1>12 DEF SegmentsInv

LEMMA SegmentsStay ==
    ASSUME SegmentsInv, UNCHANGED <<segments, command, pc, hand>>
    PROVE  SegmentsInv'
<1>1. \A q \in Procs : HasRolled(q)' => RollHand(q)'
  <2> SUFFICES ASSUME NEW q \in Procs, HasRolled(q)
               PROVE  RollHand(q)'
    BY DEF HasRolled
  <2> QED
    BY RollHandStays DEF SegmentsInv
<1>2. \A q \in Procs : HasRolled(q)' /\ IsLastRoll(q)' => RolledSoFar(q)'
  <2> SUFFICES ASSUME NEW q \in Procs, HasRolled(q), IsLastRoll(q)'
               PROVE  RolledSoFar(q)'
    BY DEF HasRolled
  <2>1. IsLastRoll(q)
    BY LastStays
  <2> QED
    BY <2>1, RolledStays DEF SegmentsInv
<1>3. \A q \in Procs, i \in 1..MaxSegments : IsCulprit(q, i) => IsCulprit(q, i)'
  BY DEF IsCulprit, NextSegment
<1>4. \A q \in Procs : IsRolling(q)' => IsRolling(q)
  BY DEF IsRolling
<1> QED
  BY <1>1, <1>2, <1>3, <1>4 DEF SegmentsInv

LEMMA OtherStepsKeepSegments ==
    ASSUME AppendsInv, SegmentsInv, NEW p \in Procs,
           \/ ReadLog(p) \/ CreateTemporary(p) \/ WriteTemporary(p)
           \/ Rename(p) \/ RenameFails(p)
           \/ PlanRepair(p) \/ CreateOutput(p) \/ WriteOutput(p)
    PROVE  SegmentsInv'
<1>1. command[p].kind # "roll"
  BY DEF ReadLog, CreateTemporary, WriteTemporary, Rename, RenameFrom, RenameFails, Is,
         PlanRepair, CreateOutput, WriteOutput, SegmentsInv
<1>2. UNCHANGED <<segments, command>>
  BY DEF ReadLog, CreateTemporary, WriteTemporary, Rename, RenameFrom, RenameFails,
         PlanRepair, CreateOutput, WriteOutput, files
<1>3. \A q \in Procs \ {p} : hand'[q] = hand[q]
  <2>1. hand' = hand \/ \E g : hand' = [hand EXCEPT ![p] = g]
    BY DEF ReadLog, CreateTemporary, WriteTemporary, Rename, RenameFrom, RenameFails,
           PlanRepair, CreateOutput, WriteOutput
  <2>2. hand = [q \in Procs |-> hand[q]]
    BY DEF AppendsInv, AppendsTypeOK
  <2> QED
    BY <2>1, <2>2
<1>4. PICK place \in {"failed", "encoded", "temporary", "synced", "done", "planned", "creating"} :
          pc' = [pc EXCEPT ![p] = place]
  BY DEF ReadLog, CreateTemporary, WriteTemporary, Rename, RenameFrom, RenameFails,
         PlanRepair, CreateOutput, WriteOutput, Go
<1> QED
  BY <1>1, <1>2, <1>3, <1>4, OthersLeaveSegments

LEMMA InitSegments == Init => SegmentsInv
<1> SUFFICES ASSUME Init
             PROVE  SegmentsInv
  OBVIOUS
<1>1. /\ segments = [i \in 1..MaxSegments |-> Absent]
      /\ pc = [p \in Procs |-> "idle"]
  BY DEF Init
<1>2. \A p \in Procs : pc[p] = "idle" /\ ~IsRolling(p) /\ ~HasRolled(p)
  BY <1>1 DEF IsRolling, HasRolled
<1> QED
  BY <1>1, <1>2 DEF SegmentsInv

(* Whatever is killed or fails, one roll runs at a time and puts down the    *)
(* segments it has in memory from the first on; what is not whole was left by*)
(* the one that opened it last (roll_jsonl_append_segments, stream-roll).    *)
THEOREM RollsInvariant == Spec => []RollsInv
<1>1. Init => RollsInv
  BY InitSegments DEF RollsInv
<1>2. AppendsInv /\ RollsInv /\ [Next]_vars => RollsInv'
  <2> SUFFICES ASSUME AppendsInv, RollsInv, [Next]_vars, powerLosses' = 0
               PROVE  SegmentsInv'
    BY DEF RollsInv
  <2>1. powerLosses \in Nat
    BY DEF AppendsInv, AppendsTypeOK
  <2>2. ~PowerLoss
    BY <2>1 DEF PowerLoss
  <2>3. powerLosses' = powerLosses
    BY <2>2 DEF Next, Step, ReadLog, CreateTemporary, WriteTemporary, Rename, RenameFrom,
                RenameFails, PlanRepair, CreateOutput, WriteOutput, Roll, OpenSegment,
                WriteSegment, Crash, SyncDirectory, Ended, vars, history
  <2>4. SegmentsInv
    BY <2>3 DEF RollsInv
  <2>5. ASSUME NEW p \in Procs, Step(p)
        PROVE  SegmentsInv'
    BY <2>4, <2>5, RollKeeps, OpenSegmentKeeps, WriteSegmentKeeps, CrashKeepsSegments,
       OtherStepsKeepSegments DEF Step
  <2>6. CASE SyncDirectory
    BY <2>4, <2>6, SegmentsStay DEF SyncDirectory, files
  <2>7. CASE Ended \/ UNCHANGED vars
    BY <2>4, <2>7, SegmentsStay DEF Ended, vars
  <2> QED
    BY <2>2, <2>5, <2>6, <2>7 DEF Next
<1> QED
  BY <1>1, <1>2, AppendsInvariant, PTL DEF Spec

(* roll_jsonl_append_segments, stream-roll: the segments of a roll that ended*)
(* well hold the rows of its input in order, the files of a longer roll are  *)
(* still behind them, and every roll that failed or was killed leaves at most*)
(* one segment that is not whole.                                            *)
THEOREM RollsConserveRows == Spec => []SegmentsConserveRows
<1>1. AppendsInv /\ RollsInv => SegmentsConserveRows
  <2> SUFFICES ASSUME AppendsInv, SegmentsInv, powerLosses = 0
               PROVE  SegmentsConserveRows
    BY DEF RollsInv, SegmentsConserveRows
  <2>1. ASSUME NEW p \in Procs, Is(p, "roll", "done"), IsLastRoll(p)
        PROVE  LET n == Len(hand[p].all)
               IN  /\ FlattenSeq([i \in 1..n |-> RowsIn(segments[i])])
                          = RowsOf(command[p].lines)
                   /\ \A i \in 1..n :
                         /\ IsSegment(segments[i])
                         /\ Len(segments[i]) - 1 <= MaxBlocksPerSegment + 1
                         /\ i < n => \/ Len(segments[i]) - 1 >= MaxBlocksPerSegment
                                     \/ Len(segments[i]) + Len(RowsIn(segments[i]))
                                            >= MaxSegmentBytes
                   /\ \A i \in n + 1..MaxSegments : segments[i] = hand[p].old[i]
    <3> DEFINE all == RollSegments(command[p].lines)
               n == Len(all)
               rows == RowsOf(command[p].lines)
    <3>1. command[p].kind = "roll" /\ pc[p] = "done" /\ command \in Commands
      BY <2>1 DEF Is, AppendsInv, AppendsTypeOK
    <3>2. RollHand(p) /\ RolledSoFar(p)
      BY <2>1, <3>1 DEF SegmentsInv, HasRolled
    <3>3. all # Err /\ hand[p].all = all /\ NextSegment(p) = n + 1
      BY <3>1, <3>2 DEF RollHand
    <3>4. AreLines(command[p].lines) /\ Len(command[p].lines) <= MaxSegments
      BY <3>1, RollsAreLines
    <3>5. /\ all \in Seq(Seq(Cell))
          /\ \A i \in 1..n :
                 /\ IsWhole(all[i])
                 /\ Len(all[i]) - 1 <= MaxBlocksPerSegment + 1
                 /\ i < n => \/ Len(all[i]) - 1 >= MaxBlocksPerSegment
                             \/ Len(all[i]) + Len(RowsIn(all[i])) >= MaxSegmentBytes
          /\ FlattenSeq([i \in 1..n |-> RowsIn(all[i])]) = rows
      BY <3>3, <3>4, SegmentsHoldTheirRows
    <3> HIDE DEF all, rows
    <3>6. n \in Nat
      BY <3>5
    <3> HIDE DEF n
    <3>7. \A i \in 1..n : segments[i] = all[i]
      BY <3>2, <3>3, <3>6 DEF RolledSoFar
    <3>8. \A i \in n + 1..MaxSegments : segments[i] = hand[p].old[i]
      BY <3>1, <3>2, <3>3 DEF RolledSoFar
    <3>9. [i \in 1..n |-> RowsIn(segments[i])] = [i \in 1..n |-> RowsIn(all[i])]
      BY <3>7
    <3>10. \A i \in 1..n :
              /\ IsSegment(segments[i])
              /\ Len(segments[i]) - 1 <= MaxBlocksPerSegment + 1
              /\ i < n => \/ Len(segments[i]) - 1 >= MaxBlocksPerSegment
                          \/ Len(segments[i]) + Len(RowsIn(segments[i])) >= MaxSegmentBytes
      BY <3>5, <3>7 DEF IsWhole, IsSegment
    <3>11. FlattenSeq([i \in 1..n |-> RowsIn(segments[i])]) = rows
      BY <3>5, <3>9
    <3>12. Len(hand[p].all) = n
      BY <3>3 DEF n
    <3> QED
      BY <3>8, <3>10, <3>11, <3>12 DEF rows
  <2>2. Cardinality({i \in DOMAIN segments : segments[i] # Absent /\ ~IsSegment(segments[i])})
            <= Cardinality({p \in Procs : command[p].kind = "roll"
                               /\ pc[p] \in {"opened", "failed", "crashed"}})
    <3> DEFINE bad == {i \in DOMAIN segments : segments[i] # Absent /\ ~IsSegment(segments[i])}
               culprits == {p \in Procs : command[p].kind = "roll"
                                /\ pc[p] \in {"opened", "failed", "crashed"}}
               places == {NextSegment(p) : p \in culprits}
               f == [p \in culprits |-> NextSegment(p)]
    <3>1. bad \subseteq places
      <4> SUFFICES ASSUME NEW i \in bad
                   PROVE  i \in places
        OBVIOUS
      <4>1. PICK p \in Procs : IsCulprit(p, i)
        BY DEF SegmentsInv
      <4> QED
        BY <4>1 DEF IsCulprit
    <3>2. f \in Surjection(culprits, places)
      BY DEF Surjection
    <3>3. IsFiniteSet(culprits)
      <4>1. IsFiniteSet(Procs) /\ culprits \in SUBSET Procs
        BY FileStoreAssumption
      <4> HIDE DEF culprits
      <4> QED
        BY <4>1, FS_Subset
    <3> HIDE DEF bad, culprits, places, f
    <3>4. IsFiniteSet(places) /\ Cardinality(places) <= Cardinality(culprits)
      BY <3>2, <3>3, FS_Surjection
    <3>5. IsFiniteSet(bad) /\ Cardinality(bad) <= Cardinality(places)
      BY <3>1, <3>4, FS_Subset
    <3>6. /\ Cardinality(bad) \in Nat /\ Cardinality(places) \in Nat
          /\ Cardinality(culprits) \in Nat
      BY <3>3, <3>4, <3>5, FS_CardinalityType
    <3>7. Cardinality(bad) <= Cardinality(culprits)
      BY <3>4, <3>5, <3>6
    <3> QED
      BY <3>7 DEF bad, culprits
  <2> QED
    BY <2>1, <2>2 DEF SegmentsConserveRows
<1> QED
  BY <1>1, AppendsInvariant, RollsInvariant, PTL

-----------------------------------------------------------------------------
(* What a plan says of a file, and what it makes of it. *)

LEMMA FormatsAreNoErrors == Err \notin {"V1", "V2", "V3", "V4"}
BY FileStoreAssumption

(* The marks for a file that is not there and for an error are neither a     *)
(* sequence nor a report of validation.                                      *)
MarksAreApart ==
    /\ \A S : Absent \notin Seq(S)
    /\ \A units, rows, sealed : Err # [units |-> units, rows |-> rows, sealed |-> sealed]

LEMMA DetectIs ==
    ASSUME NEW file
    PROVE  /\ Detect(file) = "V2" <=> file # << >> /\ file[1] = Header
           /\ Detect(file) = "V4" <=> file # << >> /\ file[1] = V4!Header
<1>1. /\ Header.kind = "header" /\ V4!Header.kind = "header4" /\ V4!Header3.kind = "header3"
  BY DEF Header, V4!Header, V4!Header3
<1>2. CASE file = << >>
  <2>1. Detect(file) = Err
    BY <1>2 DEF Detect
  <2> QED
    BY <1>2, <2>1, FormatsAreNoErrors
<1>3. CASE file # << >> /\ file[1] = Header
  <2>1. /\ file[1] # V4!Header3 /\ file[1] # V4!Header /\ file[1].kind # "frame"
    BY <1>1, <1>3
  <2>2. Detect(file) = "V2"
    BY <1>3, <2>1 DEF Detect
  <2> QED
    BY <1>3, <2>1, <2>2
<1>4. CASE file # << >> /\ file[1] = V4!Header
  <2>1. /\ file[1] # V4!Header3 /\ file[1] # Header /\ file[1].kind # "frame"
    BY <1>1, <1>4
  <2>2. Detect(file) = "V4"
    BY <1>4, <2>1 DEF Detect
  <2> QED
    BY <1>4, <2>1, <2>2
<1>5. CASE file # << >> /\ file[1] # V4!Header /\ file[1] # Header
  <2>1. Detect(file) \in {"V1", "V3", Err}
    <3>1. CASE file[1] = V4!Header3
      <4>1. file[1].kind # "frame"
        BY <1>1, <3>1
      <4> QED
        BY <1>5, <3>1, <4>1 DEF Detect
    <3>2. CASE file[1] # V4!Header3 /\ file[1].kind = "frame"
      BY <1>5, <3>2 DEF Detect
    <3>3. CASE file[1] # V4!Header3 /\ file[1].kind # "frame"
      BY <1>5, <3>3 DEF Detect
    <3> QED
      BY <3>1, <3>2, <3>3
  <2> QED
    BY <1>5, <2>1, FormatsAreNoErrors
<1> QED
  BY <1>2, <1>3, <1>4, <1>5

LEMMA PlanIs ==
    ASSUME NEW file, Plan(file) # Err
    PROVE  LET plan == Plan(file)
           IN  /\ plan.source = file /\ plan.format = Detect(file)
               /\ \/ Detect(file) = "V2" /\ plan = PlanCmp2(file)
                  \/ Detect(file) = "V4" /\ plan = PlanCmp4(file)
<1>1. Detect(file) \in {"V2", "V4"}
  BY DEF Plan
<1>2. CASE Detect(file) = "V2"
  <2>1. Plan(file) = PlanCmp2(file)
    BY <1>2 DEF Plan
  <2>2. PlanCmp2(file).source = file /\ PlanCmp2(file).format = "V2"
    BY <2>1 DEF PlanCmp2, NoOpPlan, RepairPlan
  <2> QED
    BY <1>2, <2>1, <2>2
<1>3. CASE Detect(file) = "V4"
  <2>1. Plan(file) = PlanCmp4(file)
    BY <1>3 DEF Plan
  <2>2. PlanCmp4(file).source = file /\ PlanCmp4(file).format = "V4"
    BY <2>1 DEF PlanCmp4, NoOpPlan, RepairPlan
  <2> QED
    BY <1>3, <2>1, <2>2
<1> QED
  BY <1>1, <1>2, <1>3

(* Only the bytes a plan was made from are repaired by it. *)
LEMMA ExecuteIs ==
    ASSUME NEW file, Plan(file) # Err,
           NEW bytes, Execute(bytes, Plan(file)) # Err
    PROVE  LET plan == Plan(file)
           IN  /\ bytes = file
               /\ Execute(file, plan) =
                      IF plan.action = "none" THEN file
                      ELSE IF Detect(file) = "V2" THEN RebuildCmp2(file, plan)
                      ELSE RebuildCmp4(file, plan)
<1> DEFINE plan == Plan(file)
<1>1. /\ plan.source = file /\ plan.format = Detect(file) /\ Detect(file) \in {"V2", "V4"}
  BY PlanIs
<1>2. Execute(bytes, plan) # Err
  OBVIOUS
<1> HIDE DEF plan
<1>3. bytes = file
  BY <1>1, <1>2 DEF Execute
<1>4. plan.action = "none" => Execute(file, plan) = file
  BY <1>1 DEF Execute
<1>5. plan.action # "none" /\ Detect(file) = "V2" =>
          Execute(file, plan) = RebuildCmp2(file, plan)
  BY <1>1 DEF Execute
<1>6. plan.action # "none" /\ Detect(file) = "V4" =>
          Execute(file, plan) = RebuildCmp4(file, plan)
  BY <1>1 DEF Execute
<1>7. Execute(file, plan) =
          IF plan.action = "none" THEN file
          ELSE IF Detect(file) = "V2" THEN RebuildCmp2(file, plan)
          ELSE RebuildCmp4(file, plan)
  BY <1>1, <1>4, <1>5, <1>6
<1> QED
  BY <1>3, <1>7 DEF plan

(* A sealed CMP2 stream is valid, and needs no repair. *)
LEMMA SealedNeedsNothing ==
    ASSUME MarksAreApart, NEW file, Detect(file) = "V2",
           Inspect(file).status = "sealed"
    PROVE  Validate(file) # Err /\ Validate(file).sealed /\ Plan(file).action = "none"
<1>1. Negotiate(file, 1, 4) = "V2"
  BY FormatsAreNoErrors DEF Negotiate, VersionOf
<1>2. "V2" # Err
  BY FormatsAreNoErrors
<1>3. Validate(file) = [units |-> Len(Inspect(file).entries), rows |-> Inspect(file).nextRow,
                        sealed |-> TRUE]
  BY <1>1, <1>2 DEF Validate
<1>4. Plan(file) = NoOpPlan("V2", file, Len(Inspect(file).entries), Inspect(file).nextRow)
  BY DEF Plan, PlanCmp2
<1>5. Plan(file).action = "none"
  BY <1>4 DEF NoOpPlan
<1> QED
  BY <1>3, <1>5 DEF MarksAreApart

LEMMA WholeNeedsNothing ==
    ASSUME MarksAreApart, NEW file, Detect(file) = "V4",
           V4!ValidateFile(file) # Err
    PROVE  Validate(file) # Err /\ Validate(file).sealed /\ Plan(file).action = "none"
<1> DEFINE found == V4!ValidateFile(file)
<1>1. Negotiate(file, 1, 4) = "V4"
  BY FormatsAreNoErrors DEF Negotiate, VersionOf
<1>2. "V4" # Err
  BY FormatsAreNoErrors
<1>3. Validate(file) = [units |-> Len(found.row_groups), rows |-> found.total_row_count,
                        sealed |-> TRUE]
  BY <1>1, <1>2 DEF Validate
<1>4. Plan(file) = NoOpPlan("V4", file, Len(found.row_groups), found.total_row_count)
  <2>1. Plan(file) = PlanCmp4(file)
    BY DEF Plan
  <2> QED
    BY <2>1 DEF PlanCmp4
<1>5. Plan(file).action = "none"
  BY <1>4 DEF NoOpPlan
<1> QED
  BY <1>3, <1>5 DEF MarksAreApart

(* What is rebuilt of a CMP2 stream holds what was recoverable in it. *)
LEMMA RebuiltRows ==
    ASSUME NEW file \in Seq(Cell), file # << >>, file[1] = Header, NEW plan,
           RebuildCmp2(file, plan) # Err
    PROVE  LET output == RebuildCmp2(file, plan)
           IN  /\ output # << >> /\ output[1] = Header /\ (\E X : output \in Seq(X))
               /\ Inspect(output).status = "sealed"
               /\ Inspect(output).rows = FlattenSeq(Recovered(file))
<1> DEFINE n == ValidLen(file)
           body == SubSeq(file, 1, n)
           last == Footer(BlocksOf(body))
           output == Append(body, last)
<1>1. RebuildCmp2(file, plan) = output /\ Inspect(output).status = "sealed"
  BY DEF RebuildCmp2
<1>2. n \in 0..Len(file) /\ IsValidLen(file, n)
  BY ValidLenIs
<1>3. FollowsOn(file, 1) /\ Len(file) \in Nat \ {0}
  BY DEF FollowsOn
<1>4. n > 0
  BY <1>2, <1>3 DEF IsValidLen
<1>5. /\ body \in Seq(Cell) /\ Len(body) = n /\ \A i \in 1..n : body[i] = file[i]
      /\ IsValidLen(body, n)
  BY <1>4, PrefixIsValid DEF ValidPrefix
<1> HIDE DEF n
<1>6. n \in Nat \ {0}
  BY <1>2, <1>4
<1> HIDE DEF body, last
<1>7. body # << >> /\ body[1] = Header
  BY <1>5, <1>6
<1>8. Inspect(output).rows = FlattenSeq(Groups(body, n))
  BY <1>1, <1>5, <1>7, SealedIs
<1>9. ValidLen(body) = n
  BY <1>5, <1>6, ValidLenUnique
<1>10. Recovered(body) = Groups(body, n)
  BY <1>9 DEF Recovered, Groups
<1>11. Recovered(body) = Recovered(file)
  BY <1>5, <1>9, RecoveredSame DEF n
<1> DEFINE X == Cell \cup {last}
<1>12. body \in Seq(X) /\ last \in X
  BY <1>5
<1> HIDE DEF X
<1>13. output \in Seq(X) /\ output # << >> /\ output[1] = body[1]
  BY <1>5, <1>6, <1>12
<1> HIDE DEF output
<1> QED
  BY <1>1, <1>7, <1>8, <1>10, <1>11, <1>13

(* A CMP4 file that validates has a footer at its end, which is no group.     *)
LEMMA WholeEndsInFooter ==
    ASSUME NEW S, NEW file \in Seq(S), V4!ValidateFile(file) # Err
    PROVE  /\ file # << >> /\ file[1] = V4!Header /\ Len(file) - 1 \in 1..Len(file)
           /\ ~V4!Follows(file, Len(file))
<1>1. V4!InspectFooter(file) # Err
  BY DEF V4!ValidateFile, V4!Try
<1>2. file # << >> /\ file[1] = V4!Header /\ V4!DecodeFooter(file) # Err
  BY <1>1 DEF V4!InspectFooter
<1>3. V4!Last(file).kind = "footer"
  BY <1>2 DEF V4!DecodeFooter
<1>4. file[Len(file)].kind = "footer"
  BY <1>3 DEF V4!Last
<1>5. Len(file) # 1
  BY <1>2, <1>4 DEF V4!Header
<1>6. Len(file) \in Nat \ {0}
  BY <1>2
<1>7. ~V4!Follows(file, Len(file))
  <2>1. V4!Follows(file, Len(file)) => file[Len(file)].kind = "group"
    BY Zenon DEF V4!Follows
  <2> QED
    BY <1>4, <2>1
<1>8. Len(file) - 1 \in 1..Len(file)
  <2> DEFINE m == Len(file)
  <2>1. m \in Nat \ {0} /\ m # 1
    BY <1>5, <1>6
  <2> HIDE DEF m
  <2>2. m - 1 \in 1..m
    BY <2>1
  <2> QED
    BY <2>2 DEF m
<1> QED
  BY <1>2, <1>7, <1>8

(* What is rebuilt of a CMP4 file are its groups up to the first that does   *)
(* not follow on, and a footer.                                              *)
LEMMA RebuiltGroups ==
    ASSUME NEW S, NEW file \in Seq(S), file # << >>, file[1] = V4!Header, NEW plan,
           RebuildCmp4(file, plan) # Err
    PROVE  LET output == RebuildCmp4(file, plan)
           IN  /\ V4!ValidateFile(output) # Err
               /\ \E X : output \in Seq(X)
               /\ \E n \in 1..Len(file) :
                      /\ SubSeq(output, 1, Len(output) - 1) = SubSeq(file, 1, n)
                      /\ n < Len(file) => ~V4!Follows(file, n + 1)
<1> DEFINE good == {n \in 1..Len(file) : \A k \in 2..n : V4!Follows(file, k)}
           n == Max(good)
           kept == SubSeq(file, 1, n)
           found == V4!RecoverPrefix(file)
           output == V4!AppendFooter(found.valid, found.footer)
<1>1. /\ RebuildCmp4(file, plan) = output /\ V4!ValidateFile(output) # Err /\ output # Err
      /\ found # Err
  BY DEF RebuildCmp4
<1>2. V4!Max(good) = n
  BY Zenon DEF V4!Max, Max
<1>3. found.valid = kept
  BY <1>2 DEF V4!RecoverPrefix
<1> DEFINE last == [kind |-> "footer", offset |-> Len(kept), index |-> found.footer]
<1>4. output = Append(kept, last)
  <2> HIDE DEF kept
  <2> QED
    BY <1>1, <1>3 DEF V4!AppendFooter
<1>5. Len(file) \in Nat \ {0}
  OBVIOUS
<1>6. n \in good /\ good \in SUBSET (1..Len(file)) /\ \A y \in good : y <= n
  <2>1. 1 \in good
    BY <1>5
  <2>2. good \in SUBSET (1..Len(file)) /\ good # {}
    BY <2>1
  <2> HIDE DEF good
  <2> QED
    BY <1>5, <2>2, MaxIn
<1>7. n < Len(file) => ~V4!Follows(file, n + 1)
  <2> SUFFICES ASSUME n < Len(file), V4!Follows(file, n + 1)
               PROVE  FALSE
    OBVIOUS
  <2>1. n \in 1..Len(file) /\ \A k \in 2..n : V4!Follows(file, k)
    BY <1>6
  <2> HIDE DEF n
  <2>2. n + 1 \in 1..Len(file) /\ \A k \in 2..n + 1 : k = n + 1 \/ k \in 2..n
    BY <1>5, <2>1
  <2>3. n + 1 \in good
    BY <2>1, <2>2
  <2> HIDE DEF good
  <2>4. n + 1 <= n
    BY <1>6, <2>3
  <2> QED
    BY <2>1, <2>4
<1>8. n \in 1..Len(file)
  BY <1>6
<1> HIDE DEF n, good, found
<1>9. kept \in Seq(S) /\ Len(kept) = n
  BY <1>5, <1>8
<1> DEFINE X == S \cup {last}
<1> HIDE DEF kept, last
<1>10. kept \in Seq(X) /\ last \in X
  BY <1>9
<1> HIDE DEF X
<1>11. output \in Seq(X) /\ SubSeq(output, 1, Len(output) - 1) = kept
  <2> DEFINE longer == Append(kept, last)
  <2>1. /\ longer \in Seq(X) /\ Len(longer) = n + 1
        /\ \A i \in 1..n : longer[i] = kept[i]
    BY <1>8, <1>9, <1>10
  <2> HIDE DEF longer
  <2>2. SubSeq(longer, 1, n) = kept
    <3> DEFINE front == SubSeq(longer, 1, n)
    <3>1. front \in Seq(X) /\ Len(front) = n /\ \A i \in 1..n : front[i] = longer[i]
      BY <1>8, <2>1
    <3> HIDE DEF front
    <3>2. front = kept
      BY <1>8, <1>9, <1>10, <2>1, <3>1, SeqEqual
    <3> QED
      BY <3>2 DEF front
  <2>3. Len(longer) - 1 = n
    BY <1>8, <2>1
  <2> QED
    BY <1>4, <2>1, <2>2, <2>3 DEF longer
<1> HIDE DEF output
<1> QED
  BY <1>1, <1>7, <1>8, <1>11 DEF kept

(* Whatever a plan makes of the bytes it was made from is whole. *)
THEOREM RepairsOfAnyFile ==
    ASSUME MarksAreApart,
           NEW source, IsSource(source), Plan(source) # Err,
           Execute(source, Plan(source)) # Err
    PROVE  /\ Execute(source, Plan(source)) # Absent
           /\ IsRepaired(Execute(source, Plan(source)), source)
<1> DEFINE plan == Plan(source)
           output == Execute(source, plan)
<1>1. PICK S : source \in Seq(S)
  BY DEF IsSource, IsColumnFile
<1>2. CASE Detect(source) = "V2"
  <2>1. source # << >> /\ source[1] = Header /\ plan = PlanCmp2(source)
    BY <1>2, DetectIs, PlanIs
  <2>2. source \in Seq(Cell)
    <3>1. Header # V4!Header /\ Header # V4!Header3
      <4>1. /\ Header.kind = "header" /\ V4!Header.kind = "header4"
            /\ V4!Header3.kind = "header3"
        BY DEF Header, V4!Header, V4!Header3
      <4> QED
        BY <4>1
    <3> QED
      BY <2>1, <3>1 DEF IsSource, IsColumnFile
  <2>3. output = IF plan.action = "none" THEN source ELSE RebuildCmp2(source, plan)
    BY <1>2, ExecuteIs
  <2>4. /\ output # << >> /\ output[1] = Header /\ (\E X : output \in Seq(X))
        /\ Inspect(output).status = "sealed"
        /\ Inspect(output).rows = FlattenSeq(Recovered(source))
    <3>1. CASE plan.action = "none"
      <4>1. Inspect(source).status = "sealed"
        <5> SUFFICES ASSUME Inspect(source).status # "sealed"
                     PROVE  FALSE
          OBVIOUS
        <5>1. \/ plan = Err
              \/ plan = RepairPlan("V2", source, ValidLen(source), ValidLen(source) - 1,
                                   NextRow(source, ValidLen(source)))
          BY <2>1 DEF PlanCmp2
        <5> QED
          BY <3>1, <5>1 DEF RepairPlan
      <4>2. Inspect(source).rows = FlattenSeq(Recovered(source))
        BY <2>1, <2>2, <4>1, SealedRows
      <4> QED
        BY <2>1, <2>2, <2>3, <3>1, <4>1, <4>2
    <3>2. CASE plan.action # "none"
      <4>1. output = RebuildCmp2(source, plan) /\ output # Err
        BY <2>3, <3>2
      <4> HIDE DEF output, plan
      <4> QED
        BY <2>1, <2>2, <4>1, RebuiltRows
    <3> QED
      BY <3>1, <3>2
  <2> HIDE DEF output, plan
  <2>5. Detect(output) = "V2"
    BY <2>4, DetectIs
  <2>6. Validate(output) # Err /\ Validate(output).sealed /\ Plan(output).action = "none"
    BY <2>4, <2>5, SealedNeedsNothing
  <2>7. output # Absent
    BY <2>4 DEF MarksAreApart
  <2>8. IsRepaired(output, source)
    BY <1>2, <2>4, <2>5, <2>6 DEF IsRepaired
  <2> QED
    BY <2>7, <2>8 DEF output, plan
<1>3. CASE Detect(source) = "V4"
  <2>1. source # << >> /\ source[1] = V4!Header /\ plan = PlanCmp4(source)
    BY <1>3, DetectIs, PlanIs
  <2>2. output = IF plan.action = "none" THEN source ELSE RebuildCmp4(source, plan)
    BY <1>3, ExecuteIs
  <2>3. /\ (\E X : output \in Seq(X))
        /\ V4!ValidateFile(output) # Err
        /\ \E n \in 1..Len(source) :
               /\ SubSeq(output, 1, Len(output) - 1) = SubSeq(source, 1, n)
               /\ n < Len(source) => ~V4!Follows(source, n + 1)
    <3>1. CASE plan.action = "none"
      <4>1. V4!ValidateFile(source) # Err
        <5> SUFFICES ASSUME V4!ValidateFile(source) = Err
                     PROVE  FALSE
          OBVIOUS
        <5>1. plan.action # "none"
          <6>1. plan # Err
            OBVIOUS
          <6> HIDE DEF plan
          <6> QED
            BY <2>1, <6>1 DEF PlanCmp4, RepairPlan
        <5> QED
          BY <3>1, <5>1
      <4>2. Len(source) - 1 \in 1..Len(source) /\ ~V4!Follows(source, Len(source))
        BY <1>1, <4>1, WholeEndsInFooter
      <4> DEFINE n == Len(source) - 1
      <4>3. n \in 1..Len(source) /\ n + 1 = Len(source)
        BY <1>1, <4>2
      <4>4. output = source
        BY <2>2, <3>1
      <4>5. SubSeq(output, 1, Len(output) - 1) = SubSeq(source, 1, n)
        BY <4>4
      <4>6. n < Len(source) => ~V4!Follows(source, n + 1)
        BY <4>2, <4>3
      <4> HIDE DEF n, output, plan
      <4> QED
        BY <1>1, <4>1, <4>3, <4>4, <4>5, <4>6
    <3>2. CASE plan.action # "none"
      <4>1. output = RebuildCmp4(source, plan) /\ output # Err
        BY <2>2, <3>2
      <4> HIDE DEF output, plan
      <4> QED
        BY <1>1, <2>1, <4>1, RebuiltGroups
    <3> QED
      BY <3>1, <3>2
  <2> HIDE DEF output, plan
  <2>4. Detect(output) = "V4"
    <3>1. output # << >> /\ output[1] = V4!Header
      BY <2>3, WholeEndsInFooter
    <3> QED
      BY <3>1, DetectIs
  <2>5. Validate(output) # Err /\ Validate(output).sealed /\ Plan(output).action = "none"
    BY <2>3, <2>4, WholeNeedsNothing
  <2>6. output # Absent
    BY <2>3 DEF MarksAreApart
  <2>7. IsRepaired(output, source)
    BY <1>3, <2>3, <2>4, <2>5 DEF IsRepaired
  <2> QED
    BY <2>6, <2>7 DEF output, plan
<1>4. Detect(source) \in {"V2", "V4"}
  BY DEF Plan
<1> QED
  BY <1>2, <1>3, <1>4

-----------------------------------------------------------------------------
(* Repairs, step by step. *)

LEMMA SourcesAre ==
    ASSUME AppendsInv, table = Absent \/ IsSource(table), NEW p \in Procs
    PROVE  IsSource(SourceOf(p))
<1>1. log \in Seq(Cell) \cup {Absent}
  BY DEF AppendsInv, LogsInv, IsGoodLog
<1>2. IsSource(Bytes(log))
  BY <1>1, RowsInIs DEF IsSource
<1>3. IsSource(Bytes(table))
  <2>1. << >> \in Seq(Cell)
    OBVIOUS
  <2> QED
    BY <2>1 DEF Bytes, IsSource
<1> QED
  BY <1>2, <1>3 DEF SourceOf

(* A step after which a process has no part in a repair. *)
LEMMA AsideKeepsRepairs ==
    ASSUME AppendsInv, RepairsInv, NEW p \in Procs, NEW place,
           place \notin {"planned", "creating"},
           place = "done" => command[p].kind \notin {"repair", "reviewed"},
           pc' = [pc EXCEPT ![p] = place],
           \A q \in Procs \ {p} : hand'[q] = hand[q],
           UNCHANGED <<table, command, powerLosses>>,
           out' = out \/ pc[p] = "creating"
    PROVE  RepairsInv'
<1>1. pc'[p] = place /\ \A q \in Procs \ {p} : pc'[q] = pc[q] /\ hand'[q] = hand[q]
  BY DEF AppendsInv, AppendsTypeOK
<1>2. \A q \in Procs : IsRepairing(q)' => q # p /\ IsRepairing(q)
  BY <1>1 DEF IsRepairing
<1>3. ASSUME NEW q \in Procs
      PROVE  /\ pc'[q] \in {"planned", "creating"} =>
                    command'[q].kind \in {"repair", "reviewed"}
             /\ pc'[q] = "planned" => IsPlanOf(hand'[q], hand'[q].source)
             /\ IsRepairing(q)' =>
                    /\ IsPlanOf(hand'[q].plan, hand'[q].plan.source)
                    /\ hand'[q].result = Execute(hand'[q].plan.source, hand'[q].plan)
                    /\ hand'[q].result # Err
  BY <1>1, <1>2 DEF RepairsInv
<1>4. ASSUME powerLosses' = 0
      PROVE  /\ \A q, r \in Procs : IsRepairing(q)' /\ IsRepairing(r)' => q = r
             /\ \A q \in Procs : IsRepairing(q)' =>
                    out' = IF pc'[q] = "creating" THEN << >> ELSE hand'[q].result
  <2>1. /\ \A q, r \in Procs : IsRepairing(q) /\ IsRepairing(r) => q = r
        /\ \A q \in Procs : IsRepairing(q) =>
               out = IF pc[q] = "creating" THEN << >> ELSE hand[q].result
    BY <1>4 DEF RepairsInv
  <2>2. pc[p] = "creating" => IsRepairing(p)
    BY DEF RepairsInv, IsRepairing
  <2>3. \A q \in Procs : IsRepairing(q)' => out' = out
    BY <1>2, <2>1, <2>2
  <2> QED
    BY <1>1, <1>2, <2>1, <2>3
<1> QED
  BY <1>3, <1>4 DEF RepairsInv, IsPlanOf

(* A step of a process that goes on with a repair. *)
LEMMA PlanRepairKeeps ==
    ASSUME AppendsInv, RepairsInv, NEW p \in Procs, PlanRepair(p)
    PROVE  RepairsInv'
<1> DEFINE source == SourceOf(p)
           plan == Plan(source)
<1>1. /\ command[p].kind \in {"repair", "reviewed"} /\ pc[p] = "idle"
      /\ hand' = [hand EXCEPT ![p] = plan]
      /\ pc' = [pc EXCEPT ![p] = IF hand'[p] = Err THEN "failed" ELSE "planned"]
      /\ UNCHANGED <<table, out, command, powerLosses>>
  BY DEF PlanRepair, Go, files, history
<1>2. IsSource(source)
  BY SourcesAre DEF RepairsInv
<1>3. hand'[p] = plan /\ \A q \in Procs \ {p} : hand'[q] = hand[q]
  BY <1>1 DEF AppendsInv, AppendsTypeOK
<1>4. CASE plan = Err
  <2>1. pc' = [pc EXCEPT ![p] = "failed"]
    BY <1>1, <1>3, <1>4
  <2> QED
    BY <1>1, <1>3, <2>1, AsideKeepsRepairs
<1>5. CASE plan # Err
  <2>1. pc'[p] = "planned" /\ \A q \in Procs \ {p} : pc'[q] = pc[q]
    BY <1>1, <1>3, <1>5 DEF AppendsInv, AppendsTypeOK
  <2>2. IsPlanOf(hand'[p], hand'[p].source)
    BY <1>2, <1>3, <1>5, PlanIs DEF IsPlanOf
  <2> HIDE DEF plan, source
  <2>3. \A q \in Procs : IsRepairing(q)' => q # p /\ IsRepairing(q)
    BY <1>1, <2>1 DEF IsRepairing
  <2>4. ASSUME NEW q \in Procs
        PROVE  /\ pc'[q] \in {"planned", "creating"} =>
                      command'[q].kind \in {"repair", "reviewed"}
               /\ pc'[q] = "planned" => IsPlanOf(hand'[q], hand'[q].source)
               /\ IsRepairing(q)' =>
                      /\ IsPlanOf(hand'[q].plan, hand'[q].plan.source)
                      /\ hand'[q].result = Execute(hand'[q].plan.source, hand'[q].plan)
                      /\ hand'[q].result # Err
    BY <1>1, <1>3, <2>1, <2>2, <2>3 DEF RepairsInv
  <2>5. ASSUME powerLosses' = 0
        PROVE  /\ \A q, r \in Procs : IsRepairing(q)' /\ IsRepairing(r)' => q = r
               /\ \A q \in Procs : IsRepairing(q)' =>
                      out' = IF pc'[q] = "creating" THEN << >> ELSE hand'[q].result
    BY <1>1, <1>3, <2>1, <2>3, <2>5 DEF RepairsInv
  <2> QED
    BY <1>1, <2>4, <2>5 DEF RepairsInv, IsPlanOf
<1> QED
  BY <1>4, <1>5

LEMMA CreateOutputKeeps ==
    ASSUME MarksAreApart, AppendsInv, RepairsInv, NEW p \in Procs, CreateOutput(p)
    PROVE  RepairsInv'
<1> DEFINE plan == hand[p]
           result == Execute(ExecutedOn(p), plan)
           made == result # Err /\ out = Absent
           both == [plan |-> plan, result |-> result]
<1>1. /\ pc[p] = "planned"
      /\ out' = IF made THEN << >> ELSE out
      /\ pc' = [pc EXCEPT ![p] = IF made THEN "creating" ELSE "failed"]
      /\ hand' = [hand EXCEPT ![p] = both]
      /\ UNCHANGED <<table, command, powerLosses>>
  BY DEF CreateOutput, Go, history
<1>2. hand'[p] = both /\ \A q \in Procs \ {p} : hand'[q] = hand[q]
  BY <1>1 DEF AppendsInv, AppendsTypeOK
<1>3. CASE ~made
  <2> HIDE DEF both, result, plan
  <2>1. pc' = [pc EXCEPT ![p] = "failed"] /\ out' = out
    BY <1>1, <1>3
  <2> QED
    BY <1>1, <1>2, <2>1, AsideKeepsRepairs
<1>4. CASE made
  <2>1. /\ command[p].kind \in {"repair", "reviewed"}
        /\ IsPlanOf(plan, plan.source)
    BY <1>1 DEF RepairsInv
  <2> DEFINE source == plan.source
  <2>2. IsSource(source) /\ plan = Plan(source) /\ plan # Err
    BY <2>1 DEF IsPlanOf
  <2>3. ExecutedOn(p) = source
    BY <1>4, <2>2, ExecuteIs
  <2>4. result = Execute(source, plan) /\ result # Err
    BY <1>4, <2>3
  <2>5. hand'[p].plan = plan /\ hand'[p].result = result
    <3> HIDE DEF plan, result
    <3> QED
      BY <1>2
  <2>6. pc'[p] = "creating" /\ out' = << >> /\ \A q \in Procs \ {p} : pc'[q] = pc[q]
    <3> HIDE DEF both, result, plan
    <3> QED
      BY <1>1, <1>4 DEF AppendsInv, AppendsTypeOK
  <2>7. ASSUME powerLosses = 0, NEW q \in Procs, IsRepairing(q)
        PROVE  FALSE
    <3>1. out = IF pc[q] = "creating" THEN << >> ELSE hand[q].result
      BY <2>7 DEF RepairsInv
    <3>2. << >> # Absent
      <4>1. << >> \in Seq(Cell)
        OBVIOUS
      <4> QED
        BY <4>1, FileStoreAssumption
    <3>3. hand[q].result # Absent
      <4> DEFINE other == hand[q].plan
      <4>1. /\ IsSource(other.source) /\ other = Plan(other.source) /\ other # Err
            /\ hand[q].result = Execute(other.source, other) /\ hand[q].result # Err
        BY <2>7 DEF RepairsInv, IsPlanOf
      <4> HIDE DEF other
      <4> QED
        BY <4>1, RepairsOfAnyFile
    <3> QED
      BY <1>4, <3>1, <3>2, <3>3
  <2> HIDE DEF result, both, made, source
  <2>8. \A q \in Procs \ {p} : IsRepairing(q)' => IsRepairing(q)
    BY <1>1, <2>6 DEF IsRepairing
  <2>9. ASSUME NEW q \in Procs
        PROVE  /\ pc'[q] \in {"planned", "creating"} =>
                      command'[q].kind \in {"repair", "reviewed"}
               /\ pc'[q] = "planned" => IsPlanOf(hand'[q], hand'[q].source)
               /\ IsRepairing(q)' =>
                      /\ IsPlanOf(hand'[q].plan, hand'[q].plan.source)
                      /\ hand'[q].result = Execute(hand'[q].plan.source, hand'[q].plan)
                      /\ hand'[q].result # Err
    <3>1. CASE q = p
      <4>1. IsPlanOf(hand'[q].plan, hand'[q].plan.source)
        BY <2>1, <2>5, <3>1
      <4>2. hand'[q].result = Execute(hand'[q].plan.source, hand'[q].plan)
        BY <2>4, <2>5, <3>1 DEF source
      <4>3. hand'[q].result # Err
        BY <2>4, <2>5, <3>1
      <4> QED
        BY <1>1, <2>1, <2>6, <3>1, <4>1, <4>2, <4>3
    <3>2. CASE q # p
      BY <1>1, <1>2, <2>6, <2>8, <3>2 DEF RepairsInv
    <3> QED
      BY <3>1, <3>2
  <2>10. ASSUME powerLosses' = 0
         PROVE  /\ \A q, r \in Procs : IsRepairing(q)' /\ IsRepairing(r)' => q = r
                /\ \A q \in Procs : IsRepairing(q)' =>
                       out' = IF pc'[q] = "creating" THEN << >> ELSE hand'[q].result
    <3>1. \A q \in Procs : IsRepairing(q)' => q = p
      BY <1>1, <2>7, <2>8, <2>10
    <3> QED
      BY <2>6, <3>1
  <2> QED
    BY <1>1, <2>9, <2>10 DEF RepairsInv, IsPlanOf
<1> QED
  BY <1>3, <1>4

LEMMA WriteOutputKeeps ==
    ASSUME AppendsInv, RepairsInv, NEW p \in Procs, WriteOutput(p)
    PROVE  RepairsInv'
<1>1. /\ pc[p] = "creating" /\ UNCHANGED <<table, command, hand, powerLosses>>
      /\ \/ out' = hand[p].result /\ pc' = [pc EXCEPT ![p] = "done"]
         \/ out' = Absent /\ pc' = [pc EXCEPT ![p] = "failed"]
  BY DEF WriteOutput, Go, history
<1>2. CASE pc' = [pc EXCEPT ![p] = "failed"]
  BY <1>1, <1>2, AsideKeepsRepairs
<1>3. CASE out' = hand[p].result /\ pc' = [pc EXCEPT ![p] = "done"]
  <2>1. pc'[p] = "done" /\ \A q \in Procs \ {p} : pc'[q] = pc[q]
    BY <1>3 DEF AppendsInv, AppendsTypeOK
  <2>2. IsRepairing(p) /\ \A q \in Procs : IsRepairing(q)' <=> IsRepairing(q)
    BY <1>1, <2>1 DEF IsRepairing, RepairsInv
  <2>3. ASSUME NEW q \in Procs
        PROVE  /\ pc'[q] \in {"planned", "creating"} =>
                      command'[q].kind \in {"repair", "reviewed"}
               /\ pc'[q] = "planned" => IsPlanOf(hand'[q], hand'[q].source)
               /\ IsRepairing(q)' =>
                      /\ IsPlanOf(hand'[q].plan, hand'[q].plan.source)
                      /\ hand'[q].result = Execute(hand'[q].plan.source, hand'[q].plan)
                      /\ hand'[q].result # Err
    BY <1>1, <2>1, <2>2 DEF RepairsInv
  <2>4. ASSUME powerLosses' = 0
        PROVE  /\ \A q, r \in Procs : IsRepairing(q)' /\ IsRepairing(r)' => q = r
               /\ \A q \in Procs : IsRepairing(q)' =>
                      out' = IF pc'[q] = "creating" THEN << >> ELSE hand'[q].result
    <3>1. \A q \in Procs : IsRepairing(q)' => q = p
      BY <1>1, <2>2, <2>4 DEF RepairsInv
    <3> QED
      BY <1>1, <1>3, <2>1, <3>1
  <2> QED
    BY <1>1, <2>3, <2>4 DEF RepairsInv, IsPlanOf
<1> QED
  BY <1>1, <1>2, <1>3

LEMMA OtherStepsKeepRepairs ==
    ASSUME AppendsInv, RepairsInv, NEW p \in Procs,
           \/ ReadLog(p) \/ CreateTemporary(p) \/ WriteTemporary(p)
           \/ Rename(p) \/ RenameFails(p)
           \/ Roll(p) \/ OpenSegment(p) \/ WriteSegment(p)
           \/ Crash(p)
    PROVE  RepairsInv'
<1>1. UNCHANGED <<table, command, powerLosses>> /\ (out' = out \/ pc[p] = "creating")
  BY DEF ReadLog, CreateTemporary, WriteTemporary, Rename, RenameFrom, RenameFails,
         Roll, OpenSegment, WriteSegment, Crash, files, history
<1>2. \A q \in Procs \ {p} : hand'[q] = hand[q]
  <2>1. hand = [q \in Procs |-> hand[q]]
    BY DEF AppendsInv, AppendsTypeOK
  <2>2. hand' = hand \/ \E g : hand' = [hand EXCEPT ![p] = g]
    BY DEF ReadLog, CreateTemporary, WriteTemporary, Rename, RenameFrom, RenameFails,
           Roll, OpenSegment, WriteSegment, Crash
  <2> QED
    BY <2>1, <2>2
<1>3. PICK place \in {"failed", "encoded", "temporary", "synced", "done", "rolling", "opened",
                      "crashed"} :
          /\ pc' = [pc EXCEPT ![p] = place]
          /\ place = "done" => command[p].kind \in {"append", "roll"}
  <2>1. CASE ReadLog(p) \/ CreateTemporary(p) \/ WriteTemporary(p) \/ Rename(p) \/ RenameFails(p)
    BY <2>1 DEF ReadLog, CreateTemporary, WriteTemporary, Rename, RenameFrom, RenameFails, Is, Go
  <2>2. CASE Roll(p)
    <3> DEFINE result == RollSegments(command[p].lines)
               place == CASE result = Err -> "failed" [] result = << >> -> "done"
                          [] OTHER -> "rolling"
    <3>1. pc' = [pc EXCEPT ![p] = place] /\ command[p].kind = "roll"
      BY <2>2 DEF Roll, Is, Go
    <3>2. place \in {"failed", "done", "rolling"}
      <4> HIDE DEF result
      <4>1. CASE result = Err /\ result = << >>
        BY <4>1
      <4>2. CASE result = Err /\ result # << >>
        BY <4>2
      <4>3. CASE result # Err /\ result = << >>
        BY <4>3
      <4>4. CASE result # Err /\ result # << >>
        BY <4>4
      <4> QED
        BY <4>1, <4>2, <4>3, <4>4
    <3> HIDE DEF place
    <3> QED
      BY <3>1, <3>2
  <2>3. CASE OpenSegment(p) \/ Crash(p)
    BY <2>3 DEF OpenSegment, Crash, Go
  <2>4. CASE WriteSegment(p)
    BY <2>4 DEF WriteSegment, Is, Go
  <2> QED
    BY <2>1, <2>2, <2>3, <2>4
<1> QED
  BY <1>1, <1>2, <1>3, AsideKeepsRepairs

LEMMA RepairsStay ==
    ASSUME RepairsInv, UNCHANGED <<table, out, command, pc, hand, powerLosses>>
    PROVE  RepairsInv'
<1>1. \A q \in Procs : IsRepairing(q)' <=> IsRepairing(q)
  BY DEF IsRepairing
<1> QED
  BY <1>1 DEF RepairsInv, IsPlanOf

(* A loss of power ends every repair that was under way.                     *)
LEMMA PowerLossKeepsRepairs ==
    ASSUME AppendsInv, RepairsInv, PowerLoss
    PROVE  RepairsInv'
<1>1. /\ UNCHANGED <<table, command, hand>> /\ powerLosses' # 0
      /\ pc' = [q \in Procs |-> IF pc[q] \in Running THEN "crashed" ELSE pc[q]]
  BY DEF PowerLoss, AppendsInv, AppendsTypeOK
<1>2. \A q \in Procs : pc'[q] \notin {"planned", "creating"}
  BY <1>1 DEF Running
<1>3. \A q \in Procs : pc'[q] = "done" => pc[q] = "done"
  BY <1>1
<1>4. \A q \in Procs : IsRepairing(q)' => IsRepairing(q)
  BY <1>1, <1>2, <1>3 DEF IsRepairing
<1> QED
  BY <1>1, <1>2, <1>4 DEF RepairsInv, IsPlanOf

LEMMA InitRepairs == Init => RepairsInv
<1> SUFFICES ASSUME Init
             PROVE  RepairsInv
  OBVIOUS
<1>1. \A p \in Procs : pc[p] = "idle" /\ ~IsRepairing(p)
  BY DEF Init, IsRepairing
<1>2. table = Absent \/ IsSource(table)
  <2>1. PICK start \in Starts : table = start.table
    BY DEF Init
  <2> QED
    BY <2>1, FileStoreAssumption DEF IsSource
<1> QED
  BY <1>1, <1>2 DEF RepairsInv

(* Whatever is killed, fails or overlaps, a plan is executed on the bytes it *)
(* was made from, and while no power is lost the output is what the one      *)
(* repair that made it puts there (repair::plan, execute, write_new_file).   *)
THEOREM RepairsInvariant == ASSUME MarksAreApart PROVE Spec => []RepairsInv
<1>1. Init => RepairsInv
  BY InitRepairs
<1>2. AppendsInv /\ RepairsInv /\ [Next]_vars => RepairsInv'
  <2> SUFFICES ASSUME AppendsInv, RepairsInv, [Next]_vars
               PROVE  RepairsInv'
    OBVIOUS
  <2>1. ASSUME NEW p \in Procs, Step(p)
        PROVE  RepairsInv'
    BY <2>1, PlanRepairKeeps, CreateOutputKeeps, WriteOutputKeeps, OtherStepsKeepRepairs
       DEF Step
  <2>2. CASE SyncDirectory
    BY <2>2, RepairsStay DEF SyncDirectory, files
  <2>3. CASE PowerLoss
    BY <2>3, PowerLossKeepsRepairs
  <2>4. CASE Ended \/ UNCHANGED vars
    BY <2>4, RepairsStay DEF Ended, vars
  <2> QED
    BY <2>1, <2>2, <2>3, <2>4 DEF Next
<1> QED
  BY <1>1, <1>2, AppendsInvariant, PTL DEF Spec

(* repair::plan, execute, write_new_file: when a repair has ended well, its  *)
(* output is sealed, valid, needs no repair, and holds every row that was    *)
(* recoverable from the bytes its plan was made from.                        *)
THEOREM RepairsAreWhole == ASSUME MarksAreApart PROVE Spec => []RepairedIsWhole
<1>1. RepairsInv => RepairedIsWhole
  <2> SUFFICES ASSUME RepairsInv, powerLosses = 0, NEW p \in Procs,
                      command[p].kind \in {"repair", "reviewed"}, pc[p] = "done"
               PROVE  IsRepaired(out, hand[p].plan.source)
    BY DEF RepairedIsWhole
  <2> DEFINE plan == hand[p].plan
             source == plan.source
  <2>1. IsRepairing(p)
    BY DEF IsRepairing
  <2>2. /\ IsSource(source) /\ plan = Plan(source) /\ plan # Err
        /\ hand[p].result = Execute(source, plan) /\ hand[p].result # Err
        /\ out = hand[p].result
    BY <2>1 DEF RepairsInv, IsPlanOf
  <2> HIDE DEF plan, source
  <2>3. IsRepaired(Execute(source, plan), source)
    BY <2>2, RepairsOfAnyFile
  <2> QED
    BY <2>2, <2>3 DEF plan, source
<1> QED
  BY <1>1, RepairsInvariant, PTL
===============================================================================
