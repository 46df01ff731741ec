-------------------------- MODULE GitOutputProofs --------------------------
(***************************************************************************)
(* Proofs about GitOutput.  The progress of a clone: whatever the child    *)
(* writes, however its pipe cuts it and whoever closes the window when,    *)
(* the lines are whole and the row shows the last update.  Dates: both     *)
(* conversions of seconds give the author's calendar.  The detail panel's  *)
(* editor shows the panel's commit.  The sidebar shows the references of   *)
(* the repository, and an accepted URL has a name and a directory.  A      *)
(* patch is read back from its text whole, or the text is refused.         *)
(***************************************************************************)
EXTENDS GitOutput, FiniteSetTheorems, SequenceTheorems, TLAPS

(* Induction over the naturals, and the loops it reasons about. *)

(* Every set of naturals with an element has a least one: inclusion is well
   founded on the finite sets 0 .. n. *)
LEMMA LeastNatural ==
  ASSUME NEW T \in SUBSET Nat, T # {}
  PROVE  \E n \in T : \A m \in T : n <= m
<1>. DEFINE Below == {0 .. n : n \in T}
<1>1. Below \subseteq FiniteSubsetsOf(Nat)
  <2> SUFFICES ASSUME NEW n \in T PROVE 0 .. n \in FiniteSubsetsOf(Nat)
    OBVIOUS
  <2>1. n \in Nat /\ n \in Int /\ 0 \in Int /\ 0 .. n \subseteq Nat
    OBVIOUS
  <2>2. IsFiniteSet(0 .. n)
    BY <2>1, FS_Interval
  <2>. QED BY <2>1, <2>2 DEF FiniteSubsetsOf
<1>2. Below # {}
  OBVIOUS
<1>3. IsWellFoundedOn(StrictSubsetOrdering(Nat), FiniteSubsetsOf(Nat))
  BY FS_StrictSubsetOrderingWellFounded
<1>4. PICK least \in Below : \A s \in Below : <<s, least>> \notin StrictSubsetOrdering(Nat)
  <2>. HIDE DEF Below
  <2>. QED BY ONLY <1>1, <1>2, <1>3, WFMin
<1>5. PICK n \in T : least = 0 .. n
  OBVIOUS
<1>6. ASSUME NEW m \in T, m < n PROVE FALSE
  <2>1. m \in Nat /\ n \in Nat /\ 0 .. m \in Below
    OBVIOUS
  <2>2. /\ 0 .. m \subseteq 0 .. n /\ n \in 0 .. n /\ n \notin 0 .. m
        /\ 0 .. n \subseteq Nat /\ 0 .. m \subseteq Nat
    BY <1>6, <2>1
  <2>3. <<0 .. m, 0 .. n>> \in StrictSubsetOrdering(Nat)
    BY <2>2 DEF StrictSubsetOrdering
  <2>. QED BY <1>4, <1>5, <2>1, <2>3
<1>7. \A m \in T : m \in Nat /\ n \in Nat
  OBVIOUS
<1>. QED BY <1>6, <1>7

(* What a loop over 1 .. n has computed after each turn exists. *)
LoopRun(T, start, n, turn, f) ==
  f \in [0 .. n -> T] /\ f[0] = start /\ \A i \in 1 .. n : f[i] = turn[i][f[i - 1]]
HasRun(T, start, n, turn) == \E f : LoopRun(T, start, n, turn, f)

LEMMA LoopRuns ==
  ASSUME NEW T, NEW start \in T, NEW n \in Nat, NEW turn \in [1 .. n -> [T -> T]]
  PROVE  HasRun(T, start, n, turn)
<1>. DEFINE Runs(f, m) == LoopRun(T, start, m, turn, f)
<1>. DEFINE Stuck == {m \in 0 .. n : \A f : ~Runs(f, m)}
<1>1. SUFFICES Stuck = {}
  <2>1. n \in 0 .. n
    OBVIOUS
  <2>. QED BY <2>1, <1>1 DEF HasRun
<1>. USE DEF LoopRun
<1>2. SUFFICES ASSUME Stuck # {} PROVE FALSE
  OBVIOUS
<1>3. PICK m \in Stuck : \A k \in Stuck : m <= k
  <2>1. Stuck \in SUBSET Nat
    OBVIOUS
  <2>. HIDE DEF Stuck
  <2>. QED BY <1>2, <2>1, LeastNatural
<1>4. m \in 0 .. n /\ \A f : ~Runs(f, m)
  OBVIOUS
<1>5. m # 0
  <2>. DEFINE f == [i \in 0 .. 0 |-> start]
  <2>1. f \in [0 .. 0 -> T] /\ f[0] = start /\ 1 .. 0 = {}
    OBVIOUS
  <2>2. Runs(f, 0)
    BY <2>1
  <2>. QED BY <1>4, <2>2
<1>6. m - 1 \in 0 .. n /\ m - 1 \notin Stuck
  <2>1. m - 1 \in 0 .. n /\ ~(m <= m - 1)
    BY <1>4, <1>5
  <2>. HIDE DEF Stuck
  <2>. QED BY <1>3, <2>1
<1>7. PICK f : Runs(f, m - 1)
  BY <1>6
<1>. DEFINE longer == [i \in 0 .. m |-> IF i = m THEN turn[m][f[m - 1]] ELSE f[i]]
<1>8. f[m - 1] \in T /\ m \in 1 .. n
  BY <1>4, <1>5, <1>7
<1>9. turn[m][f[m - 1]] \in T
  BY <1>8
<1>10. longer \in [0 .. m -> T]
  BY <1>4, <1>5, <1>7, <1>9
<1>11. longer[0] = start
  BY <1>4, <1>5, <1>7
<1>12. ASSUME NEW i \in 1 .. m PROVE longer[i] = turn[i][longer[i - 1]]
  <2>1. i - 1 \in 0 .. m /\ i - 1 # m /\ i \in 0 .. m /\ (i # m => i \in 1 .. m - 1)
    BY <1>4, <1>5
  <2>2. longer[i - 1] = f[i - 1]
    BY <2>1
  <2>3. i # m => f[i] = turn[i][f[i - 1]]
    BY <1>7, <2>1
  <2>4. longer[i] = IF i = m THEN turn[m][f[m - 1]] ELSE f[i]
    BY <2>1
  <2>. HIDE DEF longer
  <2>. QED BY <2>2, <2>3, <2>4
<1>13. Runs(longer, m)
  <2>. HIDE DEF longer
  <2>. QED BY <1>10, <1>11, <1>12
<1>. QED BY <1>4, <1>13

(* What holds at 0 and after every turn if before it holds all along. *)
LEMMA CountsUp ==
  ASSUME NEW n \in Nat, NEW S, 0 \in S, \A i \in 1 .. n : i - 1 \in S => i \in S
  PROVE  \A i \in 0 .. n : i \in S
<1>. DEFINE Out == {i \in 0 .. n : i \notin S}
<1>1. SUFFICES ASSUME Out # {} PROVE FALSE
  OBVIOUS
<1>2. PICK i \in Out : \A k \in Out : i <= k
  <2>1. Out \in SUBSET Nat
    OBVIOUS
  <2>. HIDE DEF Out
  <2>. QED BY <1>1, <2>1, LeastNatural
<1>3. i \in 1 .. n /\ i - 1 \in 0 .. n /\ ~(i <= i - 1)
  OBVIOUS
<1>4. i - 1 \in S
  BY <1>2, <1>3
<1>. QED BY <1>3, <1>4

LEMMA LeastOf ==
  ASSUME NEW n \in Nat, NEW S \in SUBSET (0 .. n), S # {}
  PROVE  Min(S) \in S /\ \A i \in S : Min(S) <= i
<1>1. S \in SUBSET Nat
  OBVIOUS
<1>2. \E i \in S : \A j \in S : i <= j
  BY <1>1, LeastNatural
<1>. QED BY <1>2 DEF Min

LEMMA GreatestOf ==
  ASSUME NEW n \in Nat, NEW S \in SUBSET (0 .. n), S # {}
  PROVE  Max(S) \in S /\ \A i \in S : i <= Max(S)
<1>. DEFINE T == {n - k : k \in S}
<1>1. T \in SUBSET Nat /\ T # {}
  <2>1. \A k \in S : n - k \in Nat
    OBVIOUS
  <2>2. PICK k \in S : TRUE
    OBVIOUS
  <2>3. n - k \in T
    OBVIOUS
  <2>. QED BY <2>1, <2>3
<1>2. PICK t \in T : \A k \in T : t <= k
  <2>. HIDE DEF T
  <2>. QED BY <1>1, LeastNatural
<1>3. PICK i \in S : t = n - i
  OBVIOUS
<1>4. \A j \in S : j <= i
  <2>. TAKE j \in S
  <2>1. n - j \in {n - k : k \in S}
    OBVIOUS
  <2>3. j \in Nat /\ i \in Nat
    OBVIOUS
  <2>2. n - i <= n - j
    BY <1>2, <1>3, <2>1
  <2>. QED BY <2>3, <2>2
<1>5. \E i_ \in S : \A j \in S : i_ >= j
  BY <1>4
<1>6. \A j \in S : Max(S) >= j
  BY <1>5 DEF Max
<1>7. Max(S) \in S
  BY <1>5 DEF Max
<1>8. \A j \in S : j \in Int
  OBVIOUS
<1>. QED BY <1>6, <1>7, <1>8

----------------------------------------------------------------------------
(* FlattenSeq *)

LEMMA Regrouped == \A s, t, u \in Seq(Nat) : (s \o t) \o u = s \o (t \o u)
OBVIOUS

Regroups(s, t, u) == (s \o t) \o u = s \o (t \o u)
Recuts(j, b, c, l, o) == b \o c = l \o o => (j \o b) \o c = (j \o l) \o o

LEMMA RegroupedTwice == \A j, b, c, l, o \in Seq(Nat) : Recuts(j, b, c, l, o)
<1>1. \A s, t, u \in Seq(Nat) : Regroups(s, t, u)
  BY Regrouped DEF Regroups
<1>. SUFFICES ASSUME NEW j \in Seq(Nat), NEW b \in Seq(Nat), NEW c \in Seq(Nat),
                     NEW l \in Seq(Nat), NEW o \in Seq(Nat), b \o c = l \o o
              PROVE  (j \o b) \o c = (j \o l) \o o
  BY DEF Recuts
<1>2. Regroups(j, b, c) /\ Regroups(j, l, o)
  BY ONLY <1>1
<1>. QED BY <1>2, Zenon DEF Regroups

FlattenRun(T, seqs, run) ==
  /\ run \in [0 .. Len(seqs) -> Seq(T)]
  /\ run[0] = <<>>
  /\ \A i \in 1 .. Len(seqs) : run[i] = run[i - 1] \o seqs[i]
  /\ run[Len(seqs)] = FlattenSeq(seqs)

LEMMA Flattened ==
  ASSUME NEW T, NEW seqs \in Seq(Seq(T))
  PROVE  \E run : FlattenRun(T, seqs, run)
<1>. DEFINE n == Len(seqs)
            S == Seq(T)
            turn == [i \in 1 .. n |-> [s \in S |-> s \o seqs[i]]]
            IsLoop(f) == f = [i \in 1 .. n |-> IF i = 1 THEN seqs[i] ELSE f[i - 1] \o seqs[i]]
            flatten == CHOOSE f : IsLoop(f)
<1>1. n \in Nat /\ DOMAIN seqs = 1 .. n /\ \A i \in 1 .. n : seqs[i] \in S
  BY LenProperties, ElementOfSeq
<1>2. FlattenSeq(seqs) = IF n = 0 THEN seqs ELSE flatten[n]
  BY DEF FlattenSeq
<1>. HIDE DEF n
<1>3. \A i \in 1 .. n, s \in S : s \o seqs[i] \in S
  BY <1>1, ConcatProperties
<1>4. <<>> \in S /\ \A s \in S : <<>> \o s = s
  BY EmptySeq, ConcatEmptySeq
<1>5. PICK run \in [0 .. n -> S] :
             run[0] = <<>> /\ \A i \in 1 .. n : run[i] = run[i - 1] \o seqs[i]
  <2>1. turn \in [1 .. n -> [S -> S]] /\ \A i \in 1 .. n, s \in S : turn[i][s] = s \o seqs[i]
    <3>. HIDE DEF S
    <3>. QED BY <1>3
  <2>. HIDE DEF turn, S
  <2>2. HasRun(S, <<>>, n, turn)
    BY <1>1, <1>4, <2>1, LoopRuns
  <2>3. PICK run \in [0 .. n -> S] :
               run[0] = <<>> /\ \A i \in 1 .. n : run[i] = turn[i][run[i - 1]]
    BY <2>2 DEF HasRun, LoopRun
  <2>4. \A i \in 1 .. n : run[i - 1] \in S
    BY <1>1, <2>3
  <2>5. \A i \in 1 .. n : run[i] = run[i - 1] \o seqs[i]
    BY <2>1, <2>3, <2>4
  <2>. QED BY <2>3, <2>5
<1>12. ASSUME NEW i \in 1 .. n, i = 1 PROVE run[i] = seqs[i]
  <2>1. i - 1 = 0 /\ run[i] = run[i - 1] \o seqs[i] /\ run[0] = <<>>
    <3>1. i - 1 = 0
      BY <1>12
    <3>. QED BY <1>5, <3>1
  <2>2. run[i] = <<>> \o seqs[i]
    BY ONLY <2>1
  <2>3. seqs[i] \in S
    BY <1>1
  <2>. QED BY <1>4, <2>2, <2>3
<1>. HIDE DEF S
<1>6. IsLoop([i \in 1 .. n |-> run[i]])
  <2>. DEFINE f == [i \in 1 .. n |-> run[i]]
  <2>1. ASSUME NEW i \in 1 .. n
        PROVE  f[i] = IF i = 1 THEN seqs[i] ELSE f[i - 1] \o seqs[i]
    <3>1. CASE i = 1
      BY <1>12, <3>1
    <3>2. CASE i # 1
      <4>1. i - 1 \in 1 .. n
        BY <1>1, <3>2
      <4>. QED BY <1>5, <3>2, <4>1
    <3>. QED BY <3>1, <3>2
  <2>. QED BY <2>1
<1>7. IsLoop(flatten)
  BY <1>6
<1>. HIDE DEF flatten
<1>8. \A i \in 1 .. n : flatten[i] = IF i = 1 THEN seqs[i] ELSE flatten[i - 1] \o seqs[i]
  BY <1>7
<1>9. ASSUME n # 0 PROVE flatten[n] = run[n]
  <2>. DEFINE Same == {i \in 0 .. n : i = 0 \/ flatten[i] = run[i]}
  <2>1. 0 \in Same
    BY <1>1
  <2>2. ASSUME NEW i \in 1 .. n, i - 1 \in Same PROVE i \in Same
    <3>1. CASE i = 1
      <4>1. flatten[i] = seqs[i] /\ run[i] = seqs[i]
        BY <1>8, <1>12, <3>1
      <4>. QED BY <1>1, <4>1
    <3>2. CASE i # 1
      <4>1. flatten[i] = flatten[i - 1] \o seqs[i]
        BY <1>8, <3>2
      <4>2. i - 1 \in Same /\ i - 1 # 0 /\ i \in 0 .. n
        BY <1>1, <2>2, <3>2
      <4>3. flatten[i - 1] = run[i - 1]
        BY <4>2
      <4>4. run[i] = run[i - 1] \o seqs[i]
        BY <1>5
      <4>. QED BY <4>1, <4>2, <4>3, <4>4
    <3>. QED BY <3>1, <3>2
  <2>. HIDE DEF Same
  <2>3. \A i \in 0 .. n : i \in Same
    BY <1>1, <2>1, <2>2, CountsUp
  <2>4. n \in Same
    BY <1>1, <2>3
  <2>. QED BY <1>9, <2>4 DEF Same
<1>10. n = 0 => seqs = <<>>
  BY <1>1 DEF n
<1>11. run[n] = FlattenSeq(seqs)
  BY <1>2, <1>5, <1>9, <1>10
<1>. QED BY <1>5, <1>11 DEF FlattenRun, n, S

LEMMA FlattenedConcat ==
  ASSUME NEW T, NEW a \in Seq(Seq(T)), NEW b \in Seq(Seq(T))
  PROVE  /\ FlattenSeq(a) \in Seq(T)
         /\ FlattenSeq(a \o b) = FlattenSeq(a) \o FlattenSeq(b)
<1>. DEFINE S == Seq(T)
<1>1. a \o b \in Seq(S) /\ Len(a \o b) = Len(a) + Len(b) /\ Len(a) \in Nat /\ Len(b) \in Nat
  BY ConcatProperties, LenProperties
<1>2. /\ \A i \in 1 .. Len(a) : (a \o b)[i] = a[i] /\ a[i] \in S
      /\ \A i \in 1 .. Len(b) : (a \o b)[Len(a) + i] = b[i] /\ b[i] \in S
  BY <1>1, ConcatProperties, ElementOfSeq
<1>3. PICK whole : FlattenRun(T, a \o b, whole)
  BY <1>1, Flattened
<1>4. PICK left : FlattenRun(T, a, left)
  BY Flattened
<1>5. PICK right : FlattenRun(T, b, right)
  BY Flattened
<1>. HIDE DEF S
<1>9. \A s, t, u \in Seq(T) : (s \o t) \o u = s \o (t \o u)
  OBVIOUS
<1>6. whole[Len(a)] = left[Len(a)]
  <2>. DEFINE Same == {i \in 0 .. Len(a) : whole[i] = left[i]}
  <2>1. 0 \in Same
    BY <1>1, <1>3, <1>4 DEF FlattenRun
  <2>2. ASSUME NEW i \in 1 .. Len(a), i - 1 \in Same PROVE i \in Same
    <3>1. i \in 1 .. Len(a \o b) /\ i \in 0 .. Len(a)
      BY <1>1
    <3>2. whole[i] = whole[i - 1] \o a[i] /\ left[i] = left[i - 1] \o a[i]
      BY <1>2, <1>3, <1>4, <3>1 DEF FlattenRun
    <3>. QED BY <2>2, <3>1, <3>2
  <2>. HIDE DEF Same
  <2>3. \A i \in 0 .. Len(a) : i \in Same
    BY <1>1, <2>1, <2>2, CountsUp
  <2>4. Len(a) \in Same
    BY <1>1, <2>3
  <2>. QED BY <2>4 DEF Same
<1>7. left[Len(a)] \in Seq(T) /\ \A i \in 0 .. Len(b) : right[i] \in Seq(T)
  <2>1. left \in [0 .. Len(a) -> S] /\ right \in [0 .. Len(b) -> S] /\ Len(a) \in 0 .. Len(a)
    BY <1>1, <1>4, <1>5 DEF FlattenRun, S
  <2>2. left[Len(a)] \in S /\ \A i \in 0 .. Len(b) : right[i] \in S
    BY <2>1
  <2>. QED BY <2>2 DEF S
<1>8. whole[Len(a) + Len(b)] = left[Len(a)] \o right[Len(b)]
  <2>. DEFINE Same == {i \in 0 .. Len(b) : whole[Len(a) + i] = left[Len(a)] \o right[i]}
  <2>1. 0 \in Same
    <3>1. right[0] = <<>> /\ Len(a) + 0 = Len(a)
      BY <1>1, <1>5 DEF FlattenRun
    <3>2. left[Len(a)] \o <<>> = left[Len(a)]
      BY <1>7, ConcatEmptySeq
    <3>3. left[Len(a)] \o right[0] = left[Len(a)] /\ whole[Len(a) + 0] = left[Len(a)]
      BY <1>6, <3>1, <3>2
    <3>4. 0 \in 0 .. Len(b)
      BY <1>1
    <3>. QED BY <3>3, <3>4
  <2>2. ASSUME NEW i \in 1 .. Len(b), i - 1 \in Same PROVE i \in Same
    <3>1. /\ Len(a) + i \in 1 .. Len(a \o b) /\ (Len(a) + i) - 1 = Len(a) + (i - 1)
          /\ i \in 0 .. Len(b) /\ i - 1 \in 0 .. Len(b)
      BY <1>1
    <3>2. whole[Len(a) + i] = whole[Len(a) + (i - 1)] \o b[i]
      BY <1>2, <1>3, <3>1 DEF FlattenRun
    <3>3. right[i] = right[i - 1] \o b[i]
      BY <1>5 DEF FlattenRun
    <3>4. whole[Len(a) + (i - 1)] = left[Len(a)] \o right[i - 1]
      BY <2>2
    <3>5. b[i] \in Seq(T)
      BY <1>2 DEF S
    <3>6. (left[Len(a)] \o right[i - 1]) \o b[i] = left[Len(a)] \o (right[i - 1] \o b[i])
      <4>1. left[Len(a)] \in Seq(T) /\ right[i - 1] \in Seq(T)
        BY <1>7, <3>1
      <4>. QED BY ONLY <1>9, <3>5, <4>1
    <3>. QED BY <3>1, <3>2, <3>3, <3>4, <3>6
  <2>. HIDE DEF Same
  <2>3. \A i \in 0 .. Len(b) : i \in Same
    BY <1>1, <2>1, <2>2, CountsUp
  <2>4. Len(b) \in Same
    BY <1>1, <2>3
  <2>. QED BY <2>4 DEF Same
<1>. QED BY <1>1, <1>3, <1>4, <1>5, <1>7, <1>8 DEF FlattenRun

LEMMA FlattenedOne ==
  ASSUME NEW T, NEW s \in Seq(T)
  PROVE  FlattenSeq(<<s>>) = s
<1>1. <<s>> \in Seq(Seq(T)) /\ Len(<<s>>) = 1 /\ <<s>>[1] = s
  OBVIOUS
<1>2. PICK run : FlattenRun(T, <<s>>, run)
  BY <1>1, Flattened
<1>3. run[1] = <<>> \o s
  <2>1. 1 \in 1 .. Len(<<s>>) /\ 1 - 1 = 0
    BY <1>1
  <2>2. run[1] = run[1 - 1] \o <<s>>[1] /\ run[0] = <<>>
    BY <1>2, <2>1 DEF FlattenRun
  <2>. QED BY <1>1, <2>1, <2>2
<1>. QED BY <1>1, <1>2, <1>3, ConcatEmptySeq DEF FlattenRun

----------------------------------------------------------------------------
(* The lines of a stream, and the updates they are *)

Maps(f, S, R) == f \in [S -> R]
Pieces(piece, s) == [i \in DOMAIN s |-> piece[s[i]]]

LEMMA PiecesConcat ==
  ASSUME NEW S, NEW R, NEW piece, Maps(piece, S, R), NEW a \in Seq(S), NEW b \in Seq(S)
  PROVE  /\ Pieces(piece, a) \in Seq(R)
         /\ Pieces(piece, a \o b) = Pieces(piece, a) \o Pieces(piece, b)
<1>1. ASSUME NEW s \in Seq(S)
      PROVE  /\ Pieces(piece, s) \in Seq(R) /\ Len(Pieces(piece, s)) = Len(s)
             /\ \A i \in 1 .. Len(s) : Pieces(piece, s)[i] = piece[s[i]]
  <2>1. DOMAIN s = 1 .. Len(s) /\ Len(s) \in Nat /\ \A i \in 1 .. Len(s) : s[i] \in S
    BY LenProperties, ElementOfSeq
  <2>. QED BY <2>1 DEF Pieces, Maps
<1>2. /\ a \o b \in Seq(S) /\ Len(a) \in Nat /\ Len(b) \in Nat
      /\ Len(a \o b) = Len(a) + Len(b)
      /\ \A i \in 1 .. Len(a) + Len(b) :
           (a \o b)[i] = IF i <= Len(a) THEN a[i] ELSE b[i - Len(a)]
  BY LenProperties, ConcatProperties
<1>3. PICK x \in Seq(R) : x = Pieces(piece, a)
  BY <1>1
<1>4. PICK y \in Seq(R) : y = Pieces(piece, b)
  BY <1>1
<1>5. PICK z \in Seq(R) : z = Pieces(piece, a \o b)
  BY <1>1, <1>2
<1>6. /\ Len(x) = Len(a) /\ Len(y) = Len(b) /\ Len(z) = Len(a) + Len(b)
      /\ \A i \in 1 .. Len(a) : x[i] = piece[a[i]]
      /\ \A i \in 1 .. Len(b) : y[i] = piece[b[i]]
      /\ \A i \in 1 .. Len(a) + Len(b) : z[i] = piece[(a \o b)[i]]
  BY <1>1, <1>2, <1>3, <1>4, <1>5
<1>7. /\ x \o y \in Seq(R) /\ Len(x \o y) = Len(a) + Len(b)
      /\ \A i \in 1 .. Len(a) + Len(b) :
           (x \o y)[i] = IF i <= Len(a) THEN x[i] ELSE y[i - Len(a)]
  <2>1. /\ x \o y \in Seq(R) /\ Len(x \o y) = Len(x) + Len(y)
        /\ \A i \in 1 .. Len(x) + Len(y) :
             (x \o y)[i] = IF i <= Len(x) THEN x[i] ELSE y[i - Len(x)]
    BY ConcatProperties
  <2>. QED BY <1>6, <2>1
<1>8. ASSUME NEW i \in 1 .. Len(a) + Len(b) PROVE z[i] = (x \o y)[i]
  <2>1. CASE i <= Len(a)
    <3>1. i \in 1 .. Len(a)
      BY <1>2, <2>1
    <3>. QED BY <1>2, <1>6, <1>7, <2>1, <3>1
  <2>2. CASE ~(i <= Len(a))
    <3>1. i - Len(a) \in 1 .. Len(b)
      BY <1>2, <2>2
    <3>. QED BY <1>2, <1>6, <1>7, <2>2, <3>1
  <2>. QED BY <2>1, <2>2
<1>9. z = x \o y
  BY <1>6, <1>7, <1>8, SeqEqual
<1>. QED BY <1>3, <1>4, <1>5, <1>9

(* What is gathered of two lists of lines is gathered of one and then of the
   other. *)
LEMMA GatheredConcat ==
  ASSUME NEW S, NEW T, NEW piece, Maps(piece, S, Seq(T)), NEW a \in Seq(S), NEW b \in Seq(S)
  PROVE  /\ FlattenSeq(Pieces(piece, a)) \in Seq(T)
         /\ FlattenSeq(Pieces(piece, a \o b))
              = FlattenSeq(Pieces(piece, a)) \o FlattenSeq(Pieces(piece, b))
<1>1. PICK x \in Seq(Seq(T)) : x = Pieces(piece, a)
  BY PiecesConcat
<1>2. PICK y \in Seq(Seq(T)) : y = Pieces(piece, b)
  BY PiecesConcat
<1>3. Pieces(piece, a \o b) = x \o y
  <2>1. Pieces(piece, a \o b) = Pieces(piece, a) \o Pieces(piece, b)
    BY PiecesConcat
  <2>. QED BY <1>1, <1>2, <2>1
<1>4. FlattenSeq(x) \in Seq(T) /\ FlattenSeq(x \o y) = FlattenSeq(x) \o FlattenSeq(y)
  BY FlattenedConcat
<1>. QED BY <1>1, <1>2, <1>3, <1>4

LEMMA JoinedConcat ==
  ASSUME NEW a \in Seq(Seq(Nat)), NEW b \in Seq(Seq(Nat))
  PROVE  Joined(a) \in Seq(Nat) /\ Joined(a \o b) = Joined(a) \o Joined(b)
<1>. DEFINE ended == [line \in Seq(Nat) |-> Append(line, 0)]
<1>1. Maps(ended, Seq(Nat), Seq(Nat))
  BY AppendProperties DEF Maps
<1>2. ASSUME NEW lines \in Seq(Seq(Nat))
      PROVE  Joined(lines) = FlattenSeq(Pieces(ended, lines))
  <2>1. \A i \in DOMAIN lines : lines[i] \in Seq(Nat)
    BY LenProperties, ElementOfSeq
  <2>2. [i \in DOMAIN lines |-> Append(lines[i], 0)] = Pieces(ended, lines)
    BY <2>1 DEF Pieces
  <2>. QED BY <2>2 DEF Joined
<1>3. a \o b \in Seq(Seq(Nat))
  BY ConcatProperties
<1>. HIDE DEF ended
<1>4. /\ FlattenSeq(Pieces(ended, a)) \in Seq(Nat)
      /\ FlattenSeq(Pieces(ended, a \o b))
           = FlattenSeq(Pieces(ended, a)) \o FlattenSeq(Pieces(ended, b))
  BY <1>1, GatheredConcat
<1>. QED BY <1>2, <1>3, <1>4

(* The updates there are. *)
Update == {ParseProgressLine(line) : line \in Seq(Nat)} \ {NoUpdate}

LEMMA RecognisedConcat ==
  ASSUME NEW a \in Seq(Seq(Nat)), NEW b \in Seq(Seq(Nat))
  PROVE  /\ Recognised(a) \in Seq(Update)
         /\ Recognised(a \o b) = Recognised(a) \o Recognised(b)
<1>. DEFINE sent == [line \in Seq(Nat) |-> Sent(line)]
<1>1. Maps(sent, Seq(Nat), Seq(Update))
  <2>1. ASSUME NEW line \in Seq(Nat) PROVE Sent(line) \in Seq(Update)
    <3>1. ParseProgressLine(line) # NoUpdate => ParseProgressLine(line) \in Update
      BY DEF Update
    <3>. HIDE DEF Update
    <3>. QED BY <3>1 DEF Sent
  <2>. QED BY <2>1 DEF Maps
<1>2. ASSUME NEW lines \in Seq(Seq(Nat))
      PROVE  Recognised(lines) = FlattenSeq(Pieces(sent, lines))
  <2>1. \A i \in DOMAIN lines : lines[i] \in Seq(Nat)
    BY LenProperties, ElementOfSeq
  <2>2. [i \in DOMAIN lines |-> Sent(lines[i])] = Pieces(sent, lines)
    BY <2>1 DEF Pieces
  <2>. QED BY <2>2 DEF Recognised
<1>3. a \o b \in Seq(Seq(Nat))
  BY ConcatProperties
<1>. HIDE DEF sent
<1>4. /\ FlattenSeq(Pieces(sent, a)) \in Seq(Update)
      /\ FlattenSeq(Pieces(sent, a \o b))
           = FlattenSeq(Pieces(sent, a)) \o FlattenSeq(Pieces(sent, b))
  BY <1>1, GatheredConcat
<1>. QED BY <1>2, <1>3, <1>4

LEMMA NothingGathered == Joined(<<>>) = <<>> /\ Recognised(<<>>) = <<>>
BY DEF Joined, Recognised, FlattenSeq

LEMMA JoinedOne ==
  ASSUME NEW line \in Seq(Nat)
  PROVE  Joined(<<line>>) = Append(line, 0)
<1>1. Append(line, 0) \in Seq(Nat)
  BY AppendProperties
<1>2. [i \in DOMAIN <<line>> |-> Append(<<line>>[i], 0)] = <<Append(line, 0)>>
  OBVIOUS
<1>. QED BY <1>1, <1>2, FlattenedOne DEF Joined

(* The bytes fed are the lines handed out, with their terminators, and the
   remainder. *)
LEMMA FedWhole ==
  ASSUME NEW bytes \in Seq(Nat)
  PROVE  /\ ClosedLines(bytes) \in Seq(Seq(Nat))
         /\ \A i \in DOMAIN ClosedLines(bytes) : Unbroken(ClosedLines(bytes)[i])
         /\ Remainder(bytes) \in Seq(Nat) /\ Unbroken(Remainder(bytes))
         /\ bytes = Joined(ClosedLines(bytes)) \o Remainder(bytes)
<1>. DEFINE n == Len(bytes)
            State == [lines : Seq(Seq(Nat)), start : Nat \ {0}]
            Turn(i, before) ==
              IF bytes[i] = 0
              THEN [lines |-> Append(before.lines, SubSeq(bytes, before.start, i - 1)),
                    start |-> i + 1]
              ELSE before
            IsLoop(f) == f = [i \in 0 .. n |-> IF i = 0 THEN [lines |-> <<>>, start |-> 1]
                                               ELSE Turn(i, f[i - 1])]
            scan == CHOOSE f : IsLoop(f)
            turn == [i \in 1 .. n |-> [before \in State |-> Turn(i, before)]]
            none_ == [lines |-> <<>>, start |-> 1]
<1>1. n \in Nat /\ \A i \in 1 .. n : bytes[i] \in Nat
  BY LenProperties, ElementOfSeq
<1>2. Fed(bytes) = scan[n]
  BY DEF Fed
<1>. HIDE DEF n
<1>3. ASSUME NEW i \in 1 .. n, NEW m \in Nat \ {0}
      PROVE  SubSeq(bytes, m, i - 1) \in Seq(Nat)
  <2>1. \A k \in m .. i - 1 : bytes[k] \in Nat
    BY <1>1
  <2>. QED BY <1>1, <2>1, SubSeqProperties
<1>4. ASSUME NEW i \in 1 .. n, NEW before \in State PROVE Turn(i, before) \in State
  <2>1. SubSeq(bytes, before.start, i - 1) \in Seq(Nat) /\ i + 1 \in Nat \ {0}
    BY <1>1, <1>3
  <2>2. Append(before.lines, SubSeq(bytes, before.start, i - 1)) \in Seq(Seq(Nat))
    BY <2>1, AppendProperties
  <2>. QED BY <2>1, <2>2
<1>5. none_ \in State
  BY EmptySeq
<1>6. PICK f \in [0 .. n -> State] : f[0] = none_ /\ \A i \in 1 .. n : f[i] = Turn(i, f[i - 1])
  <2>1. turn \in [1 .. n -> [State -> State]]
        /\ \A i \in 1 .. n, before \in State : turn[i][before] = Turn(i, before)
    <3>. HIDE DEF State, Turn
    <3>. QED BY <1>4
  <2>. HIDE DEF turn, State, Turn, none_
  <2>2. HasRun(State, none_, n, turn)
    BY <1>1, <1>5, <2>1, LoopRuns
  <2>3. PICK f \in [0 .. n -> State] : f[0] = none_ /\ \A i \in 1 .. n : f[i] = turn[i][f[i - 1]]
    BY <2>2 DEF HasRun, LoopRun
  <2>4. \A i \in 1 .. n : f[i - 1] \in State
    BY <1>1, <2>3
  <2>. QED BY <2>1, <2>3, <2>4
<1>7. IsLoop(f)
  <2>. HIDE DEF Turn, State
  <2>1. f[0] = none_ /\ \A i \in 0 .. n : i # 0 => i \in 1 .. n
    BY <1>1, <1>6
  <2>2. \A i \in 0 .. n : f[i] = IF i = 0 THEN [lines |-> <<>>, start |-> 1] ELSE Turn(i, f[i - 1])
    BY <1>6, <2>1
  <2>. QED BY <1>6, <2>2
<1>8. IsLoop(scan)
  <2>. HIDE DEF Turn
  <2>. QED BY <1>7
<1>. HIDE DEF scan
<1>9. scan[0] = none_ /\ \A i \in 1 .. n : scan[i] = Turn(i, scan[i - 1])
  <2>. HIDE DEF Turn
  <2>1. \A i \in 0 .. n : scan[i] = IF i = 0 THEN none_ ELSE Turn(i, scan[i - 1])
    BY <1>8
  <2>2. 0 \in 0 .. n /\ \A i \in 1 .. n : i \in 0 .. n /\ i # 0
    BY <1>1
  <2>. QED BY <2>1, <2>2
<1>. DEFINE Open(i) == SubSeq(bytes, scan[i].start, i)
            Read(i) == SubSeq(bytes, 1, i)
            Good(i) == /\ scan[i] \in State /\ scan[i].start \in 1 .. i + 1
                       /\ \A k \in DOMAIN scan[i].lines : Unbroken(scan[i].lines[k])
                       /\ Open(i) \in Seq(Nat) /\ Unbroken(Open(i))
                       /\ Read(i) \in Seq(Nat) /\ Read(i) = Joined(scan[i].lines) \o Open(i)
<1>10. Good(0)
  <2>1. scan[0].lines = <<>> /\ scan[0].start = 1 /\ scan[0] \in State
    BY <1>5, <1>9
  <2>2. SubSeq(bytes, 1, 0) = <<>>
    BY SubSeqEmpty
  <2>3. <<>> \in Seq(Nat) /\ <<>> \o <<>> = <<>> /\ DOMAIN <<>> = {}
    BY EmptySeq, ConcatEmptySeq
  <2>. QED BY <2>1, <2>2, <2>3, NothingGathered DEF Unbroken
<1>11. ASSUME NEW i \in 1 .. n, Good(i - 1) PROVE Good(i)
  <2>. DEFINE lines == scan[i - 1].lines
              start == scan[i - 1].start
              open == SubSeq(bytes, start, i - 1)
              line == SubSeq(bytes, start, i)
  <2>1. /\ lines \in Seq(Seq(Nat)) /\ start \in 1 .. i /\ open \in Seq(Nat) /\ Unbroken(open)
        /\ \A k \in DOMAIN lines : Unbroken(lines[k])
        /\ SubSeq(bytes, 1, i - 1) = Joined(lines) \o open
    <3>1. scan[i - 1] \in State /\ start \in 1 .. (i - 1) + 1
      BY <1>11
    <3>2. /\ open \in Seq(Nat) /\ Unbroken(open)
          /\ SubSeq(bytes, 1, i - 1) = Joined(lines) \o open
      BY <1>11
    <3>3. \A k \in DOMAIN lines : Unbroken(lines[k])
      BY <1>11
    <3>4. lines \in Seq(Seq(Nat)) /\ (i - 1) + 1 = i
      BY <1>1, <3>1
    <3>. HIDE DEF lines, start, open
    <3>. QED BY <3>1, <3>2, <3>3, <3>4
  <2>2. scan[i] = Turn(i, scan[i - 1]) /\ scan[i - 1] \in State
    BY <1>9, <1>11
  <2>3. i \in 1 .. Len(bytes) /\ bytes[i] \in Nat /\ i \in Nat
    BY <1>1 DEF n
  <2>4. /\ SubSeq(bytes, 1, i) = SubSeq(bytes, 1, i - 1) \o <<bytes[i]>>
        /\ line = open \o <<bytes[i]>> /\ line = Append(open, bytes[i])
    <3>1. SubSeq(bytes, 1, i) = SubSeq(bytes, 1, i - 1) \o <<bytes[i]>>
      BY <2>3, SubSeqRecursiveSecond
    <3>2. start \in 1 .. Len(bytes) /\ i \in start .. Len(bytes)
      BY <2>1, <2>3
    <3>3. line = open \o <<bytes[i]>>
      BY <3>2, SubSeqRecursiveSecond
    <3>. HIDE DEF open, line, start
    <3>. QED BY <2>1, <2>3, <3>1, <3>3, AppendIsConcat
  <2>5. Joined(lines) \in Seq(Nat) /\ <<bytes[i]>> \in Seq(Nat)
    <3>. HIDE DEF lines
    <3>1. Joined(lines) \in Seq(Nat)
      BY <2>1, JoinedConcat
    <3>. QED BY <2>3, <3>1
  <2>6. SubSeq(bytes, 1, i) = Joined(lines) \o line /\ line \in Seq(Nat)
        /\ SubSeq(bytes, 1, i) \in Seq(Nat)
    <3>. HIDE DEF open, line, lines
    <3>1. PICK j \in Seq(Nat) : j = Joined(lines)
      BY <2>5
    <3>2. PICK o \in Seq(Nat) : o = open
      BY <2>1
    <3>3. PICK b \in Seq(Nat) : b = <<bytes[i]>>
      BY <2>5
    <3>4. SubSeq(bytes, 1, i) = (j \o o) \o b /\ line = o \o b
      BY <2>1, <2>4, <3>1, <3>2, <3>3
    <3>5. (j \o o) \o b = j \o (o \o b)
      BY ONLY <3>1, <3>2, <3>3, Regrouped
    <3>6. o \o b \in Seq(Nat) /\ j \o (o \o b) \in Seq(Nat)
      BY ConcatProperties
    <3>. QED BY <3>1, <3>4, <3>5, <3>6
  <2>7. scan[i] \in State
    BY <1>4, <2>2
  <2>8. CASE bytes[i] # 0
    <3>1. scan[i].lines = lines /\ scan[i].start = start
      BY <2>2, <2>8
    <3>2. Open(i) = line
      BY <3>1
    <3>3. Unbroken(line)
      <4>. HIDE DEF open, line
      <4>. QED BY <2>1, <2>3, <2>4, <2>8, AppendProperties DEF Unbroken
    <3>4. Read(i) = Joined(scan[i].lines) \o Open(i) /\ Read(i) \in Seq(Nat)
      BY <2>6, <3>1, <3>2
    <3>5. scan[i].start \in 1 .. i + 1
      <4>. HIDE DEF start
      <4>. QED BY <2>1, <2>3, <3>1
    <3>6. \A k \in DOMAIN scan[i].lines : Unbroken(scan[i].lines[k])
      <4>. HIDE DEF lines
      <4>. QED BY <2>1, <3>1
    <3>7. Open(i) \in Seq(Nat) /\ Unbroken(Open(i))
      BY <2>6, <3>2, <3>3
    <3>. HIDE DEF Open, Read, State
    <3>. QED BY <2>7, <3>4, <3>5, <3>6, <3>7
  <2>9. CASE bytes[i] = 0
    <3>1. scan[i].lines = Append(lines, open) /\ scan[i].start = i + 1
      <4>1. scan[i] = [lines |-> Append(lines, open), start |-> i + 1]
        <5>. HIDE DEF State
        <5>. QED BY <2>2, <2>9
      <4>. HIDE DEF lines, open
      <4>. QED BY <4>1
    <3>2. Open(i) = <<>>
      BY <2>3, <3>1, SubSeqEmpty
    <3>3. Append(lines, open) = lines \o <<open>> /\ <<open>> \in Seq(Seq(Nat))
      <4>. HIDE DEF lines, open
      <4>. QED BY <2>1, AppendIsConcat
    <3>4. Joined(Append(lines, open)) = Joined(lines) \o Append(open, 0)
      <4>. HIDE DEF lines, open
      <4>. QED BY <2>1, <3>3, JoinedConcat, JoinedOne
    <3>5. Read(i) = Joined(scan[i].lines) \o <<>> /\ Read(i) \in Seq(Nat)
      <4>1. Joined(scan[i].lines) = Read(i)
        BY <2>4, <2>6, <2>9, <3>1, <3>4
      <4>. QED BY <2>6, <4>1, ConcatEmptySeq
    <3>6. \A k \in DOMAIN scan[i].lines : Unbroken(scan[i].lines[k])
      <4>. HIDE DEF lines, open
      <4>. QED BY <2>1, <3>1, AppendProperties, LenProperties
    <3>7. Unbroken(<<>>) /\ <<>> \in Seq(Nat)
      BY EmptySeq DEF Unbroken
    <3>8. scan[i].start \in 1 .. i + 1
      BY <2>3, <3>1
    <3>9. Open(i) \in Seq(Nat) /\ Unbroken(Open(i)) /\ Read(i) = Joined(scan[i].lines) \o Open(i)
      BY <3>2, <3>5, <3>7
    <3>. HIDE DEF Open, Read, State
    <3>. QED BY <2>7, <3>5, <3>6, <3>8, <3>9
  <2>. QED BY <2>8, <2>9
<1>12. Good(n)
  <2>. DEFINE Fine == {i \in 0 .. n : Good(i)}
  <2>1. 0 \in Fine
    BY <1>1, <1>10
  <2>2. ASSUME NEW i \in 1 .. n, i - 1 \in Fine PROVE i \in Fine
    <3>1. Good(i - 1)
      BY <2>2
    <3>. HIDE DEF Good
    <3>. QED BY <1>1, <1>11, <3>1
  <2>. HIDE DEF Fine
  <2>3. \A i \in 0 .. n : i \in Fine
    BY <1>1, <2>1, <2>2, CountsUp
  <2>4. n \in Fine
    BY <1>1, <2>3
  <2>. QED BY <2>4 DEF Fine
<1>13. Remainder(bytes) = Open(n) /\ ClosedLines(bytes) = scan[n].lines
  BY <1>2 DEF Remainder, ClosedLines, n
<1>14. Read(n) = bytes
  BY SubSeqFull DEF n
<1>. QED BY <1>12, <1>13, <1>14

----------------------------------------------------------------------------
(* The invariant of a clone *)

PipesTypes ==
  /\ script \in Seq([to : {"out", "err"}, byte : Nat])
  /\ pipe \in [out : Seq(Nat), err : Seq(Nat)]
  /\ readBytes \in Seq(Nat) /\ buffer \in Seq(Nat) /\ handed \in Seq(Seq(Nat))
  /\ channel \in Seq(Update)
  /\ mailbox \in [latest : Update \cup {NoUpdate}, disconnected : BOOLEAN]
  /\ shown \in Seq({CloningRow(progress) : progress \in Update})

(* What was read is what was handed out and what waits for its end. *)
LinesKept ==
  /\ readBytes = Joined(handed) \o buffer
  /\ Unbroken(buffer) /\ \A i \in DOMAIN handed : Unbroken(handed[i])

(* How many updates the pump has taken: the others are in the channel. *)
Taken == Len(Told) - Len(channel)
ChannelKept ==
  /\ Taken \in Nat
  /\ \A i \in 1 .. Len(channel) : channel[i] = Told[Taken + i]

(* The rows are those of some of the first n updates. *)
Selects(rows, told, n) ==
  \E kept \in [DOMAIN rows -> 1 .. n] :
    /\ \A i, j \in DOMAIN rows : i < j => kept[i] < kept[j]
    /\ \A i \in DOMAIN rows : rows[i] = CloningRow(told[kept[i]])

(* The mailbox holds the last update that was taken, or the row shows it. *)
RowsKept ==
  /\ mailbox.latest # NoUpdate => /\ Taken # 0 /\ mailbox.latest = Told[Taken]
                                  /\ Selects(shown, Told, Taken - 1)
  /\ mailbox.latest = NoUpdate => /\ Selects(shown, Told, Taken)
                                  /\ RowOpen /\ Taken # 0 =>
                                       /\ shown # <<>>
                                       /\ shown[Len(shown)] = CloningRow(Told[Taken])

(* The pump ends with the call, and the polling task of an open window with
   the pump, each when nothing is left for it. *)
EndsKept ==
  /\ pump = "ended" => call = "returned" /\ channel = <<>>
  /\ mailbox.disconnected => pump = "ended"
  /\ poll = "ended" /\ windowOpen => mailbox.disconnected /\ mailbox.latest = NoUpdate

PipesInv == PipesTypes /\ LinesKept /\ ChannelKept /\ RowsKept /\ EndsKept

LEMMA ToldTyped == PipesTypes => Told \in Seq(Update) /\ Len(Told) \in Nat
<1>. SUFFICES ASSUME PipesTypes PROVE Told \in Seq(Update) /\ Len(Told) \in Nat
  OBVIOUS
<1>1. Recognised(handed) \in Seq(Update)
  BY RecognisedConcat DEF PipesTypes
<1>. QED BY <1>1, LenProperties DEF Told

LEMMA SelectsStill ==
  ASSUME NEW rows, NEW told, NEW after, NEW n \in Nat, NEW m \in Nat, n <= m,
         Selects(rows, told, n), \A k \in 1 .. n : after[k] = told[k]
  PROVE  Selects(rows, after, m)
<1>1. PICK kept \in [DOMAIN rows -> 1 .. n] :
             /\ \A i, j \in DOMAIN rows : i < j => kept[i] < kept[j]
             /\ \A i \in DOMAIN rows : rows[i] = CloningRow(told[kept[i]])
  BY DEF Selects
<1>2. \A i \in DOMAIN rows : kept[i] \in 1 .. n
  BY <1>1
<1>3. \A i \in DOMAIN rows : kept[i] \in 1 .. m /\ after[kept[i]] = told[kept[i]]
  BY <1>2
<1>4. kept \in [DOMAIN rows -> 1 .. m]
  BY <1>1, <1>3
<1>5. \A i \in DOMAIN rows : rows[i] = CloningRow(after[kept[i]])
  BY <1>1, <1>3
<1>. QED BY <1>1, <1>4, <1>5 DEF Selects

LEMMA SelectsOneMore ==
  ASSUME NEW R, NEW rows \in Seq(R), NEW told, NEW n \in Nat \ {0},
         Selects(rows, told, n - 1), NEW row \in R, row = CloningRow(told[n])
  PROVE  Selects(Append(rows, row), told, n)
<1>1. PICK kept \in [DOMAIN rows -> 1 .. n - 1] :
             /\ \A i, j \in DOMAIN rows : i < j => kept[i] < kept[j]
             /\ \A i \in DOMAIN rows : rows[i] = CloningRow(told[kept[i]])
  BY DEF Selects
<1>. DEFINE more == Append(rows, row)
            all == [i \in DOMAIN more |-> IF i \in DOMAIN rows THEN kept[i] ELSE n]
<1>2. /\ DOMAIN rows = 1 .. Len(rows) /\ Len(rows) \in Nat
      /\ DOMAIN more = 1 .. Len(rows) + 1
      /\ \A i \in DOMAIN rows : more[i] = rows[i]
      /\ more[Len(rows) + 1] = row
  BY AppendProperties, LenProperties
<1>3. \A i \in DOMAIN rows : kept[i] \in 1 .. n - 1
  BY <1>1
<1>. HIDE DEF more
<1>4. /\ \A i \in DOMAIN more : all[i] = IF i \in DOMAIN rows THEN kept[i] ELSE n
      /\ \A i \in DOMAIN more : all[i] \in 1 .. n
      /\ all \in [DOMAIN more -> 1 .. n]
  BY <1>2, <1>3
<1>. HIDE DEF all
<1>5. ASSUME NEW i \in DOMAIN more, NEW j \in DOMAIN more, i < j PROVE all[i] < all[j]
  <2>1. i \in DOMAIN rows
    BY <1>2, <1>5
  <2>2. CASE j \in DOMAIN rows
    BY <1>1, <1>4, <1>5, <2>1, <2>2
  <2>3. CASE j \notin DOMAIN rows
    BY <1>3, <1>4, <2>1, <2>3
  <2>. QED BY <2>2, <2>3
<1>6. ASSUME NEW i \in DOMAIN more PROVE more[i] = CloningRow(told[all[i]])
  <2>1. CASE i \in DOMAIN rows
    BY <1>1, <1>2, <1>4, <2>1
  <2>2. CASE i \notin DOMAIN rows
    <3>1. i = Len(rows) + 1 /\ all[i] = n
      BY <1>2, <1>4, <2>2
    <3>. QED BY <1>2, <3>1
  <2>. QED BY <2>1, <2>2
<1>7. Selects(more, told, n)
  BY <1>4, <1>5, <1>6 DEF Selects
<1>. QED BY <1>7 DEF more

LEMMA PipesStart == PipesInit \/ PipesIdle => PipesInv
<1>. SUFFICES ASSUME PipesInit \/ PipesIdle PROVE PipesInv
  OBVIOUS
<1>1. /\ pipe = [out |-> <<>>, err |-> <<>>] /\ readBytes = <<>> /\ buffer = <<>>
      /\ handed = <<>> /\ channel = <<>> /\ shown = <<>> /\ mailbox.latest = NoUpdate
      /\ mailbox \in [latest : Update \cup {NoUpdate}, disconnected : BOOLEAN]
      /\ script \in Seq([to : {"out", "err"}, byte : Nat])
  <2>1. CASE PipesInit
    BY <2>1, ClonePipesAssumption DEF PipesInit
  <2>2. CASE PipesIdle
    BY <2>2 DEF PipesIdle
  <2>. QED BY <2>1, <2>2
<1>2. PipesTypes
  BY <1>1 DEF PipesTypes
<1>3. Told = <<>> /\ Taken = 0
  BY <1>1, NothingGathered DEF Told, Taken
<1>4. LinesKept
  BY <1>1, NothingGathered, ConcatEmptySeq, EmptySeq DEF LinesKept, Unbroken
<1>5. ChannelKept
  BY <1>1, <1>3 DEF ChannelKept
<1>6. RowsKept
  <2>1. Selects(shown, Told, 0)
    <3>1. DOMAIN shown = {} /\ shown \in [DOMAIN shown -> 1 .. 0]
      BY <1>1
    <3>. QED BY <3>1 DEF Selects
  <2>. QED BY <1>1, <1>3, <2>1 DEF RowsKept
<1>7. EndsKept
  BY <1>1 DEF EndsKept, PipesInit, PipesIdle
<1>. QED BY <1>2, <1>4, <1>5, <1>6, <1>7 DEF PipesInv

(* Steps that take no part in the lines and their updates. *)
LEMMA AsideKept ==
  ASSUME PipesInv, UNCHANGED <<readBytes, buffer, handed, channel, mailbox.latest, shown>>
  PROVE  /\ LinesKept' /\ ChannelKept' /\ Told' = Told /\ Taken' = Taken
         /\ (RowOpen' => RowOpen) => RowsKept'
<1>1. Told' = Told
  BY DEF Told, Recognised, Sent, ParseProgressLine
<1>2. Taken' = Taken
  BY <1>1 DEF Taken
<1>3. LinesKept'
  <2>1. Joined(handed)' = Joined(handed)
    BY DEF Joined
  <2>. QED BY <2>1 DEF PipesInv, LinesKept, Unbroken
<1>4. ChannelKept'
  BY <1>1, <1>2 DEF PipesInv, ChannelKept
<1>5. (RowOpen' => RowOpen) => RowsKept'
  BY <1>1, <1>2 DEF PipesInv, RowsKept, Selects, CloningRow
<1>. QED BY <1>1, <1>2, <1>3, <1>4, <1>5

LEMMA ChildAndStdoutKeep ==
  ASSUME PipesInv, ChildWrites \/ ChildEnds \/ DrainStdout
  PROVE  PipesInv'
<1>1. UNCHANGED <<call, readBytes, buffer, handed, channel, pump, mailbox, poll, shown, cloning,
                  windowOpen>>
  BY DEF ChildWrites, ChildEnds, DrainStdout, callVars, watchVars
<1>2. LinesKept' /\ ChannelKept' /\ RowsKept'
  BY <1>1, AsideKept DEF RowOpen
<1>3. EndsKept'
  BY <1>1 DEF PipesInv, EndsKept
<1>4. script' \in Seq([to : {"out", "err"}, byte : Nat])
      /\ pipe' \in [out : Seq(Nat), err : Seq(Nat)]
  <2>1. script \in Seq([to : {"out", "err"}, byte : Nat])
        /\ pipe \in [out : Seq(Nat), err : Seq(Nat)]
    BY DEF PipesInv, PipesTypes
  <2>2. CASE ChildWrites
    <3>1. script # <<>> /\ script' = Tail(script)
          /\ pipe' = [pipe EXCEPT ![script[1].to] = Append(@, script[1].byte)]
      BY <2>2 DEF ChildWrites
    <3>2. script[1] \in [to : {"out", "err"}, byte : Nat]
          /\ Tail(script) \in Seq([to : {"out", "err"}, byte : Nat])
      <4>1. 1 \in 1 .. Len(script)
        BY <2>1, <3>1, EmptySeq
      <4>2. script[1] \in [to : {"out", "err"}, byte : Nat]
        BY <2>1, <4>1, ElementOfSeq
      <4>. QED BY <2>1, <3>1, <4>2, HeadTailProperties
    <3>3. Append(pipe.out, script[1].byte) \in Seq(Nat)
          /\ Append(pipe.err, script[1].byte) \in Seq(Nat)
      BY <2>1, <3>2
    <3>4. CASE script[1].to = "out"
      BY <2>1, <3>1, <3>2, <3>3, <3>4
    <3>5. CASE script[1].to = "err"
      BY <2>1, <3>1, <3>2, <3>3, <3>5
    <3>. QED BY <3>2, <3>4, <3>5
  <2>3. CASE ChildEnds
    BY <2>1, <2>3 DEF ChildEnds
  <2>4. CASE DrainStdout
    <3>1. script' = script /\ (pipe' = [pipe EXCEPT !.out = <<>>] \/ pipe' = pipe)
      BY <2>4 DEF DrainStdout
    <3>2. <<>> \in Seq(Nat)
      BY EmptySeq
    <3>. QED BY <2>1, <3>1, <3>2
  <2>. QED BY <2>2, <2>3, <2>4
<1>5. PipesTypes'
  BY <1>1, <1>4 DEF PipesInv, PipesTypes, Update, ParseProgressLine, CloningRow
<1>. QED BY <1>2, <1>3, <1>5 DEF PipesInv

LEMMA CallEndsKeep ==
  ASSUME PipesInv,
         ReadEnds \/ ReadFails \/ Return \/ PumpEnds \/ CloneCompletes \/ StartNext \/ CloseWindow
  PROVE  PipesInv'
<1>1. /\ UNCHANGED <<pipe, readBytes, buffer, handed, channel, shown, poll>>
      /\ (windowOpen' => windowOpen) /\ (RowOpen' => RowOpen)
      /\ script' = script \/ script' = <<>>
      /\ mailbox' = mailbox \/ mailbox' = [mailbox EXCEPT !.disconnected = TRUE]
  BY DEF ReadEnds, ReadFails, Return, PumpEnds, CloneCompletes, StartNext, CloseWindow,
         RowOpen, childVars, callVars, watchVars
<1>2. mailbox.latest' = mailbox.latest
      /\ mailbox' \in [latest : Update \cup {NoUpdate}, disconnected : BOOLEAN]
  BY <1>1 DEF PipesInv, PipesTypes
<1>3. LinesKept' /\ ChannelKept' /\ RowsKept'
  BY <1>1, <1>2, AsideKept
<1>4. PipesTypes'
  <2>1. script' \in Seq([to : {"out", "err"}, byte : Nat])
    <3>1. CASE script' = script
      BY <3>1 DEF PipesInv, PipesTypes
    <3>2. CASE script' = <<>>
      BY <3>2, EmptySeq
    <3>. QED BY <1>1, <3>1, <3>2
  <2>. QED BY <1>1, <1>2, <2>1 DEF PipesInv, PipesTypes, Update, ParseProgressLine, CloningRow
<1>5. EndsKept'
  <2>1. CASE ReadEnds
    BY <2>1 DEF PipesInv, EndsKept, ReadEnds, watchVars
  <2>2. CASE ReadFails
    BY <2>2 DEF PipesInv, EndsKept, ReadFails, watchVars
  <2>3. CASE Return
    BY <2>3 DEF PipesInv, EndsKept, Return, watchVars
  <2>4. CASE PumpEnds
    BY <1>2, <2>4 DEF PipesInv, PipesTypes, EndsKept, PumpEnds, callVars
  <2>5. CASE CloseWindow
    BY <2>5 DEF PipesInv, EndsKept, CloseWindow, callVars
  <2>6. CASE CloneCompletes \/ StartNext
    BY <2>6 DEF PipesInv, EndsKept, CloneCompletes, StartNext, callVars
  <2>. QED BY <2>1, <2>2, <2>3, <2>4, <2>5, <2>6
<1>. QED BY <1>3, <1>4, <1>5 DEF PipesInv

(* A read completes lines, and sends the updates among them. *)
LEMMA ReadChunkKeeps ==
  ASSUME PipesInv, ReadChunk
  PROVE  PipesInv'
<1>. DEFINE bytes(n) == buffer \o SubSeq(pipe.err, 1, n)
            lines(n) == ClosedLines(bytes(n))
<1>1. PICK n \in 1 .. Len(pipe.err) :
             /\ pipe' = [pipe EXCEPT !.err = SubSeq(@, n + 1, Len(@))]
             /\ readBytes' = readBytes \o SubSeq(pipe.err, 1, n)
             /\ buffer' = Remainder(bytes(n))
             /\ handed' = handed \o lines(n)
             /\ channel' = channel \o Recognised(lines(n))
  BY DEF ReadChunk
<1>2. UNCHANGED <<script, call, pump, mailbox, poll, shown, windowOpen>> /\ call = "reading"
      /\ RowOpen' = RowOpen
  BY DEF ReadChunk, RowOpen
<1>3. /\ pipe \in [out : Seq(Nat), err : Seq(Nat)]
      /\ readBytes \in Seq(Nat) /\ buffer \in Seq(Nat) /\ handed \in Seq(Seq(Nat))
      /\ channel \in Seq(Update)
  BY DEF PipesInv, PipesTypes
<1>4. /\ SubSeq(pipe.err, 1, n) \in Seq(Nat)
      /\ SubSeq(pipe.err, n + 1, Len(pipe.err)) \in Seq(Nat)
  <2>1. pipe.err \in Seq(Nat) /\ Len(pipe.err) \in Nat
        /\ \A i \in 1 .. Len(pipe.err) : pipe.err[i] \in Nat
    BY <1>3, LenProperties, ElementOfSeq
  <2>2. /\ \A i \in 1 .. n : pipe.err[i] \in Nat
        /\ \A i \in n + 1 .. Len(pipe.err) : pipe.err[i] \in Nat
    BY <2>1
  <2>3. n \in Int /\ n + 1 \in Int /\ 1 \in Int /\ Len(pipe.err) \in Int
    BY <2>1
  <2>4. SubSeq(pipe.err, 1, n) \in Seq(Nat)
    BY <2>2, <2>3, SubSeqProperties
  <2>5. SubSeq(pipe.err, n + 1, Len(pipe.err)) \in Seq(Nat)
    BY <2>2, <2>3, SubSeqProperties
  <2>. QED BY <2>4, <2>5
<1>5. PICK chunk \in Seq(Nat) : chunk = SubSeq(pipe.err, 1, n)
  BY <1>4
<1>6. buffer \o chunk \in Seq(Nat) /\ bytes(n) = buffer \o chunk
      /\ readBytes' = readBytes \o chunk
  BY <1>1, <1>3, <1>5, ConcatProperties
<1>7. PICK more \in Seq(Seq(Nat)) : more = lines(n)
  BY <1>6, FedWhole
<1>8. /\ \A i \in DOMAIN more : Unbroken(more[i])
      /\ buffer' \in Seq(Nat) /\ Unbroken(buffer')
      /\ buffer \o chunk = Joined(more) \o buffer'
  BY <1>1, <1>6, <1>7, FedWhole
<1>9. handed' = handed \o more /\ channel' = channel \o Recognised(more)
  BY <1>1, <1>7
<1>. HIDE DEF bytes, lines
<1>10. /\ Recognised(more) \in Seq(Update) /\ Recognised(handed) \in Seq(Update)
       /\ Recognised(handed \o more) = Recognised(handed) \o Recognised(more)
  BY <1>3, RecognisedConcat
<1>11. PipesTypes'
  <2>1. handed' \in Seq(Seq(Nat)) /\ channel' \in Seq(Update) /\ readBytes' \in Seq(Nat)
    BY <1>3, <1>6, <1>9, <1>10, ConcatProperties
  <2>2. pipe' \in [out : Seq(Nat), err : Seq(Nat)]
    BY <1>1, <1>3, <1>4
  <2>. QED BY <1>2, <1>8, <2>1, <2>2 DEF PipesInv, PipesTypes, Update, ParseProgressLine, CloningRow
<1>12. LinesKept'
  <2>1. readBytes = Joined(handed) \o buffer
    BY DEF PipesInv, LinesKept
  <2>2. PICK j \in Seq(Nat) : j = Joined(handed)
    BY <1>3, JoinedConcat
  <2>3. PICK l \in Seq(Nat) : l = Joined(more)
    BY JoinedConcat
  <2>4. PICK rest \in Seq(Nat) : rest = buffer'
    BY <1>8
  <2>5. Joined(handed') = j \o l
    BY <1>3, <1>9, <2>2, <2>3, JoinedConcat
  <2>6. readBytes' = (j \o buffer) \o chunk /\ buffer \o chunk = l \o rest
    BY <1>6, <1>8, <2>1, <2>2, <2>3, <2>4
  <2>7. (j \o buffer) \o chunk = (j \o l) \o rest
    <3>1. PICK b \in Seq(Nat) : b = buffer
      BY <1>3
    <3>2. b \o chunk = l \o rest
      BY <2>6, <3>1
    <3>3. Recuts(j, b, chunk, l, rest)
      BY ONLY RegroupedTwice
    <3>. QED BY <3>1, <3>2, <3>3, Zenon DEF Recuts
  <2>8. readBytes' = Joined(handed') \o buffer'
    BY <2>4, <2>5, <2>6, <2>7
  <2>9. \A i \in DOMAIN handed' : Unbroken(handed'[i])
    <3>1. \A i \in DOMAIN handed : Unbroken(handed[i])
      BY DEF PipesInv, LinesKept
    <3>2. /\ DOMAIN handed = 1 .. Len(handed) /\ DOMAIN more = 1 .. Len(more)
          /\ DOMAIN handed' = 1 .. Len(handed) + Len(more)
          /\ Len(handed) \in Nat /\ Len(more) \in Nat
          /\ \A i \in 1 .. Len(handed) + Len(more) :
               handed'[i] = IF i <= Len(handed) THEN handed[i] ELSE more[i - Len(handed)]
      BY <1>3, <1>9, ConcatProperties, LenProperties
    <3>. TAKE i \in DOMAIN handed'
    <3>3. CASE i <= Len(handed)
      BY <3>1, <3>2, <3>3
    <3>4. CASE ~(i <= Len(handed))
      <4>1. i - Len(handed) \in DOMAIN more
        BY <3>2, <3>4
      <4>. QED BY <1>8, <3>2, <3>4, <4>1
    <3>. QED BY <3>3, <3>4
  <2>. QED BY <1>8, <2>8, <2>9 DEF LinesKept, Unbroken
<1>13. PICK sent \in Seq(Update) : sent = Recognised(more)
  BY <1>10
<1>14. /\ Told' = Told \o sent /\ channel' = channel \o sent
       /\ Told \in Seq(Update) /\ Len(Told) \in Nat /\ Len(channel) \in Nat /\ Len(sent) \in Nat
  <2>1. Told' = Recognised(handed')
    BY DEF Told, Recognised, Sent, ParseProgressLine
  <2>. QED BY <1>3, <1>9, <1>10, <1>13, <2>1, LenProperties DEF Told
<1>15. /\ Len(Told') = Len(Told) + Len(sent) /\ Len(channel') = Len(channel) + Len(sent)
       /\ \A i \in 1 .. Len(Told) + Len(sent) :
            Told'[i] = IF i <= Len(Told) THEN Told[i] ELSE sent[i - Len(Told)]
       /\ \A i \in 1 .. Len(channel) + Len(sent) :
            channel'[i] = IF i <= Len(channel) THEN channel[i] ELSE sent[i - Len(channel)]
  BY <1>3, <1>14, ConcatProperties
<1>16. Taken' = Taken /\ Taken \in Nat /\ Taken = Len(Told) - Len(channel)
  BY <1>14, <1>15 DEF PipesInv, ChannelKept, Taken
<1>17. ChannelKept'
  <2>. SUFFICES ASSUME NEW i \in 1 .. Len(channel) + Len(sent)
                PROVE  channel'[i] = Told'[Taken + i]
    BY <1>15, <1>16 DEF ChannelKept
  <2>1. Taken + i \in 1 .. Len(Told) + Len(sent)
    BY <1>14, <1>16
  <2>2. CASE i <= Len(channel)
    <3>1. channel[i] = Told[Taken + i] /\ Taken + i <= Len(Told)
      BY <1>14, <1>16, <2>2 DEF PipesInv, ChannelKept
    <3>. QED BY <1>15, <2>1, <2>2, <3>1
  <2>3. CASE ~(i <= Len(channel))
    <3>1. ~(Taken + i <= Len(Told)) /\ (Taken + i) - Len(Told) = i - Len(channel)
      BY <1>14, <1>16, <2>3
    <3>. QED BY <1>15, <2>1, <2>3, <3>1
  <2>. QED BY <2>2, <2>3
<1>18. \A k \in 1 .. Taken : Told'[k] = Told[k]
  BY <1>14, <1>15, <1>16
<1>19. RowsKept'
  <2>1. CASE mailbox.latest # NoUpdate
    <3>1. Taken # 0 /\ mailbox.latest = Told[Taken] /\ Selects(shown, Told, Taken - 1)
      BY <2>1 DEF PipesInv, RowsKept
    <3>2. /\ Taken - 1 \in Nat /\ Taken - 1 <= Taken - 1 /\ Taken \in 1 .. Taken
          /\ \A k \in 1 .. Taken - 1 : Told'[k] = Told[k]
      BY <1>16, <1>18, <3>1
    <3>3. Selects(shown, Told', Taken - 1)
      <4>1. PICK m \in Nat : m = Taken - 1
        BY <3>2
      <4>2. Selects(shown, Told, m) /\ m <= m /\ \A k \in 1 .. m : Told'[k] = Told[k]
        BY <3>1, <3>2, <4>1
      <4>3. Selects(shown, Told', m)
        BY <4>2, SelectsStill
      <4>. QED BY <4>1, <4>3
    <3>4. Selects(shown, Told, Taken - 1)'
      BY <1>2, <1>16, <3>3 DEF Selects, CloningRow
    <3>. QED BY <1>2, <1>16, <1>18, <2>1, <3>1, <3>2, <3>4 DEF RowsKept
  <2>2. CASE mailbox.latest = NoUpdate
    <3>1. /\ Selects(shown, Told, Taken)
          /\ RowOpen /\ Taken # 0 => shown # <<>> /\ shown[Len(shown)] = CloningRow(Told[Taken])
      BY <2>2 DEF PipesInv, RowsKept
    <3>2. Taken <= Taken /\ (Taken # 0 => Taken \in 1 .. Taken)
      BY <1>16
    <3>3. Selects(shown, Told', Taken)
      BY <1>16, <1>18, <3>1, <3>2, SelectsStill
    <3>4. Selects(shown, Told, Taken)'
      BY <1>2, <1>16, <3>3 DEF Selects, CloningRow
    <3>5. Taken # 0 => Told'[Taken] = Told[Taken]
      BY <1>18, <3>2
    <3>. QED BY <1>2, <1>16, <2>2, <3>1, <3>4, <3>5 DEF RowsKept, CloningRow
  <2>. QED BY <2>1, <2>2
<1>20. EndsKept'
  BY <1>2 DEF PipesInv, EndsKept
<1>. QED BY <1>11, <1>12, <1>17, <1>19, <1>20 DEF PipesInv

(* The pump takes the oldest update in the channel. *)
LEMMA PumpUpdateKeeps ==
  ASSUME PipesInv, PumpUpdate
  PROVE  PipesInv'
<1>1. /\ UNCHANGED <<script, child, pipe, drainer, call, readBytes, buffer, handed, pump, poll,
                     shown, windowOpen>>
      /\ RowOpen' = RowOpen
      /\ pump = "running" /\ channel # <<>> /\ channel' = Tail(channel)
      /\ mailbox' = [mailbox EXCEPT !.latest = Head(channel)]
  BY DEF PumpUpdate, RowOpen, childVars, callVars
<1>2. /\ channel \in Seq(Update) /\ Len(channel) \in Nat /\ Len(channel) # 0
      /\ mailbox \in [latest : Update \cup {NoUpdate}, disconnected : BOOLEAN]
  BY <1>1, EmptySeq, LenProperties DEF PipesInv, PipesTypes
<1>3. /\ Head(channel) = channel[1] /\ Tail(channel) \in Seq(Update)
      /\ Len(Tail(channel)) = Len(channel) - 1
      /\ \A i \in 1 .. Len(channel) - 1 : Tail(channel)[i] = channel[i + 1]
  BY <1>1, <1>2, HeadTailProperties
<1>4. channel[1] \in Update
  <2>1. 1 \in 1 .. Len(channel)
    BY <1>2
  <2>. QED BY <1>2, <2>1, ElementOfSeq
<1>5. /\ mailbox'.latest = channel[1] /\ mailbox'.disconnected = mailbox.disconnected
      /\ mailbox' \in [latest : Update \cup {NoUpdate}, disconnected : BOOLEAN]
      /\ channel[1] # NoUpdate
  BY <1>1, <1>2, <1>3, <1>4 DEF Update
<1>6. Told' = Told /\ Told \in Seq(Update) /\ Len(Told) \in Nat
  <2>1. Told' = Told
    BY <1>1 DEF Told, Recognised, Sent, ParseProgressLine
  <2>. QED BY <2>1, ToldTyped DEF PipesInv
<1>7. /\ Taken \in Nat /\ Taken' = Taken + 1
      /\ \A i \in 1 .. Len(channel) : channel[i] = Told[Taken + i]
  BY <1>1, <1>2, <1>3, <1>6 DEF PipesInv, ChannelKept, Taken
<1>8. PipesTypes'
  BY <1>1, <1>3, <1>5 DEF PipesInv, PipesTypes, Update, ParseProgressLine, CloningRow
<1>9. LinesKept'
  <2>1. Joined(handed)' = Joined(handed)
    BY <1>1 DEF Joined
  <2>. QED BY <1>1, <2>1 DEF PipesInv, LinesKept, Unbroken
<1>10. ChannelKept'
  <2>. SUFFICES ASSUME NEW i \in 1 .. Len(channel) - 1
                PROVE  channel'[i] = Told[(Taken + 1) + i]
    BY <1>1, <1>3, <1>6, <1>7 DEF ChannelKept
  <2>1. i + 1 \in 1 .. Len(channel) /\ Taken + (i + 1) = (Taken + 1) + i
    BY <1>2, <1>7
  <2>2. channel[i + 1] = Told[Taken + (i + 1)]
    BY <1>7, <2>1
  <2>. QED BY <1>1, <1>3, <2>1, <2>2
<1>11. channel[1] = Told[Taken + 1]
  BY <1>2, <1>7
<1>12. Selects(shown, Told, Taken)
  <2>1. CASE mailbox.latest # NoUpdate
    <3>1. Taken # 0 /\ Selects(shown, Told, Taken - 1)
      BY <2>1 DEF PipesInv, RowsKept
    <3>2. PICK m \in Nat : m = Taken - 1
      BY <1>7, <3>1
    <3>3. Selects(shown, Told, m) /\ m <= Taken /\ \A k \in 1 .. m : Told[k] = Told[k]
      BY <1>7, <3>1, <3>2
    <3>. QED BY <1>7, <3>3, SelectsStill
  <2>2. CASE mailbox.latest = NoUpdate
    BY <2>2 DEF PipesInv, RowsKept
  <2>. QED BY <2>1, <2>2
<1>13. RowsKept'
  <2>1. Taken' # 0 /\ Taken' - 1 = Taken
    BY <1>7
  <2>2. Selects(shown, Told, Taken - 1)'
    BY <1>1, <1>6, <1>12, <2>1 DEF Selects, CloningRow
  <2>3. mailbox'.latest # NoUpdate /\ mailbox'.latest = Told'[Taken']
    BY <1>5, <1>6, <1>7, <1>11
  <2>. QED BY <2>1, <2>2, <2>3 DEF RowsKept
<1>14. EndsKept'
  BY <1>1, <1>5 DEF PipesInv, EndsKept
<1>. QED BY <1>8, <1>9, <1>10, <1>13, <1>14 DEF PipesInv

(* The polling task empties the mailbox, and shows what it held. *)
LEMMA PollKeeps ==
  ASSUME PipesInv, Poll
  PROVE  PipesInv'
<1>. DEFINE row == CloningRow(mailbox.latest)
<1>1. /\ UNCHANGED <<script, child, pipe, drainer, call, readBytes, buffer, handed, channel, pump,
                     windowOpen>>
      /\ mailbox' = [mailbox EXCEPT !.latest = NoUpdate]
      /\ shown' = IF mailbox.latest # NoUpdate /\ RowOpen THEN Append(shown, row) ELSE shown
      /\ RowOpen' => RowOpen
      /\ poll' = IF mailbox.disconnected \/ (mailbox.latest # NoUpdate /\ ~windowOpen)
                 THEN "ended" ELSE poll
      /\ poll = "running"
  BY DEF Poll, Show, RowOpen, childVars, callVars
<1>2. /\ mailbox \in [latest : Update \cup {NoUpdate}, disconnected : BOOLEAN]
      /\ shown \in Seq({CloningRow(progress) : progress \in Update})
      /\ mailbox'.latest = NoUpdate /\ mailbox'.disconnected = mailbox.disconnected
      /\ mailbox' \in [latest : Update \cup {NoUpdate}, disconnected : BOOLEAN]
  BY <1>1 DEF PipesInv, PipesTypes
<1>3. mailbox.latest # NoUpdate => row \in {CloningRow(progress) : progress \in Update}
  BY <1>2
<1>. HIDE DEF row
<1>4. shown' \in Seq({CloningRow(progress) : progress \in Update})
  <2>1. CASE mailbox.latest # NoUpdate /\ RowOpen
    BY <1>1, <1>2, <1>3, <2>1, AppendProperties
  <2>2. CASE ~(mailbox.latest # NoUpdate /\ RowOpen)
    BY <1>1, <1>2, <2>2
  <2>. QED BY <2>1, <2>2
<1>5. PipesTypes'
  BY <1>1, <1>2, <1>4 DEF PipesInv, PipesTypes, Update, ParseProgressLine, CloningRow
<1>6. LinesKept'
  <2>1. Joined(handed)' = Joined(handed)
    BY <1>1 DEF Joined
  <2>. QED BY <1>1, <2>1 DEF PipesInv, LinesKept, Unbroken
<1>7. Told' = Told /\ Taken' = Taken /\ Taken \in Nat
  <2>1. Told' = Told
    BY <1>1 DEF Told, Recognised, Sent, ParseProgressLine
  <2>. QED BY <1>1, <2>1 DEF PipesInv, ChannelKept, Taken
<1>8. ChannelKept'
  BY <1>1, <1>7 DEF PipesInv, ChannelKept
<1>9. RowsKept'
  <2>1. SUFFICES /\ Selects(shown', Told, Taken)
                 /\ RowOpen /\ Taken # 0 =>
                      shown' # <<>> /\ shown'[Len(shown')] = CloningRow(Told[Taken])
    <3>1. Selects(shown, Told, Taken)'
      BY <1>7, <2>1 DEF Selects, CloningRow
    <3>. QED BY <1>1, <1>2, <1>7, <2>1, <3>1 DEF RowsKept, CloningRow
  <2>2. CASE mailbox.latest = NoUpdate
    <3>1. shown' = shown
      BY <1>1, <2>2
    <3>. QED BY <2>2, <3>1 DEF PipesInv, RowsKept
  <2>3. CASE mailbox.latest # NoUpdate
    <3>1. Taken # 0 /\ mailbox.latest = Told[Taken] /\ Selects(shown, Told, Taken - 1)
      BY <2>3 DEF PipesInv, RowsKept
    <3>2. CASE RowOpen
      <4>1. shown' = Append(shown, row) /\ row = CloningRow(Told[Taken])
        BY <1>1, <2>3, <3>1, <3>2 DEF row
      <4>2. PICK n \in Nat \ {0} : n = Taken
        BY <1>7, <3>1
      <4>3. Selects(shown, Told, n - 1) /\ row = CloningRow(Told[n])
        BY <3>1, <4>1, <4>2
      <4>4. Selects(Append(shown, row), Told, n)
        BY <1>2, <1>3, <2>3, <4>3, SelectsOneMore
      <4>5. shown' # <<>> /\ shown'[Len(shown')] = row
        BY <1>2, <1>3, <2>3, <4>1, AppendProperties, EmptySeq, LenProperties
      <4>. QED BY <4>1, <4>2, <4>4, <4>5
    <3>3. CASE ~RowOpen
      <4>1. shown' = shown
        BY <1>1, <3>3
      <4>2. PICK m \in Nat : m = Taken - 1
        BY <1>7, <3>1
      <4>3. Selects(shown, Told, m) /\ m <= Taken /\ \A k \in 1 .. m : Told[k] = Told[k]
        BY <1>7, <3>1, <4>2
      <4>4. Selects(shown, Told, Taken)
        BY <1>7, <4>3, SelectsStill
      <4>. QED BY <3>3, <4>1, <4>4
    <3>. QED BY <3>2, <3>3
  <2>. QED BY <2>2, <2>3
<1>10. EndsKept'
  <2>1. /\ pump' = "ended" => call' = "returned" /\ channel' = <<>>
        /\ mailbox'.disconnected => pump' = "ended"
    BY <1>1, <1>2 DEF PipesInv, EndsKept
  <2>2. poll' = "ended" /\ windowOpen' => mailbox'.disconnected /\ mailbox'.latest = NoUpdate
    BY <1>1, <1>2
  <2>. QED BY <2>1, <2>2 DEF EndsKept
<1>. QED BY <1>5, <1>6, <1>8, <1>9, <1>10 DEF PipesInv

LEMMA PipesKept == PipesInv /\ [PipesNext]_pipesVars => PipesInv'
<1>. SUFFICES ASSUME PipesInv, [PipesNext]_pipesVars PROVE PipesInv'
  OBVIOUS
<1>1. CASE UNCHANGED pipesVars
  <2>1. UNCHANGED <<script, pipe, call, readBytes, buffer, handed, channel, pump, mailbox, poll,
                    shown, cloning, windowOpen>>
    BY <1>1 DEF pipesVars
  <2>2. LinesKept' /\ ChannelKept' /\ RowsKept'
    BY <2>1, AsideKept DEF RowOpen
  <2>3. PipesTypes' /\ EndsKept'
    BY <2>1 DEF PipesInv, PipesTypes, EndsKept, Update, ParseProgressLine, CloningRow
  <2>. QED BY <2>2, <2>3 DEF PipesInv
<1>2. CASE ChildWrites \/ ChildEnds \/ DrainStdout
  BY <1>2, ChildAndStdoutKeep
<1>3. CASE ReadChunk
  BY <1>3, ReadChunkKeeps
<1>4. CASE ReadEnds \/ ReadFails \/ Return \/ PumpEnds \/ CloneCompletes \/ StartNext
             \/ CloseWindow
  BY <1>4, CallEndsKeep
<1>5. CASE PumpUpdate
  BY <1>5, PumpUpdateKeeps
<1>6. CASE Poll
  BY <1>6, PollKeeps
<1>. QED BY <1>1, <1>2, <1>3, <1>4, <1>5, <1>6 DEF PipesNext

LEMMA InvShowsWholeLines == PipesInv => LinesAreWhole
<1>. SUFFICES ASSUME PipesInv PROVE LinesAreWhole
  OBVIOUS
<1>1. /\ Told \in Seq(Update) /\ Len(Told) \in Nat /\ DOMAIN Told = 1 .. Len(Told)
      /\ Taken \in Nat /\ Taken = Len(Told) - Len(channel) /\ Len(channel) \in Nat
  BY ToldTyped, LenProperties DEF PipesInv, PipesTypes, ChannelKept, Taken
<1>2. \E kept \in [DOMAIN shown -> DOMAIN Told] :
        /\ \A i, j \in DOMAIN shown : i < j => kept[i] < kept[j]
        /\ \A i \in DOMAIN shown : shown[i] = CloningRow(Told[kept[i]])
  <2>1. PICK m \in Nat : m <= Len(Told) /\ Selects(shown, Told, m)
    <3>1. CASE mailbox.latest # NoUpdate
      <4>1. Taken # 0 /\ Selects(shown, Told, Taken - 1)
        BY <3>1 DEF PipesInv, RowsKept
      <4>2. Taken - 1 \in Nat /\ Taken - 1 <= Len(Told)
        BY <1>1, <4>1
      <4>. QED BY <4>1, <4>2
    <3>2. CASE mailbox.latest = NoUpdate
      <4>1. Selects(shown, Told, Taken)
        BY <3>2 DEF PipesInv, RowsKept
      <4>. QED BY <1>1, <4>1
    <3>. QED BY <3>1, <3>2
  <2>2. PICK n : n \in Nat /\ n = Len(Told)
    BY <1>1
  <2>3. m <= n /\ \A k \in 1 .. m : Told[k] = Told[k]
    BY <2>1, <2>2
  <2>4. Selects(shown, Told, n)
    BY <2>1, <2>2, <2>3, SelectsStill
  <2>. QED BY <1>1, <2>2, <2>4 DEF Selects
<1>3. ASSUME RowOpen, Told # <<>>,
             poll = "ended" \/ (channel = <<>> /\ mailbox.latest = NoUpdate)
      PROVE  ShowsLast
  <2>1. channel = <<>> /\ mailbox.latest = NoUpdate
    BY <1>3 DEF PipesInv, EndsKept, RowOpen
  <2>2. Taken = Len(Told) /\ Taken # 0
    BY <1>1, <1>3, <2>1, EmptySeq, LenProperties
  <2>. QED BY <1>3, <2>1, <2>2 DEF PipesInv, RowsKept, ShowsLast
<1>. QED BY <1>2, <1>3 DEF PipesInv, LinesKept, LinesAreWhole

----------------------------------------------------------------------------
(* Dates *)

DayOfEra(y, d) == 365 * y + (y \div 4) - (y \div 100) + d
YearOfEra(e) == (e - (e \div 1460) + (e \div 36524) - (e \div 146096)) \div 365

LEMMA DayOfQuarter ==
  ASSUME NEW c \in 0 .. 3, NEW q \in Int, 0 <= q, q <= 24, NEW r \in 0 .. 3, NEW d \in Int, 0 <= d,
         d <= 364 \/ (d = 365 /\ r = 3 /\ (q = 24 => c = 3))
  PROVE  LET e == 36524*c + 1461*q + 365*r + d IN
         /\ (e - (e \div 1460) + (e \div 36524) - (e \div 146096)) \div 365 = 100*c+4*q+r
         /\ e \in Int /\ 0 <= e /\ e <= 146096
OBVIOUS

LEMMA YearIsOfEra ==
  ASSUME NEW y \in Int, 0 <= y, y <= 399, NEW d \in Int, 0 <= d,
         d <= 364 \/ (d = 365 /\ (y + 1) % 4 = 0 /\ ((y + 1) % 100 # 0 \/ (y + 1) % 400 = 0))
  PROVE  YearOfEra(DayOfEra(y, d)) = y /\ DayOfEra(y, d) \in Int
         /\ 0 <= DayOfEra(y, d) /\ DayOfEra(y, d) <= 146096
<1>1. PICK c \in 0 .. 3, q \in Int, r \in 0 .. 3 : y = 100 * c + 4 * q + r /\ 0 <= q /\ q <= 24
  <2>1. y \div 100 \in 0 .. 3 /\ y = 100 * (y \div 100) + (y % 100)
        /\ y % 100 \in Int /\ 0 <= y % 100 /\ y % 100 <= 99
    OBVIOUS
  <2>2. PICK s \in Int : s = y % 100
    BY <2>1
  <2>3. s \div 4 \in Int /\ 0 <= s \div 4 /\ s \div 4 <= 24 /\ s % 4 \in 0 .. 3 /\ s = 4 * (s \div 4) + (s % 4)
    BY <2>1, <2>2
  <2>. QED BY <2>1, <2>2, <2>3
<1>2. DayOfEra(y, d) = 36524 * c + 1461 * q + 365 * r + d
  BY <1>1 DEF DayOfEra
<1>3. d <= 364 \/ (d = 365 /\ r = 3 /\ (q = 24 => c = 3))
  BY <1>1
<1>4. YearOfEra(36524 * c + 1461 * q + 365 * r + d) = 100 * c + 4 * q + r
  BY <1>1, <1>3, DayOfQuarter DEF YearOfEra
<1>5. 36524 * c + 1461 * q + 365 * r + d \in Int /\ 0 <= 36524 * c + 1461 * q + 365 * r + d
      /\ 36524 * c + 1461 * q + 365 * r + d <= 146096
  BY <1>1, <1>3, DayOfQuarter
<1>6. YearOfEra(DayOfEra(y, d)) = y
  BY ONLY <1>1, <1>2, <1>4
<1>. QED BY ONLY <1>2, <1>5, <1>6

IsDate(year, month, day) ==
  /\ year \in Int /\ month \in 1 .. 12 /\ day \in Int /\ 1 <= day
  /\ day <= LastDay(year, month)

(* The year in March, its years of the era and day of the year. *)
MarchYear(year, month) == IF month <= 2 THEN year - 1 ELSE year
MarchMonth(month) == IF month <= 2 THEN month + 9 ELSE month - 3
MarchDay(month, day) == ((153 * MarchMonth(month) + 2) \div 5) + day - 1

LEMMA DayOfMarchYear ==
  ASSUME NEW year, NEW month, NEW day, IsDate(year, month, day)
  PROVE  /\ MarchYear(year, month) \in Int /\ MarchMonth(month) \in 0 .. 11
         /\ MarchDay(month, day) \in Int /\ 0 <= MarchDay(month, day)
         /\ (5 * MarchDay(month, day) + 2) \div 153 = MarchMonth(month)
         /\ \/ MarchDay(month, day) <= 364
            \/ MarchDay(month, day) = 365 /\ IsLeap(MarchYear(year, month) + 1)
<1>1. /\ year \in Int /\ month \in 1 .. 12 /\ day \in Int /\ 1 <= day
      /\ day <= LastDay(year, month)
  BY DEF IsDate
<1>2. MarchYear(year, month) \in Int /\ MarchMonth(month) \in 0 .. 11
      /\ MarchDay(month, day) \in Int
  BY <1>1 DEF MarchYear, MarchMonth, MarchDay
<1>3. day <= LastDay(year, month) => day <= 31 /\ (month \in {4, 6, 9, 11} => day <= 30)
      /\ (month = 2 => day <= 28 \/ (day = 29 /\ IsLeap(year)))
  <2>1. CASE month = 2
    BY <1>1, <2>1 DEF LastDay
  <2>2. CASE month # 2
    BY <1>1, <2>2 DEF LastDay
  <2>. QED BY <2>1, <2>2
<1>4. CASE month = 2
  <2>1. MarchMonth(month) = 11 /\ MarchDay(month, day) = 336 + day
        /\ MarchYear(year, month) + 1 = year
    BY <1>1, <1>4 DEF MarchMonth, MarchYear, MarchDay
  <2>. QED BY <1>1, <1>2, <1>3, <1>4, <2>1
<1>5. CASE month # 2
  <2>1. MarchDay(month, day) <= 364 /\ 0 <= MarchDay(month, day)
        /\ (5 * MarchDay(month, day) + 2) \div 153 = MarchMonth(month)
    BY <1>1, <1>3, <1>5 DEF MarchMonth, MarchDay
  <2>. QED BY <1>2, <2>1
<1>. QED BY <1>4, <1>5

DaysAgree(days, m, d) == days + 719468 = 146097 * (m \div 400) + DayOfEra(m % 400, d)

LEMMA DayOfEraOfDate ==
  ASSUME NEW year, NEW month, NEW day, IsDate(year, month, day)
  PROVE  DaysAgree(DayNumber(year, month, day), MarchYear(year, month), MarchDay(month, day))
<1>1. year \in Int /\ month \in 1 .. 12 /\ day \in Int
  BY DEF IsDate
<1>. DEFINE full == year - 1
            years == 365 * full + (full \div 4) - (full \div 100) + (full \div 400)
<1>2. ASSUME NEW y \in Int
      PROVE  365 * y + (y \div 4) - (y \div 100) + (y \div 400) =
             146097 * (y \div 400) + 365 * (y % 400) + ((y % 400) \div 4) - ((y % 400) \div 100)
  <2>1. PICK e \in Int, r \in Int : e = y \div 400 /\ r = y % 400 /\ y = 400 * e + r
    <3>1. y = 400 * (y \div 400) + (y % 400) /\ y \div 400 \in Int /\ y % 400 \in Int
      OBVIOUS
    <3>. QED BY <3>1
  <2>2. y \div 4 = 100 * e + (r \div 4) /\ y \div 100 = 4 * e + (r \div 100)
    BY <2>1
  <2>3. r \div 4 \in Int /\ r \div 100 \in Int
    BY <2>1
  <2>. QED BY <2>1, <2>2, <2>3
<1>. DEFINE leap == IF IsLeap(year) THEN 1 ELSE 0
            era(y) == 146097 * (y \div 400) + DayOfEra(y % 400, 0)
<1>3. years \in Int /\ leap \in Int
  BY <1>1
<1>4. years = era(year - 1)
  <2>1. PICK y \in Int : y = year - 1
    BY <1>1
  <2>2. 365 * y + (y \div 4) - (y \div 100) + (y \div 400) = era(y)
    <3>1. y % 400 \in Int
      OBVIOUS
    <3>. QED BY <1>2, <3>1 DEF DayOfEra
  <2>. QED BY <2>1, <2>2
<1>5. years + 365 + leap = era(year)
  <2>1. 365 * year + (year \div 4) - (year \div 100) + (year \div 400)
          = years + 365 + leap
    BY <1>1 DEF IsLeap
  <2>. QED BY <1>1, <1>2, <2>1 DEF DayOfEra
<1>6. ASSUME NEW d \in Int, NEW y \in Int, NEW r \in Int, NEW e \in Int, r = y % 400, e = y \div 400
      PROVE  146097 * e + DayOfEra(r, d) = era(y) + d
  BY <1>6 DEF DayOfEra
<1>7. SUFFICES ASSUME NEW m \in Int, NEW d \in Int,
                      m = MarchYear(year, month), d = MarchDay(month, day)
               PROVE  DayNumber(year, month, day) + 719468
                        = 146097 * (m \div 400) + DayOfEra(m % 400, d)
  <2>1. MarchYear(year, month) \in Int /\ MarchDay(month, day) \in Int
    BY <1>1 DEF MarchDay, MarchYear, MarchMonth
  <2>2. PICK m \in Int, d \in Int : m = MarchYear(year, month) /\ d = MarchDay(month, day)
    BY <2>1
  <2>. QED BY <2>2 DEF DaysAgree
<1>8. 146097 * (m \div 400) + DayOfEra(m % 400, d) = era(m) + d
  BY <1>6
<1>9. DayNumber(year, month, day)
        = years - 719162 + BeforeMonth[month] + (IF month > 2 THEN leap ELSE 0) + day - 1
  BY <1>1, <1>3 DEF DayNumber
<1>12. era(year) \in Int /\ era(year - 1) \in Int
  BY <1>3, <1>4, <1>5
<1>. HIDE DEF years, leap, era
<1>10. CASE month > 2
  <2>1. BeforeMonth[month] = 59 + ((153 * (month - 3) + 2) \div 5)
    BY <1>1, <1>10 DEF BeforeMonth
  <2>2. m = year /\ d = ((153 * (month - 3) + 2) \div 5) + day - 1
    BY <1>1, <1>7, <1>10 DEF MarchYear, MarchDay, MarchMonth
  <2>3. PICK b \in Int : b = (153 * (month - 3) + 2) \div 5
    BY <1>1
  <2>. QED BY <1>1, <1>3, <1>5, <1>8, <1>9, <1>12, <1>10, <2>1, <2>2, <2>3
<1>11. CASE month <= 2
  <2>1. BeforeMonth[month] = ((153 * (month + 9) + 2) \div 5) - 306
    BY <1>1, <1>11 DEF BeforeMonth
  <2>2. m = year - 1 /\ d = ((153 * (month + 9) + 2) \div 5) + day - 1
    BY <1>1, <1>7, <1>11 DEF MarchYear, MarchDay, MarchMonth
  <2>3. PICK b \in Int : b = (153 * (month + 9) + 2) \div 5
    BY <1>1
  <2>. QED BY <1>1, <1>3, <1>4, <1>8, <1>9, <1>12, <1>11, <2>1, <2>2, <2>3
<1>. QED BY <1>1, <1>10, <1>11

LEMMA CivilOfDays ==
  ASSUME NEW year, NEW month, NEW day, IsDate(year, month, day)
  PROVE  /\ CivilOfTable(DayNumber(year, month, day)) = [year |-> year, month |-> month, day |-> day]
         /\ DayNumber(year, month, day) \in Int
<1>1. year \in Int /\ month \in 1 .. 12 /\ day \in Int
  BY DEF IsDate
<1>2. PICK m \in Int, y \in Int, era \in Int, d \in Int, mp \in 0 .. 11 :
        /\ m = MarchYear(year, month) /\ y = m % 400 /\ era = m \div 400
        /\ d = MarchDay(month, day) /\ mp = MarchMonth(month)
        /\ MarchYear(year, month) = 400 * era + y /\ 0 <= y /\ y <= 399
  <2>1. PICK m \in Int : m = MarchYear(year, month)
    BY DayOfMarchYear
  <2>2. /\ m % 400 \in Int /\ m \div 400 \in Int /\ m = 400 * (m \div 400) + (m % 400)
        /\ 0 <= m % 400 /\ m % 400 <= 399
    OBVIOUS
  <2>3. MarchDay(month, day) \in Int /\ MarchMonth(month) \in 0 .. 11
    BY DayOfMarchYear
  <2>. QED BY <2>1, <2>2, <2>3
<1>3. /\ 0 <= d /\ (5 * d + 2) \div 153 = mp
      /\ d <= 364 \/ (d = 365 /\ (y + 1) % 4 = 0 /\ ((y + 1) % 100 # 0 \/ (y + 1) % 400 = 0))
  <2>1. MarchYear(year, month) + 1 = 400 * era + (y + 1)
    BY <1>2
  <2>2. IsLeap(400 * era + (y + 1)) => (y + 1) % 4 = 0 /\ ((y + 1) % 100 # 0 \/ (y + 1) % 400 = 0)
    BY <1>2 DEF IsLeap
  <2>. QED BY <1>2, <2>1, <2>2, DayOfMarchYear
<1>4. PICK e \in Int : e = DayOfEra(y, d) /\ 0 <= e /\ e <= 146096 /\ YearOfEra(e) = y
  BY <1>2, <1>3, YearIsOfEra
<1>5. DayNumber(year, month, day) + 719468 = 146097 * era + e
  <2>1. DayNumber(year, month, day) + 719468 = 146097 * era + DayOfEra(y, d)
    <3>1. DayNumber(year, month, day) + 719468 = 146097 * (m \div 400) + DayOfEra(m % 400, d)
      <4>1. DaysAgree(DayNumber(year, month, day), m, d)
        <5>1. m = MarchYear(year, month) /\ d = MarchDay(month, day)
          BY <1>2
        <5>2. DaysAgree(DayNumber(year, month, day), MarchYear(year, month), MarchDay(month, day))
          BY DayOfEraOfDate
        <5>. QED BY ONLY <5>1, <5>2
      <4>2. PICK n \in Int : n = DayNumber(year, month, day)
        BY <1>1 DEF DayNumber, BeforeMonth
      <4>3. DaysAgree(n, m, d)
        BY ONLY <4>1, <4>2
      <4>. QED BY ONLY <4>2, <4>3, m \in Int, d \in Int DEF DaysAgree
    <3>. QED BY ONLY <1>2, <3>1, m \in Int, y \in Int, era \in Int
  <2>. QED BY ONLY <1>4, <2>1
<1>6. DayNumber(year, month, day) \in Int
  BY <1>1 DEF DayNumber, BeforeMonth
<1>7. (146097 * era + e) \div 146097 = era /\ (146097 * era + e) % 146097 = e
  BY <1>4
<1>8. CivilOfTable(DayNumber(year, month, day)) = CivilFromEra(era, e)
  BY <1>5, <1>7 DEF CivilOfTable
<1>9. e - (365 * y + (y \div 4) - (y \div 100)) = d
  <2>1. e = 365 * y + (y \div 4) - (y \div 100) + d
    BY ONLY <1>4, e \in Int, y \in Int, d \in Int DEF DayOfEra
  <2>2. y \div 4 \in Int /\ y \div 100 \in Int
    OBVIOUS
  <2>. QED BY ONLY <2>1, <2>2, e \in Int, y \in Int, d \in Int
<1>10. CivilFromEra(era, e) =
         LET k == IF mp < 10 THEN mp + 3 ELSE mp - 9
         IN  [year  |-> IF k <= 2 THEN y + era * 400 + 1 ELSE y + era * 400,
              month |-> k, day |-> d - ((153 * mp + 2) \div 5) + 1]
  <2>1. (e - (e \div 1460) + (e \div 36524) - (e \div 146096)) \div 365 = y
    BY ONLY <1>4, e \in Int, y \in Int DEF YearOfEra
  <2>2. CivilFromEra(era, e) =
         LET yearOfEra == y
             dayOfYear == e - (365 * y + (y \div 4) - (y \div 100))
             march == (5 * dayOfYear + 2) \div 153
             k == IF march < 10 THEN march + 3 ELSE march - 9
         IN  [year  |-> IF k <= 2 THEN y + era * 400 + 1 ELSE y + era * 400,
              month |-> k, day |-> dayOfYear - ((153 * march + 2) \div 5) + 1]
    BY ONLY <2>1, e \in Int, y \in Int, era \in Int DEF CivilFromEra
  <2>. QED BY ONLY <1>3, <1>9, <2>2, e \in Int, y \in Int, era \in Int, d \in Int, mp \in 0 .. 11
<1>11. (IF mp < 10 THEN mp + 3 ELSE mp - 9) = month
  BY <1>1, <1>2 DEF MarchMonth
<1>12. (IF month <= 2 THEN y + era * 400 + 1 ELSE y + era * 400) = year
  BY <1>1, <1>2 DEF MarchYear
<1>13. d - ((153 * mp + 2) \div 5) + 1 = day
  <2>1. d = ((153 * mp + 2) \div 5) + day - 1
    BY <1>2, Zenon DEF MarchDay
  <2>2. (153 * mp + 2) \div 5 \in Int
    OBVIOUS
  <2>. QED BY ONLY <1>1, <2>1, <2>2, d \in Int
<1>. QED BY <1>6, <1>8, <1>10, <1>11, <1>12, <1>13

LEMMA OneCivilForBoth == ASSUME NEW days \in Int PROVE CivilOfDetail(days) = CivilOfTable(days)
<1>1. PICK z \in Int : z = days + 719468
  OBVIOUS
<1>2. Quotient(IF z >= 0 THEN z ELSE z - 146096, 146097) = z \div 146097
  <2>1. CASE z >= 0
    BY <2>1 DEF Quotient
  <2>2. CASE ~(z >= 0)
    BY <2>2 DEF Quotient
  <2>. QED BY <2>1, <2>2
<1>3. z - (z \div 146097) * 146097 = z % 146097
  OBVIOUS
<1>. QED BY <1>1, <1>2, <1>3 DEF CivilOfDetail, CivilOfTable

WallInv ==
  wall # NoClock =>
    /\ wall \in [days : Int, year : Int, month : 1 .. 12, day : Int, second : Int, offset : Int,
                  left : Int]
    /\ 0 <= wall.second /\ wall.second < 86400
    /\ IsDate(wall.year, wall.month, wall.day)
    /\ wall.days = DayNumber(wall.year, wall.month, wall.day)

LEMMA WallStarts == DateInit \/ DateIdle => WallInv
<1>. SUFFICES ASSUME DateInit PROVE WallInv
  BY DEF DateIdle, WallInv
<1>1. PICK a \in Anchor, second \in Second, offset \in Offset :
        wall = [days |-> a.days, year |-> a.year, month |-> a.month, day |-> a.day,
                second |-> second, offset |-> offset, left |-> Span]
  BY DEF DateInit
<1>2. IsDate(a.year, a.month, a.day) /\ a.days = DayNumber(a.year, a.month, a.day)
  <2>1. /\ a.year \in Int /\ a.month \in 1 .. 12 /\ a.day \in 1 .. LastDay(a.year, a.month)
        /\ a.days = DayNumber(a.year, a.month, a.day)
    BY CommitDateAssumption
  <2>2. LastDay(a.year, a.month) \in Int
    BY DEF LastDay
  <2>. QED BY <2>1, <2>2 DEF IsDate
<1>3. a.days \in Int
  BY <1>2, CivilOfDays
<1>4. second \in Int /\ 0 <= second /\ second < 86400 /\ offset \in Int /\ Span \in Int
  BY CommitDateAssumption
<1>. QED BY <1>1, <1>2, <1>3, <1>4 DEF WallInv, IsDate

LEMMA WallShown == WallInv => DatesAreTheAuthors
<1>. SUFFICES ASSUME WallInv, wall # NoClock
              PROVE  /\ FormatCommitDate(Timestamp) = [month |-> wall.month, day |-> wall.day]
                     /\ FormatTimestamp(Timestamp) =
                          [civil |-> [year |-> wall.year, month |-> wall.month, day |-> wall.day],
                           hour |-> wall.second \div 3600,
                           minute |-> (wall.second \div 60) % 60, second |-> wall.second % 60]
  BY DEF DatesAreTheAuthors
<1>1. /\ wall.second \in Int /\ 0 <= wall.second /\ wall.second < 86400
      /\ wall.offset \in Int
      /\ IsDate(wall.year, wall.month, wall.day)
      /\ wall.days = DayNumber(wall.year, wall.month, wall.day)
  BY DEF WallInv
<1>2. PICK s \in Int, o \in Int, n \in Int :
        s = wall.second /\ o = wall.offset /\ n = wall.days /\ 0 <= s /\ s < 86400
  BY <1>1, CivilOfDays
<1>3. PICK c \in Int, r \in Int : c = (s - o * 60) \div 86400 /\ r = (s - o * 60) % 86400
                                /\ s - o * 60 = 86400 * c + r
  <2>1. PICK x \in Int : x = s - o * 60
    OBVIOUS
  <2>2. x = 86400 * (x \div 86400) + (x % 86400) /\ x \div 86400 \in Int /\ x % 86400 \in Int
    OBVIOUS
  <2>. QED BY <2>1, <2>2
<1>4. Timestamp = [days |-> n + c, second |-> r, offset |-> o]
  BY <1>2, <1>3 DEF Timestamp
<1>5. LocalSeconds(Timestamp) = s - 86400 * c
  BY <1>3, <1>4 DEF LocalSeconds
<1>6. (s - 86400 * c) \div 86400 = -c /\ (s - 86400 * c) % 86400 = s
  BY <1>2
<1>7. LocalDay(Timestamp) = n
  BY <1>4, <1>5, <1>6 DEF LocalDay
<1>8. CivilOfTable(n) = [year |-> wall.year, month |-> wall.month, day |-> wall.day]
      /\ CivilOfDetail(n) = CivilOfTable(n)
  BY <1>1, <1>2, CivilOfDays, OneCivilForBoth
<1>9. (s % 3600) \div 60 = (s \div 60) % 60
  BY <1>2
<1>. QED BY <1>2, <1>5, <1>6, <1>7, <1>8, <1>9 DEF FormatCommitDate, FormatTimestamp

LEMMA DayAfter ==
  ASSUME NEW year, NEW month, NEW day, IsDate(year, month, day)
  PROVE  /\ day # LastDay(year, month) =>
               /\ IsDate(year, month, day + 1)
               /\ DayNumber(year, month, day + 1) = DayNumber(year, month, day) + 1
         /\ day = LastDay(year, month) /\ month # 12 =>
               /\ IsDate(year, month + 1, 1)
               /\ DayNumber(year, month + 1, 1) = DayNumber(year, month, day) + 1
         /\ day = LastDay(year, month) /\ month = 12 =>
               /\ IsDate(year + 1, 1, 1)
               /\ DayNumber(year + 1, 1, 1) = DayNumber(year, month, day) + 1
<1>1. /\ year \in Int /\ month \in 1 .. 12 /\ day \in Int /\ 1 <= day
      /\ day <= LastDay(year, month)
  BY DEF IsDate
<1>. DEFINE count(y) == 365 * (y - 1) + ((y - 1) \div 4) - ((y - 1) \div 100) + ((y - 1) \div 400) - 719162
            leap == IF IsLeap(year) THEN 1 ELSE 0
<1>2. leap \in Int /\ \A y \in Int : count(y) \in Int
  OBVIOUS
<1>3. ASSUME NEW y \in Int, NEW m \in 1 .. 12, NEW d \in Int
      PROVE  DayNumber(y, m, d)
               = count(y) + BeforeMonth[m] + (IF m > 2 /\ IsLeap(y) THEN 1 ELSE 0) + d - 1
  BY DEF DayNumber
<1>4. count(year + 1) = count(year) + 365 + leap
  BY <1>1 DEF IsLeap
<1>5. \A m \in 1 .. 12 : LastDay(year, m) \in Int /\ 28 <= LastDay(year, m)
  BY DEF LastDay
<1>6. \A m \in 1 .. 11 : BeforeMonth[m] \in Int
        /\ BeforeMonth[m + 1] = BeforeMonth[m] + (IF m = 2 THEN 28 ELSE IF m \in {4, 6, 9, 11} THEN 30 ELSE 31)
  BY DEF BeforeMonth
<1>7. BeforeMonth[1] = 0 /\ BeforeMonth[12] = 334
  BY DEF BeforeMonth
<1>. HIDE DEF count
<1>8. CASE day # LastDay(year, month)
  <2>1. IsDate(year, month, day + 1)
    BY <1>1, <1>5, <1>8 DEF IsDate
  <2>2. PICK b \in Int : b = BeforeMonth[month]
    BY <1>1, <1>6, <1>7
  <2>3. PICK e \in Int : e = day + 1
    BY <1>1
  <2>4. /\ DayNumber(year, month, day) = count(year) + b + (IF month > 2 /\ IsLeap(year) THEN 1 ELSE 0) + day - 1
        /\ DayNumber(year, month, e) = count(year) + b + (IF month > 2 /\ IsLeap(year) THEN 1 ELSE 0) + e - 1
    BY <1>1, <1>3, <2>2
  <2>. QED BY <1>1, <1>2, <1>8, <2>1, <2>3, <2>4
<1>9. CASE day = LastDay(year, month) /\ month # 12
  <2>1. IsDate(year, month + 1, 1)
    BY <1>1, <1>5, <1>9 DEF IsDate
  <2>2. day = (IF month = 2 THEN 28 + leap ELSE IF month \in {4, 6, 9, 11} THEN 30 ELSE 31)
    BY <1>1, <1>9 DEF LastDay
  <2>3. month \in 1 .. 11 /\ month + 1 \in 1 .. 12
    BY <1>1, <1>9
  <2>4. DayNumber(year, month, day)
          = count(year) + BeforeMonth[month] + (IF month > 2 THEN leap ELSE 0) + day - 1
    BY <1>1, <1>3
  <2>5. DayNumber(year, month + 1, 1)
          = count(year) + BeforeMonth[month + 1] + (IF month + 1 > 2 THEN leap ELSE 0)
    <3>1. PICK m \in 1 .. 12 : m = month + 1
      BY <2>3
    <3>2. DayNumber(year, m, 1)
            = count(year) + BeforeMonth[m] + (IF m > 2 /\ IsLeap(year) THEN 1 ELSE 0) + 1 - 1
      BY <1>1, <1>3
    <3>3. BeforeMonth[m] \in Int
      BY DEF BeforeMonth
    <3>. QED BY <1>1, <1>2, <3>1, <3>2, <3>3
  <2>6. PICK b \in Int : b = BeforeMonth[month] /\ BeforeMonth[month + 1]
           = b + (IF month = 2 THEN 28 ELSE IF month \in {4, 6, 9, 11} THEN 30 ELSE 31)
    BY <1>6, <2>3
  <2>7. DayNumber(year, month + 1, 1) = DayNumber(year, month, day) + 1
    <3>1. PICK c \in Int, l \in Int : c = count(year) /\ l = leap
      BY <1>1, <1>2
    <3>. HIDE DEF leap
    <3>. QED BY <1>1, <2>2, <2>3, <2>4, <2>5, <2>6, <3>1
  <2>. QED BY <1>9, <2>1, <2>7
<1>10. CASE day = LastDay(year, month) /\ month = 12
  <2>1. day = 31
    BY <1>1, <1>10 DEF LastDay
  <2>2. DayNumber(year, month, day) = count(year) + 334 + leap + 31 - 1
    BY <1>1, <1>3, <1>7, <1>10, <2>1
  <2>3. DayNumber(year + 1, 1, 1) = count(year + 1)
    <3>1. PICK n \in Int : n = year + 1
      BY <1>1
    <3>2. DayNumber(n, 1, 1) = count(n) + BeforeMonth[1] + (IF 1 > 2 /\ IsLeap(n) THEN 1 ELSE 0) + 1 - 1
      BY <1>3
    <3>. QED BY <1>2, <1>7, <3>1, <3>2
  <2>4. IsDate(year + 1, 1, 1)
    <3>1. LastDay(year + 1, 1) = 31
      BY DEF LastDay
    <3>. QED BY <1>1, <3>1 DEF IsDate
  <2>. QED BY <1>1, <1>2, <1>4, <1>10, <2>2, <2>3, <2>4
<1>. QED BY <1>8, <1>9, <1>10

LEMMA WallTurns == WallInv /\ Midnight => WallInv'
<1>. SUFFICES ASSUME WallInv, Midnight PROVE WallInv'
  OBVIOUS
<1>. DEFINE y == wall.year
            m == wall.month
            d == wall.day
            endsMonth == d = LastDay(y, m)
            endsYear == endsMonth /\ m = 12
            Wall == [days : Int, year : Int, month : 1 .. 12, day : Int, second : Int, offset : Int,
                     left : Int]
<1>1. /\ wall \in Wall
      /\ 0 <= wall.second /\ wall.second < 86400
      /\ IsDate(y, m, d) /\ wall.days = DayNumber(y, m, d)
  BY DEF WallInv, Midnight
<1>2. wall' = [wall EXCEPT
                 !.days = @ + 1, !.left = @ - 1,
                 !.day = IF endsMonth THEN 1 ELSE @ + 1,
                 !.month = IF endsYear THEN 1 ELSE IF endsMonth THEN @ + 1 ELSE @,
                 !.year = IF endsYear THEN @ + 1 ELSE @]
  BY DEF Midnight
<1>3. y \in Int /\ m \in 1 .. 12 /\ d \in Int
  BY <1>1
<1>4. /\ wall'.days = wall.days + 1 /\ wall'.second = wall.second
      /\ wall'.day = (IF endsMonth THEN 1 ELSE d + 1)
      /\ wall'.month = (IF endsYear THEN 1 ELSE IF endsMonth THEN m + 1 ELSE m)
      /\ wall'.year = (IF endsYear THEN y + 1 ELSE y)
  BY <1>1, <1>2
<1>5. (IF endsYear THEN 1 ELSE IF endsMonth THEN m + 1 ELSE m) \in 1 .. 12
  BY <1>3
<1>6. wall' \in Wall
  <2>1. PICK days \in Int, left \in Int, year \in Int, month \in 1 .. 12, day \in Int :
               /\ days = wall.days + 1 /\ left = wall.left - 1
               /\ year = IF endsYear THEN y + 1 ELSE y
               /\ month = IF endsYear THEN 1 ELSE IF endsMonth THEN m + 1 ELSE m
               /\ day = IF endsMonth THEN 1 ELSE d + 1
    <3>1. wall.days + 1 \in Int /\ wall.left - 1 \in Int
      BY <1>1
    <3>2. (IF endsYear THEN y + 1 ELSE y) \in Int /\ (IF endsMonth THEN 1 ELSE d + 1) \in Int
      BY <1>3
    <3>. QED BY <1>5, <3>1, <3>2
  <2>2. wall' = [wall EXCEPT !.days = days, !.left = left, !.day = day, !.month = month, !.year = year]
    BY <1>2, <2>1
  <2>3. wall \in Wall
    BY <1>1
  <2>. QED BY ONLY <2>2, <2>3
<1>7. IsDate(wall'.year, wall'.month, wall'.day)
      /\ DayNumber(wall'.year, wall'.month, wall'.day) = DayNumber(y, m, d) + 1
  <2>. HIDE DEF y, m, d
  <2>1. CASE ~endsMonth
    BY <1>1, <1>4, <2>1, DayAfter
  <2>2. CASE endsMonth /\ ~endsYear
    BY <1>1, <1>4, <2>2, DayAfter
  <2>3. CASE endsYear
    BY <1>1, <1>4, <2>3, DayAfter
  <2>. QED BY <2>1, <2>2, <2>3
<1>. QED BY <1>1, <1>4, <1>6, <1>7 DEF WallInv, IsDate, DayNumber, LastDay, IsLeap, BeforeMonth

----------------------------------------------------------------------------
(* The detail panel *)

LEMMA EditorStarts == DetailInit => EditorShowsDetail
BY DetailAssumption DEF DetailInit, EditorShowsDetail, HasDiff

LEMMA EditorKept == EditorShowsDetail /\ [DetailNext]_detailVars => EditorShowsDetail'
<1>. SUFFICES ASSUME EditorShowsDetail, [DetailNext]_detailVars PROVE EditorShowsDetail'
  OBVIOUS
<1>1. ASSUME NEW d, SetDetail(d) PROVE EditorShowsDetail'
  BY <1>1, DetailAssumption DEF SetDetail, HasDiff, EditorShowsDetail
<1>2. CASE Render
  BY <1>2 DEF Render, HasDiff, EditorShowsDetail
<1>3. CASE Surroundings \/ UNCHANGED detailVars
  BY <1>3 DEF Surroundings, detailVars, HasDiff, EditorShowsDetail
<1>. QED BY <1>1, <1>2, <1>3 DEF DetailNext

----------------------------------------------------------------------------
(* The references of the sidebar *)

LEMMA Appended ==
  ASSUME NEW X, NEW s \in Seq(X), NEW x \in X
  PROVE  /\ Append(s, x) \in Seq(X) /\ ToSet(Append(s, x)) = ToSet(s) \cup {x}
         /\ IsInjective(s) /\ x \notin ToSet(s) => IsInjective(Append(s, x))
<1>1. Len(s) \in Nat /\ DOMAIN s = 1 .. Len(s)
  BY LenProperties
<1>2. /\ Append(s, x) \in Seq(X) /\ Len(Append(s, x)) = Len(s) + 1
      /\ \A j \in 1 .. Len(s) : Append(s, x)[j] = s[j]
      /\ Append(s, x)[Len(s) + 1] = x
  BY <1>1, AppendProperties
<1>3. DOMAIN Append(s, x) = (1 .. Len(s)) \cup {Len(s) + 1}
  <2>1. DOMAIN Append(s, x) = 1 .. Len(s) + 1
    BY <1>2, LenProperties
  <2>. QED BY <1>1, <2>1
<1>4. ToSet(Append(s, x)) = ToSet(s) \cup {x}
  BY <1>1, <1>2, <1>3 DEF ToSet
<1>5. ASSUME IsInjective(s), x \notin ToSet(s) PROVE IsInjective(Append(s, x))
  <2>1. \A j \in 1 .. Len(s) : s[j] # x
    BY <1>1, <1>5 DEF ToSet
  <2>2. \A j, k \in 1 .. Len(s) : s[j] = s[k] => j = k
    BY <1>1, <1>5 DEF IsInjective
  <2>. QED BY <1>2, <1>3, <2>1, <2>2 DEF IsInjective
<1>. QED BY <1>2, <1>4, <1>5

(* What a loop that pushes some of the references pushes. *)
LEMMA AmongThose ==
  ASSUME NEW X, NEW references \in Seq(X), NEW those
  PROVE  LET t == Among(references, those)
         IN  /\ t \in Seq(X)
             /\ ToSet(t) = ToSet(references) \cap those
             /\ IsInjective(references) => IsInjective(t)
<1>. DEFINE n == Len(references)
            IsLoop(f) == f = [i \in 0 .. n |->
                               IF i = 0 THEN <<>>
                               ELSE IF references[i] \in those THEN Append(f[i - 1], references[i])
                               ELSE f[i - 1]]
            pushed == CHOOSE f : IsLoop(f)
            turn == [i \in 1 .. n |-> [s \in Seq(X) |->
                       IF references[i] \in those THEN Append(s, references[i]) ELSE s]]
<1>1. n \in Nat /\ DOMAIN references = 1 .. n /\ \A i \in 1 .. n : references[i] \in X
  BY LenProperties, ElementOfSeq
<1>2. Among(references, those) = pushed[n]
  BY DEF Among
<1>. HIDE DEF n
<1>3. PICK f \in [0 .. n -> Seq(X)] :
        /\ f[0] = <<>>
        /\ \A i \in 1 .. n : f[i] = IF references[i] \in those
                                    THEN Append(f[i - 1], references[i]) ELSE f[i - 1]
  <2>1. turn \in [1 .. n -> [Seq(X) -> Seq(X)]]
    <3>1. ASSUME NEW i \in 1 .. n, NEW s \in Seq(X) PROVE Append(s, references[i]) \in Seq(X)
      BY <1>1, AppendProperties
    <3>. QED BY <3>1
  <2>2. \A i \in 1 .. n, s \in Seq(X) :
          turn[i][s] = IF references[i] \in those THEN Append(s, references[i]) ELSE s
    OBVIOUS
  <2>. HIDE DEF turn
  <2>3. <<>> \in Seq(X)
    BY EmptySeq
  <2>4. HasRun(Seq(X), <<>>, n, turn)
    BY <1>1, <2>1, <2>3, LoopRuns
  <2>5. PICK f : LoopRun(Seq(X), <<>>, n, turn, f)
    BY <2>4 DEF HasRun
  <2>6. \A i \in 1 .. n : f[i - 1] \in Seq(X) /\ f[i] = turn[i][f[i - 1]]
    BY <1>1, <2>5 DEF LoopRun
  <2>7. \A i \in 1 .. n : f[i] = IF references[i] \in those
                                 THEN Append(f[i - 1], references[i]) ELSE f[i - 1]
    BY <2>2, <2>6
  <2>. QED BY <2>5, <2>7 DEF LoopRun
<1>4. IsLoop(pushed)
  <2>1. \A i \in 0 .. n : i # 0 => i \in 1 .. n
    BY <1>1
  <2>2. \A i \in 0 .. n : f[i] = IF i = 0 THEN <<>>
                                 ELSE IF references[i] \in those
                                 THEN Append(f[i - 1], references[i]) ELSE f[i - 1]
    BY <1>3, <2>1
  <2>3. IsLoop(f)
    BY <1>3, <2>2
  <2>. HIDE DEF IsLoop
  <2>. QED BY <2>3
<1>. HIDE DEF pushed
<1>5. /\ pushed[0] = <<>>
      /\ \A i \in 1 .. n : pushed[i] = IF references[i] \in those
                                       THEN Append(pushed[i - 1], references[i]) ELSE pushed[i - 1]
  <2>1. \A i \in 0 .. n : pushed[i] = IF i = 0 THEN <<>>
                                      ELSE IF references[i] \in those
                                      THEN Append(pushed[i - 1], references[i]) ELSE pushed[i - 1]
    BY <1>4
  <2>2. 0 \in 0 .. n /\ \A i \in 1 .. n : i \in 0 .. n /\ i # 0
    BY <1>1
  <2>. QED BY <2>1, <2>2
<1>. DEFINE Before(i) == {references[j] : j \in 1 .. i}
            Fine == {i \in 0 .. n :
                       /\ pushed[i] \in Seq(X)
                       /\ ToSet(pushed[i]) = Before(i) \cap those
                       /\ IsInjective(references) => IsInjective(pushed[i])}
<1>6. 0 \in Fine
  <2>1. <<>> \in Seq(X) /\ ToSet(<<>>) = {} /\ IsInjective(<<>>)
    BY EmptySeq DEF ToSet, IsInjective
  <2>2. Before(0) = {}
    OBVIOUS
  <2>. HIDE DEF Before
  <2>3. ToSet(pushed[0]) = Before(0) \cap those
    BY <1>5, <2>1, <2>2
  <2>4. 0 \in 0 .. n
    BY <1>1
  <2>. QED BY <1>5, <2>1, <2>3, <2>4
<1>7. ASSUME NEW i \in 1 .. n, i - 1 \in Fine PROVE i \in Fine
  <2>. DEFINE s == pushed[i - 1]
              x == references[i]
  <2>1. s \in Seq(X) /\ ToSet(s) = Before(i - 1) \cap those
        /\ (IsInjective(references) => IsInjective(s))
    BY <1>7
  <2>2. Before(i) = Before(i - 1) \cup {x}
    <3>1. 1 .. i = (1 .. i - 1) \cup {i}
      BY <1>1
    <3>. QED BY <3>1
  <2>3. IsInjective(references) => x \notin Before(i - 1)
    <3>1. \A j \in 1 .. i - 1 : j \in 1 .. n /\ j # i
      BY <1>1
    <3>. QED BY <1>1, <3>1 DEF IsInjective
  <2>4. i \in 0 .. n
    BY <1>1
  <2>. HIDE DEF Before
  <2>5. CASE x \notin those
    <3>1. pushed[i] = s
      BY <1>5, <2>5
    <3>. QED BY <2>1, <2>2, <2>4, <2>5, <3>1
  <2>6. CASE x \in those
    <3>1. pushed[i] = Append(s, x)
      BY <1>5, <2>6
    <3>. HIDE DEF s
    <3>2. x \in X
      BY <1>1
    <3>. HIDE DEF x
    <3>5. Append(s, x) \in Seq(X) /\ ToSet(Append(s, x)) = ToSet(s) \cup {x}
      BY <2>1, <3>2, Appended
    <3>6. IsInjective(references) => IsInjective(Append(s, x))
      <4>. SUFFICES ASSUME IsInjective(references) PROVE IsInjective(Append(s, x))
        OBVIOUS
      <4>1. x \notin ToSet(s) /\ IsInjective(s)
        BY <2>1, <2>3
      <4>. QED BY <2>1, <3>2, <4>1, Appended
    <3>7. ToSet(Append(s, x)) = Before(i) \cap those
      BY <2>1, <2>2, <2>6, <3>5
    <3>. QED BY <2>4, <3>1, <3>5, <3>6, <3>7
  <2>. QED BY <2>5, <2>6
<1>8. n \in Fine
  <2>. HIDE DEF Fine
  <2>1. \A i \in 0 .. n : i \in Fine
    BY <1>1, <1>6, <1>7, CountsUp
  <2>. QED BY <1>1, <2>1
<1>9. Before(n) = ToSet(references)
  BY <1>1 DEF ToSet
<1>. QED BY <1>2, <1>8, <1>9

(* Those of a set of numbers a finite sequence holds, in their order. *)
LEMMA SortedChildren ==
  ASSUME NEW children \in Seq(Nat), IsInjective(children)
  PROVE  LET t == Sorted(children)
         IN  /\ t \in Seq(Nat) /\ ToSet(t) = ToSet(children)
             /\ \A i, j \in DOMAIN t : i < j => t[i] < t[j]
<1>. DEFINE n == Len(children)
            D == 1 .. n
            Before(i) == {j \in D : children[j] < children[i] \/ (children[j] = children[i] /\ j < i)}
            rank == [i \in D |-> Cardinality(Before(i)) + 1]
            place == [k \in D |-> CHOOSE i \in D : Cardinality(Before(i)) = k - 1]
<1>1. n \in Nat /\ DOMAIN children = D /\ \A i \in D : children[i] \in Nat
  BY LenProperties, ElementOfSeq
<1>2. Sorted(children) = [k \in D |-> children[place[k]]]
  BY <1>1 DEF Sorted
<1>. HIDE DEF n
<1>3. IsFiniteSet(D) /\ Cardinality(D) = n /\ \A i \in D : i \in Nat
  <2>1. 1 \in Int /\ n \in Int
    BY <1>1
  <2>2. IsFiniteSet(1 .. n) /\ Cardinality(1 .. n) = IF 1 > n THEN 0 ELSE n - 1 + 1
    BY <2>1, FS_Interval
  <2>. QED BY <1>1, <2>2
<1>4. \A i, j \in D : children[i] = children[j] => i = j
  BY <1>1 DEF IsInjective
<1>. HIDE DEF D
<1>5. ASSUME NEW i \in D
      PROVE  /\ IsFiniteSet(Before(i)) /\ Cardinality(Before(i)) \in Nat
             /\ Cardinality(Before(i)) < n
  <2>1. Before(i) \in SUBSET D /\ i \notin Before(i)
    BY <1>1, <1>3
  <2>. HIDE DEF Before
  <2>2. IsFiniteSet(Before(i)) /\ Cardinality(Before(i)) <= n /\ Cardinality(Before(i)) # n
    BY <1>3, <2>1, FS_Subset
  <2>. QED BY <1>1, <2>2, FS_CardinalityType
<1>6. ASSUME NEW i \in D, NEW j \in D, children[i] < children[j]
      PROVE  Cardinality(Before(i)) < Cardinality(Before(j))
  <2>1. i \in Before(j) /\ i \notin Before(i)
    BY <1>1, <1>3, <1>6
  <2>2. Before(i) \in SUBSET Before(j)
    BY <1>1, <1>3, <1>6
  <2>. HIDE DEF Before
  <2>3. /\ Cardinality(Before(i)) <= Cardinality(Before(j))
        /\ Cardinality(Before(i)) # Cardinality(Before(j))
    BY <1>5, <2>1, <2>2, FS_Subset
  <2>. QED BY <1>5, <2>3
<1>. HIDE DEF Before
<1>7. rank \in Surjection(D, D)
  <2>1. rank \in [D -> D]
    <3>1. ASSUME NEW i \in D PROVE Cardinality(Before(i)) + 1 \in D
      BY <1>1, <1>5 DEF D
    <3>. QED BY <3>1
  <2>2. ASSUME NEW i \in D, NEW j \in D, rank[i] = rank[j] PROVE i = j
    <3>1. Cardinality(Before(i)) = Cardinality(Before(j))
      BY <1>5, <2>2
    <3>2. ~(children[i] < children[j]) /\ ~(children[j] < children[i])
      BY <1>5, <1>6, <3>1
    <3>. QED BY <1>1, <1>4, <3>2
  <2>. HIDE DEF rank
  <2>3. rank \in Injection(D, D)
    BY <2>1, <2>2 DEF Injection, IsInjective
  <2>. QED BY <1>3, <2>3, FS_Injection
<1>8. ASSUME NEW k \in D PROVE place[k] \in D /\ Cardinality(Before(place[k])) = k - 1
  <2>1. PICK i \in D : rank[i] = k
    BY <1>7 DEF Surjection
  <2>2. Cardinality(Before(i)) = k - 1
    BY <1>3, <1>5, <2>1
  <2>. QED BY <2>2
<1>9. ASSUME NEW i \in D PROVE \E k \in D : place[k] = i
  <2>. DEFINE k == Cardinality(Before(i)) + 1
  <2>1. k \in D /\ k - 1 = Cardinality(Before(i))
    BY <1>1, <1>5 DEF D
  <2>2. place[k] \in D /\ Cardinality(Before(place[k])) = Cardinality(Before(i))
    BY <1>8, <2>1
  <2>. HIDE DEF place, k
  <2>3. ~(children[i] < children[place[k]]) /\ ~(children[place[k]] < children[i])
    BY <1>5, <1>6, <2>2
  <2>4. place[k] = i
    BY <1>1, <1>4, <2>2, <2>3
  <2>. QED BY <2>1, <2>4
<1>10. ASSUME NEW k \in D, NEW l \in D, k < l PROVE children[place[k]] < children[place[l]]
  <2>1. /\ place[k] \in D /\ Cardinality(Before(place[k])) = k - 1
        /\ place[l] \in D /\ Cardinality(Before(place[l])) = l - 1
    BY <1>8
  <2>. HIDE DEF place
  <2>2. children[place[k]] # children[place[l]]
    <3>1. k - 1 # l - 1
      BY <1>3, <1>10
    <3>. QED BY <1>4, <2>1, <3>1
  <2>3. ~(children[place[l]] < children[place[k]])
    <3>1. ~(l - 1 < k - 1)
      BY <1>3, <1>10
    <3>. QED BY <1>6, <2>1, <3>1
  <2>. QED BY <1>1, <2>1, <2>2, <2>3
<1>. DEFINE t == [k \in D |-> children[place[k]]]
<1>. HIDE DEF place, rank
<1>11. t \in Seq(Nat) /\ DOMAIN t = D
  <2>1. \A k \in D : children[place[k]] \in Nat
    BY <1>1, <1>8
  <2>2. t \in [1 .. n -> Nat]
    BY <2>1 DEF D
  <2>. QED BY <1>1, <2>2, SeqDef
<1>12. ToSet(t) = ToSet(children)
  BY <1>1, <1>8, <1>9, <1>11 DEF ToSet
<1>13. \A i, j \in DOMAIN t : i < j => t[i] < t[j]
  BY <1>10, <1>11
<1>. QED BY <1>2, <1>11, <1>12, <1>13

(* Prefixes of names *)
LEMMA PrefixIs ==
  ASSUME NEW s \in Seq(Nat), NEW t \in Seq(Nat)
  PROVE  IsPrefix(s, t) <=> Len(s) <= Len(t) /\ \A i \in 1 .. Len(s) : s[i] = t[i]
<1>1. Len(s) \in Nat /\ Len(t) \in Nat /\ SubSeq(s, 1, Len(s)) = s
      /\ \A i \in 1 .. Len(t) : t[i] \in Nat
  BY LenProperties, SubSeqFull, ElementOfSeq
<1>. SUFFICES ASSUME Len(s) <= Len(t)
              PROVE  s = SubSeq(t, 1, Len(s)) <=> \A i \in 1 .. Len(s) : s[i] = t[i]
  BY <1>1 DEF IsPrefix
<1>. DEFINE c == SubSeq(t, 1, Len(s))
<1>2. c \in Seq(Nat) /\ Len(c) = Len(s) /\ \A i \in 1 .. Len(s) : c[i] = t[i]
  <2>1. 1 \in Int /\ Len(s) \in Int /\ \A i \in 1 .. Len(s) : t[i] \in Nat
    BY <1>1
  <2>2. /\ c \in Seq(Nat) /\ Len(c) = IF 1 <= Len(s) THEN Len(s) - 1 + 1 ELSE 0
        /\ \A i \in 1 .. Len(s) - 1 + 1 : c[i] = t[1 + i - 1]
    BY <2>1, SubSeqProperties
  <2>. HIDE DEF c
  <2>3. Len(c) = Len(s)
    BY <1>1, <2>2
  <2>4. ASSUME NEW i \in 1 .. Len(s) PROVE c[i] = t[i]
    <3>1. i \in 1 .. Len(s) - 1 + 1 /\ 1 + i - 1 = i
      BY <1>1
    <3>. QED BY <2>2, <3>1
  <2>. QED BY <2>2, <2>3, <2>4
<1>. HIDE DEF c
<1>3. ASSUME \A i \in 1 .. Len(s) : s[i] = t[i] PROVE s = c
  BY <1>2, <1>3, SeqEqual
<1>. QED BY <1>2, <1>3 DEF c

LEMMA PrefixesAre ==
  ASSUME NEW t \in Seq(Nat)
  PROVE  Prefixes(t) = {s \in Seq(Nat) : IsPrefix(s, t)}
<1>1. Len(t) \in Nat /\ \A i \in 1 .. Len(t) : t[i] \in Nat
  BY LenProperties, ElementOfSeq
<1>2. ASSUME NEW l \in 0 .. Len(t) PROVE SubSeq(t, 1, l) \in Seq(Nat) /\ IsPrefix(SubSeq(t, 1, l), t)
  <2>. DEFINE c == SubSeq(t, 1, l)
  <2>1. 1 \in Int /\ l \in Int /\ l \in Nat /\ l <= Len(t) /\ \A i \in 1 .. l : t[i] \in Nat
    BY <1>1
  <2>2. /\ c \in Seq(Nat) /\ Len(c) = IF 1 <= l THEN l - 1 + 1 ELSE 0
        /\ \A i \in 1 .. l - 1 + 1 : c[i] = t[1 + i - 1]
    BY <2>1, SubSeqProperties
  <2>. HIDE DEF c
  <2>3. Len(c) = l
    BY <2>1, <2>2
  <2>4. ASSUME NEW i \in 1 .. l PROVE c[i] = t[i]
    <3>1. i \in 1 .. l - 1 + 1 /\ 1 + i - 1 = i
      BY <2>1
    <3>. QED BY <2>2, <3>1
  <2>5. IsPrefix(c, t)
    BY <2>1, <2>2, <2>3, <2>4, PrefixIs
  <2>. QED BY <2>2, <2>5 DEF c
<1>3. ASSUME NEW s \in Seq(Nat), IsPrefix(s, t) PROVE \E l \in 0 .. Len(t) : s = SubSeq(t, 1, l)
  <2>1. Len(s) \in Nat /\ SubSeq(s, 1, Len(s)) = s
    BY LenProperties, SubSeqFull
  <2>2. Len(s) \in 0 .. Len(t)
    BY <1>1, <1>3, <2>1 DEF IsPrefix
  <2>3. s = SubSeq(t, 1, Len(s))
    BY <1>3, <2>1 DEF IsPrefix
  <2>. WITNESS Len(s) \in 0 .. Len(t)
  <2>. QED BY <2>3
<1>. QED BY <1>2, <1>3 DEF Prefixes

LEMMA PrefixOfMore ==
  ASSUME NEW p \in Seq(Nat), NEW t \in Seq(Nat), NEW x \in Nat
  PROVE  IsPrefix(Append(p, x), t) <=> IsPrefix(p, t) /\ Len(p) < Len(t) /\ t[Len(p) + 1] = x
<1>1. Len(p) \in Nat /\ Len(t) \in Nat
  BY LenProperties
<1>2. /\ Append(p, x) \in Seq(Nat) /\ Len(Append(p, x)) = Len(p) + 1
      /\ \A i \in 1 .. Len(p) : Append(p, x)[i] = p[i]
      /\ Append(p, x)[Len(p) + 1] = x
  BY <1>1, AppendProperties
<1>3. 1 .. Len(p) + 1 = (1 .. Len(p)) \cup {Len(p) + 1}
  BY <1>1
<1>4. IsPrefix(Append(p, x), t)
      <=> Len(p) + 1 <= Len(t) /\ \A i \in 1 .. Len(p) + 1 : Append(p, x)[i] = t[i]
  BY <1>2, PrefixIs
<1>5. (\A i \in 1 .. Len(p) + 1 : Append(p, x)[i] = t[i])
      <=> (\A i \in 1 .. Len(p) : p[i] = t[i]) /\ x = t[Len(p) + 1]
  BY <1>2, <1>3
<1>. DEFINE Agree == \A i \in 1 .. Len(p) : p[i] = t[i]
<1>6. IsPrefix(p, t) <=> Len(p) <= Len(t) /\ Agree
  BY PrefixIs
<1>7. IsPrefix(Append(p, x), t) <=> Len(p) + 1 <= Len(t) /\ Agree /\ x = t[Len(p) + 1]
  BY <1>4, <1>5
<1>. HIDE DEF Agree
<1>8. Len(p) + 1 <= Len(t) <=> Len(p) < Len(t)
  BY <1>1
<1>9. Len(p) < Len(t) => Len(p) <= Len(t)
  BY <1>1
<1>. QED BY ONLY <1>6, <1>7, <1>8, <1>9

LEMMA PrefixOfSelf ==
  ASSUME NEW p \in Seq(Nat)
  PROVE  IsPrefix(p, p) /\ IsPrefix(<<>>, p) /\ <<>> \in Seq(Nat)
<1>1. <<>> \in Seq(Nat) /\ Len(<<>>) = 0 /\ Len(p) \in Nat /\ 1 .. 0 = {}
  BY EmptySeq, LenProperties
<1>2. IsPrefix(p, p)
  BY <1>1, PrefixIs
<1>3. Len(<<>>) <= Len(p) /\ \A i \in 1 .. Len(<<>>) : <<>>[i] = p[i]
  BY <1>1
<1>4. IsPrefix(<<>>, p)
  BY <1>1, <1>3, PrefixIs
<1>. QED BY <1>1, <1>2, <1>4

LEMMA StrictPrefixIs ==
  ASSUME NEW p \in Seq(Nat), NEW t \in Seq(Nat)
  PROVE  IsStrictPrefix(p, t) <=> IsPrefix(p, t) /\ Len(p) < Len(t)
<1>1. Len(p) \in Nat /\ Len(t) \in Nat
  BY LenProperties
<1>2. IsPrefix(p, t) <=> Len(p) <= Len(t) /\ \A i \in 1 .. Len(p) : p[i] = t[i]
  BY PrefixIs
<1>3. ASSUME IsPrefix(p, t), p # t PROVE Len(p) # Len(t)
  BY <1>2, <1>3, SeqEqual
<1>. QED BY <1>1, <1>2, <1>3 DEF IsStrictPrefix

LEMMA OneLonger ==
  ASSUME NEW p \in Seq(Nat), NEW q \in Seq(Nat)
  PROVE  Len(q) = Len(p) + 1 /\ IsPrefix(p, q) <=> \E x \in Nat : q = Append(p, x)
<1>1. Len(p) \in Nat /\ Len(q) \in Nat /\ \A i \in 1 .. Len(q) : q[i] \in Nat
  BY LenProperties, ElementOfSeq
<1>2. ASSUME NEW x \in Nat
      PROVE  /\ Append(p, x) \in Seq(Nat) /\ Len(Append(p, x)) = Len(p) + 1
             /\ \A i \in 1 .. Len(p) : Append(p, x)[i] = p[i]
             /\ Append(p, x)[Len(p) + 1] = x
  BY <1>1, AppendProperties
<1>3. IsPrefix(p, q) <=> Len(p) <= Len(q) /\ \A i \in 1 .. Len(p) : p[i] = q[i]
  BY PrefixIs
<1>4. ASSUME NEW x \in Nat, q = Append(p, x) PROVE Len(q) = Len(p) + 1 /\ IsPrefix(p, q)
  BY <1>1, <1>2, <1>3, <1>4
<1>5. ASSUME Len(q) = Len(p) + 1, IsPrefix(p, q) PROVE \E x \in Nat : q = Append(p, x)
  <2>. DEFINE x == q[Len(q)]
              c == Append(p, x)
  <2>1. x \in Nat /\ Len(q) = Len(p) + 1
    BY <1>1, <1>5
  <2>2. c \in Seq(Nat) /\ Len(c) = Len(q) /\ (\A i \in 1 .. Len(p) : c[i] = p[i]) /\ c[Len(p) + 1] = x
    BY <1>2, <1>5, <2>1
  <2>3. 1 .. Len(q) = (1 .. Len(p)) \cup {Len(p) + 1}
    BY <1>1, <1>5
  <2>. HIDE DEF c
  <2>4. \A i \in 1 .. Len(q) : c[i] = q[i]
    BY <1>3, <1>5, <2>1, <2>2, <2>3
  <2>5. c = q
    BY <2>2, <2>4, SeqEqual
  <2>. QED BY <2>1, <2>5 DEF c
<1>. QED BY <1>4, <1>5

(* The nodes a set of references spans, and its forest. *)
NodesOf(R) == {Root} \cup {p \in Seq(Nat) : \E r \in R : IsPrefix(p, r.name)}

NodeOf(X) == [reference : X \cup {NoReference}, children : Seq(Nat)]

Nameable(X) ==
  /\ \A r \in X : r.name \in Seq(Nat) /\ r.name # <<>>
  /\ \A r, s \in X : r.name = s.name => r = s

SpansNode(node, p, R) ==
  /\ IsInjective(node.children)
  /\ ToSet(node.children) = {x \in Nat : Append(p, x) \in NodesOf(R)}
  /\ \A r \in R : r.name = p => node.reference = r
  /\ (\A r \in R : r.name # p) => node.reference = NoReference

ForestOf(f, X, R) ==
  /\ f \in [NodesOf(R) -> NodeOf(X)]
  /\ \A p \in NodesOf(R) : SpansNode(f[p], p, R)

LEMMA FoundOrAdded ==
  ASSUME NEW s \in Seq(Nat), IsInjective(s), NEW x \in Nat
  PROVE  LET t == IF Contains(s, x) THEN s ELSE Append(s, x)
         IN  t \in Seq(Nat) /\ IsInjective(t) /\ ToSet(t) = ToSet(s) \cup {x}
<1>1. DOMAIN s = 1 .. Len(s)
  BY LenProperties
<1>2. Contains(s, x) <=> x \in ToSet(s)
  BY <1>1 DEF Contains, ToSet
<1>. QED BY <1>2, Appended

LEMMA NodesAreNames == ASSUME NEW R, NEW p \in NodesOf(R) PROVE p \in Seq(Nat)
BY EmptySeq DEF NodesOf, Root

(* What leads to a node is a node. *)
LEMMA NodesAreClosed ==
  ASSUME NEW X, Nameable(X), NEW R \in SUBSET X, NEW p \in Seq(Nat), NEW x \in Nat,
         Append(p, x) \in NodesOf(R)
  PROVE  p \in NodesOf(R)
<1>1. Append(p, x) # Root
  <2>1. Len(Append(p, x)) = Len(p) + 1 /\ Len(p) \in Nat /\ Len(<<>>) = 0
    BY AppendProperties, LenProperties, EmptySeq
  <2>. QED BY <2>1 DEF Root
<1>2. PICK r \in R : IsPrefix(Append(p, x), r.name)
  BY <1>1 DEF NodesOf
<1>3. r.name \in Seq(Nat)
  BY DEF Nameable
<1>4. IsPrefix(p, r.name)
  BY <1>2, <1>3, PrefixOfMore
<1>. QED BY <1>4 DEF NodesOf

LEMMA InsertGrows ==
  ASSUME NEW X, Nameable(X), NEW R \in SUBSET X, NEW f, ForestOf(f, X, R), NEW r \in X
  PROVE  ForestOf(Insert(f, r), X, R \cup {r})
<1>. DEFINE N == NodesOf(R)
            path == r.name
            M == N \cup Prefixes(path)
            node(p) == IF p \in N THEN f[p] ELSE Leafless
            kids(p) == node(p).children
            next(p) == path[Len(p) + 1]
            more(p) == IF Contains(kids(p), next(p)) THEN kids(p) ELSE Append(kids(p), next(p))
            new(p) == [reference |-> IF p = path THEN r ELSE node(p).reference,
                       children |-> IF IsStrictPrefix(p, path) THEN more(p) ELSE kids(p)]
<1>1. DOMAIN f = N /\ path \in Seq(Nat) /\ path # <<>>
  BY DEF ForestOf, Nameable
<1>2. Insert(f, r) = [p \in M |-> new(p)]
  BY <1>1 DEF Insert
<1>3. M = NodesOf(R \cup {r})
  <2>1. Prefixes(path) = {s \in Seq(Nat) : IsPrefix(s, path)}
    BY <1>1, PrefixesAre
  <2>. QED BY <2>1 DEF NodesOf
<1>4. \A p \in M : p \in Seq(Nat)
  BY <1>3, NodesAreNames
<1>5. \A p \in Seq(Nat) : p \in Prefixes(path) <=> IsPrefix(p, path)
  BY <1>1, PrefixesAre
<1>. HIDE DEF path
<1>6. ASSUME NEW p \in M
      PROVE  /\ node(p) \in NodeOf(X) /\ kids(p) \in Seq(Nat) /\ IsInjective(kids(p))
             /\ ToSet(kids(p)) = {x \in Nat : Append(p, x) \in N}
             /\ \A s \in R : s.name = p => node(p).reference = s
             /\ (\A s \in R : s.name # p) => node(p).reference = NoReference
  <2>1. CASE p \in N
    <3>1. f[p] \in NodeOf(X) /\ SpansNode(f[p], p, R)
      BY <2>1 DEF ForestOf
    <3>2. node(p) = f[p]
      BY <2>1
    <3>. HIDE DEF node, N
    <3>. QED BY <3>1, <3>2 DEF SpansNode, NodeOf, N
  <2>2. CASE p \notin N
    <3>1. node(p) = Leafless
      BY <2>2
    <3>2. /\ Leafless \in NodeOf(X) /\ Leafless.children = <<>>
          /\ Leafless.reference = NoReference /\ <<>> \in Seq(Nat)
          /\ IsInjective(<<>>) /\ ToSet(<<>>) = {}
      BY EmptySeq DEF Leafless, NodeOf, IsInjective, ToSet
    <3>3. \A x \in Nat : Append(p, x) \notin N
      BY <1>4, <2>2, NodesAreClosed
    <3>4. \A s \in R : s.name # p
      BY <1>4, <2>2, PrefixOfSelf DEF NodesOf
    <3>. HIDE DEF node, N
    <3>. QED BY <3>1, <3>2, <3>3, <3>4
  <2>. QED BY <2>1, <2>2
<1>. HIDE DEF node
<1>7. ASSUME NEW p \in M
      PROVE  /\ new(p).children \in Seq(Nat) /\ IsInjective(new(p).children)
             /\ ToSet(new(p).children) = {x \in Nat : Append(p, x) \in M}
  <2>1. p \in Seq(Nat) /\ Len(p) \in Nat /\ Len(path) \in Nat
    BY <1>1, <1>4, LenProperties
  <2>2. \A x \in Nat : Append(p, x) \in Seq(Nat)
    BY <2>1, AppendProperties
  <2>3. \A x \in Nat : Append(p, x) \in Prefixes(path) <=> IsStrictPrefix(p, path) /\ next(p) = x
    <3>. TAKE x \in Nat
    <3>1. Append(p, x) \in Prefixes(path) <=> IsPrefix(Append(p, x), path)
      BY <1>5, <2>2
    <3>2. IsPrefix(Append(p, x), path) <=> IsPrefix(p, path) /\ Len(p) < Len(path) /\ next(p) = x
      BY <1>1, <2>1, PrefixOfMore
    <3>. QED BY <1>1, <2>1, <3>1, <3>2, StrictPrefixIs
  <2>4. kids(p) \in Seq(Nat) /\ IsInjective(kids(p)) /\ ToSet(kids(p)) = {x \in Nat : Append(p, x) \in N}
    BY <1>6
  <2>. HIDE DEF kids
  <2>5. CASE IsStrictPrefix(p, path)
    <3>1. next(p) \in Nat
      <4>1. Len(p) < Len(path)
        BY <1>1, <2>1, <2>5, StrictPrefixIs
      <4>2. Len(p) + 1 \in 1 .. Len(path)
        BY <2>1, <4>1
      <4>. QED BY <1>1, <4>2, ElementOfSeq
    <3>2. more(p) \in Seq(Nat) /\ IsInjective(more(p)) /\ ToSet(more(p)) = ToSet(kids(p)) \cup {next(p)}
      <4>. HIDE DEF next
      <4>. QED BY <2>4, <3>1, FoundOrAdded
    <3>3. new(p).children = more(p)
      BY <2>5
    <3>. HIDE DEF more, next, new
    <3>4. {x \in Nat : Append(p, x) \in M} = {x \in Nat : Append(p, x) \in N} \cup {next(p)}
      BY <2>3, <2>5, <3>1
    <3>. QED BY <2>4, <3>2, <3>3, <3>4
  <2>6. CASE ~IsStrictPrefix(p, path)
    <3>1. new(p).children = kids(p)
      BY <2>6
    <3>. HIDE DEF new
    <3>2. {x \in Nat : Append(p, x) \in M} = {x \in Nat : Append(p, x) \in N}
      BY <2>3, <2>6
    <3>. QED BY <2>4, <3>1, <3>2
  <2>. QED BY <2>5, <2>6
<1>8. ASSUME NEW p \in M
      PROVE  /\ new(p).reference \in X \cup {NoReference}
             /\ \A s \in R \cup {r} : s.name = p => new(p).reference = s
             /\ (\A s \in R \cup {r} : s.name # p) => new(p).reference = NoReference
  <2>1. node(p).reference \in X \cup {NoReference}
    BY <1>6 DEF NodeOf
  <2>2. /\ \A s \in R : s.name = p => node(p).reference = s
        /\ (\A s \in R : s.name # p) => node(p).reference = NoReference
    BY <1>6
  <2>3. \A s \in R \cup {r} : s.name = path => s = r
    BY DEF Nameable, path
  <2>4. new(p).reference = IF p = path THEN r ELSE node(p).reference
    OBVIOUS
  <2>. HIDE DEF new
  <2>. QED BY <2>1, <2>2, <2>3, <2>4 DEF path
<1>9. ASSUME NEW p \in M PROVE new(p) \in NodeOf(X) /\ SpansNode(new(p), p, R \cup {r})
  <2>1. new(p) = [reference |-> new(p).reference, children |-> new(p).children]
    OBVIOUS
  <2>. HIDE DEF new, M
  <2>2. new(p) \in NodeOf(X)
    BY <1>7, <1>8, <2>1 DEF NodeOf
  <2>3. SpansNode(new(p), p, R \cup {r})
    BY <1>3, <1>7, <1>8 DEF SpansNode
  <2>. QED BY <2>2, <2>3
<1>. HIDE DEF new, M
<1>. DEFINE grown == [p \in M |-> new(p)]
<1>10. grown \in [M -> NodeOf(X)] /\ \A p \in M : grown[p] = new(p)
  BY <1>9
<1>. HIDE DEF grown
<1>11. ForestOf(grown, X, R \cup {r})
  BY <1>3, <1>9, <1>10 DEF ForestOf
<1>. QED BY <1>2, <1>11 DEF grown

(* The forest of a section spans its references, siblings in order. *)
LEMMA Grouped ==
  ASSUME NEW X, Nameable(X), NEW references \in Seq(X)
  PROVE  LET g == GroupByPath(references)
             R == ToSet(references)
         IN  /\ DOMAIN g = NodesOf(R)
             /\ \A p \in NodesOf(R) :
                  /\ g[p].children \in Seq(Nat)
                  /\ \A i, j \in DOMAIN g[p].children : i < j => g[p].children[i] < g[p].children[j]
                  /\ ToSet(g[p].children) = {x \in Nat : Append(p, x) \in NodesOf(R)}
                  /\ \A r \in R : r.name = p => g[p].reference = r
                  /\ (\A r \in R : r.name # p) => g[p].reference = NoReference
<1>. DEFINE n == Len(references)
            bare == [p \in {Root} |-> Leafless]
            Forests == {f \in UNION {[NodesOf(R) -> NodeOf(X)] : R \in SUBSET X} :
                          \E R \in SUBSET X : ForestOf(f, X, R)}
            IsLoop(f) == f = [i \in 0 .. n |-> IF i = 0 THEN bare ELSE Insert(f[i - 1], references[i])]
            grown == CHOOSE f : IsLoop(f)
            turn == [i \in 1 .. n |-> [f \in Forests |-> Insert(f, references[i])]]
            g == GroupByPath(references)
<1>1. n \in Nat /\ DOMAIN references = 1 .. n /\ \A i \in 1 .. n : references[i] \in X
  BY LenProperties, ElementOfSeq
<1>2. g = [p \in DOMAIN grown[n] |-> [grown[n][p] EXCEPT !.children = Sorted(@)]]
  BY DEF GroupByPath
<1>. HIDE DEF n, g
<1>3. ASSUME NEW f, NEW R \in SUBSET X, ForestOf(f, X, R) PROVE f \in Forests
  BY <1>3 DEF ForestOf
<1>4. ForestOf(bare, X, {})
  <2>1. NodesOf({}) = {Root}
    BY DEF NodesOf
  <2>2. bare \in [{Root} -> NodeOf(X)] /\ bare[Root] = Leafless
    BY EmptySeq DEF Leafless, NodeOf
  <2>3. SpansNode(Leafless, Root, {})
    <3>1. IsInjective(<<>>) /\ ToSet(<<>>) = {}
      BY DEF IsInjective, ToSet
    <3>2. ASSUME NEW x \in Nat PROVE Append(Root, x) # Root
      <4>1. <<>> \in Seq(Nat) /\ Len(<<>>) = 0
        BY EmptySeq
      <4>2. Len(Append(<<>>, x)) = 0 + 1
        BY <4>1, AppendProperties
      <4>. QED BY <4>1, <4>2 DEF Root
    <3>3. Leafless.children = <<>> /\ Leafless.reference = NoReference
      BY DEF Leafless
    <3>. QED BY <2>1, <3>1, <3>2, <3>3 DEF SpansNode
  <2>. HIDE DEF bare
  <2>. QED BY <2>1, <2>2, <2>3 DEF ForestOf
<1>5. ASSUME NEW f \in Forests, NEW r \in X PROVE Insert(f, r) \in Forests
  <2>1. PICK R \in SUBSET X : ForestOf(f, X, R)
    OBVIOUS
  <2>2. ForestOf(Insert(f, r), X, R \cup {r}) /\ R \cup {r} \in SUBSET X
    BY <2>1, InsertGrows
  <2>. HIDE DEF Forests
  <2>. QED BY <1>3, <2>2
<1>6. bare \in Forests
  <2>. HIDE DEF Forests, bare
  <2>. QED BY <1>3, <1>4
<1>. HIDE DEF Forests, bare
<1>7. PICK f \in [0 .. n -> Forests] :
        f[0] = bare /\ \A i \in 1 .. n : f[i] = Insert(f[i - 1], references[i])
  <2>1. turn \in [1 .. n -> [Forests -> Forests]]
        /\ \A i \in 1 .. n, f \in Forests : turn[i][f] = Insert(f, references[i])
    BY <1>1, <1>5
  <2>. HIDE DEF turn
  <2>2. HasRun(Forests, bare, n, turn)
    BY <1>1, <1>6, <2>1, LoopRuns
  <2>3. PICK f : LoopRun(Forests, bare, n, turn, f)
    BY <2>2 DEF HasRun
  <2>4. \A i \in 1 .. n : f[i - 1] \in Forests /\ f[i] = turn[i][f[i - 1]]
    BY <1>1, <2>3 DEF LoopRun
  <2>5. \A i \in 1 .. n : f[i] = Insert(f[i - 1], references[i])
    BY <2>1, <2>4
  <2>. QED BY <2>3, <2>5 DEF LoopRun
<1>8. IsLoop(grown)
  <2>1. \A i \in 0 .. n : i # 0 => i \in 1 .. n
    BY <1>1
  <2>2. \A i \in 0 .. n : f[i] = IF i = 0 THEN bare ELSE Insert(f[i - 1], references[i])
    BY <1>7, <2>1
  <2>3. IsLoop(f)
    BY <1>7, <2>2
  <2>. HIDE DEF IsLoop
  <2>. QED BY <2>3
<1>. HIDE DEF grown
<1>9. grown[0] = bare /\ \A i \in 1 .. n : grown[i] = Insert(grown[i - 1], references[i])
  <2>1. \A i \in 0 .. n : grown[i] = IF i = 0 THEN bare ELSE Insert(grown[i - 1], references[i])
    BY <1>8
  <2>2. 0 \in 0 .. n /\ \A i \in 1 .. n : i \in 0 .. n /\ i # 0
    BY <1>1
  <2>. QED BY <2>1, <2>2
<1>. DEFINE Before(i) == {references[j] : j \in 1 .. i}
            Spanned == {i \in 0 .. n : ForestOf(grown[i], X, Before(i))}
<1>10. \A i \in 0 .. n : Before(i) \in SUBSET X
  BY <1>1
<1>11. 0 \in Spanned
  <2>1. Before(0) = {} /\ 0 \in 0 .. n
    BY <1>1
  <2>. HIDE DEF Before
  <2>. QED BY <1>4, <1>9, <2>1
<1>12. ASSUME NEW i \in 1 .. n, i - 1 \in Spanned PROVE i \in Spanned
  <2>1. Before(i) = Before(i - 1) \cup {references[i]}
    <3>1. 1 .. i = (1 .. i - 1) \cup {i}
      BY <1>1
    <3>. QED BY <3>1
  <2>2. i \in 0 .. n /\ i - 1 \in 0 .. n
    BY <1>1
  <2>3. ForestOf(grown[i - 1], X, Before(i - 1))
    BY <1>12
  <2>. HIDE DEF Before
  <2>4. ForestOf(Insert(grown[i - 1], references[i]), X, Before(i - 1) \cup {references[i]})
    BY <1>1, <1>10, <2>2, <2>3, InsertGrows
  <2>. QED BY <1>9, <2>1, <2>2, <2>4
<1>13. ForestOf(grown[n], X, ToSet(references))
  <2>1. Before(n) = ToSet(references)
    BY <1>1 DEF ToSet
  <2>2. n \in Spanned
    <3>. HIDE DEF Spanned
    <3>1. \A i \in 0 .. n : i \in Spanned
      BY <1>1, <1>11, <1>12, CountsUp
    <3>. QED BY <1>1, <3>1
  <2>. HIDE DEF Before
  <2>. QED BY <2>1, <2>2
<1>. DEFINE R == ToSet(references)
            forest == grown[n]
<1>. HIDE DEF R, forest
<1>14. /\ forest \in [NodesOf(R) -> NodeOf(X)] /\ DOMAIN forest = NodesOf(R)
       /\ \A p \in NodesOf(R) : SpansNode(forest[p], p, R)
  BY <1>13 DEF ForestOf, R, forest
<1>15. DOMAIN g = NodesOf(R)
       /\ \A p \in NodesOf(R) : g[p] = [forest[p] EXCEPT !.children = Sorted(@)]
  BY <1>2, <1>14 DEF forest
<1>16. ASSUME NEW p \in NodesOf(R)
       PROVE  /\ g[p].children \in Seq(Nat)
              /\ \A i, j \in DOMAIN g[p].children : i < j => g[p].children[i] < g[p].children[j]
              /\ ToSet(g[p].children) = {x \in Nat : Append(p, x) \in NodesOf(R)}
              /\ \A r \in R : r.name = p => g[p].reference = r
              /\ (\A r \in R : r.name # p) => g[p].reference = NoReference
  <2>1. forest[p] \in NodeOf(X) /\ SpansNode(forest[p], p, R)
    BY <1>14
  <2>2. g[p].reference = forest[p].reference /\ g[p].children = Sorted(forest[p].children)
        /\ forest[p].children \in Seq(Nat)
    BY <1>15, <2>1 DEF NodeOf
  <2>3. LET t == Sorted(forest[p].children)
        IN  /\ t \in Seq(Nat) /\ ToSet(t) = ToSet(forest[p].children)
            /\ \A i, j \in DOMAIN t : i < j => t[i] < t[j]
    BY <2>1, <2>2, SortedChildren DEF SpansNode
  <2>. QED BY <2>1, <2>2, <2>3 DEF SpansNode
<1>. QED BY <1>15, <1>16 DEF R, g

(* The sidebar's inductive invariant: what was read of the references held is
   listed once, unless the listing failed. *)
Passed == {ref \in held \ ToSet(unread) : ref.category \in Section}

ListedOnce ==
  /\ \A ref \in held \ ToSet(unread) : Readable(ref)
  /\ entries \in Seq({Reference(ref) : ref \in held}) /\ IsInjective(entries)
  /\ ToSet(entries) = {Reference(ref) : ref \in Passed}

TreeInv ==
  /\ held = {} \/ held \in Repository
  /\ unread \in Seq(held) /\ IsInjective(unread)
  /\ listing \in {"reading", "listed", "failed", "refused"}
  /\ listing = "listed" => unread = <<>>
  /\ listing = "failed" => \E ref \in held : ~Readable(ref)
  /\ listing \in {"reading", "listed"} => ListedOnce

LEMMA ReferencesDiffer ==
  ASSUME held = {} \/ held \in Repository, NEW ref \in held, NEW other \in held,
         Reference(ref) = Reference(other)
  PROVE  ref = other
<1>1. held \in Repository
  OBVIOUS
<1>2. ref.category = other.category /\ ref.name = other.name
  BY DEF Reference
<1>. QED BY <1>1, <1>2, ReferenceTreeAssumption

LEMMA HeadAndTail ==
  ASSUME NEW X, NEW s \in Seq(X), s # <<>>, IsInjective(s)
  PROVE  /\ Head(s) \in X /\ Tail(s) \in Seq(X) /\ IsInjective(Tail(s))
         /\ ToSet(s) = {Head(s)} \cup ToSet(Tail(s)) /\ Head(s) \notin ToSet(Tail(s))
<1>1. Len(s) \in Nat /\ Len(s) # 0 /\ DOMAIN s = 1 .. Len(s) /\ Head(s) = s[1]
  BY LenProperties, EmptySeq
<1>2. /\ Head(s) \in X /\ Tail(s) \in Seq(X) /\ Len(Tail(s)) = Len(s) - 1
      /\ \A i \in 1 .. Len(s) - 1 : Tail(s)[i] = s[i + 1]
  BY HeadTailProperties
<1>3. DOMAIN Tail(s) = 1 .. Len(s) - 1
  BY <1>2, LenProperties
<1>4. \A i, j \in 1 .. Len(s) : s[i] = s[j] => i = j
  BY <1>1 DEF IsInjective
<1>5. \A i \in 1 .. Len(s) - 1 : i + 1 \in 1 .. Len(s) /\ i + 1 # 1 /\ i \in Nat
  BY <1>1
<1>6. IsInjective(Tail(s))
  <2>. SUFFICES ASSUME NEW i \in 1 .. Len(s) - 1, NEW j \in 1 .. Len(s) - 1, Tail(s)[i] = Tail(s)[j]
                PROVE  i = j
    BY <1>3 DEF IsInjective
  <2>1. s[i + 1] = s[j + 1]
    BY <1>2
  <2>2. i + 1 = j + 1
    BY <1>4, <1>5, <2>1
  <2>. QED BY <1>5, <2>2
<1>7. ToSet(s) = {Head(s)} \cup ToSet(Tail(s))
  <2>1. ASSUME NEW i \in 1 .. Len(s), i # 1 PROVE s[i] \in ToSet(Tail(s))
    <3>1. i - 1 \in 1 .. Len(s) - 1 /\ (i - 1) + 1 = i
      BY <1>1, <2>1
    <3>2. Tail(s)[i - 1] = s[i]
      BY <1>2, <3>1
    <3>. QED BY <1>3, <3>1, <3>2 DEF ToSet
  <2>2. 1 \in 1 .. Len(s)
    BY <1>1
  <2>3. \A x \in ToSet(Tail(s)) : x \in ToSet(s)
    BY <1>1, <1>2, <1>3, <1>5 DEF ToSet
  <2>4. \A x \in ToSet(s) : x = Head(s) \/ x \in ToSet(Tail(s))
    BY <1>1, <2>1 DEF ToSet
  <2>5. Head(s) \in ToSet(s)
    BY <1>1, <2>2 DEF ToSet
  <2>. QED BY <2>3, <2>4, <2>5
<1>8. Head(s) \notin ToSet(Tail(s))
  <2>1. ASSUME NEW i \in 1 .. Len(s) - 1 PROVE Tail(s)[i] # s[1]
    <3>1. 1 \in 1 .. Len(s)
      BY <1>1
    <3>. QED BY <1>2, <1>4, <1>5, <3>1
  <2>. QED BY <1>1, <1>3, <2>1 DEF ToSet
<1>. QED BY <1>2, <1>6, <1>7, <1>8

LEMMA TreeStarts == TreeInit \/ TreeIdle => TreeInv
<1>1. ASSUME TreeIdle PROVE TreeInv
  <2>1. <<>> \in Seq({}) /\ IsInjective(<<>>)
    BY EmptySeq DEF IsInjective
  <2>. QED BY <1>1, <2>1 DEF TreeIdle, TreeInv
<1>2. ASSUME TreeInit PROVE TreeInv
  <2>. DEFINE n == Cardinality(held)
  <2>1. held \in Repository /\ IsFiniteSet(held) /\ n \in Nat /\ entries = <<>> /\ listing = "reading"
    BY <1>2, ReferenceTreeAssumption, FS_CardinalityType DEF TreeInit
  <2>2. unread \in [1 .. n -> held] /\ \A i, j \in 1 .. n : i # j => unread[i] # unread[j]
    BY <1>2 DEF TreeInit, SetToSeqs
  <2>. HIDE DEF n
  <2>3. unread \in Seq(held) /\ DOMAIN unread = 1 .. n /\ IsInjective(unread)
    <3>1. unread \in Seq(held)
      BY <2>1, <2>2, SeqDef
    <3>. QED BY <2>2, <3>1 DEF IsInjective
  <2>4. IsFiniteSet(1 .. n) /\ Cardinality(1 .. n) = n
    <3>1. 1 \in Int /\ n \in Int
      BY <2>1
    <3>2. IsFiniteSet(1 .. n) /\ Cardinality(1 .. n) = IF 1 > n THEN 0 ELSE n - 1 + 1
      BY <3>1, FS_Interval
    <3>. QED BY <2>1, <3>2
  <2>5. unread \in Surjection(1 .. n, held)
    <3>1. unread \in Injection(1 .. n, held)
      BY <2>2 DEF Injection, IsInjective
    <3>. QED BY <2>1, <2>4, <3>1, FS_Injection DEF n
  <2>6. ToSet(unread) = held
    BY <2>2, <2>3, <2>5 DEF Surjection, ToSet
  <2>7. ListedOnce
    <3>1. Passed = {} /\ held \ ToSet(unread) = {}
      BY <2>6 DEF Passed
    <3>2. <<>> \in Seq({Reference(ref) : ref \in held}) /\ IsInjective(<<>>) /\ ToSet(<<>>) = {}
      BY EmptySeq DEF IsInjective, ToSet
    <3>. QED BY <2>1, <3>1, <3>2 DEF ListedOnce
  <2>. QED BY <2>1, <2>3, <2>7 DEF TreeInv
<1>. QED BY <1>1, <1>2

LEMMA TreeKept == TreeInv /\ [TreeNext]_treeVars => TreeInv'
<1>. SUFFICES ASSUME TreeInv, [TreeNext]_treeVars PROVE TreeInv'
  OBVIOUS
<1>1. CASE UNCHANGED treeVars
  BY <1>1 DEF treeVars, TreeInv, ListedOnce, Passed, Readable
<1>2. CASE EndListing \/ RefuseListing
  BY <1>2 DEF EndListing, RefuseListing, TreeInv, ListedOnce, Passed, Readable
<1>3. CASE ReadReference
  <2>. DEFINE ref == Head(unread)
  <2>1. /\ listing = "reading" /\ unread # <<>> /\ unread' = Tail(unread) /\ held' = held
        /\ held = {} \/ held \in Repository
        /\ unread \in Seq(held) /\ IsInjective(unread) /\ ListedOnce
    BY <1>3 DEF ReadReference, TreeInv
  <2>2. /\ ref \in held /\ unread' \in Seq(held) /\ IsInjective(unread')
        /\ ToSet(unread) = {ref} \cup ToSet(unread') /\ ref \notin ToSet(unread')
    BY <2>1, HeadAndTail
  <2>3. Passed' = Passed \cup {r \in {ref} : r.category \in Section} /\ ref \notin Passed
        /\ held' \ ToSet(unread') = (held \ ToSet(unread)) \cup {ref}
    BY <2>1, <2>2 DEF Passed
  <2>. HIDE DEF ref
  <2>4. CASE ref.category \notin Section /\ Readable(ref)
    <3>1. entries' = entries /\ listing' = listing
      BY <1>3, <2>4 DEF ReadReference, ref
    <3>2. Passed' = Passed
      BY <2>3, <2>4
    <3>3. \A r \in held' \ ToSet(unread') : Readable(r)
      BY <2>1, <2>3, <2>4 DEF ListedOnce
    <3>4. ListedOnce'
      BY <2>1, <3>1, <3>2, <3>3 DEF ListedOnce, Readable
    <3>. QED BY <2>1, <2>2, <3>1, <3>4 DEF TreeInv
  <2>5. CASE ~Readable(ref)
    <3>1. listing' = "failed"
      BY <1>3, <2>5 DEF ReadReference, ref
    <3>2. \E r \in held' : ~Readable(r)'
      BY <2>1, <2>2, <2>5 DEF Readable
    <3>. QED BY <2>1, <2>2, <3>1, <3>2 DEF TreeInv, Readable
  <2>6. CASE ref.category \in Section /\ Readable(ref)
    <3>. DEFINE U == {Reference(r) : r \in held}
    <3>1. entries' = Append(entries, Reference(ref)) /\ listing' = listing
      BY <1>3, <2>6 DEF ReadReference, ref
    <3>2. Passed' = Passed \cup {ref}
      BY <2>3, <2>6
    <3>3. entries \in Seq(U) /\ IsInjective(entries) /\ ToSet(entries) = {Reference(r) : r \in Passed}
      BY <2>1 DEF ListedOnce
    <3>4. Reference(ref) \notin ToSet(entries)
      <4>1. \A r \in Passed : r \in held
        BY DEF Passed
      <4>. QED BY <2>1, <2>2, <2>3, <3>3, <4>1, ReferencesDiffer
    <3>5. Reference(ref) \in U
      BY <2>2
    <3>. HIDE DEF U
    <3>6. entries' \in Seq(U) /\ IsInjective(entries') /\ ToSet(entries') = ToSet(entries) \cup {Reference(ref)}
      BY <3>1, <3>3, <3>4, <3>5, Appended
    <3>7. ToSet(entries') = {Reference(r) : r \in Passed'}
      BY <3>2, <3>3, <3>6
    <3>8. \A r \in held' \ ToSet(unread') : Readable(r)
      BY <2>1, <2>3, <2>6 DEF ListedOnce
    <3>9. ListedOnce'
      BY <2>1, <3>6, <3>7, <3>8 DEF ListedOnce, U, Reference, Readable
    <3>. QED BY <2>1, <2>2, <3>1, <3>9 DEF TreeInv
  <2>. QED BY <2>4, <2>5, <2>6
<1>. QED BY <1>1, <1>2, <1>3 DEF TreeNext

(* What is listed *)
Known(section) == {Reference(ref) : ref \in Listed(section)}

LEMMA OwnElements ==
  ASSUME NEW X, NEW s \in Seq(X)
  PROVE  s \in Seq(ToSet(s))
<1>1. Len(s) \in Nat /\ DOMAIN s = 1 .. Len(s) /\ s \in [1 .. Len(s) -> X]
  BY LenProperties
<1>2. \A i \in 1 .. Len(s) : s[i] \in ToSet(s)
  BY <1>1 DEF ToSet
<1>3. s \in [1 .. Len(s) -> ToSet(s)]
  BY <1>1, <1>2
<1>. QED BY <1>1, <1>3, SeqDef

LEMMA ConcatOnce ==
  ASSUME NEW X, NEW a \in Seq(X), NEW b \in Seq(X), IsInjective(a), IsInjective(b),
         ToSet(a) \cap ToSet(b) = {}
  PROVE  a \o b \in Seq(X) /\ IsInjective(a \o b) /\ ToSet(a \o b) = ToSet(a) \cup ToSet(b)
<1>. DEFINE c == a \o b
            m == Len(a)
            n == Len(b)
<1>1. m \in Nat /\ n \in Nat /\ DOMAIN a = 1 .. m /\ DOMAIN b = 1 .. n
  BY LenProperties
<1>2. /\ c \in Seq(X) /\ Len(c) = m + n
      /\ \A i \in 1 .. m + n : c[i] = IF i <= m THEN a[i] ELSE b[i - m]
  BY ConcatProperties
<1>3. DOMAIN c = 1 .. m + n
  BY <1>2, LenProperties
<1>. HIDE DEF c, m, n
<1>4. \A i \in 1 .. m + n : IF i <= m THEN i \in 1 .. m ELSE i - m \in 1 .. n
  BY <1>1
<1>5. \A i \in 1 .. m : i \in 1 .. m + n /\ i <= m
  BY <1>1
<1>6. \A i \in 1 .. n : m + i \in 1 .. m + n /\ ~(m + i <= m) /\ m + i - m = i
  BY <1>1
<1>7. ToSet(c) = ToSet(a) \cup ToSet(b)
  <2>1. \A i \in 1 .. m : a[i] = c[i]
    BY <1>2, <1>5
  <2>2. ASSUME NEW i \in 1 .. n PROVE b[i] = c[m + i]
    <3>. DEFINE k == m + i
    <3>2. k \in 1 .. m + n /\ ~(k <= m) /\ k - m = i
      BY <1>1
    <3>. HIDE DEF k
    <3>3. c[k] = b[k - m]
      BY <1>2, <3>2
    <3>. QED BY <3>2, <3>3 DEF k
  <2>3. \A i \in 1 .. m + n : c[i] \in ToSet(a) \cup ToSet(b)
    BY <1>1, <1>2, <1>4 DEF ToSet
  <2>4. \A i \in 1 .. m : a[i] \in ToSet(c)
    BY <1>3, <1>5, <2>1 DEF ToSet
  <2>5. \A i \in 1 .. n : b[i] \in ToSet(c)
    BY <1>3, <1>6, <2>2 DEF ToSet
  <2>6. ToSet(c) \subseteq ToSet(a) \cup ToSet(b)
    BY <1>3, <2>3 DEF ToSet
  <2>7. ToSet(a) \subseteq ToSet(c) /\ ToSet(b) \subseteq ToSet(c)
    BY <1>1, <2>4, <2>5 DEF ToSet
  <2>. QED BY <2>6, <2>7
<1>8. IsInjective(c)
  <2>. SUFFICES ASSUME NEW i \in 1 .. m + n, NEW j \in 1 .. m + n, c[i] = c[j] PROVE i = j
    BY <1>3 DEF IsInjective
  <2>1. CASE i <= m /\ j <= m
    <3>1. i \in 1 .. m /\ j \in 1 .. m /\ a[i] = a[j]
      BY <1>2, <1>4, <2>1
    <3>. QED BY <1>1, <3>1 DEF IsInjective
  <2>2. CASE ~(i <= m) /\ ~(j <= m)
    <3>1. i - m \in 1 .. n /\ j - m \in 1 .. n /\ b[i - m] = b[j - m]
      BY <1>2, <1>4, <2>2
    <3>2. i - m = j - m
      BY <1>1, <3>1 DEF IsInjective
    <3>. QED BY <1>1, <3>2
  <2>3. ASSUME NEW k \in 1 .. m + n, NEW l \in 1 .. m + n, k <= m, ~(l <= m) PROVE c[k] # c[l]
    <3>1. k \in 1 .. m /\ c[k] = a[k] /\ l - m \in 1 .. n /\ c[l] = b[l - m]
      BY <1>2, <1>4, <2>3
    <3>2. a[k] \in ToSet(a) /\ b[l - m] \in ToSet(b)
      BY <1>1, <3>1 DEF ToSet
    <3>. QED BY <3>1, <3>2
  <2>. QED BY <2>1, <2>2, <2>3
<1>. QED BY <1>2, <1>7, <1>8 DEF c

(* A listing that ended holds every reference once, and its index has it in
   its section. *)
LEMMA ListedEnds ==
  ASSUME TreeInv, listing = "listed"
  PROVE  /\ \A ref \in held : Readable(ref)
         /\ \A section \in Section :
              /\ Index(section) \in Seq(ToSet(entries))
              /\ Index(section) \in Seq(Known(section)) /\ IsInjective(Index(section))
              /\ ToSet(Index(section)) = Known(section)
              /\ Known(section) \subseteq ToSet(entries)
<1>1. ListedOnce /\ unread = <<>>
  BY DEF TreeInv
<1>2. Passed = {ref \in held : ref.category \in Section} /\ held \ ToSet(unread) = held
  BY <1>1 DEF Passed, ToSet
<1>3. entries \in Seq(ToSet(entries)) /\ IsInjective(entries)
  BY <1>1, OwnElements DEF ListedOnce
<1>4. ASSUME NEW section \in Section
      PROVE  {reference \in ToSet(entries) : reference.kind = section} = Known(section)
  <2>1. ToSet(entries) = {Reference(ref) : ref \in {r \in held : r.category \in Section}}
    BY <1>1, <1>2 DEF ListedOnce
  <2>2. \A ref \in held : Reference(ref).kind = ref.category
    BY DEF Reference
  <2>. QED BY <2>1, <2>2 DEF Known, Listed
<1>5. ASSUME NEW section \in Section
      PROVE  /\ Index(section) \in Seq(ToSet(entries))
             /\ Index(section) \in Seq(Known(section)) /\ IsInjective(Index(section))
             /\ ToSet(Index(section)) = Known(section)
             /\ Known(section) \subseteq ToSet(entries)
  <2>1. Index(section) = Among(entries, Known(section))
    BY <1>4 DEF Index
  <2>2. /\ Index(section) \in Seq(ToSet(entries)) /\ IsInjective(Index(section))
        /\ ToSet(Index(section)) = ToSet(entries) \cap Known(section)
    BY <1>3, <2>1, AmongThose
  <2>3. Known(section) \subseteq ToSet(entries)
    BY <1>4
  <2>4. ToSet(Index(section)) = Known(section)
    BY <2>2, <2>3
  <2>. QED BY <2>2, <2>3, <2>4, OwnElements
<1>. QED BY <1>1, <1>2, <1>5 DEF ListedOnce

(* The references of a section, by name. *)
LEMMA KnownAreNamed ==
  ASSUME TreeInv, NEW section \in Section
  PROVE  /\ Nameable(Known(section))
         /\ \A r \in Known(section) : r.kind = section /\ r # NoReference /\ r.name # NoBranch
<1>1. held = {} \/ held \in Repository
  BY DEF TreeInv
<1>2. ASSUME NEW ref \in Listed(section)
      PROVE  /\ Reference(ref).kind = section /\ Reference(ref).name = ref.name
             /\ Reference(ref) # NoReference
             /\ ref.name \in Seq(Nat) /\ ref.name # <<>> /\ ref.name # NoBranch
             /\ ref \in held /\ ref.category = section
  <2>1. ref \in held /\ ref.category = section /\ held \in Repository
    BY <1>1 DEF Listed
  <2>2. ref.name \in Seq(Nat) \ {<<>>} /\ ref.name # NoBranch /\ Reference(ref) # NoReference
    BY <2>1, ReferenceTreeAssumption
  <2>3. Reference(ref).kind = section /\ Reference(ref).name = ref.name
    BY <2>1 DEF Reference
  <2>. QED BY <2>1, <2>2, <2>3
<1>3. ASSUME NEW ref \in Listed(section), NEW other \in Listed(section), ref.name = other.name
      PROVE  ref = other
  <2>1. ref \in held /\ other \in held /\ ref.category = other.category /\ held \in Repository
    BY <1>1, <1>2
  <2>. QED BY <1>3, <2>1, ReferenceTreeAssumption
<1>. QED BY <1>2, <1>3 DEF Known, Nameable

LEMMA FallbackIsListed ==
  ASSUME TreeInv, listing = "listed", FallbackBranch # NoBranch
  PROVE  \E r \in Known("local") : r.name = FallbackBranch
<1>. DEFINE names == {branch.name : branch \in ToSet(Index("local"))}
            listed == {i \in DOMAIN Fallback : Fallback[i] \in names}
<1>1. DOMAIN Fallback = 1 .. Len(Fallback) /\ Len(Fallback) \in Nat
  BY ReferenceTreeAssumption, LenProperties
<1>2. FallbackBranch = IF listed = {} THEN NoBranch ELSE Fallback[Min(listed)]
  BY DEF FallbackBranch
<1>3. ToSet(Index("local")) = Known("local")
  BY ListedEnds DEF Section
<1>4. listed \in SUBSET (0 .. Len(Fallback)) /\ listed # {}
  BY <1>1, <1>2
<1>5. Min(listed) \in listed
  <2>. HIDE DEF listed
  <2>. QED BY <1>1, <1>4, LeastOf
<1>. QED BY <1>2, <1>3, <1>4, <1>5

(* The forest of a section and its nodes' references. *)
LEMMA SectionSpans ==
  ASSUME TreeInv, listing = "listed", NEW section \in Section
  PROVE  LET g == GroupByPath(Index(section))
             R == Known(section)
         IN  /\ DOMAIN g = NodesOf(R)
             /\ \A p \in NodesOf(R) :
                  /\ g[p].children \in Seq(Nat)
                  /\ \A i, j \in DOMAIN g[p].children : i < j => g[p].children[i] < g[p].children[j]
                  /\ ToSet(g[p].children) = {x \in Nat : Append(p, x) \in NodesOf(R)}
                  /\ \A r \in R : r.name = p => g[p].reference = r
                  /\ (\A r \in R : r.name # p) => g[p].reference = NoReference
             /\ \A r \in R : r.name \in NodesOf(R) /\ g[r.name].reference = r
<1>1. Nameable(Known(section))
  BY KnownAreNamed
<1>2. Index(section) \in Seq(Known(section)) /\ ToSet(Index(section)) = Known(section)
  BY ListedEnds
<1>3. ASSUME NEW r \in Known(section) PROVE r.name \in NodesOf(Known(section))
  BY <1>1, PrefixOfSelf DEF Nameable, NodesOf
<1>. QED BY <1>1, <1>2, <1>3, Grouped

LEMMA SectionIsShown ==
  ASSUME TreeInv, listing = "listed", NEW section \in Section
  PROVE  ShowsSection(section)
<1>. DEFINE g == GroupByPath(Index(section))
            R == Known(section)
            names == {ref.name : ref \in Listed(section)}
            children(p) == g[p].children
<1>1. /\ DOMAIN g = NodesOf(R)
      /\ \A p \in NodesOf(R) :
           /\ g[p].children \in Seq(Nat)
           /\ \A i, j \in DOMAIN g[p].children : i < j => g[p].children[i] < g[p].children[j]
           /\ ToSet(g[p].children) = {x \in Nat : Append(p, x) \in NodesOf(R)}
           /\ \A r \in R : r.name = p => g[p].reference = r
           /\ (\A r \in R : r.name # p) => g[p].reference = NoReference
  BY SectionSpans
<1>2. names = {r.name : r \in R} /\ \A name \in names : name \in Seq(Nat)
  <2>1. \A ref \in Listed(section) : Reference(ref).name = ref.name
    BY DEF Reference
  <2>2. names = {r.name : r \in R}
    BY <2>1 DEF Known
  <2>3. \A r \in R : r.name \in Seq(Nat)
    BY KnownAreNamed DEF Nameable
  <2>. HIDE DEF names, R
  <2>. QED BY <2>2, <2>3
<1>3. NodesOf(R) = {Root} \cup UNION {Prefixes(name) : name \in names}
  <2>1. \A name \in names : Prefixes(name) = {s \in Seq(Nat) : IsPrefix(s, name)}
    BY <1>2, PrefixesAre
  <2>2. UNION {Prefixes(name) : name \in names} = {s \in Seq(Nat) : \E name \in names : IsPrefix(s, name)}
    <3>. HIDE DEF names
    <3>. QED BY <2>1
  <2>. HIDE DEF names, R
  <2>3. {s \in Seq(Nat) : \E name \in names : IsPrefix(s, name)}
          = {s \in Seq(Nat) : \E r \in R : IsPrefix(s, r.name)}
    BY <1>2
  <2>. QED BY <2>2, <2>3 DEF NodesOf
<1>. HIDE DEF g
<1>4. ASSUME NEW p \in NodesOf(R)
      PROVE  {Append(p, children(p)[i]) : i \in DOMAIN children(p)}
               = {q \in NodesOf(R) : Len(q) = Len(p) + 1 /\ IsPrefix(p, q)}
  <2>1. p \in Seq(Nat)
    BY NodesAreNames
  <2>2. {Append(p, children(p)[i]) : i \in DOMAIN children(p)}
          = {Append(p, x) : x \in ToSet(children(p))}
    BY DEF ToSet
  <2>. HIDE DEF children, R
  <2>3. ToSet(children(p)) = {x \in Nat : Append(p, x) \in NodesOf(R)}
    BY <1>1 DEF children, R
  <2>4. \A q \in NodesOf(R) : Len(q) = Len(p) + 1 /\ IsPrefix(p, q) <=> \E x \in Nat : q = Append(p, x)
    BY <2>1, NodesAreNames, OneLonger
  <2>. QED BY <2>2, <2>3, <2>4
<1>5. ASSUME NEW p \in NodesOf(R)
      PROVE  IF p \in names
             THEN \E ref \in Listed(section) : ref.name = p /\ g[p].reference = Reference(ref)
             ELSE g[p].reference = NoReference
  <2>1. CASE p \in names
    <3>1. PICK ref \in Listed(section) : ref.name = p
      BY <2>1
    <3>2. Reference(ref) \in R /\ Reference(ref).name = p
      BY <3>1 DEF Known, Reference
    <3>. QED BY <1>1, <2>1, <3>1, <3>2
  <2>2. CASE p \notin names
    <3>1. \A r \in R : r.name # p
      BY <1>2, <2>2
    <3>. QED BY <1>1, <2>2, <3>1
  <2>. QED BY <2>1, <2>2
<1>. HIDE DEF R, names
<1>. QED BY <1>1, <1>3, <1>4, <1>5 DEF ShowsSection, g, names

(* The row of a node. *)
LEMMA RowIs ==
  ASSUME TreeInv, listing = "listed", NEW section \in Section, NEW p \in NodesOf(Known(section))
  PROVE  LET g == GroupByPath(Index(section))
             row == RowOf(section, g, p)
         IN  /\ row.reference = g[p].reference
             /\ row.active <=> section = "local" /\ row.reference # NoReference /\ p = head
             /\ row.offers = IF section = "local" /\ row.reference # NoReference THEN Offers(p) ELSE {}
             /\ row.reference # NoReference => row.reference \in Known(section) /\ row.reference.name = p
<1>. DEFINE g == GroupByPath(Index(section))
            reference == g[p].reference
            row == RowOf(section, g, p)
<1>1. reference # NoReference => reference \in Known(section) /\ reference.name = p
  BY SectionSpans
<1>2. reference \in Known(section) => reference.kind = section
  BY KnownAreNamed
<1>. HIDE DEF g
<1>3. /\ row.reference = reference
      /\ row.active = (reference # NoReference /\ reference.kind = "local" /\ reference.name = head)
      /\ row.offers = IF section = "local" /\ reference # NoReference THEN Offers(p) ELSE {}
  BY DEF RowOf
<1>. HIDE DEF row
<1>. QED BY <1>1, <1>2, <1>3 DEF row, g

LEMMA HeadIsMarked ==
  ASSUME TreeInv, listing = "listed", NEW section \in Section
  PROVE  MarksHead(section)
<1>. DEFINE g == GroupByPath(Index(section))
            R == Known(section)
            row(p) == RowOf(section, g, p)
<1>1. DOMAIN g = NodesOf(R) /\ \A r \in R : r.name \in NodesOf(R) /\ g[r.name].reference = r
  BY SectionSpans
<1>2. \A r \in R : r # NoReference /\ r.name # NoBranch
  BY KnownAreNamed
<1>3. ASSUME NEW p \in NodesOf(R)
      PROVE  /\ row(p).active <=> section = "local" /\ row(p).reference # NoReference /\ p = head
             /\ row(p).offers # {} => section = "local" /\ row(p).reference # NoReference
             /\ \A offer \in row(p).offers :
                  /\ (p = head) <=> (offer.switchTo # NoBranch)
                  /\ offer.switchTo # NoBranch =>
                       offer.switchTo # p /\ g[offer.switchTo].reference # NoReference
  <2>1. /\ row(p).active <=> section = "local" /\ row(p).reference # NoReference /\ p = head
        /\ row(p).offers = IF section = "local" /\ row(p).reference # NoReference THEN Offers(p) ELSE {}
    BY RowIs
  <2>. HIDE DEF row
  <2>2. ASSUME section = "local", NEW offer \in Offers(p)
        PROVE  /\ (p = head) <=> (offer.switchTo # NoBranch)
               /\ offer.switchTo # NoBranch =>
                    offer.switchTo # p /\ g[offer.switchTo].reference # NoReference
    <3>1. CASE head # p
      <4>1. offer.switchTo = NoBranch
        BY <3>1 DEF Offers
      <4>. QED BY <3>1, <4>1
    <3>2. CASE head = p
      <4>1. offer.switchTo = FallbackBranch /\ FallbackBranch # NoBranch /\ FallbackBranch # p
        BY <3>2 DEF Offers
      <4>2. PICK r \in Known("local") : r.name = FallbackBranch
        BY <4>1, FallbackIsListed
      <4>3. r \in R
        BY <2>2
      <4>. HIDE DEF g, R
      <4>4. g[FallbackBranch].reference = r /\ r # NoReference
        BY <1>1, <1>2, <4>2, <4>3
      <4>. QED BY <3>2, <4>1, <4>4
    <3>. QED BY <3>1, <3>2
  <2>. HIDE DEF g, R
  <2>. QED BY <2>1, <2>2
<1>. HIDE DEF g
<1>. QED BY <1>1, <1>3 DEF MarksHead, g

(* The references of all sections, each once. *)
LEMMA AllListed ==
  ASSUME TreeInv, listing = "listed"
  PROVE  LET listed == Index("local") \o Index("remote") \o Index("tag")
         IN  /\ listed \in Seq(ToSet(entries)) /\ IsInjective(listed)
             /\ ToSet(listed) = Known("local") \cup Known("remote") \cup Known("tag")
<1>. DEFINE X == ToSet(entries)
            a == Index("local")
            b == Index("remote")
            c == Index("tag")
<1>1. "local" \in Section /\ "remote" \in Section /\ "tag" \in Section
  BY DEF Section
<1>2. /\ a \in Seq(X) /\ b \in Seq(X) /\ c \in Seq(X)
      /\ IsInjective(a) /\ IsInjective(b) /\ IsInjective(c)
      /\ ToSet(a) = Known("local") /\ ToSet(b) = Known("remote") /\ ToSet(c) = Known("tag")
  BY <1>1, ListedEnds
<1>3. /\ \A r \in Known("local") : r.kind = "local"
      /\ \A r \in Known("remote") : r.kind = "remote"
      /\ \A r \in Known("tag") : r.kind = "tag"
  BY <1>1, KnownAreNamed
<1>. HIDE DEF X, a, b, c
<1>4. ToSet(a) \cap ToSet(b) = {} /\ (ToSet(a) \cup ToSet(b)) \cap ToSet(c) = {}
  BY <1>2, <1>3
<1>5. a \o b \in Seq(X) /\ IsInjective(a \o b) /\ ToSet(a \o b) = ToSet(a) \cup ToSet(b)
  BY <1>2, <1>4, ConcatOnce
<1>. DEFINE ab == a \o b
<1>6. ab \in Seq(X) /\ IsInjective(ab) /\ ToSet(ab) \cap ToSet(c) = {}
  BY <1>4, <1>5
<1>. HIDE DEF ab
<1>7. /\ ab \o c \in Seq(X) /\ IsInjective(ab \o c)
      /\ ToSet(ab \o c) = ToSet(ab) \cup ToSet(c)
  BY <1>2, <1>6, ConcatOnce
<1>8. ToSet(ab \o c) = Known("local") \cup Known("remote") \cup Known("tag")
  BY <1>2, <1>5, <1>7 DEF ab
<1>. QED BY <1>7, <1>8 DEF X, a, b, c, ab

LEMMA BadgesAre ==
  ASSUME TreeInv, listing = "listed", NEW section \in Section
  PROVE  BadgesAgree(section)
<1>. DEFINE g == GroupByPath(Index(section))
            R == Known(section)
<1>1. DOMAIN g = NodesOf(R) /\ \A r \in R : r.name \in NodesOf(R) /\ g[r.name].reference = r
  BY SectionSpans
<1>2. \A r \in R : r.kind = section /\ r # NoReference
  BY KnownAreNamed
<1>3. ASSUME NEW ref \in Listed(section)
      PROVE  LET row == RowOf(section, g, ref.name)
                 badges == Badges(ref.target)
                 its == {i \in DOMAIN badges : badges[i].reference = row.reference}
             IN  /\ Cardinality(its) = 1
                 /\ \A i \in its : /\ badges[i].offers = row.offers
                                   /\ badges[i].badge = "current" <=> row.active
  <2>. DEFINE r == Reference(ref)
              row == RowOf(section, g, ref.name)
              badges == Badges(ref.target)
              its == {i \in DOMAIN badges : badges[i].reference = row.reference}
              listed == Index("local") \o Index("remote") \o Index("tag")
              here == {reference \in ToSet(listed) : reference.target = ref.target}
              references == ReferencesAt(ref.target)
  <2>1. r \in R /\ r.name = ref.name /\ r.target = ref.target /\ r.kind = section /\ r # NoReference
    <3>1. r \in R
      BY DEF Known
    <3>. QED BY <1>2, <3>1 DEF Reference
  <2>2. ref.name \in NodesOf(R) /\ g[ref.name].reference = r
    BY <1>1, <2>1
  <2>3. /\ row.reference = r
        /\ row.active <=> section = "local" /\ r.name = head
        /\ row.offers = IF section = "local" THEN Offers(r.name) ELSE {}
    <3>1. /\ row.reference = g[ref.name].reference
          /\ row.active <=> section = "local" /\ row.reference # NoReference /\ ref.name = head
          /\ row.offers = IF section = "local" /\ row.reference # NoReference THEN Offers(ref.name) ELSE {}
      BY <2>2, RowIs
    <3>. HIDE DEF row, g, r
    <3>. QED BY <2>1, <2>2, <3>1
  <2>4. /\ listed \in Seq(ToSet(entries)) /\ IsInjective(listed)
        /\ ToSet(listed) = Known("local") \cup Known("remote") \cup Known("tag")
    BY AllListed
  <2>5. r \in here
    <3>1. R \subseteq ToSet(listed)
      BY <2>4 DEF Section
    <3>. HIDE DEF listed, r, R
    <3>. QED BY <2>1, <3>1
  <2>6. references = Among(listed, here)
    BY DEF ReferencesAt
  <2>. HIDE DEF r, row, listed, g
  <2>7. /\ ToSet(references) = ToSet(listed) \cap here /\ IsInjective(references)
    <3>. HIDE DEF here, references
    <3>. QED BY <2>4, <2>6, AmongThose
  <2>8. r \in ToSet(references)
    BY <2>5, <2>7
  <2>. HIDE DEF here
  <2>9. badges = [i \in DOMAIN references |->
                    [reference |-> references[i], badge |-> Classify(references[i]),
                     offers |-> Deletable(references[i])]]
    BY DEF Badges
  <2>. HIDE DEF references, badges
  <2>10. its = {i \in DOMAIN references : references[i] = r}
    BY <2>3, <2>9
  <2>11. PICK i \in DOMAIN references : references[i] = r
    BY <2>8 DEF ToSet
  <2>12. its = {i}
    BY <2>7, <2>10, <2>11 DEF IsInjective
  <2>13. Cardinality(its) = 1
    BY <2>12, FS_Singleton
  <2>14. badges[i].offers = Deletable(r) /\ badges[i].badge = Classify(r)
    BY <2>9, <2>11
  <2>15. Deletable(r) = row.offers
    BY <2>1, <2>3 DEF Deletable
  <2>16. Classify(r) = "current" <=> row.active
    BY <2>1, <2>3 DEF Classify, Section
  <2>. HIDE DEF its
  <2>17. \A k \in its : badges[k].offers = row.offers /\ (badges[k].badge = "current" <=> row.active)
    BY <2>12, <2>14, <2>15, <2>16
  <2>. QED BY <2>13, <2>17 DEF row, its, badges
<1>. QED BY <1>3 DEF BadgesAgree

LEMMA SidebarShowsListed == TreeInv => SidebarListsReferences
<1>. SUFFICES ASSUME TreeInv PROVE SidebarListsReferences
  OBVIOUS
<1>1. ASSUME listing = "listed"
      PROVE  /\ \A ref \in held : Readable(ref)
             /\ \A section \in Section :
                  ShowsSection(section) /\ MarksHead(section) /\ BadgesAgree(section)
  BY <1>1, ListedEnds, SectionIsShown, HeadIsMarked, BadgesAre
<1>. QED BY <1>1 DEF SidebarListsReferences, TreeInv

----------------------------------------------------------------------------
(* Remote URLs *)

(* What is cut off, from both ends or from the last. *)
LEMMA Trimmed ==
  ASSUME NEW chars \in Seq(Piece), NEW ends
  PROVE  LET t == Without(chars, ends)
         IN  /\ t \in Seq(Piece) /\ Len(t) <= Len(chars)
             /\ t # <<>> => t[1] \notin ends /\ t[Len(t)] \notin ends
             /\ \A i \in 1 .. Len(t) : \E j \in 1 .. Len(chars) : t[i] = chars[j]
             /\ Without(t, ends) = t
<1>. DEFINE n == Len(chars)
            kept == {i \in DOMAIN chars : chars[i] \notin ends}
            a == Min(kept)
            b == Max(kept)
            t == Without(chars, ends)
<1>1. n \in Nat /\ DOMAIN chars = 1 .. n /\ \A i \in 1 .. n : chars[i] \in Piece
  BY LenProperties, ElementOfSeq
<1>. HIDE DEF n
<1>2. CASE kept = {}
  <2>1. t = <<>>
    BY <1>2 DEF Without
  <2>2. Len(<<>>) = 0 /\ <<>> \in Seq(Piece) /\ DOMAIN <<>> = {}
    BY EmptySeq
  <2>3. Without(<<>>, ends) = <<>>
    BY <2>2 DEF Without
  <2>. HIDE DEF t
  <2>4. Len(t) = 0 /\ 1 .. Len(t) = {}
    BY <2>1, <2>2
  <2>. QED BY <1>1, <2>1, <2>2, <2>3, <2>4 DEF t, n
<1>3. CASE kept # {}
  <2>1. a \in kept /\ b \in kept /\ \A i \in kept : a <= i /\ i <= b
    <3>1. kept \in SUBSET (0 .. n)
      BY <1>1
    <3>. HIDE DEF kept
    <3>. QED BY <1>1, <1>3, <3>1, LeastOf, GreatestOf
  <2>. HIDE DEF a, b
  <2>2. a \in 1 .. n /\ b \in 1 .. n /\ a <= b /\ chars[a] \notin ends /\ chars[b] \notin ends
    BY <1>1, <2>1
  <2>3. t = SubSeq(chars, a, b)
    BY <1>3 DEF Without, a, b
  <2>4. /\ SubSeq(chars, a, b) \in Seq(Piece) /\ Len(SubSeq(chars, a, b)) = b - a + 1
        /\ \A i \in 1 .. b - a + 1 : SubSeq(chars, a, b)[i] = chars[a + i - 1]
    <3>1. \A i \in a .. b : chars[i] \in Piece
      BY <1>1, <2>2
    <3>2. a \in Int /\ b \in Int
      BY <1>1, <2>2
    <3>. QED BY <2>2, <3>1, <3>2, SubSeqProperties
  <2>. HIDE DEF t, kept
  <2>5. /\ t \in Seq(Piece) /\ Len(t) = b - a + 1 /\ Len(t) <= n /\ 1 <= Len(t)
        /\ \A i \in 1 .. Len(t) : t[i] = chars[a + i - 1] /\ a + i - 1 \in 1 .. n
    BY <1>1, <2>2, <2>3, <2>4
  <2>6. t[1] \notin ends /\ t[Len(t)] \notin ends
    <3>1. 1 \in 1 .. Len(t) /\ Len(t) \in 1 .. Len(t) /\ a + 1 - 1 = a /\ a + Len(t) - 1 = b
      BY <1>1, <2>2, <2>5
    <3>. QED BY <2>2, <2>5, <3>1
  <2>7. Without(t, ends) = t
    <3>. DEFINE still == {i \in DOMAIN t : t[i] \notin ends}
    <3>1. DOMAIN t = 1 .. Len(t) /\ Len(t) \in Nat
      BY <2>5, LenProperties
    <3>2. 1 \in still /\ Len(t) \in still /\ still \in SUBSET (0 .. Len(t))
          /\ \A i \in still : i \in Nat /\ 1 <= i /\ i <= Len(t)
      BY <2>5, <2>6, <3>1
    <3>3. Min(still) \in still /\ Max(still) \in still
          /\ \A i \in still : Min(still) <= i /\ i <= Max(still)
      <4>. HIDE DEF still
      <4>. QED BY <3>1, <3>2, LeastOf, GreatestOf
    <3>4. Min(still) = 1 /\ Max(still) = Len(t)
      <4>. HIDE DEF still
      <4>1. PICK x \in Nat, y \in Nat : x = Min(still) /\ y = Max(still)
        BY <3>2, <3>3
      <4>2. 1 <= x /\ x <= 1
        BY <3>2, <3>3, <4>1
      <4>3. y <= Len(t) /\ Len(t) <= y
        BY <3>2, <3>3, <4>1
      <4>. QED BY <3>1, <4>1, <4>2, <4>3
    <3>5. Without(t, ends) = SubSeq(t, 1, Len(t))
      <4>1. Without(t, ends) = IF still = {} THEN <<>> ELSE SubSeq(t, Min(still), Max(still))
        BY DEF Without
      <4>. HIDE DEF still
      <4>. QED BY <3>2, <3>4, <4>1
    <3>. QED BY <2>5, <3>5, SubSeqFull
  <2>8. \A i \in 1 .. Len(t) : \E j \in 1 .. Len(chars) : t[i] = chars[j]
    BY <2>5 DEF n
  <2>. QED BY <2>5, <2>6, <2>7, <2>8 DEF t, n
<1>. QED BY <1>2, <1>3

LEMMA TrailingTrimmed ==
  ASSUME NEW chars \in Seq(Piece), NEW end, chars # <<>>, chars[1] # end
  PROVE  LET t == WithoutTrailing(chars, end)
         IN  /\ t \in Seq(Piece) /\ Len(t) \in 1 .. Len(chars) /\ t[Len(t)] # end
             /\ \A i \in 1 .. Len(t) : t[i] = chars[i]
<1>. DEFINE n == Len(chars)
            kept == {0} \cup {i \in DOMAIN chars : chars[i] # end}
            b == Max(kept)
            t == WithoutTrailing(chars, end)
<1>1. n \in Nat /\ n # 0 /\ DOMAIN chars = 1 .. n /\ \A i \in 1 .. n : chars[i] \in Piece
  BY LenProperties, ElementOfSeq, EmptySeq
<1>. HIDE DEF n
<1>2. b \in kept /\ \A i \in kept : i <= b
  <2>1. kept \in SUBSET (0 .. n) /\ kept # {}
    BY <1>1
  <2>. HIDE DEF kept
  <2>. QED BY <1>1, <2>1, GreatestOf
<1>. HIDE DEF b
<1>3. b \in 1 .. n /\ chars[b] # end
  <2>1. 1 \in kept
    BY <1>1
  <2>. QED BY <1>1, <1>2, <2>1
<1>4. t = SubSeq(chars, 1, b)
  BY DEF WithoutTrailing, b
<1>5. /\ SubSeq(chars, 1, b) \in Seq(Piece) /\ Len(SubSeq(chars, 1, b)) = b
      /\ \A i \in 1 .. b : SubSeq(chars, 1, b)[i] = chars[i]
  <2>1. \A i \in 1 .. b : chars[i] \in Piece
    BY <1>1, <1>3
  <2>2. 1 \in Int /\ b \in Int
    BY <1>1, <1>3
  <2>3. /\ SubSeq(chars, 1, b) \in Seq(Piece) /\ Len(SubSeq(chars, 1, b)) = (IF 1 <= b THEN b - 1 + 1 ELSE 0)
        /\ \A i \in 1 .. b - 1 + 1 : SubSeq(chars, 1, b)[i] = chars[1 + i - 1]
    BY <2>1, <2>2, SubSeqProperties
  <2>. QED BY <1>1, <1>3, <2>3
<1>. HIDE DEF t
<1>. QED BY <1>1, <1>3, <1>4, <1>5 DEF t, n

(* What the cap, the dashes and the characters that are left come to. *)
LEMMA CollapsedShort ==
  ASSUME NEW chars \in Seq(Piece)
  PROVE  Collapsed(chars) \in Seq(Safe) /\ Len(Collapsed(chars)) <= MaxSlug
<1>. DEFINE n == Len(chars)
            Slugs == {s \in Seq(Safe) : Len(s) <= MaxSlug}
            IsLoop(f) == f = [i \in 0 .. n |-> IF i = 0 THEN <<>> ELSE Collapse(f[i - 1], chars[i])]
            slug == CHOOSE f : IsLoop(f)
            turn == [i \in 1 .. n |-> [s \in Slugs |-> Collapse(s, chars[i])]]
<1>1. n \in Nat
  BY LenProperties
<1>2. Collapsed(chars) = slug[n]
  BY DEF Collapsed
<1>. HIDE DEF n
<1>3. ASSUME NEW s \in Slugs, NEW piece PROVE Collapse(s, piece) \in Slugs
  <2>1. s \in Seq(Safe) /\ Len(s) \in Nat /\ MaxSlug \in Nat /\ "-" \in Safe
    BY RemoteUrlAssumption, LenProperties DEF Safe
  <2>2. \A c \in Safe : Append(s, c) \in Seq(Safe) /\ Len(Append(s, c)) = Len(s) + 1
    BY <2>1, AppendProperties
  <2>3. CASE Len(s) >= MaxSlug
    BY <2>3 DEF Collapse
  <2>4. CASE ~(Len(s) >= MaxSlug)
    <3>1. \A c \in Safe : Append(s, c) \in Slugs
      BY <2>1, <2>2, <2>4
    <3>. HIDE DEF Slugs
    <3>. QED BY <2>1, <2>4, <3>1 DEF Collapse
  <2>. QED BY <2>3, <2>4
<1>4. <<>> \in Slugs
  BY EmptySeq, RemoteUrlAssumption
<1>. HIDE DEF Slugs
<1>5. PICK f \in [0 .. n -> Slugs] : f[0] = <<>> /\ \A i \in 1 .. n : f[i] = Collapse(f[i - 1], chars[i])
  <2>1. turn \in [1 .. n -> [Slugs -> Slugs]]
        /\ \A i \in 1 .. n, s \in Slugs : turn[i][s] = Collapse(s, chars[i])
    BY <1>3
  <2>. HIDE DEF turn
  <2>2. HasRun(Slugs, <<>>, n, turn)
    BY <1>1, <1>4, <2>1, LoopRuns
  <2>3. PICK f \in [0 .. n -> Slugs] : f[0] = <<>> /\ \A i \in 1 .. n : f[i] = turn[i][f[i - 1]]
    BY <2>2 DEF HasRun, LoopRun
  <2>4. \A i \in 1 .. n : f[i - 1] \in Slugs
    BY <1>1, <2>3
  <2>5. \A i \in 1 .. n : f[i] = Collapse(f[i - 1], chars[i])
    BY <2>1, <2>3, <2>4
  <2>. QED BY <2>3, <2>5
<1>6. IsLoop(f)
  <2>1. \A i \in 0 .. n : i # 0 => i \in 1 .. n
    BY <1>1
  <2>2. \A i \in 0 .. n : f[i] = IF i = 0 THEN <<>> ELSE Collapse(f[i - 1], chars[i])
    BY <1>5, <2>1
  <2>. QED BY <1>5, <2>2
<1>7. IsLoop(slug)
  BY <1>6
<1>. HIDE DEF slug
<1>8. /\ slug[0] = <<>>
      /\ \A i \in 1 .. n : slug[i] = Collapse(slug[i - 1], chars[i])
  <2>1. \A i \in 0 .. n : slug[i] = IF i = 0 THEN <<>> ELSE Collapse(slug[i - 1], chars[i])
    BY <1>7
  <2>2. 0 \in 0 .. n /\ \A i \in 1 .. n : i \in 0 .. n /\ i # 0
    BY <1>1
  <2>. QED BY <2>1, <2>2
<1>. DEFINE Fine == {i \in 0 .. n : slug[i] \in Slugs}
<1>9. 0 \in Fine
  BY <1>1, <1>4, <1>8
<1>10. \A i \in 1 .. n : i - 1 \in Fine => i \in Fine
  BY <1>1, <1>3, <1>8
<1>. HIDE DEF Fine
<1>11. n \in Fine
  <2>1. \A i \in 0 .. n : i \in Fine
    BY <1>1, <1>9, <1>10, CountsUp
  <2>. QED BY <1>1, <2>1
<1>12. slug[n] \in Slugs
  BY <1>11 DEF Fine
<1>. QED BY <1>2, <1>12 DEF Slugs

(* The directory's part of an accepted URL's name. *)
LEMMA SlugIsSafe ==
  ASSUME NEW url \in Seq(Piece), url # <<>>
  PROVE  LET slug == SanitizeForFilesystem(url)
         IN  /\ slug # <<>> /\ Len(slug) <= MaxSlug
             /\ ToSet(slug) \subseteq Safe \cup {"remote"}
             /\ Head(slug) # "-" /\ Last(slug) # "-"
<1>1. Spelled(url) \in Seq(Piece)
  <2>1. Tail(url) \in Seq(Piece)
    BY HeadTailProperties
  <2>2. <<"word", "?">> \in Seq(Piece)
    <3>1. "word" \in Piece /\ "?" \in Piece
      BY DEF Piece
    <3>. QED BY <3>1
  <2>3. <<"word", "?">> \o Tail(url) \in Seq(Piece)
    BY <2>1, <2>2, ConcatProperties
  <2>. QED BY <2>1, <2>3 DEF Spelled
<1>. DEFINE whole == Collapsed(Spelled(url))
            cut == Without(whole, {"-"})
<1>2. whole \in Seq(Safe) /\ Len(whole) <= MaxSlug /\ Len(whole) \in Nat
  BY <1>1, CollapsedShort, LenProperties
<1>3. whole \in Seq(Piece)
  <2>1. Safe \subseteq Piece
    BY DEF Safe, Piece
  <2>. HIDE DEF whole
  <2>. QED BY <1>2, <2>1
<1>4. SanitizeForFilesystem(url) = IF cut = <<>> THEN <<"remote">> ELSE cut
  BY DEF SanitizeForFilesystem
<1>. HIDE DEF whole
<1>5. /\ cut \in Seq(Piece) /\ Len(cut) <= Len(whole)
      /\ cut # <<>> => cut[1] # "-" /\ cut[Len(cut)] # "-"
      /\ \A i \in 1 .. Len(cut) : \E j \in 1 .. Len(whole) : cut[i] = whole[j]
  BY <1>3, Trimmed
<1>. HIDE DEF cut
<1>6. \A j \in 1 .. Len(whole) : whole[j] \in Safe
  BY <1>2, ElementOfSeq
<1>7. DOMAIN cut = 1 .. Len(cut) /\ Len(cut) \in Nat
  BY <1>5, LenProperties
<1>8. CASE cut = <<>>
  <2>1. Len(<<"remote">>) = 1 /\ Head(<<"remote">>) = "remote" /\ Last(<<"remote">>) = "remote"
        /\ ToSet(<<"remote">>) = {"remote"} /\ <<"remote">> # <<>>
    BY DEF Last, ToSet
  <2>2. 1 <= MaxSlug
    BY RemoteUrlAssumption
  <2>. QED BY <1>4, <1>8, <2>1, <2>2
<1>9. CASE cut # <<>>
  <2>1. ToSet(cut) \subseteq Safe
    BY <1>5, <1>6, <1>7 DEF ToSet
  <2>2. Len(cut) <= MaxSlug
    <3>1. MaxSlug \in Nat
      BY RemoteUrlAssumption
    <3>. QED BY <1>2, <1>5, <1>7, <3>1
  <2>3. Head(cut) = cut[1] /\ Last(cut) = cut[Len(cut)]
    BY DEF Last
  <2>. QED BY <1>4, <1>5, <1>9, <2>1, <2>2, <2>3
<1>. QED BY <1>8, <1>9

(* Its name: its last segment, without the end, or all of it. *)
LEMMA NameIsShown ==
  ASSUME NEW url \in Seq(Piece), url # <<>>, url[1] \in Scheme
  PROVE  LET name == RemoteDisplayName(url)
         IN  /\ name # <<>> /\ Last(name) # "/"
             /\ Contains(name, "/") => name = WithoutTrailing(url, "/")
<1>. DEFINE trimmed == WithoutTrailing(url, "/")
            ends == {i \in DOMAIN trimmed : trimmed[i] \in Scheme \cup {"/"}}
            e == Max({0} \cup ends)
            segment == SubSeq(trimmed, e + 1, Len(trimmed))
            name == IF segment # <<>> /\ Last(segment) = ".git" THEN Front(segment) ELSE segment
<1>1. RemoteDisplayName(url) = IF name = <<>> THEN trimmed ELSE name
  BY DEF RemoteDisplayName
<1>2. /\ trimmed \in Seq(Piece) /\ Len(trimmed) \in 1 .. Len(url)
      /\ trimmed[Len(trimmed)] # "/" /\ Len(url) \in Nat
  <2>1. url[1] # "/"
    BY DEF Scheme
  <2>. QED BY <2>1, TrailingTrimmed, LenProperties
<1>. HIDE DEF trimmed
<1>3. trimmed # <<>> /\ Last(trimmed) # "/" /\ DOMAIN trimmed = 1 .. Len(trimmed)
      /\ Len(trimmed) \in Nat /\ \A i \in 1 .. Len(trimmed) : trimmed[i] \in Piece
  BY <1>2, EmptySeq, LenProperties, ElementOfSeq DEF Last
<1>4. e \in 0 .. Len(trimmed) /\ \A i \in ends : i <= e
  <2>1. {0} \cup ends \in SUBSET (0 .. Len(trimmed)) /\ {0} \cup ends # {}
    BY <1>3
  <2>. HIDE DEF ends
  <2>2. Max({0} \cup ends) \in {0} \cup ends /\ \A i \in {0} \cup ends : i <= Max({0} \cup ends)
    BY <1>3, <2>1, GreatestOf
  <2>. QED BY <2>1, <2>2
<1>. HIDE DEF e
<1>5. \A i \in e + 1 .. Len(trimmed) : trimmed[i] # "/" /\ trimmed[i] \in Piece
  <2>. TAKE i \in e + 1 .. Len(trimmed)
  <2>1. i \in 1 .. Len(trimmed) /\ ~(i <= e)
    BY <1>3, <1>4
  <2>2. i \notin ends
    BY <1>4, <2>1
  <2>. QED BY <1>3, <2>1, <2>2
<1>6. /\ segment \in Seq(Piece) /\ Len(segment) = Len(trimmed) - e
      /\ \A i \in 1 .. Len(segment) : segment[i] # "/"
  <2>1. e + 1 \in Int /\ Len(trimmed) \in Int
    BY <1>3, <1>4
  <2>2. /\ segment \in Seq(Piece)
        /\ Len(segment) = IF e + 1 <= Len(trimmed) THEN Len(trimmed) - (e + 1) + 1 ELSE 0
        /\ \A i \in 1 .. Len(trimmed) - (e + 1) + 1 : segment[i] = trimmed[e + 1 + i - 1]
    BY <1>5, <2>1, SubSeqProperties
  <2>. HIDE DEF segment
  <2>3. Len(segment) = Len(trimmed) - e
    <3>1. \A n, k \in Nat : k <= n => n - k = IF k + 1 <= n THEN n - (k + 1) + 1 ELSE 0
      <4>1. ASSUME NEW n \in Nat, NEW k \in Nat, k <= n
            PROVE  n - k = IF k + 1 <= n THEN n - (k + 1) + 1 ELSE 0
        BY ONLY <4>1
      <4>. QED BY <4>1
    <3>2. Len(trimmed) \in Nat /\ e \in Nat /\ e <= Len(trimmed)
      BY <1>3, <1>4
    <3>. QED BY <2>2, <3>1, <3>2
  <2>4. ASSUME NEW i \in 1 .. Len(segment) PROVE segment[i] # "/"
    <3>1. i \in 1 .. Len(trimmed) - (e + 1) + 1 /\ e + 1 + i - 1 \in e + 1 .. Len(trimmed)
      BY <1>3, <1>4, <2>3
    <3>. QED BY <1>5, <2>2, <3>1
  <2>. QED BY <2>2, <2>3, <2>4
<1>. HIDE DEF segment
<1>7. name \in Seq(Piece) /\ \A i \in 1 .. Len(name) : name[i] # "/"
  <2>1. CASE segment # <<>> /\ Last(segment) = ".git"
    <3>1. name = SubSeq(segment, 1, Len(segment) - 1)
      BY <2>1 DEF Front
    <3>2. Len(segment) \in Nat /\ Len(segment) # 0
      BY <1>6, <2>1, EmptySeq, LenProperties
    <3>3. \A i \in 1 .. Len(segment) - 1 : segment[i] \in Piece
      BY <1>6, <3>2, ElementOfSeq
    <3>4. 1 \in Int /\ Len(segment) - 1 \in Int
      BY <3>2
    <3>5. /\ SubSeq(segment, 1, Len(segment) - 1) \in Seq(Piece)
          /\ Len(SubSeq(segment, 1, Len(segment) - 1))
               = IF 1 <= Len(segment) - 1 THEN Len(segment) - 1 - 1 + 1 ELSE 0
          /\ \A i \in 1 .. Len(segment) - 1 - 1 + 1 :
               SubSeq(segment, 1, Len(segment) - 1)[i] = segment[1 + i - 1]
      BY <3>3, <3>4, SubSeqProperties
    <3>. HIDE DEF name
    <3>6. Len(name) = Len(segment) - 1
      <4>1. PICK n \in Nat : n = Len(segment) /\ n # 0
        BY <3>2
      <4>2. n - 1 = IF 1 <= n - 1 THEN n - 1 - 1 + 1 ELSE 0
        BY <4>1
      <4>. QED BY <3>1, <3>5, <4>1, <4>2
    <3>7. ASSUME NEW i \in 1 .. Len(segment) - 1
          PROVE  name[i] = segment[i] /\ i \in 1 .. Len(segment)
      <4>1. i \in 1 .. Len(segment) - 1 - 1 + 1 /\ 1 + i - 1 = i /\ i \in 1 .. Len(segment)
        BY <3>2
      <4>. QED BY <3>1, <3>5, <4>1
    <3>. QED BY <1>6, <3>1, <3>5, <3>6, <3>7
  <2>2. CASE ~(segment # <<>> /\ Last(segment) = ".git")
    BY <1>6, <2>2
  <2>. QED BY <2>1, <2>2
<1>. HIDE DEF name
<1>8. CASE name = <<>>
  BY <1>1, <1>3, <1>8 DEF trimmed
<1>9. CASE name # <<>>
  <2>1. Len(name) \in 1 .. Len(name)
    BY <1>7, <1>9, EmptySeq, LenProperties
  <2>2. Last(name) # "/" /\ ~Contains(name, "/")
    BY <1>7, <2>1 DEF Last, Contains
  <2>. QED BY <1>1, <1>9, <2>2
<1>. QED BY <1>8, <1>9

LEMMA PastedIsNamed == pasted \in Seq(Piece) => RemotesAreNamed
<1>. SUFFICES ASSUME pasted \in Seq(Piece), ValidateRemoteUrl(pasted) = "accepted"
              PROVE  LET url == Without(pasted, {" "})
                         slug == SanitizeForFilesystem(url)
                         name == RemoteDisplayName(url)
                     IN  /\ ValidateRemoteUrl(url) = "accepted"
                         /\ name # <<>> /\ Last(name) # "/"
                         /\ Contains(name, "/") => name = WithoutTrailing(url, "/")
                         /\ slug # <<>> /\ Len(slug) <= MaxSlug
                         /\ ToSet(slug) \subseteq Safe \cup {"remote"}
                         /\ Head(slug) # "-" /\ Last(slug) # "-"
  BY DEF RemotesAreNamed
<1>. DEFINE url == Without(pasted, {" "})
<1>1. url \in Seq(Piece) /\ Without(url, {" "}) = url
  BY Trimmed
<1>2. url # <<>> /\ Head(url) \in {"https://", "HTTPS://"}
  BY DEF ValidateRemoteUrl
<1>3. ValidateRemoteUrl(url) = "accepted"
  BY <1>1 DEF ValidateRemoteUrl
<1>. HIDE DEF url
<1>4. url[1] \in Scheme
  BY <1>2 DEF Scheme
<1>. QED BY <1>1, <1>2, <1>3, <1>4, NameIsShown, SlugIsSafe DEF url

----------------------------------------------------------------------------
(* The patch reader: what is printed of a patch, line by line, and what the
   parser holds of it while it reads. *)

(* What is printed, cut where the parser is: a row is a line of git's text, or a
   line of the detail panel's with its mark. *)
PatchLine ==
  [k : {"diff"}, old : Path \cup {NoPath}, new : Path \cup {NoPath}]
  \cup [k : {"side"}, side : {"old", "new"},
        path : Path \cup {NoPath} \cup [tabbed : Spaced]]
  \cup [k : Moved, end : {"from", "to"}, path : Path \cup {NoPath}]
  \cup [k : {"similarity"}, value : Nat]
  \cup [k : {"hunk"}, old : Nat, oldLines : Nat, new : Nat, newLines : Nat]
  \cup [k : {"body"}, origin : {"context", "deletion", "addition"}, content : Content]
  \cup [k : {"mode", "new file", "deleted file", "index", "binary", "no newline"}]
Row == PatchLine \cup [line : PatchLine, mark : {"none", "addition", "deletion"}]

LineOf(who, row) == IF who = "detail" THEN row.line ELSE row
PrintedRow(who, line, mark) == IF who = "detail" THEN [line |-> line, mark |-> mark] ELSE line
MarkOf(origin) == IF origin = "context" THEN "none" ELSE origin

RowsOfLine(who, line) ==
  <<PrintedRow(who, BodyLine(line.origin, line.content), MarkOf(line.origin))>>
    \o When(who # "detail" /\ line.unterminated, <<Bare("no newline")>>)
LineRows(who, lines) ==
  IF who = "detail"
  THEN [i \in DOMAIN lines |-> PrintedRow(who, BodyLine(lines[i].origin, lines[i].content),
                                     MarkOf(lines[i].origin))]
  ELSE FlattenSeq([i \in DOMAIN lines |-> RowsOfLine(who, lines[i])])

HunkRows(who, hunk) == IF who = "detail" THEN WriteHunk(Numbered(hunk)) ELSE GitHunk(hunk)
HunksRows(who, hunks) == FlattenSeq([i \in DOMAIN hunks |-> HunkRows(who, hunks[i])])

(* The lines between the header line of a file and its hunks. *)
MetaLines(who, file) ==
  IF who = "detail"
  THEN MoveLines(file)
       \o IF file.binary THEN <<Bare("binary")>>
          ELSE When(file.hunks # <<>>, <<SideLine("old", file.old), SideLine("new", file.new)>>)
  ELSE When(file.mode, <<Bare("mode")>>)
       \o When(file.status = "added", <<Bare("new file")>>)
       \o When(file.status = "deleted", <<Bare("deleted file")>>)
       \o MoveLines(file)
       \o When(file.binary \/ file.hunks # <<>> \/ file.status \in {"added", "deleted"},
               <<Bare("index")>>)
       \o When(file.binary, <<Bare("binary")>>)
       \o When(file.hunks # <<>>, <<GitSide("old", file.old), GitSide("new", file.new)>>)
MetaRows(who, file) ==
  [i \in DOMAIN MetaLines(who, file) |-> PrintedRow(who, MetaLines(who, file)[i], "none")]

FileRows(who, file) == IF who = "detail" THEN WriteFile(FilePatch(file)) ELSE GitFile(file)
FilesRows(who, printed) == FlattenSeq([i \in DOMAIN printed |-> FileRows(who, printed[i])])

From(s, n) == SubSeq(s, n + 1, Len(s))
Markers(who) == IF who = "detail" THEN {<<>>} ELSE {<<>>, <<Bare("no newline")>>}

(* What is left after m lines of a header, h hunks and f files, the last of
   them under way, and after n lines of a hunk; a marker may come first. *)
AfterHunks(who, patch, f, h) ==
  HunksRows(who, From(patch[f].hunks, h)) \o FilesRows(who, From(patch, f))
HeaderLeft(who, patch, f, h, m, marker) ==
  marker \o (From(MetaRows(who, patch[f]), m) \o AfterHunks(who, patch, f, h))
HunkLeft(who, patch, f, h, n, marker) ==
  marker \o (LineRows(who, From(patch[f].hunks[h].body, n)) \o AfterHunks(who, patch, f, h))

----------------------------------------------------------------------------
Printers == {"git", "cut", "configured", "detail"}

(* What is left of the print is what is left of the text, or more when it was
   cut, or less by a foreign line. *)
Due(who, left) ==
  /\ at \in Nat
  /\ \E n \in 0 .. Len(left) :
       /\ at + n <= Len(text)
       /\ \A i \in 1 .. n : text[at + i] = LineOf(who, left[i])
       /\ who \in {"git", "detail"} => n = Len(left) /\ Len(text) = at + n
       /\ who = "configured" => /\ n = Len(left) /\ Len(text) = at + n + 1
                               /\ text[at + n + 1] = Bare("foreign")
       /\ who = "cut" => n < Len(left) /\ Len(text) = at + n /\ left[n + 1].k = "body"

(* What was read of the panel's text is marked as it was written. *)
MarksKept(who, patch, left) ==
  /\ Len(marks) = at /\ marks \in Seq({"none", "addition", "deletion"})
  /\ who = "detail" =>
       LET rows == FilesRows(who, patch) IN
       /\ Len(rows) = at + Len(left)
       /\ \A i \in 1 .. Len(left) : left[i] = rows[at + i]
       /\ \A i \in 1 .. at : marks[i] = rows[i].mark

SameAs(who, read, printed) ==
  /\ read.binary = printed.binary /\ read.hunks = printed.hunks
  /\ read.similarity = printed.similarity
  /\ who = "git" => read.status = printed.status
  /\ {printed.old, printed.new} \cap Spaced = {} /\ (who = "git" \/ read.hunks # <<>>)
       => read.old = printed.old /\ read.new = printed.new

FilesKept(who, patch, list, count) ==
  /\ Len(list) = count /\ list = [i \in 1 .. count |-> list[i]]
  /\ \A i \in 1 .. count : SameAs(who, list[i], FilePatch(patch[i]))

Awaits(ahead, k) == \E line \in ahead : line.k = k
NamesSide(line, side) ==
  \/ line.k \in Moved /\ line.end = (IF side = "old" THEN "from" ELSE "to")
  \/ line.k = "side" /\ line.side = side
NamesPath(ahead, side, path) ==
  \A line \in ahead : NamesSide(line, side) => line.path = path
AwaitsSide(ahead, side) == \E line \in ahead : NamesSide(line, side)

IsHeader(x) ==
  x = [old |-> x.old, new |-> x.new, similarity |-> x.similarity, moved |-> x.moved,
       added |-> x.added, deleted |-> x.deleted, binary |-> x.binary, hunks |-> x.hunks]
PathsAreRead(who, file) ==
  /\ {file.old, file.new} \cap Spaced = {}
  /\ who # "detail" \/ file.hunks # <<>>

(* What a header lacks of its file is in the lines that are not read yet. *)
HeadKept(who, file, x, ahead) ==
  /\ IsHeader(x) /\ x.added \in BOOLEAN /\ x.deleted \in BOOLEAN /\ x.binary \in BOOLEAN
  /\ x.added \/ Awaits(ahead, "new file") <=> who # "detail" /\ file.status = "added"
  /\ x.deleted \/ Awaits(ahead, "deleted file") <=> who # "detail" /\ file.status = "deleted"
  /\ x.binary \/ Awaits(ahead, "binary") <=> file.binary
  /\ x.moved = "no" \/ (x.moved = file.status /\ file.status \in Moved)
  /\ file.status \in Moved => /\ x.moved # "no" \/ Awaits(ahead, file.status)
                              /\ x.similarity = file.similarity \/ Awaits(ahead, "similarity")
  /\ \A line \in ahead : /\ line.k \in Moved => line.k = file.status
                         /\ line.k = "similarity" => line.value = file.similarity
  /\ PathsAreRead(who, file) =>
       /\ NamesPath(ahead, "old", file.old) /\ NamesPath(ahead, "new", file.new)
       /\ \/ x.old = file.old \/ AwaitsSide(ahead, "old")
          \/ who # "detail" /\ file.status = "added"
       /\ \/ x.new = file.new \/ AwaitsSide(ahead, "new")
          \/ who # "detail" /\ file.status = "deleted"

HunksRead(file, n) == [i \in 1 .. n |-> Numbered(file.hunks[i])]
LinesOf(who, rows) == {LineOf(who, rows[i]) : i \in DOMAIN rows}

(* Before, between and after the hunks of the file under way. *)
InHeader(who, patch, left, f, h, m, marker) ==
  LET meta == MetaRows(who, patch[f]) IN
  /\ header # Nothing /\ FilesKept(who, patch, files, f - 1)
  /\ HeadKept(who, patch[f], header, LinesOf(who, From(meta, m)))
  /\ header.hunks = HunksRead(patch[f], h)
  /\ marker # <<>> => afterHunk /\ m = Len(meta)
  /\ left = HeaderLeft(who, patch, f, h, m, marker)

Outside(who, patch, left) ==
  /\ body = Nothing
  /\ \/ header = Nothing /\ FilesKept(who, patch, files, 0) /\ left = FilesRows(who, patch)
     \/ \E f \in DOMAIN patch, marker \in Markers(who) :
          \E h \in 0 .. Len(patch[f].hunks), m \in 0 .. Len(MetaRows(who, patch[f])) :
            InHeader(who, patch, left, f, h, m, marker)

(* A hunk of which n lines are read. *)
BodyAt(hunk, n) ==
  LET remaining(origin) == CountSide(hunk.body, origin) - CountSide(SubSeq(hunk.body, 1, n), origin)
  IN  [old |-> hunk.old, oldLines |-> CountSide(hunk.body, "deletion"),
       new |-> hunk.new, newLines |-> CountSide(hunk.body, "addition"),
       lines |-> [i \in 1 .. n |-> Numbered(hunk).lines[i]],
       oldLeft |-> remaining("deletion"), newLeft |-> remaining("addition")]

InHunk(who, patch, left, f, h, n, marker) ==
  LET hunk == patch[f].hunks[h] IN
  /\ header # Nothing /\ FilesKept(who, patch, files, f - 1)
  /\ HeadKept(who, patch[f], header, {})
  /\ header.hunks = HunksRead(patch[f], h - 1)
  /\ n < Len(hunk.body) /\ body = BodyAt(hunk, n)
  /\ left = HunkLeft(who, patch, f, h, n, marker)

Inside(who, patch, left) ==
  \E f \in DOMAIN patch, marker \in Markers(who) :
    \E h \in DOMAIN patch[f].hunks : \E n \in 0 .. Len(patch[f].hunks[h].body) :
      InHunk(who, patch, left, f, h, n, marker)

Parsing(who, patch, left) ==
  /\ left \in Seq(Row) /\ Due(who, left) /\ MarksKept(who, patch, left)
  /\ Outside(who, patch, left) \/ Inside(who, patch, left)

(* The patches that are handed to the parser and to the panel. *)
Handed == {AsText(patch) : patch \in Subject}

PatchInv ==
  IF outcome = "reading"
  THEN \E who \in Printers, patch \in Handed, left \in Seq(Row) :
         printer = who /\ subject = patch /\ Parsing(who, patch, left)
  ELSE PatchSurvivesText

----------------------------------------------------------------------------
(* What is left of a sequence. *)
LEMMA FromOf ==
  ASSUME NEW S, NEW s \in Seq(S), NEW n \in 0 .. Len(s)
  PROVE  /\ From(s, n) \in Seq(S) /\ Len(From(s, n)) = Len(s) - n /\ Len(s) \in Nat
         /\ \A i \in 1 .. Len(s) - n : From(s, n)[i] = s[n + i] /\ s[n + i] \in S
<1>1. Len(s) \in Nat /\ \A i \in 1 .. Len(s) : s[i] \in S
  BY LenProperties, ElementOfSeq
<1>2. n + 1 \in Int /\ Len(s) \in Int /\ \A i \in n + 1 .. Len(s) : s[i] \in S
  BY <1>1
<1>3. /\ SubSeq(s, n + 1, Len(s)) \in Seq(S)
      /\ Len(SubSeq(s, n + 1, Len(s))) = IF n + 1 <= Len(s) THEN Len(s) - (n + 1) + 1 ELSE 0
      /\ \A i \in 1 .. Len(s) - (n + 1) + 1 : SubSeq(s, n + 1, Len(s))[i] = s[n + 1 + i - 1]
  BY <1>2, SubSeqProperties
<1>4. \A i \in 1 .. Len(s) - n : n + 1 + i - 1 = n + i /\ n + i \in 1 .. Len(s)
  BY <1>1
<1>5. Len(s) - (n + 1) + 1 = Len(s) - n /\ (n + 1 <= Len(s) \/ Len(s) - n = 0)
  BY <1>1
<1>. QED BY <1>1, <1>3, <1>4, <1>5 DEF From

LEMMA OneInFront ==
  ASSUME NEW S, NEW a \in S, NEW t \in Seq(S)
  PROVE  /\ <<a>> \o t \in Seq(S) /\ <<a>> \o t # <<>> /\ Len(<<a>> \o t) = Len(t) + 1
         /\ (<<a>> \o t)[1] = a /\ Tail(<<a>> \o t) = t /\ Len(t) \in Nat
<1>1. <<a>> \in Seq(S) /\ Len(<<a>>) = 1 /\ <<a>>[1] = a /\ Len(t) \in Nat
  BY LenProperties
<1>2. /\ <<a>> \o t \in Seq(S) /\ Len(<<a>> \o t) = 1 + Len(t)
      /\ \A i \in 1 .. 1 + Len(t) : (<<a>> \o t)[i] = IF i <= 1 THEN <<a>>[i] ELSE t[i - 1]
  BY <1>1, ConcatProperties
<1>. DEFINE s == <<a>> \o t
<1>3. s # <<>>
  BY <1>1, <1>2, EmptySeq
<1>. HIDE DEF s
<1>4. /\ Tail(s) \in Seq(S) /\ Len(Tail(s)) = Len(s) - 1
      /\ \A i \in 1 .. Len(Tail(s)) : Tail(s)[i] = s[i + 1]
  BY <1>2, <1>3, HeadTailProperties DEF s
<1>5. Len(Tail(s)) = Len(t) /\ \A i \in 1 .. Len(t) : Tail(s)[i] = t[i]
  <2>1. \A i \in 1 .. Len(t) : i + 1 \in 1 .. 1 + Len(t) /\ ~(i + 1 <= 1) /\ i + 1 - 1 = i
    BY <1>1
  <2>2. \A i \in 1 .. Len(t) : s[i + 1] = t[i]
    BY <1>2, <2>1 DEF s
  <2>. QED BY <1>1, <1>2, <1>4, <2>2 DEF s
<1>6. Tail(s) = t
  BY <1>4, <1>5, SeqEqual
<1>7. s[1] = a
  BY <1>1, <1>2 DEF s
<1>. QED BY <1>1, <1>2, <1>3, <1>6, <1>7 DEF s

LEMMA FromNext ==
  ASSUME NEW S, NEW s \in Seq(S), NEW n \in 0 .. Len(s)
  PROVE  /\ n = 0 => From(s, n) = s
         /\ n = Len(s) => From(s, n) = <<>>
         /\ n < Len(s) => /\ n + 1 \in DOMAIN s /\ n + 1 \in 1 .. Len(s) /\ s[n + 1] \in S
                          /\ From(s, n + 1) \in Seq(S)
                          /\ From(s, n) = <<s[n + 1]>> \o From(s, n + 1)
                          /\ From(s, n) # <<>>
<1>1. Len(s) \in Nat /\ DOMAIN s = 1 .. Len(s)
  BY LenProperties
<1>2. n = 0 => From(s, n) = s
  BY <1>1, SubSeqFull DEF From
<1>3. n = Len(s) => From(s, n) = <<>>
  BY <1>1, SubSeqEmpty DEF From
<1>4. ASSUME n < Len(s)
      PROVE  /\ n + 1 \in DOMAIN s /\ n + 1 \in 1 .. Len(s) /\ s[n + 1] \in S
             /\ From(s, n + 1) \in Seq(S)
             /\ From(s, n) = <<s[n + 1]>> \o From(s, n + 1) /\ From(s, n) # <<>>
  <2>1. n + 1 \in 1 .. Len(s) /\ Len(s) \in n + 1 .. Len(s) /\ n + 1 \in 0 .. Len(s)
    BY <1>1, <1>4
  <2>2. s[n + 1] \in S
    BY <2>1, ElementOfSeq
  <2>3. From(s, n + 1) \in Seq(S)
    BY <2>1, FromOf
  <2>4. SubSeq(s, n + 1, Len(s)) = <<s[n + 1]>> \o SubSeq(s, n + 1 + 1, Len(s))
    BY <2>1, SubSeqRecursiveFirst
  <2>5. From(s, n) = <<s[n + 1]>> \o From(s, n + 1)
    BY <2>4 DEF From
  <2>6. <<s[n + 1]>> \o From(s, n + 1) # <<>>
    BY <2>2, <2>3, OneInFront
  <2>. QED BY <1>1, <2>1, <2>2, <2>3, <2>5, <2>6
<1>. QED BY <1>2, <1>3, <1>4

(* What is gathered of a sequence from a place on. *)
GathersFrom(T, piece, s, n) ==
  /\ FlattenSeq(Pieces(piece, From(s, n))) \in Seq(T)
  /\ n = Len(s) => FlattenSeq(Pieces(piece, From(s, n))) = <<>>
  /\ n < Len(s) => FlattenSeq(Pieces(piece, From(s, n)))
                     = piece[s[n + 1]] \o FlattenSeq(Pieces(piece, From(s, n + 1)))

LEMMA GatheredFrom ==
  ASSUME NEW S, NEW T, NEW piece, Maps(piece, S, Seq(T)), NEW s \in Seq(S), NEW n \in 0 .. Len(s)
  PROVE  GathersFrom(T, piece, s, n)
<1>1. FlattenSeq(Pieces(piece, From(s, n))) \in Seq(T)
  BY FromOf, GatheredConcat
<1>2. ASSUME n = Len(s) PROVE FlattenSeq(Pieces(piece, From(s, n))) = <<>>
  <2>1. From(s, n) = <<>>
    BY <1>2, FromNext
  <2>2. Pieces(piece, <<>>) = <<>>
    BY DEF Pieces
  <2>3. FlattenSeq(<<>>) = <<>>
    BY DEF FlattenSeq
  <2>. QED BY <2>1, <2>2, <2>3
<1>3. ASSUME n < Len(s)
      PROVE  FlattenSeq(Pieces(piece, From(s, n)))
               = piece[s[n + 1]] \o FlattenSeq(Pieces(piece, From(s, n + 1)))
  <2>1. /\ s[n + 1] \in S /\ From(s, n + 1) \in Seq(S)
        /\ From(s, n) = <<s[n + 1]>> \o From(s, n + 1)
    BY <1>3, FromNext
  <2>2. <<s[n + 1]>> \in Seq(S) /\ piece[s[n + 1]] \in Seq(T)
    BY <2>1 DEF Maps
  <2>3. FlattenSeq(Pieces(piece, <<s[n + 1]>> \o From(s, n + 1)))
          = FlattenSeq(Pieces(piece, <<s[n + 1]>>)) \o FlattenSeq(Pieces(piece, From(s, n + 1)))
    <3>1. \A a, b \in Seq(S) : FlattenSeq(Pieces(piece, a \o b))
                                 = FlattenSeq(Pieces(piece, a)) \o FlattenSeq(Pieces(piece, b))
      BY GatheredConcat
    <3>. QED BY ONLY <2>1, <2>2, <3>1
  <2>4. Pieces(piece, <<s[n + 1]>>) = <<piece[s[n + 1]]>>
    BY DEF Pieces
  <2>5. FlattenSeq(<<piece[s[n + 1]]>>) = piece[s[n + 1]]
    BY <2>2, FlattenedOne
  <2>. QED BY <2>1, <2>3, <2>4, <2>5
<1>. QED BY <1>1, <1>2, <1>3 DEF GathersFrom

----------------------------------------------------------------------------
(* The printed rows, and how each part of a print starts. *)
PrintedLine ==
  [origin : {"context", "deletion", "addition"}, content : Content, unterminated : BOOLEAN]

(* How many of the first n lines are on a side. *)
LEMMA CountOf ==
  ASSUME NEW lines \in Seq(PrintedLine), NEW origin, NEW n \in 0 .. Len(lines)
  PROVE  LET count(i) == CountSide(SubSeq(lines, 1, i), origin) IN
         /\ count(n) \in Nat /\ CountSide(lines, origin) \in Nat
         /\ count(n) <= CountSide(lines, origin)
         /\ n = 0 => count(n) = 0
         /\ n = Len(lines) => count(n) = CountSide(lines, origin)
         /\ n < Len(lines) =>
              count(n + 1) = count(n) + (IF lines[n + 1].origin \in {"context", origin} THEN 1 ELSE 0)
<1>. DEFINE On(i) == {j \in 1 .. i : lines[j].origin \in {"context", origin}}
            count(i) == CountSide(SubSeq(lines, 1, i), origin)
<1>1. Len(lines) \in Nat /\ DOMAIN lines = 1 .. Len(lines) /\ SubSeq(lines, 1, Len(lines)) = lines
  BY LenProperties, SubSeqFull
<1>2. ASSUME NEW i \in 0 .. Len(lines)
      PROVE  count(i) = Cardinality(On(i)) /\ IsFiniteSet(On(i))
  <2>1. i \in Nat /\ 1 \in Int /\ i \in Int /\ \A j \in 1 .. i : lines[j] \in PrintedLine
    BY <1>1, ElementOfSeq
  <2>2. /\ SubSeq(lines, 1, i) \in Seq(PrintedLine)
        /\ Len(SubSeq(lines, 1, i)) = IF 1 <= i THEN i - 1 + 1 ELSE 0
        /\ \A j \in 1 .. i - 1 + 1 : SubSeq(lines, 1, i)[j] = lines[1 + j - 1]
    BY ONLY <2>1, SubSeqProperties
  <2>3. DOMAIN SubSeq(lines, 1, i) = 1 .. i /\ \A j \in 1 .. i : SubSeq(lines, 1, i)[j] = lines[j]
    <3>1. DOMAIN SubSeq(lines, 1, i) = 1 .. Len(SubSeq(lines, 1, i))
      BY <2>2, LenProperties
    <3>. QED BY <2>1, <2>2, <3>1
  <2>4. {j \in DOMAIN SubSeq(lines, 1, i) : SubSeq(lines, 1, i)[j].origin \in {"context", origin}}
          = On(i)
    BY <2>3
  <2>5. IsFiniteSet(1 .. i) /\ On(i) \subseteq 1 .. i
    BY <2>1, FS_Interval
  <2>6. IsFiniteSet(On(i))
    <3>. HIDE DEF On
    <3>. QED BY <2>5, FS_Subset
  <2>. QED BY <2>4, <2>6 DEF CountSide
<1>3. CountSide(lines, origin) = Cardinality(On(Len(lines))) /\ IsFiniteSet(On(Len(lines)))
  <2>1. Len(lines) \in 0 .. Len(lines)
    BY <1>1
  <2>2. count(Len(lines)) = CountSide(lines, origin)
    BY <1>1
  <2>. HIDE DEF On, count
  <2>. QED BY <1>2, <2>1, <2>2
<1>4. On(n) \subseteq On(Len(lines)) /\ n \in Nat
  BY <1>1
<1>5. count(n) = Cardinality(On(n)) /\ IsFiniteSet(On(n))
  BY <1>2
<1>6. /\ Cardinality(On(n)) \in Nat /\ Cardinality(On(Len(lines))) \in Nat
      /\ Cardinality(On(n)) <= Cardinality(On(Len(lines)))
  <2>. HIDE DEF On, count
  <2>. QED BY <1>3, <1>4, <1>5, FS_Subset, FS_CardinalityType
<1>7. n = 0 => count(n) = 0
  <2>1. n = 0 => On(n) = {}
    BY <1>4
  <2>. QED BY <1>5, <2>1, FS_EmptySet
<1>8. ASSUME n < Len(lines)
      PROVE  count(n + 1) = count(n) + (IF lines[n + 1].origin \in {"context", origin} THEN 1 ELSE 0)
  <2>1. n + 1 \in 0 .. Len(lines) /\ n + 1 \notin On(n)
    BY <1>1, <1>4, <1>8
  <2>2. count(n + 1) = Cardinality(On(n + 1))
    BY <1>2, <2>1
  <2>3. On(n + 1) = IF lines[n + 1].origin \in {"context", origin} THEN On(n) \cup {n + 1} ELSE On(n)
    <3>1. \A j : j \in 1 .. n + 1 <=> j \in 1 .. n \/ j = n + 1
      BY <1>4
    <3>. QED BY <3>1
  <2>. HIDE DEF On, count
  <2>4. Cardinality(On(n) \cup {n + 1}) = Cardinality(On(n)) + 1
    BY <1>5, <2>1, FS_AddElement
  <2>. QED BY <1>5, <1>6, <2>2, <2>3, <2>4
<1>9. n = Len(lines) => count(n) = CountSide(lines, origin)
  BY <1>1
<1>. HIDE DEF On
<1>. QED BY <1>3, <1>5, <1>6, <1>7, <1>8, <1>9

LEMMA RowsTyped ==
  ASSUME NEW who \in Printers, NEW line \in PatchLine, NEW mark \in {"none", "addition", "deletion"}
  PROVE  PrintedRow(who, line, mark) \in Row /\ LineOf(who, PrintedRow(who, line, mark)) = line
BY DEF PrintedRow, LineOf, Row

LEMMA BodyLineIs ==
  ASSUME NEW origin \in {"context", "deletion", "addition"}, NEW content \in Content
  PROVE  /\ BodyLine(origin, content) \in PatchLine
         /\ BodyLine(origin, content).k \in BodyKind
         /\ Origin(BodyLine(origin, content)) = origin
         /\ ContentOf(BodyLine(origin, content)) = content
<1>1. CASE content \in LookAlikes /\ Changes[content.looks.side] = origin
  <2>1. PICK side \in {"old", "new"}, p \in Path : content = LooksLike(side, p)
    BY <1>1 DEF LookAlikes
  <2>2. content.looks = SideLine(side, p) /\ SideLine(side, p).side = side /\ SideLine(side, p).k = "side"
    BY <2>1 DEF LooksLike, SideLine
  <2>3. BodyLine(origin, content) = SideLine(side, p)
    BY <1>1, <2>2 DEF BodyLine
  <2>4. SideLine(side, p) \in PatchLine
    BY DEF SideLine, PatchLine
  <2>5. Changes[side] = origin
    BY <1>1, <2>2
  <2>. QED BY <2>1, <2>2, <2>3, <2>4, <2>5 DEF BodyKind, Origin, ContentOf, LooksLike
<1>2. CASE ~(content \in LookAlikes /\ Changes[content.looks.side] = origin)
  <2>1. BodyLine(origin, content) = [k |-> "body", origin |-> origin, content |-> content]
    BY <1>2 DEF BodyLine
  <2>2. [k |-> "body", origin |-> origin, content |-> content] \in PatchLine
    BY DEF PatchLine
  <2>. QED BY <2>1, <2>2 DEF BodyKind, Origin, ContentOf
<1>. QED BY <1>1, <1>2

(* A line of a hunk's body: itself, and the marker after it. *)
LineRow(who, line) ==
  PrintedRow(who, BodyLine(line.origin, line.content), MarkOf(line.origin))
LineMarker(who, line) == When(who # "detail" /\ line.unterminated, <<Bare("no newline")>>)

LEMMA MarkersAre ==
  ASSUME NEW who \in Printers, NEW marker \in Markers(who)
  PROVE  /\ marker \in Seq(Row)
         /\ marker # <<>> => /\ marker = <<Bare("no newline")>> /\ who # "detail"
                             /\ Bare("no newline") \in Row
                             /\ LineOf(who, Bare("no newline")) = Bare("no newline")
<1>1. Bare("no newline") \in Row
  BY DEF Bare, Row, PatchLine
<1>2. <<>> \in Seq(Row) /\ <<Bare("no newline")>> \in Seq(Row)
  <2>. DEFINE b == Bare("no newline")
  <2>1. b \in Row
    BY <1>1
  <2>. HIDE DEF b
  <2>2. <<b>> \in Seq(Row)
    BY <2>1
  <2>. QED BY <2>2, EmptySeq DEF b
<1>. QED BY <1>1, <1>2 DEF Markers, LineOf

LEMMA LineRowsFrom ==
  ASSUME NEW who \in Printers, NEW lines \in Seq(PrintedLine), NEW n \in 0 .. Len(lines)
  PROVE  /\ LineRows(who, From(lines, n)) \in Seq(Row)
         /\ n = Len(lines) => LineRows(who, From(lines, n)) = <<>>
         /\ n < Len(lines) =>
              /\ LineRow(who, lines[n + 1]) \in Row
              /\ LineMarker(who, lines[n + 1]) \in Markers(who)
              /\ LineRows(who, From(lines, n + 1)) \in Seq(Row)
              /\ LineRows(who, From(lines, n))
                   = <<LineRow(who, lines[n + 1])>>
                       \o (LineMarker(who, lines[n + 1]) \o LineRows(who, From(lines, n + 1)))
<1>1. ASSUME NEW line \in PrintedLine
      PROVE  LineRow(who, line) \in Row /\ LineMarker(who, line) \in Markers(who)
  <2>1. BodyLine(line.origin, line.content) \in PatchLine
    BY BodyLineIs DEF PrintedLine
  <2>2. MarkOf(line.origin) \in {"none", "addition", "deletion"}
    BY DEF PrintedLine, MarkOf
  <2>. QED BY <2>1, <2>2, RowsTyped DEF LineRow, LineMarker, Markers, When
<1>2. ASSUME NEW line \in PrintedLine
      PROVE  RowsOfLine(who, line) = <<LineRow(who, line)>> \o LineMarker(who, line)
  BY DEF RowsOfLine, LineRow, LineMarker
<1>3. Len(lines) \in Nat /\ \A i \in 1 .. Len(lines) : lines[i] \in PrintedLine
  BY LenProperties, ElementOfSeq
<1>4. CASE who = "detail"
  <2>1. ASSUME NEW s \in Seq(PrintedLine)
        PROVE  /\ LineRows(who, s) \in Seq(Row) /\ Len(LineRows(who, s)) = Len(s)
               /\ \A i \in 1 .. Len(s) : LineRows(who, s)[i] = LineRow(who, s[i])
    <3>1. /\ DOMAIN s = 1 .. Len(s) /\ Len(s) \in Nat
          /\ \A i \in 1 .. Len(s) : s[i] \in PrintedLine
      BY LenProperties, ElementOfSeq
    <3>2. LineRows(who, s) = [i \in 1 .. Len(s) |-> LineRow(who, s[i])]
      BY <1>4, <3>1 DEF LineRows, LineRow
    <3>3. \A i \in 1 .. Len(s) : LineRow(who, s[i]) \in Row
      BY <1>1, <3>1
    <3>. QED BY <3>1, <3>2, <3>3
  <2>2. LineRows(who, From(lines, n)) \in Seq(Row) /\ Len(LineRows(who, From(lines, n))) = Len(lines) - n
    BY <2>1, FromOf
  <2>3. n = Len(lines) => LineRows(who, From(lines, n)) = <<>>
    BY <1>3, <2>2, EmptySeq
  <2>4. ASSUME n < Len(lines)
        PROVE  LineRows(who, From(lines, n))
                 = <<LineRow(who, lines[n + 1])>> \o LineRows(who, From(lines, n + 1))
    <3>1. n + 1 \in 0 .. Len(lines) /\ n + 1 \in 1 .. Len(lines) /\ n \in Nat
      BY <1>3, <2>4
    <3>2. /\ From(lines, n + 1) \in Seq(PrintedLine) /\ From(lines, n) \in Seq(PrintedLine)
          /\ Len(From(lines, n + 1)) = Len(lines) - (n + 1) /\ Len(From(lines, n)) = Len(lines) - n
          /\ \A i \in 1 .. Len(lines) - n : From(lines, n)[i] = lines[n + i]
          /\ \A i \in 1 .. Len(lines) - (n + 1) : From(lines, n + 1)[i] = lines[n + 1 + i]
      BY <3>1, FromOf
    <3>. DEFINE a == LineRow(who, lines[n + 1])
                t == LineRows(who, From(lines, n + 1))
                s == LineRows(who, From(lines, n))
    <3>3. /\ t \in Seq(Row) /\ Len(t) = Len(lines) - (n + 1) /\ s \in Seq(Row) /\ Len(s) = Len(lines) - n
          /\ a \in Row /\ <<a>> \in Seq(Row) /\ Len(<<a>>) = 1 /\ <<a>>[1] = a
          /\ \A i \in 1 .. Len(lines) - n : s[i] = LineRow(who, lines[n + i])
          /\ \A i \in 1 .. Len(lines) - (n + 1) : t[i] = LineRow(who, lines[n + 1 + i])
      <4>1. t \in Seq(Row) /\ Len(t) = Len(lines) - (n + 1) /\ s \in Seq(Row) /\ Len(s) = Len(lines) - n
        BY <2>1, <3>2
      <4>2. a \in Row
        BY <1>1, <1>3, <3>1
      <4>3. \A i \in 1 .. Len(lines) - n : s[i] = LineRow(who, lines[n + i])
        BY <2>1, <3>2
      <4>4. \A i \in 1 .. Len(lines) - (n + 1) : t[i] = LineRow(who, lines[n + 1 + i])
        BY <2>1, <3>2
      <4>. HIDE DEF a, s, t
      <4>5. <<a>> \in Seq(Row) /\ Len(<<a>>) = 1 /\ <<a>>[1] = a
        BY <4>2
      <4>. QED BY <4>1, <4>2, <4>3, <4>4, <4>5
    <3>. HIDE DEF a, s, t
    <3>4. /\ <<a>> \o t \in Seq(Row) /\ Len(<<a>> \o t) = 1 + Len(t)
          /\ \A i \in 1 .. 1 + Len(t) : (<<a>> \o t)[i] = IF i <= 1 THEN <<a>>[i] ELSE t[i - 1]
      BY <3>3, ConcatProperties
    <3>5. ASSUME NEW i \in 1 .. Len(lines) - n PROVE s[i] = (<<a>> \o t)[i]
      <4>1. CASE i = 1
        BY <1>3, <3>3, <3>4, <4>1, <3>1 DEF a
      <4>2. CASE i # 1
        <5>1. i - 1 \in 1 .. Len(lines) - (n + 1) /\ n + 1 + (i - 1) = n + i /\ ~(i <= 1)
              /\ i \in 1 .. 1 + Len(t)
          BY <1>3, <3>1, <3>3, <4>2
        <5>2. (<<a>> \o t)[i] = t[i - 1]
          BY <3>4, <5>1
        <5>3. t[i - 1] = LineRow(who, lines[n + 1 + (i - 1)])
          BY <3>3, <5>1
        <5>. QED BY <3>3, <5>1, <5>2, <5>3
      <4>. QED BY <4>1, <4>2
    <3>6. Len(s) = Len(<<a>> \o t)
      BY <1>3, <3>1, <3>3, <3>4
    <3>7. s = <<a>> \o t
      BY <3>3, <3>4, <3>5, <3>6, SeqEqual
    <3>. QED BY <3>7 DEF a, s, t
  <2>5. ASSUME n < Len(lines)
        PROVE  LineMarker(who, lines[n + 1]) \o LineRows(who, From(lines, n + 1))
                 = LineRows(who, From(lines, n + 1)) /\ LineRows(who, From(lines, n + 1)) \in Seq(Row)
    <3>1. n + 1 \in 0 .. Len(lines)
      BY <1>3, <2>5
    <3>2. LineRows(who, From(lines, n + 1)) \in Seq(Row)
      BY <2>1, <3>1, FromOf
    <3>3. LineMarker(who, lines[n + 1]) = <<>>
      BY <1>4 DEF LineMarker, When
    <3>. QED BY <3>2, <3>3, ConcatEmptySeq
  <2>6. n < Len(lines) => n + 1 \in 1 .. Len(lines)
    BY <1>3
  <2>. QED BY <1>1, <1>3, <2>2, <2>3, <2>4, <2>5, <2>6
<1>5. CASE who # "detail"
  <2>. DEFINE piece == [line \in PrintedLine |-> RowsOfLine(who, line)]
  <2>1. ASSUME NEW line \in PrintedLine
        PROVE  <<LineRow(who, line)>> \in Seq(Row) /\ LineMarker(who, line) \in Seq(Row)
    <3>1. LineRow(who, line) \in Row /\ LineMarker(who, line) \in Markers(who)
      BY <1>1
    <3>2. LineMarker(who, line) \in Seq(Row)
      BY <3>1, MarkersAre
    <3>. QED BY <3>1, <3>2
  <2>2. Maps(piece, PrintedLine, Seq(Row))
    <3>1. ASSUME NEW line \in PrintedLine PROVE RowsOfLine(who, line) \in Seq(Row)
      BY <1>2, <2>1, ConcatProperties
    <3>. QED BY <3>1 DEF Maps
  <2>3. ASSUME NEW s \in Seq(PrintedLine)
        PROVE  LineRows(who, s) = FlattenSeq(Pieces(piece, s))
    <3>1. \A i \in DOMAIN s : s[i] \in PrintedLine
      BY LenProperties, ElementOfSeq
    <3>2. [i \in DOMAIN s |-> RowsOfLine(who, s[i])] = Pieces(piece, s)
      BY <3>1 DEF Pieces
    <3>. QED BY <1>5, <3>2 DEF LineRows
  <2>4. From(lines, n) \in Seq(PrintedLine)
    BY FromOf
  <2>5. \A line \in PrintedLine : piece[line] = RowsOfLine(who, line)
    OBVIOUS
  <2>. HIDE DEF piece
  <2>10. ASSUME NEW m \in 0 .. Len(lines)
         PROVE  /\ FlattenSeq(Pieces(piece, From(lines, m))) \in Seq(Row)
                /\ m = Len(lines) => FlattenSeq(Pieces(piece, From(lines, m))) = <<>>
                /\ m < Len(lines) =>
                     FlattenSeq(Pieces(piece, From(lines, m)))
                       = piece[lines[m + 1]] \o FlattenSeq(Pieces(piece, From(lines, m + 1)))
    <3>1. GathersFrom(Row, piece, lines, m)
      BY <2>2, GatheredFrom
    <3>. QED BY <3>1 DEF GathersFrom
  <2>6. LineRows(who, From(lines, n)) \in Seq(Row)
    BY <2>3, <2>4, <2>10
  <2>7. n = Len(lines) => LineRows(who, From(lines, n)) = <<>>
    BY <2>3, <2>4, <2>10
  <2>8. ASSUME n < Len(lines)
        PROVE  /\ LineRows(who, From(lines, n + 1)) \in Seq(Row)
               /\ LineRows(who, From(lines, n))
                    = <<LineRow(who, lines[n + 1])>>
                        \o (LineMarker(who, lines[n + 1]) \o LineRows(who, From(lines, n + 1)))
    <3>1. n + 1 \in 0 .. Len(lines) /\ n + 1 \in 1 .. Len(lines)
      BY <1>3, <2>8
    <3>2. lines[n + 1] \in PrintedLine /\ From(lines, n + 1) \in Seq(PrintedLine)
      BY <1>3, <3>1, FromOf
    <3>3. LineRows(who, From(lines, n + 1)) \in Seq(Row)
      BY <2>3, <2>10, <3>1, <3>2
    <3>4. LineRows(who, From(lines, n))
            = RowsOfLine(who, lines[n + 1]) \o LineRows(who, From(lines, n + 1))
      <4>1. FlattenSeq(Pieces(piece, From(lines, n)))
              = piece[lines[n + 1]] \o FlattenSeq(Pieces(piece, From(lines, n + 1)))
        BY <2>8, <2>10
      <4>. QED BY <2>3, <2>4, <2>5, <3>2, <4>1
    <3>5. (<<LineRow(who, lines[n + 1])>> \o LineMarker(who, lines[n + 1]))
             \o LineRows(who, From(lines, n + 1))
            = <<LineRow(who, lines[n + 1])>>
                \o (LineMarker(who, lines[n + 1]) \o LineRows(who, From(lines, n + 1)))
      BY <2>1, <3>2, <3>3, ConcatAssociative
    <3>. QED BY <1>2, <3>2, <3>3, <3>4, <3>5
  <2>9. n < Len(lines) => n + 1 \in 1 .. Len(lines)
    BY <1>3
  <2>. QED BY <1>1, <1>3, <2>6, <2>7, <2>8, <2>9
<1>. QED BY <1>4, <1>5

HunkRow(who, hunk) == PrintedRow(who, HunkLine(Numbered(hunk)), "none")

LEMMA HunkRowsAre ==
  ASSUME NEW who \in Printers, NEW hunk \in PrintedHunk
  PROVE  /\ HunkLine(Numbered(hunk)) \in PatchLine /\ HunkRow(who, hunk) \in Row
         /\ LineRows(who, hunk.body) \in Seq(Row)
         /\ HunkRows(who, hunk) = <<HunkRow(who, hunk)>> \o LineRows(who, hunk.body)
         /\ HunkRows(who, hunk) \in Seq(Row)
<1>1. /\ hunk.old \in Nat /\ hunk.new \in Nat /\ hunk.body \in Seq(PrintedLine)
  BY DEF PrintedHunk, PrintedLine
<1>2. \A origin : CountSide(hunk.body, origin) \in Nat
  <2>1. 0 \in 0 .. Len(hunk.body)
    BY <1>1, LenProperties
  <2>. QED BY <1>1, <2>1, CountOf
<1>3. HunkLine(Numbered(hunk)) \in PatchLine
  <2>. DEFINE a == CountSide(hunk.body, "deletion")
              b == CountSide(hunk.body, "addition")
  <2>1. a \in Nat /\ b \in Nat
    BY <1>2
  <2>2. HunkLine(Numbered(hunk))
          = [k |-> "hunk", old |-> hunk.old, oldLines |-> a, new |-> hunk.new, newLines |-> b]
    BY DEF HunkLine, Numbered
  <2>. HIDE DEF a, b
  <2>3. [k |-> "hunk", old |-> hunk.old, oldLines |-> a, new |-> hunk.new, newLines |-> b]
          \in [k : {"hunk"}, old : Nat, oldLines : Nat, new : Nat, newLines : Nat]
    BY <1>1, <2>1
  <2>. QED BY <2>2, <2>3 DEF PatchLine
<1>4. HunkRow(who, hunk) \in Row
  BY <1>3, RowsTyped DEF HunkRow
<1>5. LineRows(who, hunk.body) \in Seq(Row)
  <2>1. 0 \in 0 .. Len(hunk.body)
    BY <1>1, LenProperties
  <2>2. From(hunk.body, 0) = hunk.body
    BY <1>1, <2>1, FromNext
  <2>3. LineRows(who, From(hunk.body, 0)) \in Seq(Row)
    BY <1>1, <2>1, LineRowsFrom
  <2>. QED BY <2>2, <2>3
<1>6. HunkRows(who, hunk) = <<HunkRow(who, hunk)>> \o LineRows(who, hunk.body)
  <2>1. CASE who = "detail"
    <3>. DEFINE numbered == Numbered(hunk)
    <3>1. DOMAIN numbered.lines = DOMAIN hunk.body
      BY DEF Numbered
    <3>2. \A i \in DOMAIN hunk.body : /\ numbered.lines[i].origin = hunk.body[i].origin
                                      /\ numbered.lines[i].content = hunk.body[i].content
      BY DEF Numbered
    <3>. HIDE DEF numbered
    <3>3. [i \in DOMAIN numbered.lines |->
             [line |-> BodyLine(numbered.lines[i].origin, numbered.lines[i].content),
              mark |-> IF numbered.lines[i].origin = "context" THEN "none"
                       ELSE numbered.lines[i].origin]]
            = LineRows(who, hunk.body)
      BY <2>1, <3>1, <3>2 DEF LineRows, PrintedRow, MarkOf
    <3>4. HunkRow(who, hunk) = Unmarked(HunkLine(numbered))
      BY <2>1 DEF HunkRow, PrintedRow, Unmarked, numbered
    <3>5. HunkRows(who, hunk) = WriteHunk(numbered)
      BY <2>1 DEF HunkRows, numbered
    <3>. QED BY <3>3, <3>4, <3>5 DEF WriteHunk
  <2>2. CASE who # "detail"
    <3>1. FlattenSeq([i \in DOMAIN hunk.body |->
             <<BodyLine(hunk.body[i].origin, hunk.body[i].content)>>
               \o When(hunk.body[i].unterminated, <<Bare("no newline")>>)])
            = LineRows(who, hunk.body)
      <4>1. [i \in DOMAIN hunk.body |->
               <<BodyLine(hunk.body[i].origin, hunk.body[i].content)>>
                 \o When(hunk.body[i].unterminated, <<Bare("no newline")>>)]
              = [i \in DOMAIN hunk.body |-> RowsOfLine(who, hunk.body[i])]
        <5>1. ASSUME NEW i \in DOMAIN hunk.body
              PROVE  <<BodyLine(hunk.body[i].origin, hunk.body[i].content)>>
                       \o When(hunk.body[i].unterminated, <<Bare("no newline")>>)
                     = RowsOfLine(who, hunk.body[i])
          BY <2>2 DEF RowsOfLine, PrintedRow, When
        <5>. QED BY <5>1
      <4>. QED BY <2>2, <4>1 DEF LineRows
    <3>2. HunkRow(who, hunk) = HunkLine(Numbered(hunk))
      BY <2>2 DEF HunkRow, PrintedRow
    <3>. QED BY <2>2, <3>1, <3>2 DEF HunkRows, GitHunk
  <2>. QED BY <2>1, <2>2
<1>7. HunkRows(who, hunk) \in Seq(Row)
  BY <1>4, <1>5, <1>6, OneInFront
<1>. QED BY <1>3, <1>4, <1>5, <1>6, <1>7

LEMMA HunksRowsFrom ==
  ASSUME NEW who \in Printers, NEW hunks \in Seq(PrintedHunk), NEW n \in 0 .. Len(hunks)
  PROVE  /\ HunksRows(who, From(hunks, n)) \in Seq(Row)
         /\ n = Len(hunks) => HunksRows(who, From(hunks, n)) = <<>>
         /\ n < Len(hunks) =>
              /\ LineRows(who, hunks[n + 1].body) \in Seq(Row)
              /\ HunksRows(who, From(hunks, n + 1)) \in Seq(Row)
              /\ HunksRows(who, From(hunks, n))
                   = <<HunkRow(who, hunks[n + 1])>>
                       \o (LineRows(who, hunks[n + 1].body) \o HunksRows(who, From(hunks, n + 1)))
<1>. DEFINE piece == [hunk \in PrintedHunk |-> HunkRows(who, hunk)]
<1>1. Maps(piece, PrintedHunk, Seq(Row))
  BY HunkRowsAre DEF Maps
<1>2. ASSUME NEW s \in Seq(PrintedHunk)
      PROVE  HunksRows(who, s) = FlattenSeq(Pieces(piece, s))
  <2>1. \A i \in DOMAIN s : s[i] \in PrintedHunk
    BY LenProperties, ElementOfSeq
  <2>2. [i \in DOMAIN s |-> HunkRows(who, s[i])] = Pieces(piece, s)
    BY <2>1 DEF Pieces
  <2>. QED BY <2>2 DEF HunksRows
<1>3. \A hunk \in PrintedHunk : piece[hunk] = HunkRows(who, hunk)
  OBVIOUS
<1>. HIDE DEF piece
<1>4. ASSUME NEW m \in 0 .. Len(hunks)
      PROVE  /\ HunksRows(who, From(hunks, m)) \in Seq(Row)
             /\ m = Len(hunks) => HunksRows(who, From(hunks, m)) = <<>>
             /\ GathersFrom(Row, piece, hunks, m) /\ From(hunks, m) \in Seq(PrintedHunk)
  <2>1. GathersFrom(Row, piece, hunks, m)
    BY <1>1, GatheredFrom
  <2>2. From(hunks, m) \in Seq(PrintedHunk)
    BY FromOf
  <2>. QED BY <1>2, <2>1, <2>2 DEF GathersFrom
<1>5. ASSUME n < Len(hunks)
      PROVE  /\ LineRows(who, hunks[n + 1].body) \in Seq(Row)
             /\ HunksRows(who, From(hunks, n + 1)) \in Seq(Row)
             /\ HunksRows(who, From(hunks, n))
                  = <<HunkRow(who, hunks[n + 1])>>
                      \o (LineRows(who, hunks[n + 1].body) \o HunksRows(who, From(hunks, n + 1)))
  <2>1. n + 1 \in 0 .. Len(hunks) /\ n + 1 \in 1 .. Len(hunks)
    BY <1>5, LenProperties
  <2>2. hunks[n + 1] \in PrintedHunk
    BY <2>1, ElementOfSeq
  <2>3. /\ HunksRows(who, From(hunks, n + 1)) \in Seq(Row)
        /\ From(hunks, n + 1) \in Seq(PrintedHunk) /\ From(hunks, n) \in Seq(PrintedHunk)
    BY <1>4, <2>1
  <2>4. HunksRows(who, From(hunks, n)) = HunkRows(who, hunks[n + 1]) \o HunksRows(who, From(hunks, n + 1))
    <3>1. FlattenSeq(Pieces(piece, From(hunks, n)))
            = piece[hunks[n + 1]] \o FlattenSeq(Pieces(piece, From(hunks, n + 1)))
      BY <1>4, <1>5 DEF GathersFrom
    <3>. QED BY <1>2, <1>3, <2>2, <2>3, <3>1
  <2>5. /\ HunkRow(who, hunks[n + 1]) \in Row /\ LineRows(who, hunks[n + 1].body) \in Seq(Row)
        /\ HunkRows(who, hunks[n + 1])
             = <<HunkRow(who, hunks[n + 1])>> \o LineRows(who, hunks[n + 1].body)
    BY <2>2, HunkRowsAre
  <2>6. <<HunkRow(who, hunks[n + 1])>> \in Seq(Row)
    BY <2>5
  <2>7. (<<HunkRow(who, hunks[n + 1])>> \o LineRows(who, hunks[n + 1].body))
           \o HunksRows(who, From(hunks, n + 1))
          = <<HunkRow(who, hunks[n + 1])>>
              \o (LineRows(who, hunks[n + 1].body) \o HunksRows(who, From(hunks, n + 1)))
    BY <2>3, <2>5, <2>6, ConcatAssociative
  <2>. QED BY <2>3, <2>4, <2>5, <2>7
<1>. QED BY <1>4, <1>5

LEMMA SetOfConcat ==
  ASSUME NEW S, NEW a \in Seq(S), NEW b \in Seq(S)
  PROVE  a \o b \in Seq(S) /\ ToSet(a \o b) = ToSet(a) \cup ToSet(b)
<1>1. /\ a \o b \in Seq(S) /\ Len(a \o b) = Len(a) + Len(b)
      /\ \A i \in 1 .. Len(a) + Len(b) : (a \o b)[i] = IF i <= Len(a) THEN a[i] ELSE b[i - Len(a)]
  BY ConcatProperties
<1>2. /\ Len(a) \in Nat /\ Len(b) \in Nat /\ DOMAIN a = 1 .. Len(a) /\ DOMAIN b = 1 .. Len(b)
      /\ DOMAIN (a \o b) = 1 .. Len(a) + Len(b)
  BY <1>1, LenProperties
<1>3. ASSUME NEW x \in ToSet(a \o b) PROVE x \in ToSet(a) \cup ToSet(b)
  <2>1. PICK i \in 1 .. Len(a) + Len(b) : x = (a \o b)[i]
    BY <1>2 DEF ToSet
  <2>2. CASE i <= Len(a)
    <3>1. i \in DOMAIN a /\ x = a[i]
      BY <1>1, <1>2, <2>1, <2>2
    <3>. QED BY <3>1 DEF ToSet
  <2>3. CASE ~(i <= Len(a))
    <3>1. i - Len(a) \in DOMAIN b /\ x = b[i - Len(a)]
      BY <1>1, <1>2, <2>1, <2>3
    <3>. QED BY <3>1 DEF ToSet
  <2>. QED BY <2>2, <2>3
<1>4. ASSUME NEW i \in DOMAIN a PROVE a[i] \in ToSet(a \o b)
  <2>1. i \in 1 .. Len(a) + Len(b) /\ i <= Len(a)
    BY <1>2
  <2>. QED BY <1>1, <1>2, <2>1 DEF ToSet
<1>5. ASSUME NEW i \in DOMAIN b PROVE b[i] \in ToSet(a \o b)
  <2>1. Len(a) + i \in 1 .. Len(a) + Len(b) /\ ~(Len(a) + i <= Len(a)) /\ Len(a) + i - Len(a) = i
    BY <1>2
  <2>2. (a \o b)[Len(a) + i] = b[i]
    BY <1>1, <2>1
  <2>. QED BY <1>2, <2>1, <2>2 DEF ToSet
<1>6. ToSet(a) \subseteq ToSet(a \o b) /\ ToSet(b) \subseteq ToSet(a \o b)
  BY <1>4, <1>5 DEF ToSet
<1>. QED BY <1>1, <1>3, <1>6

LEMMA SetOfWhen ==
  ASSUME NEW S, NEW a \in Seq(S), NEW condition \in BOOLEAN
  PROVE  /\ When(condition, a) \in Seq(S)
         /\ ToSet(When(condition, a)) = IF condition THEN ToSet(a) ELSE {}
<1>1. <<>> \in Seq(S) /\ ToSet(<<>>) = {}
  BY EmptySeq DEF ToSet
<1>. QED BY <1>1 DEF When

LEMMA SetOfOne ==
  ASSUME NEW S, NEW a \in S
  PROVE  <<a>> \in Seq(S) /\ ToSet(<<a>>) = {a}
BY DEF ToSet

LEMMA SetOfTwo ==
  ASSUME NEW S, NEW a \in S, NEW b \in S
  PROVE  <<a, b>> \in Seq(S) /\ ToSet(<<a, b>>) = {a, b}
BY DEF ToSet

LEMMA SetOfThree ==
  ASSUME NEW S, NEW a \in S, NEW b \in S, NEW c \in S
  PROVE  <<a, b, c>> \in Seq(S) /\ ToSet(<<a, b, c>>) = {a, b, c}
BY DEF ToSet

Set(condition, lines) == IF condition THEN lines ELSE {}

LEMMA SetOfWhenOne ==
  ASSUME NEW S, NEW a \in S, NEW condition \in BOOLEAN
  PROVE  When(condition, <<a>>) \in Seq(S) /\ ToSet(When(condition, <<a>>)) = Set(condition, {a})
<1>1. <<a>> \in Seq(S) /\ ToSet(<<a>>) = {a}
  BY SetOfOne
<1>2. /\ When(condition, <<a>>) \in Seq(S)
      /\ ToSet(When(condition, <<a>>)) = IF condition THEN ToSet(<<a>>) ELSE {}
  BY <1>1, SetOfWhen
<1>. QED BY <1>1, <1>2 DEF Set

Joins(S, front, a, b) ==
  /\ a \o b \in Seq(S) /\ ToSet(a \o b) = ToSet(a) \cup ToSet(b)
  /\ (front \o a) \o b = front \o (a \o b)

LEMMA OneMore ==
  ASSUME NEW S, NEW front \in Seq(S), NEW a \in Seq(S), NEW b \in Seq(S)
  PROVE  Joins(S, front, a, b)
<1>1. a \o b \in Seq(S) /\ ToSet(a \o b) = ToSet(a) \cup ToSet(b)
  BY SetOfConcat
<1>2. (front \o a) \o b = front \o (a \o b)
  BY ConcatAssociative
<1>. QED BY <1>1, <1>2 DEF Joins

MoveSet(file) ==
  Set(file.status \in Moved,
      {SimilarityLine(file.similarity), MoveLine(file.status, "from", file.old),
       MoveLine(file.status, "to", file.new)})
PanelSet(file) ==
  MoveSet(file)
  \cup (IF file.binary THEN {Bare("binary")}
        ELSE Set(file.hunks # <<>>, {SideLine("old", file.old), SideLine("new", file.new)}))
GitSet(file) ==
  Set(file.mode, {Bare("mode")})
  \cup Set(file.status = "added", {Bare("new file")})
  \cup Set(file.status = "deleted", {Bare("deleted file")})
  \cup MoveSet(file)
  \cup Set(file.binary \/ file.hunks # <<>> \/ file.status \in {"added", "deleted"}, {Bare("index")})
  \cup Set(file.binary, {Bare("binary")})
  \cup Set(file.hunks # <<>>, {GitSide("old", file.old), GitSide("new", file.new)})
MetaSet(who, file) == IF who = "detail" THEN PanelSet(file) ELSE GitSet(file)

LEMMA FileTyped ==
  ASSUME NEW file \in PrintedFile
  PROVE  /\ file.old \in Path \cup {NoPath} /\ file.new \in Path \cup {NoPath}
         /\ file.status \in {"modified", "added", "deleted"} \cup Moved
         /\ file.similarity \in Nat /\ file.mode \in BOOLEAN /\ file.binary \in BOOLEAN
         /\ file.hunks \in Seq(PrintedHunk)
         /\ file.old = NoPath <=> file.status = "added"
         /\ file.new = NoPath <=> file.status = "deleted"
         /\ file.status \notin Moved => file.similarity = 100
         /\ file.binary => file.hunks = <<>>
BY DEF PrintedFile

LEMMA LinesTyped ==
  ASSUME NEW file \in PrintedFile
  PROVE  /\ HeaderLine(file) \in PatchLine
         /\ Bare("mode") \in PatchLine /\ Bare("new file") \in PatchLine
         /\ Bare("deleted file") \in PatchLine /\ Bare("index") \in PatchLine
         /\ Bare("binary") \in PatchLine
         /\ SideLine("old", file.old) \in PatchLine /\ SideLine("new", file.new) \in PatchLine
         /\ GitSide("old", file.old) \in PatchLine /\ GitSide("new", file.new) \in PatchLine
         /\ SimilarityLine(file.similarity) \in PatchLine
         /\ file.status \in Moved => /\ MoveLine(file.status, "from", file.old) \in PatchLine
                                     /\ MoveLine(file.status, "to", file.new) \in PatchLine
<1>1. HeaderLine(file) \in PatchLine
  <2>1. HeaderLine(file) \in [k : {"diff"}, old : Path \cup {NoPath}, new : Path \cup {NoPath}]
    BY FileTyped DEF HeaderLine, DiffLine, OtherThan
  <2>. QED BY <2>1 DEF PatchLine
<1>2. \A k \in {"mode", "new file", "deleted file", "index", "binary"} : Bare(k) \in PatchLine
  BY DEF Bare, PatchLine
<1>3. \A side \in {"old", "new"} : \A path \in Path \cup {NoPath} :
        SideLine(side, path) \in PatchLine /\ GitSide(side, path) \in PatchLine
  <2>1. \A side \in {"old", "new"} : \A path \in Path \cup {NoPath} \cup [tabbed : Spaced] :
          SideLine(side, path) \in PatchLine
    BY DEF SideLine, PatchLine
  <2>2. \A path \in Path \cup {NoPath} : path \in Spaced => [tabbed |-> path] \in [tabbed : Spaced]
    OBVIOUS
  <2>. QED BY <2>1, <2>2 DEF GitSide
<1>4. SimilarityLine(file.similarity) \in PatchLine
  <2>1. SimilarityLine(file.similarity) \in [k : {"similarity"}, value : Nat]
    BY FileTyped DEF SimilarityLine
  <2>. QED BY <2>1 DEF PatchLine
<1>5. ASSUME file.status \in Moved
      PROVE  /\ MoveLine(file.status, "from", file.old) \in PatchLine
             /\ MoveLine(file.status, "to", file.new) \in PatchLine
  <2>1. /\ MoveLine(file.status, "from", file.old)
             \in [k : Moved, end : {"from", "to"}, path : Path \cup {NoPath}]
        /\ MoveLine(file.status, "to", file.new)
             \in [k : Moved, end : {"from", "to"}, path : Path \cup {NoPath}]
    BY <1>5, FileTyped DEF MoveLine
  <2>. QED BY <2>1 DEF PatchLine
<1>6. file.old \in Path \cup {NoPath} /\ file.new \in Path \cup {NoPath}
  BY FileTyped
<1>. QED BY <1>1, <1>2, <1>3, <1>4, <1>5, <1>6

LEMMA MoveLinesAre ==
  ASSUME NEW file \in PrintedFile
  PROVE  MoveLines(file) \in Seq(PatchLine) /\ ToSet(MoveLines(file)) = MoveSet(file)
<1>1. CASE file.status \in Moved
  <2>1. /\ SimilarityLine(file.similarity) \in PatchLine
        /\ MoveLine(file.status, "from", file.old) \in PatchLine
        /\ MoveLine(file.status, "to", file.new) \in PatchLine
    BY <1>1, LinesTyped
  <2>2. MoveLines(file) = <<SimilarityLine(file.similarity), MoveLine(file.status, "from", file.old),
                            MoveLine(file.status, "to", file.new)>>
    BY <1>1 DEF MoveLines
  <2>3. /\ MoveLines(file) \in Seq(PatchLine)
        /\ ToSet(MoveLines(file)) = {SimilarityLine(file.similarity),
             MoveLine(file.status, "from", file.old), MoveLine(file.status, "to", file.new)}
    BY <2>1, <2>2, SetOfThree
  <2>. QED BY <1>1, <2>3 DEF MoveSet, Set
<1>2. CASE file.status \notin Moved
  BY <1>2, EmptySeq DEF MoveLines, MoveSet, Set, ToSet
<1>. QED BY <1>1, <1>2

(* A print of a file is its header line, the lines up to its hunks, and these. *)
LEMMA GitFileIs ==
  ASSUME NEW file \in PrintedFile,
         NEW t \in Seq(Row), t = FlattenSeq([i \in DOMAIN file.hunks |-> GitHunk(file.hunks[i])]),
         NEW who, who # "detail"
  PROVE  /\ MetaLines(who, file) \in Seq(PatchLine)
         /\ ToSet(MetaLines(who, file)) = GitSet(file)
         /\ GitFile(file) = <<HeaderLine(file)>> \o (MetaLines(who, file) \o t)
<1>. DEFINE indexed == file.binary \/ file.hunks # <<>> \/ file.status \in {"added", "deleted"}
            sides == <<GitSide("old", file.old), GitSide("new", file.new)>>
            h == <<HeaderLine(file)>>
            a == When(file.mode, <<Bare("mode")>>)
            b == When(file.status = "added", <<Bare("new file")>>)
            c == When(file.status = "deleted", <<Bare("deleted file")>>)
            d == MoveLines(file)
            e == When(indexed, <<Bare("index")>>)
            f == When(file.binary, <<Bare("binary")>>)
            g == When(file.hunks # <<>>, sides)
            S == PatchLine
<1>1. h \in Seq(S)
  BY LinesTyped, SetOfOne
<1>2. a \in Seq(S) /\ ToSet(a) = Set(file.mode, {Bare("mode")})
  <2>1. Bare("mode") \in S /\ file.mode \in BOOLEAN
    BY LinesTyped, FileTyped
  <2>. QED BY <2>1, SetOfWhenOne
<1>3. b \in Seq(S) /\ ToSet(b) = Set(file.status = "added", {Bare("new file")})
  <2>1. Bare("new file") \in S /\ (file.status = "added") \in BOOLEAN
    BY LinesTyped
  <2>. QED BY <2>1, SetOfWhenOne
<1>4. c \in Seq(S) /\ ToSet(c) = Set(file.status = "deleted", {Bare("deleted file")})
  <2>1. Bare("deleted file") \in S /\ (file.status = "deleted") \in BOOLEAN
    BY LinesTyped
  <2>. QED BY <2>1, SetOfWhenOne
<1>5. d \in Seq(S) /\ ToSet(d) = MoveSet(file)
  BY MoveLinesAre
<1>6. e \in Seq(S) /\ ToSet(e) = Set(indexed, {Bare("index")})
  <2>1. Bare("index") \in S /\ indexed \in BOOLEAN
    BY LinesTyped, FileTyped
  <2>. QED BY <2>1, SetOfWhenOne
<1>7. f \in Seq(S) /\ ToSet(f) = Set(file.binary, {Bare("binary")})
  <2>1. Bare("binary") \in S /\ file.binary \in BOOLEAN
    BY LinesTyped, FileTyped
  <2>. QED BY <2>1, SetOfWhenOne
<1>8. g \in Seq(S)
      /\ ToSet(g) = Set(file.hunks # <<>>, {GitSide("old", file.old), GitSide("new", file.new)})
  <2>1. GitSide("old", file.old) \in S /\ GitSide("new", file.new) \in S
        /\ (file.hunks # <<>>) \in BOOLEAN
    BY LinesTyped
  <2>2. sides \in Seq(S) /\ ToSet(sides) = {GitSide("old", file.old), GitSide("new", file.new)}
    BY <2>1, SetOfTwo
  <2>. QED BY <2>1, <2>2, SetOfWhen DEF Set
<1>9. /\ MetaLines(who, file) = (((((a \o b) \o c) \o d) \o e) \o f) \o g
      /\ GitFile(file) = (((((((h \o a) \o b) \o c) \o d) \o e) \o f) \o g) \o t
      /\ GitSet(file) = (((((ToSet(a) \cup ToSet(b)) \cup ToSet(c)) \cup ToSet(d)) \cup ToSet(e))
                            \cup ToSet(f)) \cup ToSet(g)
  <2>1. MetaLines(who, file) = (((((a \o b) \o c) \o d) \o e) \o f) \o g
    BY DEF MetaLines
  <2>2. GitFile(file) = (((((((h \o a) \o b) \o c) \o d) \o e) \o f) \o g) \o t
    BY DEF GitFile
  <2>3. GitSet(file) = (((((ToSet(a) \cup ToSet(b)) \cup ToSet(c)) \cup ToSet(d)) \cup ToSet(e))
                            \cup ToSet(f)) \cup ToSet(g)
    BY <1>2, <1>3, <1>4, <1>5, <1>6, <1>7, <1>8 DEF GitSet
  <2>. QED BY <2>1, <2>2, <2>3
<1>10. S \subseteq Row
  BY DEF Row
<1>. HIDE DEF a, b, c, d, e, f, g, h, S
<1>11. Joins(S, h, a, b)
  BY <1>1, <1>2, <1>3, OneMore
<1>. DEFINE ab == a \o b
<1>12. Joins(S, h, ab, c)
  <2>1. ab \in Seq(S)
    BY <1>11 DEF Joins
  <2>. HIDE DEF ab
  <2>. QED BY <1>1, <1>4, <2>1, OneMore
<1>. DEFINE abc == ab \o c
<1>13. Joins(S, h, abc, d)
  <2>1. abc \in Seq(S)
    BY <1>12 DEF Joins
  <2>. HIDE DEF ab, abc
  <2>. QED BY <1>1, <1>5, <2>1, OneMore
<1>. DEFINE abcd == abc \o d
<1>14. Joins(S, h, abcd, e)
  <2>1. abcd \in Seq(S)
    BY <1>13 DEF Joins
  <2>. HIDE DEF ab, abc, abcd
  <2>. QED BY <1>1, <1>6, <2>1, OneMore
<1>. DEFINE abcde == abcd \o e
<1>15. Joins(S, h, abcde, f)
  <2>1. abcde \in Seq(S)
    BY <1>14 DEF Joins
  <2>. HIDE DEF ab, abc, abcd, abcde
  <2>. QED BY <1>1, <1>7, <2>1, OneMore
<1>. DEFINE most == abcde \o f
<1>16. Joins(S, h, most, g)
  <2>1. most \in Seq(S)
    BY <1>15 DEF Joins
  <2>. HIDE DEF ab, abc, abcd, abcde, most
  <2>. QED BY <1>1, <1>8, <2>1, OneMore
<1>. DEFINE meta == most \o g
<1>17. meta \in Seq(S) /\ (h \o meta) \o t = h \o (meta \o t)
  <2>1. meta \in Seq(S)
    BY <1>16 DEF Joins
  <2>. HIDE DEF meta
  <2>2. \A s \in Seq(S) : s \in Seq(Row)
    BY <1>10, SeqMonotonic
  <2>3. h \in Seq(Row) /\ meta \in Seq(Row)
    BY <1>1, <2>1, <2>2
  <2>. QED BY <2>1, <2>3, ConcatAssociative
<1>18. MetaLines(who, file) = meta
  BY <1>9
<1>19. ToSet(meta) = GitSet(file)
  <2>1. ToSet(most) = ToSet(abcde) \cup ToSet(f) /\ ToSet(abcde) = ToSet(abcd) \cup ToSet(e)
        /\ ToSet(abcd) = ToSet(abc) \cup ToSet(d) /\ ToSet(abc) = ToSet(ab) \cup ToSet(c)
        /\ ToSet(ab) = ToSet(a) \cup ToSet(b) /\ ToSet(meta) = ToSet(most) \cup ToSet(g)
    BY <1>11, <1>12, <1>13, <1>14, <1>15, <1>16 DEF Joins
  <2>. HIDE DEF ab, abc, abcd, abcde, most, meta
  <2>. QED BY <1>9, <2>1
<1>20. GitFile(file) = h \o (meta \o t)
  <2>1. (((((((h \o a) \o b) \o c) \o d) \o e) \o f) \o g) = h \o meta
    BY <1>11, <1>12, <1>13, <1>14, <1>15, <1>16 DEF Joins
  <2>. HIDE DEF ab, abc, abcd, abcde, most, meta
  <2>. QED BY <1>9, <1>17, <2>1
<1>. QED BY <1>17, <1>18, <1>19, <1>20 DEF S, h

LEMMA PanelFileIs ==
  ASSUME NEW file \in PrintedFile,
         NEW t \in Seq(Row),
         t = FlattenSeq([i \in DOMAIN file.hunks |-> WriteHunk(Numbered(file.hunks[i]))])
  PROVE  /\ MetaLines("detail", file) \in Seq(PatchLine)
         /\ ToSet(MetaLines("detail", file)) = PanelSet(file)
         /\ WriteFile(FilePatch(file))
              = <<Unmarked(HeaderLine(file))>>
                  \o ([i \in DOMAIN MetaLines("detail", file) |->
                         Unmarked(MetaLines("detail", file)[i])] \o t)
<1>. DEFINE S == PatchLine
            h == <<HeaderLine(file)>>
            a == MoveLines(file)
            sides == <<SideLine("old", file.old), SideLine("new", file.new)>>
            b == IF file.binary THEN <<Bare("binary")>> ELSE When(file.hunks # <<>>, sides)
            bSet == IF file.binary THEN {Bare("binary")}
                    ELSE Set(file.hunks # <<>>, {SideLine("old", file.old), SideLine("new", file.new)})
            read == FilePatch(file)
            marked(s) == [i \in DOMAIN s |-> Unmarked(s[i])]
<1>1. h \in Seq(S) /\ HeaderLine(file) \in S
  BY LinesTyped, SetOfOne
<1>2. a \in Seq(S) /\ ToSet(a) = MoveSet(file)
  BY MoveLinesAre
<1>3. b \in Seq(S) /\ ToSet(b) = bSet
  <2>1. /\ SideLine("old", file.old) \in S /\ SideLine("new", file.new) \in S
        /\ Bare("binary") \in S /\ (file.hunks # <<>>) \in BOOLEAN
    BY LinesTyped
  <2>2. sides \in Seq(S) /\ ToSet(sides) = {SideLine("old", file.old), SideLine("new", file.new)}
    BY <2>1, SetOfTwo
  <2>3. <<Bare("binary")>> \in Seq(S) /\ ToSet(<<Bare("binary")>>) = {Bare("binary")}
    BY <2>1, SetOfOne
  <2>4. /\ When(file.hunks # <<>>, sides) \in Seq(S)
        /\ ToSet(When(file.hunks # <<>>, sides)) = Set(file.hunks # <<>>, ToSet(sides))
    BY <2>1, <2>2, SetOfWhen DEF Set
  <2>. HIDE DEF sides
  <2>. QED BY <2>2, <2>3, <2>4
<1>4. MetaLines("detail", file) = a \o b /\ PanelSet(file) = MoveSet(file) \cup bSet
  BY DEF MetaLines, PanelSet
<1>5. Joins(S, h, a, b)
  BY <1>1, <1>2, <1>3, OneMore
<1>6. /\ read.old = file.old /\ read.new = file.new /\ read.status = file.status
      /\ read.similarity = file.similarity /\ read.binary = file.binary
      /\ DOMAIN read.hunks = DOMAIN file.hunks
      /\ \A i \in DOMAIN file.hunks : read.hunks[i] = Numbered(file.hunks[i])
  BY DEF FilePatch
<1>7. read.hunks # <<>> <=> file.hunks # <<>>
  <2>1. /\ file.hunks \in Seq(PrintedHunk)
        /\ read.hunks = [i \in DOMAIN file.hunks |-> Numbered(file.hunks[i])]
    BY FileTyped DEF FilePatch
  <2>2. DOMAIN file.hunks = 1 .. Len(file.hunks) /\ Len(file.hunks) \in Nat
    BY <2>1, LenProperties
  <2>3. ASSUME file.hunks = <<>> PROVE read.hunks = <<>>
    BY <2>1, <2>3
  <2>4. ASSUME read.hunks = <<>> PROVE file.hunks = <<>>
    <3>1. DOMAIN file.hunks = {}
      BY <1>6, <2>4
    <3>2. Len(file.hunks) = 0
      BY <2>2, <3>1
    <3>. QED BY <2>1, <3>2, EmptySeq
  <2>. QED BY <2>3, <2>4
<1>8. HeaderLine(read) = HeaderLine(file) /\ MoveLines(read) = MoveLines(file)
  BY <1>6 DEF HeaderLine, MoveLines
<1>9. FlattenSeq([i \in DOMAIN read.hunks |-> WriteHunk(read.hunks[i])]) = t
  <2>1. [i \in DOMAIN read.hunks |-> WriteHunk(read.hunks[i])]
          = [i \in DOMAIN file.hunks |-> WriteHunk(Numbered(file.hunks[i]))]
    BY <1>6
  <2>. QED BY <2>1
<1>10. When(~file.binary, t) = t
  <2>1. ASSUME file.binary PROVE t = <<>>
    <3>1. file.hunks = <<>>
      BY <2>1, FileTyped
    <3>2. t = FlattenSeq(<<>>)
      BY <3>1
    <3>. QED BY <3>2 DEF FlattenSeq
  <2>. QED BY <2>1 DEF When
<1>. DEFINE unmarked == (h \o a) \o b
<1>11. WriteFile(read) = marked(unmarked) \o When(~file.binary, t)
  <2>. HIDE DEF read
  <2>1. sides = <<SideLine("old", read.old), SideLine("new", read.new)>>
    BY <1>6
  <2>2. (IF read.binary THEN <<Bare("binary")>>
         ELSE When(read.hunks # <<>>, <<SideLine("old", read.old), SideLine("new", read.new)>>)) = b
    BY <1>6, <1>7 DEF When
  <2>3. <<HeaderLine(read)>> \o MoveLines(read) = h \o a
    BY <1>8
  <2>. HIDE DEF h, a, b, sides
  <2>. QED BY <1>6, <1>9, <2>2, <2>3 DEF WriteFile
<1>. DEFINE piece == [line \in S |-> Unmarked(line)]
<1>12. Maps(piece, S, Row)
  BY DEF Maps, Unmarked, Row
<1>13. ASSUME NEW s \in Seq(S) PROVE marked(s) = Pieces(piece, s)
  <2>1. \A i \in DOMAIN s : s[i] \in S
    BY LenProperties, ElementOfSeq
  <2>. QED BY <2>1 DEF Pieces
<1>14. a \o b \in Seq(S) /\ unmarked = h \o (a \o b)
  BY <1>5 DEF Joins
<1>. DEFINE meta == a \o b
<1>15. marked(unmarked) = <<Unmarked(HeaderLine(file))>> \o marked(meta) /\ marked(meta) \in Seq(Row)
  <2>1. meta \in Seq(S) /\ unmarked = h \o meta /\ h \o meta \in Seq(S)
    BY <1>1, <1>14, ConcatProperties
  <2>. HIDE DEF meta, unmarked, piece, S
  <2>2. Pieces(piece, h \o meta) = Pieces(piece, h) \o Pieces(piece, meta)
    <3>1. \A x, y \in Seq(S) : Pieces(piece, x \o y) = Pieces(piece, x) \o Pieces(piece, y)
      BY ONLY <1>12, PiecesConcat
    <3>. HIDE DEF h
    <3>. QED BY ONLY <1>1, <2>1, <3>1
  <2>3. Pieces(piece, meta) \in Seq(Row)
    BY <1>12, <2>1, PiecesConcat
  <2>4. marked(h) = <<Unmarked(HeaderLine(file))>>
    OBVIOUS
  <2>. HIDE DEF h, marked
  <2>. QED BY <1>1, <1>13, <2>1, <2>2, <2>3, <2>4
<1>16. Unmarked(HeaderLine(file)) \in Row
  BY <1>1 DEF Unmarked, Row
<1>17. (<<Unmarked(HeaderLine(file))>> \o marked(meta)) \o t
         = <<Unmarked(HeaderLine(file))>> \o (marked(meta) \o t)
  <2>. DEFINE x == Unmarked(HeaderLine(file))
              y == marked(meta)
  <2>1. x \in Row /\ y \in Seq(Row)
    BY <1>15, <1>16
  <2>. HIDE DEF x, y
  <2>2. <<x>> \in Seq(Row)
    BY <2>1
  <2>3. (<<x>> \o y) \o t = <<x>> \o (y \o t)
    BY <2>1, <2>2, ConcatAssociative
  <2>. QED BY <2>3 DEF x, y
<1>18. MetaLines("detail", file) = meta
  BY <1>4
<1>. HIDE DEF meta, unmarked, read, h, a, b, piece
<1>19. meta \in Seq(S) /\ ToSet(meta) = PanelSet(file)
  BY <1>2, <1>3, <1>4, <1>5 DEF Joins, meta
<1>20. WriteFile(read) = <<Unmarked(HeaderLine(file))>> \o (marked(meta) \o t)
  BY <1>10, <1>11, <1>15, <1>17
<1>. QED BY <1>18, <1>19, <1>20 DEF read

HeaderRow(who, file) == PrintedRow(who, HeaderLine(file), "none")

LEMMA FileRowsAre ==
  ASSUME NEW who \in Printers, NEW file \in PrintedFile
  PROVE  /\ HeaderLine(file) \in PatchLine /\ HeaderRow(who, file) \in Row
         /\ MetaRows(who, file) \in Seq(Row)
         /\ \A i \in 1 .. Len(MetaRows(who, file)) : \E line \in MetaSet(who, file) :
              line \in PatchLine /\ MetaRows(who, file)[i] = PrintedRow(who, line, "none")
         /\ LinesOf(who, MetaRows(who, file)) = MetaSet(who, file)
         /\ HunksRows(who, file.hunks) \in Seq(Row)
         /\ FileRows(who, file)
              = <<HeaderRow(who, file)>> \o (MetaRows(who, file) \o HunksRows(who, file.hunks))
         /\ FileRows(who, file) \in Seq(Row)
<1>. DEFINE t == HunksRows(who, file.hunks)
            lines == MetaLines(who, file)
            meta == MetaRows(who, file)
<1>1. HeaderLine(file) \in PatchLine /\ HeaderRow(who, file) \in Row
  BY LinesTyped, RowsTyped DEF HeaderRow
<1>2. file.hunks \in Seq(PrintedHunk) /\ t \in Seq(Row)
  <2>1. file.hunks \in Seq(PrintedHunk)
    BY FileTyped
  <2>2. 0 \in 0 .. Len(file.hunks)
    BY <2>1, LenProperties
  <2>3. From(file.hunks, 0) = file.hunks
    BY <2>1, <2>2, FromNext
  <2>4. HunksRows(who, From(file.hunks, 0)) \in Seq(Row)
    BY <2>1, <2>2, HunksRowsFrom
  <2>. QED BY <2>1, <2>3, <2>4
<1>3. lines \in Seq(PatchLine) /\ ToSet(lines) = MetaSet(who, file)
      /\ FileRows(who, file) = <<HeaderRow(who, file)>> \o (meta \o t)
  <2>1. CASE who = "detail"
    <3>1. t = FlattenSeq([i \in DOMAIN file.hunks |-> WriteHunk(Numbered(file.hunks[i]))])
      BY <2>1 DEF HunksRows, HunkRows
    <3>2. /\ lines \in Seq(PatchLine) /\ ToSet(lines) = PanelSet(file)
          /\ WriteFile(FilePatch(file))
               = <<Unmarked(HeaderLine(file))>> \o ([i \in DOMAIN lines |-> Unmarked(lines[i])] \o t)
      <4>. HIDE DEF t
      <4>. QED BY <1>2, <2>1, <3>1, PanelFileIs
    <3>3. meta = [i \in DOMAIN lines |-> Unmarked(lines[i])]
      BY <2>1 DEF MetaRows, PrintedRow, Unmarked
    <3>4. HeaderRow(who, file) = Unmarked(HeaderLine(file)) /\ FileRows(who, file) = WriteFile(FilePatch(file))
      BY <2>1 DEF HeaderRow, PrintedRow, Unmarked, FileRows
    <3>. HIDE DEF t, lines, meta
    <3>. QED BY <2>1, <3>2, <3>3, <3>4 DEF MetaSet
  <2>2. CASE who # "detail"
    <3>1. t = FlattenSeq([i \in DOMAIN file.hunks |-> GitHunk(file.hunks[i])])
      BY <2>2 DEF HunksRows, HunkRows
    <3>2. /\ lines \in Seq(PatchLine) /\ ToSet(lines) = GitSet(file)
          /\ GitFile(file) = <<HeaderLine(file)>> \o (lines \o t)
      <4>. HIDE DEF t
      <4>. QED BY <1>2, <2>2, <3>1, GitFileIs
    <3>3. meta = lines
      <4>1. lines = [i \in DOMAIN lines |-> lines[i]]
        <5>. HIDE DEF lines
        <5>1. lines \in [1 .. Len(lines) -> PatchLine]
          BY <3>2, LenProperties
        <5>. QED BY <5>1
      <4>2. meta = [i \in DOMAIN lines |-> lines[i]]
        BY <2>2 DEF MetaRows, PrintedRow
      <4>. QED BY <4>1, <4>2
    <3>4. HeaderRow(who, file) = HeaderLine(file) /\ FileRows(who, file) = GitFile(file)
      BY <2>2 DEF HeaderRow, PrintedRow, FileRows
    <3>. HIDE DEF t, lines, meta
    <3>. QED BY <2>2, <3>2, <3>3, <3>4 DEF MetaSet
  <2>. QED BY <2>1, <2>2
<1>4. /\ DOMAIN lines = 1 .. Len(lines) /\ Len(lines) \in Nat
      /\ \A i \in 1 .. Len(lines) : lines[i] \in PatchLine
  BY <1>3, LenProperties, ElementOfSeq
<1>5. meta = [i \in 1 .. Len(lines) |-> PrintedRow(who, lines[i], "none")]
  BY <1>4 DEF MetaRows
<1>6. \A i \in 1 .. Len(lines) : /\ PrintedRow(who, lines[i], "none") \in Row
                                 /\ LineOf(who, PrintedRow(who, lines[i], "none")) = lines[i]
  BY <1>4, RowsTyped
<1>7. meta \in Seq(Row) /\ Len(meta) = Len(lines) /\ DOMAIN meta = 1 .. Len(lines)
  <2>. HIDE DEF lines, meta
  <2>. QED BY <1>4, <1>5, <1>6
<1>8. \A i \in 1 .. Len(meta) : \E line \in MetaSet(who, file) :
        line \in PatchLine /\ meta[i] = PrintedRow(who, line, "none")
  <2>. HIDE DEF lines, meta
  <2>. QED BY <1>3, <1>4, <1>5, <1>7 DEF ToSet
<1>9. LinesOf(who, meta) = MetaSet(who, file)
  <2>. HIDE DEF lines, meta
  <2>1. LinesOf(who, meta) = {LineOf(who, meta[i]) : i \in 1 .. Len(lines)}
    BY <1>7 DEF LinesOf
  <2>2. \A i \in 1 .. Len(lines) : LineOf(who, meta[i]) = lines[i]
    BY <1>5, <1>6
  <2>3. LinesOf(who, meta) = {lines[i] : i \in 1 .. Len(lines)}
    BY <2>1, <2>2
  <2>. QED BY <1>3, <1>4, <2>3 DEF ToSet
<1>10. FileRows(who, file) \in Seq(Row)
  <2>. HIDE DEF t, meta
  <2>1. meta \o t \in Seq(Row)
    BY <1>2, <1>7, ConcatProperties
  <2>. QED BY <1>1, <1>3, <2>1, OneInFront
<1>. QED BY <1>1, <1>2, <1>3, <1>7, <1>8, <1>9, <1>10

LEMMA FilesRowsFrom ==
  ASSUME NEW who \in Printers, NEW printed \in Seq(PrintedFile), NEW n \in 0 .. Len(printed)
  PROVE  /\ FilesRows(who, From(printed, n)) \in Seq(Row)
         /\ n = Len(printed) => FilesRows(who, From(printed, n)) = <<>>
         /\ n < Len(printed) =>
              /\ FilesRows(who, From(printed, n + 1)) \in Seq(Row)
              /\ FilesRows(who, From(printed, n))
                   = <<HeaderRow(who, printed[n + 1])>>
                       \o (MetaRows(who, printed[n + 1])
                             \o (HunksRows(who, printed[n + 1].hunks)
                                   \o FilesRows(who, From(printed, n + 1))))
<1>. DEFINE piece == [file \in PrintedFile |-> FileRows(who, file)]
<1>1. Maps(piece, PrintedFile, Seq(Row))
  BY FileRowsAre DEF Maps
<1>2. ASSUME NEW s \in Seq(PrintedFile)
      PROVE  FilesRows(who, s) = FlattenSeq(Pieces(piece, s))
  <2>1. \A i \in DOMAIN s : s[i] \in PrintedFile
    BY LenProperties, ElementOfSeq
  <2>2. [i \in DOMAIN s |-> FileRows(who, s[i])] = Pieces(piece, s)
    BY <2>1 DEF Pieces
  <2>. QED BY <2>2 DEF FilesRows
<1>3. \A file \in PrintedFile : piece[file] = FileRows(who, file)
  OBVIOUS
<1>. HIDE DEF piece
<1>4. ASSUME NEW m \in 0 .. Len(printed)
      PROVE  /\ FilesRows(who, From(printed, m)) \in Seq(Row)
             /\ m = Len(printed) => FilesRows(who, From(printed, m)) = <<>>
             /\ GathersFrom(Row, piece, printed, m) /\ From(printed, m) \in Seq(PrintedFile)
  <2>1. GathersFrom(Row, piece, printed, m)
    BY <1>1, GatheredFrom
  <2>2. From(printed, m) \in Seq(PrintedFile)
    BY FromOf
  <2>. QED BY <1>2, <2>1, <2>2 DEF GathersFrom
<1>5. ASSUME n < Len(printed)
      PROVE  /\ FilesRows(who, From(printed, n + 1)) \in Seq(Row)
             /\ FilesRows(who, From(printed, n))
                  = <<HeaderRow(who, printed[n + 1])>>
                      \o (MetaRows(who, printed[n + 1])
                            \o (HunksRows(who, printed[n + 1].hunks)
                                  \o FilesRows(who, From(printed, n + 1))))
  <2>1. n + 1 \in 0 .. Len(printed) /\ n + 1 \in 1 .. Len(printed)
    BY <1>5, LenProperties
  <2>. DEFINE file == printed[n + 1]
              x == HeaderRow(who, file)
              y == MetaRows(who, file)
              z == HunksRows(who, file.hunks)
              t == FilesRows(who, From(printed, n + 1))
  <2>2. file \in PrintedFile
    BY <2>1, ElementOfSeq
  <2>3. /\ t \in Seq(Row)
        /\ From(printed, n + 1) \in Seq(PrintedFile) /\ From(printed, n) \in Seq(PrintedFile)
    BY <1>4, <2>1
  <2>4. FilesRows(who, From(printed, n)) = FileRows(who, file) \o t
    <3>1. FlattenSeq(Pieces(piece, From(printed, n)))
            = piece[file] \o FlattenSeq(Pieces(piece, From(printed, n + 1)))
      BY <1>4, <1>5 DEF GathersFrom
    <3>. QED BY <1>2, <1>3, <2>2, <2>3, <3>1
  <2>5. x \in Row /\ y \in Seq(Row) /\ z \in Seq(Row) /\ FileRows(who, file) = <<x>> \o (y \o z)
    <3>. HIDE DEF file
    <3>. QED BY <2>2, FileRowsAre
  <2>. HIDE DEF x, y, z, t
  <2>6. /\ <<x>> \in Seq(Row) /\ y \o z \in Seq(Row) /\ t \in Seq(Row)
        /\ y \in Seq(Row) /\ z \in Seq(Row)
    BY <2>3, <2>5, ConcatProperties
  <2>7. (<<x>> \o (y \o z)) \o t = <<x>> \o ((y \o z) \o t)
    BY ONLY <2>6, ConcatAssociative
  <2>8. (y \o z) \o t = y \o (z \o t)
    BY ONLY <2>6, ConcatAssociative
  <2>9. FilesRows(who, From(printed, n)) = <<x>> \o (y \o (z \o t))
    BY <2>4, <2>5, <2>7, <2>8
  <2>. QED BY <2>3, <2>9 DEF x, y, z, t
<1>. QED BY <1>4, <1>5

----------------------------------------------------------------------------
(* The rows in turn *)
StartsWith(left, row, rest) ==
  left # <<>> /\ Len(left) \in Nat \ {0} /\ left[1] = row /\ row \in Row /\ Tail(left) = rest

LEMMA Peeled ==
  ASSUME NEW row \in Row, NEW s \in Seq(Row), NEW t \in Seq(Row)
  PROVE  StartsWith((<<row>> \o s) \o t, row, s \o t)
<1>1. <<row>> \in Seq(Row) /\ s \o t \in Seq(Row)
  BY ConcatProperties
<1>2. (<<row>> \o s) \o t = <<row>> \o (s \o t)
  BY <1>1, ConcatAssociative
<1>3. /\ <<row>> \o (s \o t) # <<>> /\ (<<row>> \o (s \o t))[1] = row
      /\ Tail(<<row>> \o (s \o t)) = s \o t /\ Len(<<row>> \o (s \o t)) = Len(s \o t) + 1
      /\ Len(s \o t) \in Nat
  BY <1>1, OneInFront
<1>. HIDE <1>1
<1>. QED BY ONLY <1>2, <1>3, row \in Row DEF StartsWith

LEMMA PeeledOne ==
  ASSUME NEW row \in Row, NEW t \in Seq(Row)
  PROVE  StartsWith(<<row>> \o t, row, t)
<1>1. /\ <<row>> \o t # <<>> /\ (<<row>> \o t)[1] = row
      /\ Tail(<<row>> \o t) = t /\ Len(<<row>> \o t) = Len(t) + 1 /\ Len(t) \in Nat
  BY OneInFront
<1>2. Len(t) + 1 \in Nat \ {0}
  BY <1>1
<1>. QED BY ONLY <1>1, <1>2, row \in Row DEF StartsWith

HeaderLeftIs(who, patch, f, h, m, marker, left) ==
  LET file == patch[f] IN
  /\ left \in Seq(Row)
  /\ marker # <<>> => StartsWith(left, Bare("no newline"), HeaderLeft(who, patch, f, h, m, <<>>))
  /\ marker = <<>> /\ m < Len(MetaRows(who, file)) =>
       StartsWith(left, MetaRows(who, file)[m + 1], HeaderLeft(who, patch, f, h, m + 1, <<>>))
  /\ marker = <<>> /\ m = Len(MetaRows(who, file)) /\ h < Len(file.hunks) =>
       StartsWith(left, HunkRow(who, file.hunks[h + 1]), HunkLeft(who, patch, f, h + 1, 0, <<>>))
  /\ marker = <<>> /\ m = Len(MetaRows(who, file)) /\ h = Len(file.hunks) =>
       left = FilesRows(who, From(patch, f))

LEMMA AfterHunksTyped ==
  ASSUME NEW who \in Printers, NEW patch \in Seq(PrintedFile), NEW f \in DOMAIN patch,
         NEW h \in 0 .. Len(patch[f].hunks)
  PROVE  /\ AfterHunks(who, patch, f, h) \in Seq(Row)
         /\ HunksRows(who, From(patch[f].hunks, h)) \in Seq(Row)
         /\ FilesRows(who, From(patch, f)) \in Seq(Row)
         /\ patch[f] \in PrintedFile /\ patch[f].hunks \in Seq(PrintedHunk)
         /\ f \in 1 .. Len(patch) /\ Len(patch) \in Nat
<1>1. patch[f] \in PrintedFile /\ f \in 1 .. Len(patch) /\ Len(patch) \in Nat
  BY LenProperties, ElementOfSeq
<1>2. patch[f].hunks \in Seq(PrintedHunk) /\ f \in 0 .. Len(patch)
  BY <1>1, FileTyped
<1>3. HunksRows(who, From(patch[f].hunks, h)) \in Seq(Row)
  BY <1>2, HunksRowsFrom
<1>4. FilesRows(who, From(patch, f)) \in Seq(Row)
  BY <1>2, FilesRowsFrom
<1>. QED BY <1>1, <1>2, <1>3, <1>4, ConcatProperties DEF AfterHunks

LEMMA HeaderLeftFirst ==
  ASSUME NEW who \in Printers, NEW patch \in Seq(PrintedFile), NEW f \in DOMAIN patch,
         NEW h \in 0 .. Len(patch[f].hunks), NEW m \in 0 .. Len(MetaRows(who, patch[f])),
         NEW marker \in Markers(who)
  PROVE  HeaderLeftIs(who, patch, f, h, m, marker, HeaderLeft(who, patch, f, h, m, marker))
<1>. DEFINE file == patch[f]
            meta == MetaRows(who, file)
            after == AfterHunks(who, patch, f, h)
            left == HeaderLeft(who, patch, f, h, m, marker)
<1>1. /\ after \in Seq(Row) /\ file \in PrintedFile /\ file.hunks \in Seq(PrintedHunk)
      /\ HunksRows(who, From(file.hunks, h)) \in Seq(Row) /\ FilesRows(who, From(patch, f)) \in Seq(Row)
  BY AfterHunksTyped
<1>2. meta \in Seq(Row)
  BY <1>1, FileRowsAre
<1>3. From(meta, m) \in Seq(Row) /\ Len(meta) \in Nat
  BY <1>2, FromOf
<1>4. From(meta, m) \o after \in Seq(Row)
  <2>. HIDE DEF meta, after
  <2>. QED BY <1>1, <1>3, ConcatProperties
<1>5. HeaderLeft(who, patch, f, h, m, <<>>) = From(meta, m) \o after
  <2>. DEFINE s == From(meta, m) \o after
  <2>1. HeaderLeft(who, patch, f, h, m, <<>>) = <<>> \o s
    BY DEF HeaderLeft
  <2>2. s \in Seq(Row)
    BY <1>4
  <2>. HIDE DEF s
  <2>3. <<>> \o s = s
    BY <2>2, ConcatEmptySeq
  <2>. QED BY <2>1, <2>3 DEF s
<1>6. left \in Seq(Row)
  <2>1. marker \in Seq(Row)
    BY MarkersAre
  <2>. HIDE DEF meta, after
  <2>2. marker \o (From(meta, m) \o after) \in Seq(Row)
    BY <1>4, <2>1, ConcatProperties
  <2>. QED BY <2>2 DEF HeaderLeft, meta, after
<1>7. ASSUME marker # <<>>
      PROVE  StartsWith(left, Bare("no newline"), HeaderLeft(who, patch, f, h, m, <<>>))
  <2>. DEFINE s == From(meta, m) \o after
  <2>1. marker = <<Bare("no newline")>> /\ Bare("no newline") \in Row
    BY <1>7, MarkersAre
  <2>2. left = <<Bare("no newline")>> \o s /\ s \in Seq(Row)
    BY <1>4, <2>1 DEF HeaderLeft
  <2>. HIDE DEF s, left
  <2>3. StartsWith(<<Bare("no newline")>> \o s, Bare("no newline"), s)
    BY <2>1, <2>2, PeeledOne
  <2>. QED BY <1>5, <2>2, <2>3 DEF s
<1>8. ASSUME marker = <<>>, m < Len(meta)
      PROVE  StartsWith(left, meta[m + 1], HeaderLeft(who, patch, f, h, m + 1, <<>>))
  <2>1. /\ m + 1 \in 0 .. Len(meta) /\ meta[m + 1] \in Row /\ From(meta, m + 1) \in Seq(Row)
        /\ From(meta, m) = <<meta[m + 1]>> \o From(meta, m + 1)
    <3>. HIDE DEF meta
    <3>1. /\ meta[m + 1] \in Row /\ From(meta, m + 1) \in Seq(Row)
          /\ From(meta, m) = <<meta[m + 1]>> \o From(meta, m + 1)
      BY <1>2, <1>8, FromNext
    <3>2. m + 1 \in 0 .. Len(meta)
      BY <1>3, <1>8
    <3>. QED BY <3>1, <3>2
  <2>2. HeaderLeft(who, patch, f, h, m + 1, <<>>) = From(meta, m + 1) \o after
    <3>. DEFINE s == From(meta, m + 1) \o after
    <3>1. HeaderLeft(who, patch, f, h, m + 1, <<>>) = <<>> \o s
      BY DEF HeaderLeft
    <3>2. s \in Seq(Row)
      <4>. HIDE DEF meta, after
      <4>. QED BY <1>1, <2>1, ConcatProperties
    <3>. HIDE DEF s
    <3>3. <<>> \o s = s
      BY <3>2, ConcatEmptySeq
    <3>. QED BY <3>1, <3>3 DEF s
  <2>3. left = From(meta, m) \o after
    BY <1>5, <1>8
  <2>. HIDE DEF meta, after, left
  <2>4. StartsWith((<<meta[m + 1]>> \o From(meta, m + 1)) \o after, meta[m + 1],
                   From(meta, m + 1) \o after)
    BY <1>1, <2>1, Peeled
  <2>. QED BY <2>1, <2>2, <2>3, <2>4
<1>9. ASSUME marker = <<>>, m = Len(meta) PROVE left = after
  <2>1. From(meta, m) = <<>>
    <3>1. \A s \in Seq(Row) : From(s, Len(s)) = <<>>
      <4>. TAKE s \in Seq(Row)
      <4>1. Len(s) \in 0 .. Len(s)
        BY LenProperties
      <4>. QED BY ONLY <4>1, s \in Seq(Row), FromNext
    <3>. HIDE DEF meta
    <3>. QED BY <1>2, <1>9, <3>1
  <2>2. left = <<>> \o after
    BY <1>5, <1>9, <2>1
  <2>. HIDE DEF after, left
  <2>. QED BY <1>1, <2>2, ConcatEmptySeq
<1>10. ASSUME marker = <<>>, m = Len(meta), h < Len(file.hunks)
       PROVE  StartsWith(left, HunkRow(who, file.hunks[h + 1]), HunkLeft(who, patch, f, h + 1, 0, <<>>))
  <2>. DEFINE hunk == file.hunks[h + 1]
              row == HunkRow(who, hunk)
              lines == LineRows(who, hunk.body)
              hunks == HunksRows(who, From(file.hunks, h + 1))
              t == FilesRows(who, From(patch, f))
  <2>1. /\ lines \in Seq(Row) /\ hunks \in Seq(Row)
        /\ HunksRows(who, From(file.hunks, h)) = <<row>> \o (lines \o hunks)
    <3>1. h \in 0 .. Len(file.hunks)
      OBVIOUS
    <3>. HIDE DEF file
    <3>. QED BY <1>1, <1>10, <3>1, HunksRowsFrom
  <2>2. h + 1 \in 1 .. Len(file.hunks)
    BY <1>1, <1>10, LenProperties
  <2>3. hunk \in PrintedHunk
    BY <1>1, <2>2, ElementOfSeq
  <2>4. row \in Row
    BY <2>3, HunkRowsAre
  <2>5. hunk.body \in Seq(PrintedLine)
    BY <2>3 DEF PrintedHunk, PrintedLine
  <2>6. From(hunk.body, 0) = hunk.body
    <3>. DEFINE b == hunk.body
    <3>1. b \in Seq(PrintedLine) /\ 0 \in 0 .. Len(b)
      BY <2>5, LenProperties
    <3>. HIDE DEF b
    <3>2. From(b, 0) = b
      BY <3>1, FromNext
    <3>. QED BY <3>2 DEF b
  <2>7. HunkLeft(who, patch, f, h + 1, 0, <<>>) = <<>> \o (lines \o (hunks \o t))
    BY <2>6 DEF HunkLeft, AfterHunks
  <2>8. left = (<<row>> \o (lines \o hunks)) \o t
    BY <1>9, <1>10, <2>1 DEF AfterHunks
  <2>9. t \in Seq(Row)
    BY <1>1
  <2>. HIDE DEF row, lines, hunks, t, left
  <2>10. /\ lines \o hunks \in Seq(Row) /\ hunks \o t \in Seq(Row)
    BY ONLY <2>1, <2>9, ConcatProperties
  <2>11. StartsWith((<<row>> \o (lines \o hunks)) \o t, row, (lines \o hunks) \o t)
    BY <2>4, <2>9, <2>10, Peeled
  <2>12. (lines \o hunks) \o t = lines \o (hunks \o t)
    <3>1. lines \in Seq(Row) /\ hunks \in Seq(Row)
      BY <2>1
    <3>. QED BY ONLY <3>1, <2>9, ConcatAssociative
  <2>13. lines \o (hunks \o t) \in Seq(Row)
    <3>1. lines \in Seq(Row)
      BY <2>1
    <3>. QED BY ONLY <3>1, <2>10, ConcatProperties
  <2>14. <<>> \o (lines \o (hunks \o t)) = lines \o (hunks \o t)
    BY ONLY <2>13, ConcatEmptySeq
  <2>. QED BY <2>7, <2>8, <2>11, <2>12, <2>14 DEF row
<1>11. ASSUME marker = <<>>, m = Len(meta), h = Len(file.hunks)
       PROVE  left = FilesRows(who, From(patch, f))
  <2>1. HunksRows(who, From(file.hunks, h)) = <<>>
    <3>1. h \in 0 .. Len(file.hunks)
      OBVIOUS
    <3>. HIDE DEF file
    <3>. QED BY <1>1, <1>11, <3>1, HunksRowsFrom
  <2>2. left = <<>> \o FilesRows(who, From(patch, f))
    BY <1>9, <1>11, <2>1 DEF AfterHunks
  <2>. HIDE DEF left
  <2>. QED BY <1>1, <2>2, ConcatEmptySeq
<1>. HIDE DEF left, meta
<1>12. HeaderLeftIs(who, patch, f, h, m, marker, left)
  BY <1>6, <1>7, <1>8, <1>10, <1>11 DEF HeaderLeftIs, meta
<1>. QED BY <1>12 DEF left

HunkLeftIs(who, patch, f, h, n, marker, left) ==
  LET lines == patch[f].hunks[h].body IN
  /\ left \in Seq(Row)
  /\ marker # <<>> => StartsWith(left, Bare("no newline"), HunkLeft(who, patch, f, h, n, <<>>))
  /\ marker = <<>> /\ n < Len(lines) =>
       StartsWith(left, LineRow(who, lines[n + 1]),
                  HunkLeft(who, patch, f, h, n + 1, LineMarker(who, lines[n + 1])))

LEMMA BodyTyped ==
  ASSUME NEW hunks \in Seq(PrintedHunk), NEW h \in DOMAIN hunks
  PROVE  /\ hunks[h] \in PrintedHunk /\ hunks[h].body \in Seq(PrintedLine)
         /\ hunks[h].old \in Nat /\ hunks[h].new \in Nat /\ Len(hunks[h].body) \in Nat \ {0}
         /\ h \in 1 .. Len(hunks) /\ h \in 0 .. Len(hunks) /\ Len(hunks) \in Nat /\ h - 1 \in 0 .. Len(hunks)
<1>1. h \in 1 .. Len(hunks) /\ Len(hunks) \in Nat /\ hunks[h] \in PrintedHunk
  BY LenProperties, ElementOfSeq
<1>2. /\ hunks[h].body \in Seq(PrintedLine) /\ hunks[h].body # <<>>
      /\ hunks[h].old \in Nat /\ hunks[h].new \in Nat
  BY <1>1 DEF PrintedHunk, PrintedLine
<1>3. Len(hunks[h].body) \in Nat \ {0}
  BY <1>2, EmptySeq, LenProperties
<1>. QED BY <1>1, <1>2, <1>3

LEMMA HunkLeftFirst ==
  ASSUME NEW who \in Printers, NEW patch \in Seq(PrintedFile), NEW f \in DOMAIN patch,
         NEW h \in DOMAIN patch[f].hunks, NEW n \in 0 .. Len(patch[f].hunks[h].body),
         NEW marker \in Markers(who)
  PROVE  HunkLeftIs(who, patch, f, h, n, marker, HunkLeft(who, patch, f, h, n, marker))
<1>. DEFINE lines == patch[f].hunks[h].body
            rows == LineRows(who, From(lines, n))
            after == AfterHunks(who, patch, f, h)
            left == HunkLeft(who, patch, f, h, n, marker)
<1>1. patch[f].hunks \in Seq(PrintedHunk)
  <2>1. patch[f] \in PrintedFile
    BY LenProperties, ElementOfSeq
  <2>. QED BY <2>1, FileTyped
<1>2. lines \in Seq(PrintedLine) /\ Len(lines) \in Nat /\ h \in 0 .. Len(patch[f].hunks)
  BY <1>1, BodyTyped
<1>3. after \in Seq(Row)
  BY <1>2, AfterHunksTyped
<1>4. /\ rows \in Seq(Row)
      /\ n < Len(lines) =>
           /\ LineRow(who, lines[n + 1]) \in Row
           /\ LineMarker(who, lines[n + 1]) \in Markers(who)
           /\ LineRows(who, From(lines, n + 1)) \in Seq(Row)
           /\ rows = <<LineRow(who, lines[n + 1])>>
                       \o (LineMarker(who, lines[n + 1]) \o LineRows(who, From(lines, n + 1)))
  <2>1. n \in 0 .. Len(lines)
    OBVIOUS
  <2>. HIDE DEF lines
  <2>. QED BY <1>2, <2>1, LineRowsFrom
<1>5. HunkLeft(who, patch, f, h, n, <<>>) = rows \o after /\ rows \o after \in Seq(Row)
  <2>1. HunkLeft(who, patch, f, h, n, <<>>) = <<>> \o (rows \o after)
    BY DEF HunkLeft
  <2>. HIDE DEF rows, after
  <2>2. rows \o after \in Seq(Row)
    BY <1>3, <1>4, ConcatProperties
  <2>3. <<>> \o (rows \o after) = rows \o after
    BY <2>2, ConcatEmptySeq
  <2>. QED BY <2>1, <2>2, <2>3
<1>6. left \in Seq(Row)
  <2>1. marker \in Seq(Row)
    BY MarkersAre
  <2>2. left = marker \o (rows \o after)
    BY DEF HunkLeft
  <2>. HIDE DEF rows, after, left
  <2>. QED BY <1>5, <2>1, <2>2, ConcatProperties
<1>7. ASSUME marker # <<>>
      PROVE  StartsWith(left, Bare("no newline"), HunkLeft(who, patch, f, h, n, <<>>))
  <2>1. marker = <<Bare("no newline")>> /\ Bare("no newline") \in Row
    BY <1>7, MarkersAre
  <2>2. left = <<Bare("no newline")>> \o (rows \o after)
    BY <2>1 DEF HunkLeft
  <2>. DEFINE s == rows \o after
  <2>3. s \in Seq(Row)
    BY <1>5
  <2>. HIDE DEF s
  <2>4. StartsWith(<<Bare("no newline")>> \o s, Bare("no newline"), s)
    BY <2>1, <2>3, PeeledOne
  <2>. HIDE DEF left, rows, after
  <2>. QED BY <1>5, <2>2, <2>4 DEF s
<1>8. ASSUME marker = <<>>, n < Len(lines)
      PROVE  StartsWith(left, LineRow(who, lines[n + 1]),
                        HunkLeft(who, patch, f, h, n + 1, LineMarker(who, lines[n + 1])))
  <2>. DEFINE row == LineRow(who, lines[n + 1])
              next == LineMarker(who, lines[n + 1])
              rest == LineRows(who, From(lines, n + 1))
  <2>1. row \in Row /\ next \in Markers(who) /\ rest \in Seq(Row) /\ rows = <<row>> \o (next \o rest)
    BY <1>4, <1>8
  <2>2. next \in Seq(Row)
    BY <2>1, MarkersAre
  <2>3. left = rows \o after
    BY <1>5, <1>8
  <2>4. HunkLeft(who, patch, f, h, n + 1, next) = next \o (rest \o after)
    BY DEF HunkLeft
  <2>. HIDE DEF row, next, rest, rows, after, left
  <2>5. next \o rest \in Seq(Row) /\ <<row>> \in Seq(Row)
    BY <2>1, <2>2, ConcatProperties
  <2>6. StartsWith((<<row>> \o (next \o rest)) \o after, row, (next \o rest) \o after)
    BY <1>3, <2>1, <2>5, Peeled
  <2>7. (next \o rest) \o after = next \o (rest \o after)
    <3>1. next \in Seq(Row) /\ rest \in Seq(Row) /\ after \in Seq(Row)
      BY <1>3, <2>1, <2>2
    <3>2. Joins(Row, next, rest, after)
      BY <3>1, OneMore
    <3>. QED BY <3>2 DEF Joins
  <2>8. StartsWith(left, row, HunkLeft(who, patch, f, h, n + 1, next))
    BY <2>1, <2>3, <2>4, <2>6, <2>7
  <2>. QED BY <2>8 DEF row, next
<1>. HIDE DEF left
<1>9. HunkLeftIs(who, patch, f, h, n, marker, left)
  BY <1>6, <1>7, <1>8 DEF HunkLeftIs
<1>. QED BY <1>9 DEF left

(* A hunk that is read leaves what its file has left. *)
LEMMA HunkLeftLast ==
  ASSUME NEW who \in Printers, NEW patch \in Seq(PrintedFile), NEW f \in DOMAIN patch,
         NEW h \in DOMAIN patch[f].hunks, NEW marker \in Markers(who)
  PROVE  HunkLeft(who, patch, f, h, Len(patch[f].hunks[h].body), marker)
           = HeaderLeft(who, patch, f, h, Len(MetaRows(who, patch[f])), marker)
<1>. DEFINE lines == patch[f].hunks[h].body
            meta == MetaRows(who, patch[f])
<1>1. patch[f] \in PrintedFile
  BY LenProperties, ElementOfSeq
<1>2. lines \in Seq(PrintedLine) /\ Len(lines) \in Nat
  BY <1>1, FileTyped, BodyTyped
<1>3. meta \in Seq(Row) /\ Len(meta) \in Nat
  BY <1>1, FileRowsAre, LenProperties
<1>4. LineRows(who, From(lines, Len(lines))) = <<>>
  <2>1. Len(lines) \in 0 .. Len(lines)
    BY <1>2
  <2>. HIDE DEF lines
  <2>. QED BY <1>2, <2>1, LineRowsFrom
<1>5. From(meta, Len(meta)) = <<>>
  <2>1. Len(meta) \in 0 .. Len(meta)
    BY <1>3
  <2>. HIDE DEF meta
  <2>. QED BY <1>3, <2>1, FromNext
<1>. QED BY <1>4, <1>5 DEF HunkLeft, HeaderLeft

(* Between files. *)
FilesLeftIs(who, patch, f, left) ==
  /\ left \in Seq(Row)
  /\ f = Len(patch) => left = <<>>
  /\ f < Len(patch) => StartsWith(left, HeaderRow(who, patch[f + 1]),
                                  HeaderLeft(who, patch, f + 1, 0, 0, <<>>))

LEMMA FilesLeftFirst ==
  ASSUME NEW who \in Printers, NEW patch \in Seq(PrintedFile), NEW f \in 0 .. Len(patch)
  PROVE  FilesLeftIs(who, patch, f, FilesRows(who, From(patch, f)))
<1>. DEFINE left == FilesRows(who, From(patch, f))
<1>1. left \in Seq(Row) /\ (f = Len(patch) => left = <<>>)
  BY FilesRowsFrom
<1>2. ASSUME f < Len(patch)
      PROVE  StartsWith(left, HeaderRow(who, patch[f + 1]), HeaderLeft(who, patch, f + 1, 0, 0, <<>>))
  <2>. DEFINE file == patch[f + 1]
              row == HeaderRow(who, file)
              meta == MetaRows(who, file)
              hunks == HunksRows(who, file.hunks)
              rest == FilesRows(who, From(patch, f + 1))
              s == meta \o (hunks \o rest)
  <2>1. rest \in Seq(Row) /\ left = <<row>> \o s
    BY <1>2, FilesRowsFrom
  <2>2. file \in PrintedFile
    <3>1. f + 1 \in 1 .. Len(patch)
      BY <1>2, LenProperties
    <3>. QED BY <3>1, ElementOfSeq
  <2>3. row \in Row /\ meta \in Seq(Row) /\ hunks \in Seq(Row)
    <3>. HIDE DEF file
    <3>. QED BY <2>2, FileRowsAre
  <2>4. s \in Seq(Row)
    <3>. HIDE DEF meta, hunks, rest
    <3>1. hunks \o rest \in Seq(Row)
      BY <2>1, <2>3, ConcatProperties
    <3>2. meta \in Seq(Row)
      BY <2>3
    <3>. QED BY ONLY <3>1, <3>2, ConcatProperties DEF s
  <2>5. From(meta, 0) = meta
    <3>1. 0 \in 0 .. Len(meta)
      BY <2>3, LenProperties
    <3>. HIDE DEF meta
    <3>. QED BY <2>3, <3>1, FromNext
  <2>6. From(file.hunks, 0) = file.hunks
    <3>. DEFINE b == file.hunks
    <3>1. b \in Seq(PrintedHunk)
      BY <2>2, FileTyped
    <3>. HIDE DEF b
    <3>2. 0 \in 0 .. Len(b)
      BY <3>1, LenProperties
    <3>3. From(b, 0) = b
      BY <3>1, <3>2, FromNext
    <3>. QED BY <3>3 DEF b
  <2>7. HeaderLeft(who, patch, f + 1, 0, 0, <<>>) = <<>> \o s
    BY <2>5, <2>6 DEF HeaderLeft, AfterHunks
  <2>. HIDE DEF row, s, left
  <2>8. <<>> \o s = s
    BY <2>4, ConcatEmptySeq
  <2>9. StartsWith(<<row>> \o s, row, s)
    BY <2>3, <2>4, PeeledOne
  <2>. QED BY <2>1, <2>7, <2>8, <2>9 DEF row
<1>. QED BY <1>1, <1>2 DEF FilesLeftIs

----------------------------------------------------------------------------
(* The header of a file *)
LEMMA LineParts ==
  /\ \A k : Bare(k).k = k
  /\ \A v : SimilarityLine(v).k = "similarity" /\ SimilarityLine(v).value = v
  /\ \A k, end, path : /\ MoveLine(k, end, path).k = k /\ MoveLine(k, end, path).end = end
                       /\ MoveLine(k, end, path).path = path
  /\ \A side, path : /\ SideLine(side, path).k = "side" /\ SideLine(side, path).side = side
                     /\ SideLine(side, path).path = path
                     /\ GitSide(side, path).k = "side" /\ GitSide(side, path).side = side
                     /\ path \notin Spaced => GitSide(side, path).path = path
<1>1. \A k : Bare(k).k = k
  BY DEF Bare
<1>2. \A v : SimilarityLine(v).k = "similarity" /\ SimilarityLine(v).value = v
  BY DEF SimilarityLine
<1>3. \A k, end, path : /\ MoveLine(k, end, path).k = k /\ MoveLine(k, end, path).end = end
                        /\ MoveLine(k, end, path).path = path
  BY DEF MoveLine
<1>4. \A side, path : /\ SideLine(side, path).k = "side" /\ SideLine(side, path).side = side
                      /\ SideLine(side, path).path = path
  BY DEF SideLine
<1>5. \A side, path : /\ GitSide(side, path).k = "side" /\ GitSide(side, path).side = side
                      /\ path \notin Spaced => GitSide(side, path).path = path
  BY <1>4 DEF GitSide
<1>. QED BY <1>1, <1>2, <1>3, <1>4, <1>5

(* The lines of a header, by what they say. *)
IsSide(file, side, line) ==
  LET path == IF side = "old" THEN file.old ELSE file.new IN
  /\ line.k = "side" /\ line.side = side
  /\ path \notin Spaced => line.path = path

MetaSaysIs(who, file, line) ==
  \/ line.k \in {"mode", "index"}
  \/ line.k = "new file" /\ who # "detail" /\ file.status = "added"
  \/ line.k = "deleted file" /\ who # "detail" /\ file.status = "deleted"
  \/ line.k = "binary" /\ file.binary
  \/ line.k = "similarity" /\ line.value = file.similarity /\ file.status \in Moved
  \/ line.k = file.status /\ file.status \in Moved /\ line.end = "from" /\ line.path = file.old
  \/ line.k = file.status /\ file.status \in Moved /\ line.end = "to" /\ line.path = file.new
  \/ file.hunks # <<>> /\ (IsSide(file, "old", line) \/ IsSide(file, "new", line))

LEMMA MetaSays ==
  ASSUME NEW who \in Printers, NEW file \in PrintedFile
  PROVE  /\ \A line \in MetaSet(who, file) : MetaSaysIs(who, file, line) /\ line.k \in HeaderKind
         /\ who # "detail" /\ file.status = "added" => Awaits(MetaSet(who, file), "new file")
         /\ who # "detail" /\ file.status = "deleted" => Awaits(MetaSet(who, file), "deleted file")
         /\ file.binary => Awaits(MetaSet(who, file), "binary")
         /\ file.status \in Moved => /\ Awaits(MetaSet(who, file), file.status)
                                     /\ Awaits(MetaSet(who, file), "similarity")
         /\ file.hunks # <<>> => AwaitsSide(MetaSet(who, file), "old") /\ AwaitsSide(MetaSet(who, file), "new")
<1>. DEFINE ahead == MetaSet(who, file)
<1>1. file.binary => file.hunks = <<>>
  BY FileTyped
<1>2. ASSUME NEW line \in MoveSet(file)
      PROVE  MetaSaysIs(who, file, line) /\ line.k \in HeaderKind
  <2>1. file.status \in Moved
    BY <1>2 DEF MoveSet, Set
  <2>2. \/ line = SimilarityLine(file.similarity)
        \/ line = MoveLine(file.status, "from", file.old)
        \/ line = MoveLine(file.status, "to", file.new)
    BY <1>2 DEF MoveSet, Set
  <2>3. \/ line.k = "similarity" /\ line.value = file.similarity
        \/ line.k = file.status /\ line.end = "from" /\ line.path = file.old
        \/ line.k = file.status /\ line.end = "to" /\ line.path = file.new
    BY <2>2, LineParts
  <2>4. line.k \in HeaderKind
    BY <2>1, <2>3 DEF HeaderKind, Moved
  <2>. QED BY <2>1, <2>3, <2>4 DEF MetaSaysIs
<1>3. ASSUME NEW line, file.hunks # <<>>,
             \/ line = SideLine("old", file.old) \/ line = SideLine("new", file.new)
             \/ line = GitSide("old", file.old) \/ line = GitSide("new", file.new)
      PROVE  MetaSaysIs(who, file, line) /\ line.k \in HeaderKind
  <2>1. line.k = "side" /\ (IsSide(file, "old", line) \/ IsSide(file, "new", line))
    BY <1>3, LineParts DEF IsSide
  <2>. QED BY <1>3, <2>1 DEF MetaSaysIs, HeaderKind
<1>. DEFINE Plain(line) ==
              \/ line = Bare("binary") /\ file.binary
              \/ line = Bare("mode") \/ line = Bare("index")
              \/ line = Bare("new file") /\ who # "detail" /\ file.status = "added"
              \/ line = Bare("deleted file") /\ who # "detail" /\ file.status = "deleted"
<1>10. ASSUME NEW line, Plain(line)
       PROVE  MetaSaysIs(who, file, line) /\ line.k \in HeaderKind
  <2>1. \/ line.k = "binary" /\ file.binary
        \/ line.k = "mode" \/ line.k = "index"
        \/ line.k = "new file" /\ who # "detail" /\ file.status = "added"
        \/ line.k = "deleted file" /\ who # "detail" /\ file.status = "deleted"
    BY <1>10, LineParts
  <2>. QED BY <2>1 DEF MetaSaysIs, HeaderKind
<1>4. ASSUME NEW line \in ahead
      PROVE  MetaSaysIs(who, file, line) /\ line.k \in HeaderKind
  <2>1. CASE who = "detail"
    <3>1. \/ line \in MoveSet(file)
          \/ line \in IF file.binary THEN {Bare("binary")}
                      ELSE Set(file.hunks # <<>>, {SideLine("old", file.old), SideLine("new", file.new)})
      BY <1>4, <2>1 DEF MetaSet, PanelSet
    <3>2. \/ line \in MoveSet(file) \/ Plain(line)
          \/ /\ file.hunks # <<>>
             /\ line = SideLine("old", file.old) \/ line = SideLine("new", file.new)
      <4>1. ASSUME line \in Set(file.hunks # <<>>, {SideLine("old", file.old), SideLine("new", file.new)})
            PROVE  file.hunks # <<>> /\ (line = SideLine("old", file.old) \/ line = SideLine("new", file.new))
        BY <4>1 DEF Set
      <4>. QED BY <3>1, <4>1
    <3>. QED BY <1>2, <1>3, <1>10, <3>2
  <2>2. CASE who # "detail"
    <3>1. \/ line \in MoveSet(file)
          \/ line \in Set(file.mode, {Bare("mode")})
          \/ line \in Set(file.status = "added", {Bare("new file")})
          \/ line \in Set(file.status = "deleted", {Bare("deleted file")})
          \/ line \in Set(file.binary \/ file.hunks # <<>> \/ file.status \in {"added", "deleted"},
                          {Bare("index")})
          \/ line \in Set(file.binary, {Bare("binary")})
          \/ line \in Set(file.hunks # <<>>, {GitSide("old", file.old), GitSide("new", file.new)})
      BY <1>4, <2>2 DEF MetaSet, GitSet
    <3>2. \/ line \in MoveSet(file) \/ Plain(line)
          \/ /\ file.hunks # <<>>
             /\ line = GitSide("old", file.old) \/ line = GitSide("new", file.new)
      <4>1. line \in Set(file.mode, {Bare("mode")}) => line = Bare("mode")
        BY DEF Set
      <4>2. line \in Set(file.status = "added", {Bare("new file")})
              => line = Bare("new file") /\ file.status = "added"
        BY DEF Set
      <4>3. line \in Set(file.status = "deleted", {Bare("deleted file")})
              => line = Bare("deleted file") /\ file.status = "deleted"
        BY DEF Set
      <4>4. line \in Set(file.binary \/ file.hunks # <<>> \/ file.status \in {"added", "deleted"},
                         {Bare("index")}) => line = Bare("index")
        BY DEF Set
      <4>5. line \in Set(file.binary, {Bare("binary")}) => line = Bare("binary") /\ file.binary
        BY DEF Set
      <4>6. ASSUME line \in Set(file.hunks # <<>>, {GitSide("old", file.old), GitSide("new", file.new)})
            PROVE  file.hunks # <<>> /\ (line = GitSide("old", file.old) \/ line = GitSide("new", file.new))
        BY <4>6 DEF Set
      <4>. QED BY <2>2, <3>1, <4>1, <4>2, <4>3, <4>4, <4>5, <4>6
    <3>. QED BY <1>2, <1>3, <1>10, <3>2
  <2>. QED BY <2>1, <2>2
<1>5. ASSUME who # "detail", file.status = "added" PROVE Awaits(ahead, "new file")
  <2>1. Bare("new file") \in ahead
    BY <1>5 DEF MetaSet, GitSet, Set
  <2>. QED BY <2>1, LineParts DEF Awaits
<1>6. ASSUME who # "detail", file.status = "deleted" PROVE Awaits(ahead, "deleted file")
  <2>1. Bare("deleted file") \in ahead
    BY <1>6 DEF MetaSet, GitSet, Set
  <2>. QED BY <2>1, LineParts DEF Awaits
<1>7. ASSUME file.binary PROVE Awaits(ahead, "binary")
  <2>1. Bare("binary") \in ahead
    BY <1>7 DEF MetaSet, GitSet, PanelSet, Set
  <2>. QED BY <2>1, LineParts DEF Awaits
<1>8. ASSUME file.status \in Moved
      PROVE  Awaits(ahead, file.status) /\ Awaits(ahead, "similarity")
  <2>1. MoveSet(file) \subseteq ahead
    BY DEF MetaSet, GitSet, PanelSet
  <2>2. SimilarityLine(file.similarity) \in MoveSet(file)
        /\ MoveLine(file.status, "from", file.old) \in MoveSet(file)
    BY <1>8 DEF MoveSet, Set
  <2>. QED BY <2>1, <2>2, LineParts DEF Awaits
<1>9. ASSUME file.hunks # <<>> PROVE AwaitsSide(ahead, "old") /\ AwaitsSide(ahead, "new")
  <2>1. \/ SideLine("old", file.old) \in ahead /\ SideLine("new", file.new) \in ahead
        \/ GitSide("old", file.old) \in ahead /\ GitSide("new", file.new) \in ahead
    BY <1>1, <1>9 DEF MetaSet, GitSet, PanelSet, Set
  <2>. QED BY <2>1, LineParts DEF AwaitsSide, NamesSide
<1>. QED BY <1>4, <1>5, <1>6, <1>7, <1>8, <1>9

LEMMA HeadStarts ==
  ASSUME NEW who \in Printers, NEW file \in PrintedFile
  PROVE  /\ HeadKept(who, file, NewHeader(HeaderLine(file)), MetaSet(who, file))
         /\ NewHeader(HeaderLine(file)).hunks = <<>>
<1>. DEFINE ahead == MetaSet(who, file)
            x == NewHeader(HeaderLine(file))
            line == HeaderLine(file)
<1>1. /\ IsHeader(x) /\ x.hunks = <<>> /\ x.added = FALSE /\ x.deleted = FALSE /\ x.binary = FALSE
      /\ x.moved = "no" /\ x.similarity = 100
      /\ x.old = HeaderPaths(line).old /\ x.new = HeaderPaths(line).new
  BY DEF NewHeader, IsHeader
<1>2. \A l \in ahead : MetaSaysIs(who, file, l)
  BY MetaSays
<1>3. file.status \in {"modified", "added", "deleted"} \cup Moved
  BY FileTyped
<1>4. Awaits(ahead, "new file") <=> who # "detail" /\ file.status = "added"
  <2>1. ASSUME NEW l \in ahead, l.k = "new file" PROVE who # "detail" /\ file.status = "added"
    BY <1>2, <2>1 DEF MetaSaysIs, Moved, IsSide
  <2>. QED BY <2>1, MetaSays DEF Awaits
<1>5. Awaits(ahead, "deleted file") <=> who # "detail" /\ file.status = "deleted"
  <2>1. ASSUME NEW l \in ahead, l.k = "deleted file" PROVE who # "detail" /\ file.status = "deleted"
    BY <1>2, <2>1 DEF MetaSaysIs, Moved, IsSide
  <2>. QED BY <2>1, MetaSays DEF Awaits
<1>6. Awaits(ahead, "binary") <=> file.binary
  <2>1. ASSUME NEW l \in ahead, l.k = "binary" PROVE file.binary
    BY <1>2, <2>1 DEF MetaSaysIs, Moved, IsSide
  <2>. QED BY <2>1, MetaSays DEF Awaits
<1>7. \A l \in ahead : /\ l.k \in Moved => l.k = file.status
                       /\ l.k = "similarity" => l.value = file.similarity
  <2>. TAKE l \in ahead
  <2>1. MetaSaysIs(who, file, l)
    BY <1>2
  <2>. QED BY <2>1 DEF MetaSaysIs, Moved, IsSide
<1>8. ASSUME PathsAreRead(who, file)
      PROVE  /\ NamesPath(ahead, "old", file.old) /\ NamesPath(ahead, "new", file.new)
             /\ \/ x.old = file.old \/ AwaitsSide(ahead, "old")
                \/ who # "detail" /\ file.status = "added"
             /\ \/ x.new = file.new \/ AwaitsSide(ahead, "new")
                \/ who # "detail" /\ file.status = "deleted"
  <2>1. file.old \notin Spaced /\ file.new \notin Spaced /\ (who # "detail" \/ file.hunks # <<>>)
    BY <1>8 DEF PathsAreRead
  <2>2. NamesPath(ahead, "old", file.old)
    <3>1. ASSUME NEW l \in ahead, NamesSide(l, "old") PROVE l.path = file.old
      <4>1. MetaSaysIs(who, file, l)
        BY <1>2
      <4>. QED BY <2>1, <3>1, <4>1 DEF MetaSaysIs, NamesSide, Moved, IsSide
    <3>. QED BY <3>1 DEF NamesPath
  <2>3. NamesPath(ahead, "new", file.new)
    <3>1. ASSUME NEW l \in ahead, NamesSide(l, "new") PROVE l.path = file.new
      <4>1. MetaSaysIs(who, file, l)
        BY <1>2
      <4>. QED BY <2>1, <3>1, <4>1 DEF MetaSaysIs, NamesSide, Moved, IsSide
    <3>. QED BY <3>1 DEF NamesPath
  <2>4. line.old = OtherThan(file.old, file.new) /\ line.new = OtherThan(file.new, file.old)
    BY DEF HeaderLine, DiffLine
  <2>5. line.old \notin Splitting
    BY <2>1, <2>4, PatchTextAssumption DEF OtherThan
  <2>6. x.old = line.old /\ x.new = line.new
    BY <1>1, <2>5 DEF HeaderPaths
  <2>7. /\ file.old = NoPath <=> file.status = "added"
        /\ file.new = NoPath <=> file.status = "deleted"
    BY FileTyped
  <2>8. x.old = file.old \/ AwaitsSide(ahead, "old") \/ (who # "detail" /\ file.status = "added")
    BY <2>1, <2>4, <2>6, <2>7, MetaSays DEF OtherThan
  <2>9. x.new = file.new \/ AwaitsSide(ahead, "new") \/ (who # "detail" /\ file.status = "deleted")
    BY <2>1, <2>4, <2>6, <2>7, MetaSays DEF OtherThan
  <2>. QED BY <2>2, <2>3, <2>8, <2>9
<1>9. file.status \in Moved => Awaits(ahead, file.status) /\ Awaits(ahead, "similarity")
  BY MetaSays
<1>10. /\ x.added \/ Awaits(ahead, "new file") <=> who # "detail" /\ file.status = "added"
       /\ x.deleted \/ Awaits(ahead, "deleted file") <=> who # "detail" /\ file.status = "deleted"
       /\ x.binary \/ Awaits(ahead, "binary") <=> file.binary
  <2>. HIDE DEF x, ahead
  <2>. QED BY <1>1, <1>4, <1>5, <1>6
<1>. HIDE DEF x, ahead, line
<1>11. HeadKept(who, file, x, ahead)
  BY <1>1, <1>7, <1>8, <1>9, <1>10 DEF HeadKept
<1>. QED BY <1>1, <1>11 DEF x, ahead, line

LEMMA HeadReads ==
  ASSUME NEW who, NEW file, NEW x, NEW line, NEW later,
         HeadKept(who, file, x, {line} \cup later), line.k \in HeaderKind
  PROVE  HeadKept(who, file, WithLine(x, line), later) /\ WithLine(x, line).hunks = x.hunks
<1>. DEFINE y == WithLine(x, line)
            ahead == {line} \cup later
<1>1. IsHeader(x) /\ x.added \in BOOLEAN /\ x.deleted \in BOOLEAN /\ x.binary \in BOOLEAN
  BY DEF HeadKept
<1>2. /\ IsHeader(y) /\ y.hunks = x.hunks
      /\ y.added = (x.added \/ line.k = "new file")
      /\ y.deleted = (x.deleted \/ line.k = "deleted file")
      /\ y.binary = (x.binary \/ line.k = "binary")
      /\ y.similarity = IF line.k = "similarity" THEN line.value ELSE x.similarity
      /\ y.moved = IF line.k = "rename" \/ (line.k = "copy" /\ x.moved # "rename")
                   THEN line.k ELSE x.moved
      /\ y.old = IF NamesSide(line, "old") THEN line.path ELSE x.old
      /\ y.new = IF NamesSide(line, "new") THEN line.path ELSE x.new
  <2>. DEFINE o == IF \/ line.k \in {"rename", "copy"} /\ line.end = "from"
                      \/ line.k = "side" /\ line.side = "old" THEN line.path ELSE x.old
              n == IF \/ line.k \in {"rename", "copy"} /\ line.end = "to"
                      \/ line.k = "side" /\ line.side = "new" THEN line.path ELSE x.new
              s == IF line.k = "similarity" THEN line.value ELSE x.similarity
              mv == IF line.k = "rename" \/ (line.k = "copy" /\ x.moved # "rename")
                    THEN line.k ELSE x.moved
              ad == x.added \/ line.k = "new file"
              de == x.deleted \/ line.k = "deleted file"
              bi == x.binary \/ line.k = "binary"
  <2>1. x = [old |-> x.old, new |-> x.new, similarity |-> x.similarity, moved |-> x.moved,
             added |-> x.added, deleted |-> x.deleted, binary |-> x.binary, hunks |-> x.hunks]
    BY <1>1 DEF IsHeader
  <2>2. y = [x EXCEPT !.added = ad, !.deleted = de, !.binary = bi, !.similarity = s,
                      !.moved = mv, !.old = o, !.new = n]
    BY DEF WithLine
  <2>3. o = (IF NamesSide(line, "old") THEN line.path ELSE x.old)
        /\ n = (IF NamesSide(line, "new") THEN line.path ELSE x.new)
    BY DEF NamesSide, Moved
  <2>. HIDE DEF o, n, s, mv, ad, de, bi, y
  <2>4. y = [old |-> o, new |-> n, similarity |-> s, moved |-> mv, added |-> ad,
             deleted |-> de, binary |-> bi, hunks |-> x.hunks]
    BY <2>1, <2>2
  <2>5. /\ y.old = o /\ y.new = n /\ y.similarity = s /\ y.moved = mv /\ y.added = ad
        /\ y.deleted = de /\ y.binary = bi /\ y.hunks = x.hunks
    BY <2>4
  <2>6. IsHeader(y)
    BY <2>4, <2>5 DEF IsHeader
  <2>. QED BY <2>3, <2>5, <2>6 DEF s, mv, ad, de, bi
<1>. HIDE DEF y
<1>3. \A k : Awaits(ahead, k) <=> line.k = k \/ Awaits(later, k)
  BY DEF Awaits
<1>4. \A side : AwaitsSide(ahead, side) <=> NamesSide(line, side) \/ AwaitsSide(later, side)
  BY DEF AwaitsSide
<1>5. y.added \in BOOLEAN /\ y.deleted \in BOOLEAN /\ y.binary \in BOOLEAN
  BY <1>1, <1>2
<1>6. y.added \/ Awaits(later, "new file") <=> who # "detail" /\ file.status = "added"
  <2>1. x.added \/ Awaits(ahead, "new file") <=> who # "detail" /\ file.status = "added"
    BY DEF HeadKept
  <2>. QED BY <1>1, <1>2, <1>3, <2>1
<1>7. y.deleted \/ Awaits(later, "deleted file") <=> who # "detail" /\ file.status = "deleted"
  <2>1. x.deleted \/ Awaits(ahead, "deleted file") <=> who # "detail" /\ file.status = "deleted"
    BY DEF HeadKept
  <2>. QED BY <1>1, <1>2, <1>3, <2>1
<1>8. y.binary \/ Awaits(later, "binary") <=> file.binary
  <2>1. x.binary \/ Awaits(ahead, "binary") <=> file.binary
    BY DEF HeadKept
  <2>. QED BY <1>1, <1>2, <1>3, <2>1
<1>9. \A l \in ahead : /\ l.k \in Moved => l.k = file.status
                       /\ l.k = "similarity" => l.value = file.similarity
  BY DEF HeadKept
<1>10. /\ line.k \in Moved => line.k = file.status
       /\ line.k = "similarity" => line.value = file.similarity
  BY <1>9
<1>11. y.moved = "no" \/ (y.moved = file.status /\ file.status \in Moved)
  <2>1. x.moved = "no" \/ (x.moved = file.status /\ file.status \in Moved)
    BY DEF HeadKept
  <2>. QED BY <1>2, <1>10, <2>1 DEF Moved
<1>12. file.status \in Moved => /\ y.moved # "no" \/ Awaits(later, file.status)
                                /\ y.similarity = file.similarity \/ Awaits(later, "similarity")
  <2>1. /\ x.moved = "no" \/ (x.moved = file.status /\ file.status \in Moved)
        /\ file.status \in Moved => /\ x.moved # "no" \/ Awaits(ahead, file.status)
                                    /\ x.similarity = file.similarity \/ Awaits(ahead, "similarity")
    BY DEF HeadKept
  <2>. QED BY <1>2, <1>3, <1>10, <2>1 DEF Moved
<1>13. ASSUME PathsAreRead(who, file)
       PROVE  /\ NamesPath(later, "old", file.old) /\ NamesPath(later, "new", file.new)
              /\ \/ y.old = file.old \/ AwaitsSide(later, "old")
                 \/ who # "detail" /\ file.status = "added"
              /\ \/ y.new = file.new \/ AwaitsSide(later, "new")
                 \/ who # "detail" /\ file.status = "deleted"
  <2>1. /\ NamesPath(ahead, "old", file.old) /\ NamesPath(ahead, "new", file.new)
        /\ \/ x.old = file.old \/ AwaitsSide(ahead, "old")
           \/ who # "detail" /\ file.status = "added"
        /\ \/ x.new = file.new \/ AwaitsSide(ahead, "new")
           \/ who # "detail" /\ file.status = "deleted"
    BY <1>13 DEF HeadKept
  <2>2. /\ NamesSide(line, "old") => line.path = file.old
        /\ NamesSide(line, "new") => line.path = file.new
        /\ NamesPath(later, "old", file.old) /\ NamesPath(later, "new", file.new)
    BY <2>1 DEF NamesPath
  <2>. QED BY <1>2, <1>4, <2>1, <2>2
<1>14. \A l \in later : /\ l.k \in Moved => l.k = file.status
                        /\ l.k = "similarity" => l.value = file.similarity
  BY <1>9
<1>15. HeadKept(who, file, y, later)
  BY <1>2, <1>5, <1>6, <1>7, <1>8, <1>11, <1>12, <1>13, <1>14 DEF HeadKept
<1>. QED BY <1>2, <1>15 DEF y

(* A header of which nothing is missing closes to what was printed. *)
LEMMA HeadCloses ==
  ASSUME NEW who \in Printers, NEW file \in PrintedFile, NEW x,
         HeadKept(who, file, x, {}), x.hunks = HunksRead(file, Len(file.hunks))
  PROVE  SameAs(who, Closed(x), FilePatch(file))
<1>. DEFINE y == Closed(x)
            p == FilePatch(file)
<1>1. \A k : ~Awaits({}, k)
  BY DEF Awaits
<1>2. \A side : ~AwaitsSide({}, side)
  BY DEF AwaitsSide
<1>3. /\ x.added \in BOOLEAN /\ x.deleted \in BOOLEAN /\ x.binary \in BOOLEAN
      /\ x.added <=> who # "detail" /\ file.status = "added"
      /\ x.deleted <=> who # "detail" /\ file.status = "deleted"
      /\ x.binary <=> file.binary
  <2>1. /\ x.added \in BOOLEAN /\ x.deleted \in BOOLEAN /\ x.binary \in BOOLEAN
        /\ x.added \/ Awaits({}, "new file") <=> who # "detail" /\ file.status = "added"
        /\ x.deleted \/ Awaits({}, "deleted file") <=> who # "detail" /\ file.status = "deleted"
        /\ x.binary \/ Awaits({}, "binary") <=> file.binary
    BY DEF HeadKept
  <2>. QED BY <1>1, <2>1
<1>4. /\ x.moved = "no" \/ (x.moved = file.status /\ file.status \in Moved)
      /\ file.status \in Moved => x.moved # "no" /\ x.similarity = file.similarity
  BY <1>1 DEF HeadKept
<1>5. PathsAreRead(who, file) =>
        /\ x.old = file.old \/ (who # "detail" /\ file.status = "added")
        /\ x.new = file.new \/ (who # "detail" /\ file.status = "deleted")
  <2>1. ~AwaitsSide({}, "old") /\ ~AwaitsSide({}, "new")
    BY <1>2
  <2>2. PathsAreRead(who, file) =>
          /\ \/ x.old = file.old \/ AwaitsSide({}, "old")
             \/ who # "detail" /\ file.status = "added"
          /\ \/ x.new = file.new \/ AwaitsSide({}, "new")
             \/ who # "detail" /\ file.status = "deleted"
    BY DEF HeadKept
  <2>. QED BY <2>1, <2>2
<1>6. /\ file.old = NoPath <=> file.status = "added"
      /\ file.new = NoPath <=> file.status = "deleted"
      /\ file.status \notin Moved => file.similarity = 100
      /\ file.status \in {"modified", "added", "deleted"} \cup Moved
      /\ file.binary \in BOOLEAN /\ file.hunks \in Seq(PrintedHunk)
  BY FileTyped
<1>7. /\ p.old = file.old /\ p.new = file.new /\ p.status = file.status
      /\ p.similarity = file.similarity /\ p.binary = file.binary
      /\ p.hunks = [i \in DOMAIN file.hunks |-> Numbered(file.hunks[i])]
  BY DEF FilePatch
<1>8. /\ y.old = (IF x.added THEN NoPath ELSE x.old) /\ y.new = (IF x.deleted THEN NoPath ELSE x.new)
      /\ y.status = (IF x.moved # "no" THEN x.moved
                     ELSE IF x.added THEN "added" ELSE IF x.deleted THEN "deleted" ELSE "modified")
      /\ y.similarity = (IF x.moved # "no" THEN x.similarity ELSE 100)
      /\ y.binary = x.binary /\ y.hunks = x.hunks
  BY DEF Closed
<1>. HIDE DEF y, p
<1>9. y.hunks = p.hunks /\ (p.hunks # <<>> => file.hunks # <<>>)
  <2>1. DOMAIN file.hunks = 1 .. Len(file.hunks)
    BY <1>6, LenProperties
  <2>2. y.hunks = p.hunks
    BY <1>7, <1>8, <2>1 DEF HunksRead
  <2>3. ASSUME file.hunks = <<>> PROVE p.hunks = <<>>
    <3>1. DOMAIN file.hunks = {}
      BY <2>3
    <3>. QED BY <1>7, <3>1
  <2>. QED BY <2>2, <2>3
<1>10. y.binary = p.binary
  BY <1>3, <1>6, <1>7, <1>8
<1>11. y.similarity = p.similarity
  BY <1>4, <1>6, <1>7, <1>8
<1>12. who = "git" => y.status = p.status
  BY <1>3, <1>4, <1>6, <1>7, <1>8 DEF Moved
<1>13. ASSUME {p.old, p.new} \cap Spaced = {}, who = "git" \/ y.hunks # <<>>
       PROVE  y.old = p.old /\ y.new = p.new
  <2>1. PathsAreRead(who, file)
    BY <1>7, <1>9, <1>13 DEF PathsAreRead
  <2>. QED BY <1>3, <1>5, <1>6, <1>7, <1>8, <2>1
<1>14. SameAs(who, y, p)
  BY <1>9, <1>10, <1>11, <1>12, <1>13 DEF SameAs
<1>. QED BY <1>14 DEF y, p

----------------------------------------------------------------------------
(* The body of a hunk *)
BodyShape(x) ==
  x = [old |-> x.old, oldLines |-> x.oldLines, new |-> x.new, newLines |-> x.newLines,
       lines |-> x.lines, oldLeft |-> x.oldLeft, newLeft |-> x.newLeft]

(* How far the lines of a hunk have been read. *)
Counted(hunk, n) ==
  /\ \A origin : /\ CountSide(SubSeq(hunk.body, 1, n), origin) \in Nat
                 /\ CountSide(hunk.body, origin) \in Nat
                 /\ CountSide(SubSeq(hunk.body, 1, n), origin) <= CountSide(hunk.body, origin)
  /\ n = 0 => \A origin : CountSide(SubSeq(hunk.body, 1, n), origin) = 0
  /\ n = Len(hunk.body) =>
       \A origin : CountSide(SubSeq(hunk.body, 1, n), origin) = CountSide(hunk.body, origin)
  /\ n < Len(hunk.body) =>
       \A origin : CountSide(SubSeq(hunk.body, 1, n + 1), origin)
                     = CountSide(SubSeq(hunk.body, 1, n), origin)
                       + (IF hunk.body[n + 1].origin \in {"context", origin} THEN 1 ELSE 0)

LEMMA CountedAt ==
  ASSUME NEW hunk \in PrintedHunk, NEW n \in 0 .. Len(hunk.body)
  PROVE  Counted(hunk, n)
<1>. DEFINE lines == hunk.body
<1>1. lines \in Seq(PrintedLine)
  BY DEF PrintedHunk, PrintedLine
<1>2. n \in 0 .. Len(lines)
  OBVIOUS
<1>. HIDE DEF lines
<1>3. ASSUME NEW origin
      PROVE  /\ CountSide(SubSeq(lines, 1, n), origin) \in Nat /\ CountSide(lines, origin) \in Nat
             /\ CountSide(SubSeq(lines, 1, n), origin) <= CountSide(lines, origin)
             /\ n = 0 => CountSide(SubSeq(lines, 1, n), origin) = 0
             /\ n = Len(lines) => CountSide(SubSeq(lines, 1, n), origin) = CountSide(lines, origin)
             /\ n < Len(lines) =>
                  CountSide(SubSeq(lines, 1, n + 1), origin)
                    = CountSide(SubSeq(lines, 1, n), origin)
                      + (IF lines[n + 1].origin \in {"context", origin} THEN 1 ELSE 0)
  BY <1>1, <1>2, CountOf
<1>. QED BY <1>3 DEF Counted, lines

LEMMA BodyAtIs ==
  ASSUME NEW hunk, NEW n
  PROVE  /\ BodyShape(BodyAt(hunk, n)) /\ BodyAt(hunk, n) # Nothing
         /\ BodyAt(hunk, n).old = hunk.old /\ BodyAt(hunk, n).new = hunk.new
         /\ BodyAt(hunk, n).oldLines = CountSide(hunk.body, "deletion")
         /\ BodyAt(hunk, n).newLines = CountSide(hunk.body, "addition")
         /\ BodyAt(hunk, n).lines = [i \in 1 .. n |-> Numbered(hunk).lines[i]]
         /\ BodyAt(hunk, n).oldLeft
              = CountSide(hunk.body, "deletion") - CountSide(SubSeq(hunk.body, 1, n), "deletion")
         /\ BodyAt(hunk, n).newLeft
              = CountSide(hunk.body, "addition") - CountSide(SubSeq(hunk.body, 1, n), "addition")
<1>1. BodyAt(hunk, n) # Nothing
  <2>1. DOMAIN BodyAt(hunk, n) # DOMAIN Nothing
    BY DEF BodyAt, Nothing, Bare
  <2>. QED BY <2>1
<1>. QED BY <1>1 DEF BodyAt, BodyShape

LEMMA HunkOpens ==
  ASSUME NEW hunk \in PrintedHunk
  PROVE  OpenHunk(HunkLine(Numbered(hunk))) = BodyAt(hunk, 0)
<1>. DEFINE a == CountSide(hunk.body, "deletion")
            b == CountSide(hunk.body, "addition")
            x == OpenHunk(HunkLine(Numbered(hunk)))
            y == BodyAt(hunk, 0)
<1>1. /\ a \in Nat /\ b \in Nat
      /\ CountSide(SubSeq(hunk.body, 1, 0), "deletion") = 0
      /\ CountSide(SubSeq(hunk.body, 1, 0), "addition") = 0
  <2>1. 0 \in 0 .. Len(hunk.body)
    BY LenProperties DEF PrintedHunk
  <2>2. Counted(hunk, 0)
    BY <2>1, CountedAt
  <2>. QED BY <2>2 DEF Counted
<1>2. x = [old |-> hunk.old, oldLines |-> a, new |-> hunk.new, newLines |-> b,
           lines |-> <<>>, oldLeft |-> a, newLeft |-> b]
  BY DEF OpenHunk, HunkLine, Numbered
<1>3. y = [old |-> hunk.old, oldLines |-> a, new |-> hunk.new, newLines |-> b,
           lines |-> [i \in 1 .. 0 |-> Numbered(hunk).lines[i]],
           oldLeft |-> a - CountSide(SubSeq(hunk.body, 1, 0), "deletion"),
           newLeft |-> b - CountSide(SubSeq(hunk.body, 1, 0), "addition")]
  BY DEF BodyAt
<1>4. [i \in 1 .. 0 |-> Numbered(hunk).lines[i]] = <<>>
  OBVIOUS
<1>. HIDE DEF a, b, x, y
<1>5. /\ a - CountSide(SubSeq(hunk.body, 1, 0), "deletion") = a
      /\ b - CountSide(SubSeq(hunk.body, 1, 0), "addition") = b
  BY <1>1
<1>6. x = y
  BY <1>2, <1>3, <1>4, <1>5
<1>. QED BY <1>6 DEF x, y

(* The line that is next, where the parser stands. *)
LEMMA NextOfBody ==
  ASSUME NEW hunk \in PrintedHunk, NEW n \in 0 .. Len(hunk.body), n < Len(hunk.body),
         NEW line, line = BodyLine(hunk.body[n + 1].origin, hunk.body[n + 1].content)
  PROVE  /\ line \in PatchLine /\ line.k \in BodyKind
         /\ Origin(line) = hunk.body[n + 1].origin /\ ContentOf(line) = hunk.body[n + 1].content
         /\ hunk.body[n + 1].origin \in {"context", "deletion", "addition"}
         /\ OnSide(line, "old") <=> hunk.body[n + 1].origin \in {"context", "deletion"}
         /\ OnSide(line, "new") <=> hunk.body[n + 1].origin \in {"context", "addition"}
         /\ OnSide(line, "old") => BodyAt(hunk, n).oldLeft > 0
         /\ OnSide(line, "new") => BodyAt(hunk, n).newLeft > 0
         /\ OnSide(line, "old") \/ OnSide(line, "new")
         /\ BodyAt(hunk, n).oldLeft \in Nat /\ BodyAt(hunk, n).newLeft \in Nat
<1>. DEFINE row == hunk.body[n + 1]
<1>1. n + 1 \in 1 .. Len(hunk.body) /\ n \in Nat /\ Len(hunk.body) \in Nat
  BY LenProperties DEF PrintedHunk
<1>2. row \in PrintedLine
  BY <1>1, ElementOfSeq DEF PrintedHunk, PrintedLine
<1>3. row.origin \in {"context", "deletion", "addition"} /\ row.content \in Content
  BY <1>2 DEF PrintedLine
<1>4. /\ line \in PatchLine /\ line.k \in BodyKind
      /\ Origin(line) = row.origin /\ ContentOf(line) = row.content
  BY <1>3, BodyLineIs
<1>5. /\ OnSide(line, "old") <=> row.origin \in {"context", "deletion"}
      /\ OnSide(line, "new") <=> row.origin \in {"context", "addition"}
  BY <1>4 DEF OnSide, Changes
<1>6. Counted(hunk, n) /\ Counted(hunk, n + 1)
  <2>1. n + 1 \in 0 .. Len(hunk.body)
    BY <1>1
  <2>. QED BY <2>1, CountedAt
<1>. DEFINE c(i, origin) == CountSide(SubSeq(hunk.body, 1, i), origin)
            all(origin) == CountSide(hunk.body, origin)
<1>7. \A origin : /\ c(n, origin) \in Nat /\ all(origin) \in Nat /\ c(n, origin) <= all(origin)
                  /\ c(n + 1, origin) <= all(origin)
                  /\ c(n + 1, origin) = c(n, origin)
                       + (IF row.origin \in {"context", origin} THEN 1 ELSE 0)
  BY <1>6 DEF Counted
<1>8. /\ BodyAt(hunk, n).oldLeft = all("deletion") - c(n, "deletion")
      /\ BodyAt(hunk, n).newLeft = all("addition") - c(n, "addition")
  BY BodyAtIs
<1>. HIDE DEF c, all, row
<1>9. /\ BodyAt(hunk, n).oldLeft \in Nat /\ BodyAt(hunk, n).newLeft \in Nat
      /\ row.origin \in {"context", "deletion"} => BodyAt(hunk, n).oldLeft > 0
      /\ row.origin \in {"context", "addition"} => BodyAt(hunk, n).newLeft > 0
  BY <1>7, <1>8
<1>10. OnSide(line, "old") \/ OnSide(line, "new")
  BY <1>3, <1>5
<1>. QED BY <1>3, <1>4, <1>5, <1>9, <1>10 DEF row

LEMMA BodyReads ==
  ASSUME NEW hunk \in PrintedHunk, NEW n \in 0 .. Len(hunk.body), n < Len(hunk.body),
         NEW line, line = BodyLine(hunk.body[n + 1].origin, hunk.body[n + 1].content)
  PROVE  WithBody(BodyAt(hunk, n), line) = BodyAt(hunk, n + 1)
<1>. DEFINE row == hunk.body[n + 1]
            c(i, origin) == CountSide(SubSeq(hunk.body, 1, i), origin)
            all(origin) == CountSide(hunk.body, origin)
            h == BodyAt(hunk, n)
            after == BodyAt(hunk, n + 1)
            one(side) == IF OnSide(line, side) THEN 1 ELSE 0
            read == [origin |-> Origin(line),
                     oldNumber |-> IF OnSide(line, "old") THEN h.old + h.oldLines - h.oldLeft ELSE -1,
                     newNumber |-> IF OnSide(line, "new") THEN h.new + h.newLines - h.newLeft ELSE -1,
                     content |-> ContentOf(line)]
            numbered == Numbered(hunk).lines[n + 1]
            lines == [i \in 1 .. n |-> Numbered(hunk).lines[i]]
            more == [i \in 1 .. n + 1 |-> Numbered(hunk).lines[i]]
<1>1. n + 1 \in 1 .. Len(hunk.body) /\ n \in Nat /\ Len(hunk.body) \in Nat /\ n + 1 \in DOMAIN hunk.body
  BY LenProperties DEF PrintedHunk
<1>2. Counted(hunk, n)
  BY CountedAt
<1>3. \A origin : /\ c(n, origin) \in Nat /\ all(origin) \in Nat
                  /\ c(n + 1, origin) = c(n, origin)
                       + (IF row.origin \in {"context", origin} THEN 1 ELSE 0)
  BY <1>2 DEF Counted
<1>4. /\ Origin(line) = row.origin /\ ContentOf(line) = row.content
      /\ row.origin \in {"context", "deletion", "addition"}
      /\ OnSide(line, "old") <=> row.origin \in {"context", "deletion"}
      /\ OnSide(line, "new") <=> row.origin \in {"context", "addition"}
  BY NextOfBody
<1>5. /\ h.old = hunk.old /\ h.new = hunk.new /\ h.oldLines = all("deletion")
      /\ h.newLines = all("addition") /\ h.lines = lines
      /\ h.oldLeft = all("deletion") - c(n, "deletion")
      /\ h.newLeft = all("addition") - c(n, "addition")
      /\ h = [old |-> h.old, oldLines |-> h.oldLines, new |-> h.new, newLines |-> h.newLines,
              lines |-> h.lines, oldLeft |-> h.oldLeft, newLeft |-> h.newLeft]
  BY BodyAtIs DEF BodyShape
<1>6. /\ after.old = hunk.old /\ after.new = hunk.new /\ after.oldLines = all("deletion")
      /\ after.newLines = all("addition") /\ after.lines = more
      /\ after.oldLeft = all("deletion") - c(n + 1, "deletion")
      /\ after.newLeft = all("addition") - c(n + 1, "addition")
      /\ after = [old |-> after.old, oldLines |-> after.oldLines, new |-> after.new,
                  newLines |-> after.newLines, lines |-> after.lines, oldLeft |-> after.oldLeft,
                  newLeft |-> after.newLeft]
  BY BodyAtIs DEF BodyShape
<1>7. numbered = [origin |-> row.origin,
                  oldNumber |-> IF row.origin = "addition" THEN -1 ELSE hunk.old + c(n, "deletion"),
                  newNumber |-> IF row.origin = "deletion" THEN -1 ELSE hunk.new + c(n, "addition"),
                  content |-> row.content]
  <2>1. n + 1 - 1 = n
    BY <1>1
  <2>. QED BY <1>1, <2>1 DEF Numbered
<1>8. hunk.old \in Nat /\ hunk.new \in Nat
  BY DEF PrintedHunk
<1>9. WithBody(h, line) = [h EXCEPT !.lines = Append(h.lines, read),
                                    !.oldLeft = h.oldLeft - one("old"),
                                    !.newLeft = h.newLeft - one("new")]
  BY DEF WithBody
<1>10. Append(lines, numbered) = more
  <2>. DEFINE f == [i \in 1 .. n + 1 |-> Numbered(hunk).lines[i]]
              S == {f[i] : i \in 1 .. n + 1}
  <2>1. /\ \A i \in 1 .. n + 1 : f[i] \in S
        /\ \A i \in 1 .. n : i \in 1 .. n + 1 /\ lines[i] = f[i]
        /\ n + 1 \in 1 .. n + 1 /\ numbered = f[n + 1]
    BY <1>1
  <2>2. lines \in Seq(S) /\ Len(lines) = n
    <3>1. lines \in [1 .. n -> S]
      BY <2>1
    <3>. HIDE DEF lines, S
    <3>. QED BY <1>1, <3>1
  <2>3. more \in Seq(S) /\ Len(more) = n + 1
    <3>1. more \in [1 .. n + 1 -> S] /\ n + 1 \in Nat
      BY <1>1, <2>1
    <3>. HIDE DEF more, S
    <3>. QED BY <3>1
  <2>. HIDE DEF lines, numbered, S, f
  <2>4. numbered \in S
    BY <2>1
  <2>5. /\ Append(lines, numbered) \in Seq(S) /\ Len(Append(lines, numbered)) = n + 1
        /\ \A i \in 1 .. n : Append(lines, numbered)[i] = lines[i]
        /\ Append(lines, numbered)[n + 1] = numbered
    BY <2>2, <2>4, AppendProperties
  <2>6. \A i \in 1 .. n + 1 : i = n + 1 \/ i \in 1 .. n
    BY <1>1
  <2>7. \A i \in 1 .. n + 1 : Append(lines, numbered)[i] = more[i]
    <3>1. more = f
      BY DEF f
    <3>. HIDE DEF more
    <3>. QED BY <2>1, <2>5, <2>6, <3>1
  <2>. HIDE DEF more
  <2>. QED BY <2>3, <2>5, <2>7, SeqEqual
<1>. HIDE DEF c, all, row, h, after, lines, more, numbered
<1>11. read = numbered
  <2>1. hunk.old + all("deletion") - (all("deletion") - c(n, "deletion")) = hunk.old + c(n, "deletion")
    BY <1>3, <1>8
  <2>2. hunk.new + all("addition") - (all("addition") - c(n, "addition")) = hunk.new + c(n, "addition")
    BY <1>3, <1>8
  <2>3. /\ OnSide(line, "old") <=> row.origin # "addition"
        /\ OnSide(line, "new") <=> row.origin # "deletion"
    BY <1>4
  <2>. QED BY <1>4, <1>5, <1>7, <2>1, <2>2, <2>3
<1>12. /\ h.oldLeft - one("old") = after.oldLeft
       /\ h.newLeft - one("new") = after.newLeft
  <2>1. all("deletion") - c(n, "deletion") - one("old") = all("deletion") - c(n + 1, "deletion")
    BY <1>3, <1>4
  <2>2. all("addition") - c(n, "addition") - one("new") = all("addition") - c(n + 1, "addition")
    BY <1>3, <1>4
  <2>. QED BY <1>5, <1>6, <2>1, <2>2
<1>. HIDE DEF read, one
<1>13. WithBody(h, line) = [old |-> h.old, oldLines |-> h.oldLines, new |-> h.new,
                            newLines |-> h.newLines, lines |-> Append(h.lines, read),
                            oldLeft |-> h.oldLeft - one("old"), newLeft |-> h.newLeft - one("new")]
  BY <1>5, <1>9
<1>14. WithBody(h, line) = after
  BY <1>5, <1>6, <1>10, <1>11, <1>12, <1>13
<1>. QED BY <1>14 DEF h, after

(* The last line completes the hunk, and no other does. *)
LEMMA BodyEnds ==
  ASSUME NEW hunk \in PrintedHunk, NEW n \in 0 .. Len(hunk.body)
  PROVE  /\ BodyAt(hunk, n).oldLeft = 0 /\ BodyAt(hunk, n).newLeft = 0 <=> n = Len(hunk.body)
         /\ n = Len(hunk.body) => HunkRead(BodyAt(hunk, n)) = Numbered(hunk)
<1>1. n \in Nat /\ Len(hunk.body) \in Nat /\ DOMAIN hunk.body = 1 .. Len(hunk.body)
  BY LenProperties DEF PrintedHunk
<1>2. ASSUME n < Len(hunk.body)
      PROVE  ~(BodyAt(hunk, n).oldLeft = 0 /\ BodyAt(hunk, n).newLeft = 0)
  <2>. DEFINE line == BodyLine(hunk.body[n + 1].origin, hunk.body[n + 1].content)
  <2>1. /\ OnSide(line, "old") => BodyAt(hunk, n).oldLeft > 0
        /\ OnSide(line, "new") => BodyAt(hunk, n).newLeft > 0
        /\ OnSide(line, "old") \/ OnSide(line, "new")
    BY <1>2, NextOfBody
  <2>. QED BY <2>1
<1>3. ASSUME n = Len(hunk.body)
      PROVE  /\ BodyAt(hunk, n).oldLeft = 0 /\ BodyAt(hunk, n).newLeft = 0
             /\ HunkRead(BodyAt(hunk, n)) = Numbered(hunk)
  <2>1. \A origin : /\ CountSide(hunk.body, origin) \in Nat
                    /\ CountSide(SubSeq(hunk.body, 1, n), origin) = CountSide(hunk.body, origin)
    BY <1>3, CountedAt DEF Counted
  <2>2. BodyAt(hunk, n).oldLeft = 0 /\ BodyAt(hunk, n).newLeft = 0
    <3>. DEFINE a == CountSide(hunk.body, "deletion")
                b == CountSide(hunk.body, "addition")
                c == CountSide(SubSeq(hunk.body, 1, n), "deletion")
                d == CountSide(SubSeq(hunk.body, 1, n), "addition")
    <3>1. a \in Nat /\ c = a /\ b \in Nat /\ d = b
      BY <2>1
    <3>2. BodyAt(hunk, n).oldLeft = a - c /\ BodyAt(hunk, n).newLeft = b - d
      BY BodyAtIs
    <3>. HIDE DEF a, b, c, d
    <3>. QED BY <3>1, <3>2
  <2>3. [i \in 1 .. n |-> Numbered(hunk).lines[i]] = Numbered(hunk).lines
    BY <1>1, <1>3 DEF Numbered
  <2>4. HunkRead(BodyAt(hunk, n))
          = [old |-> hunk.old, oldLines |-> CountSide(hunk.body, "deletion"), new |-> hunk.new,
             newLines |-> CountSide(hunk.body, "addition"), lines |-> Numbered(hunk).lines]
    BY <2>3, BodyAtIs DEF HunkRead
  <2>5. Numbered(hunk)
          = [old |-> hunk.old, oldLines |-> CountSide(hunk.body, "deletion"), new |-> hunk.new,
             newLines |-> CountSide(hunk.body, "addition"), lines |-> Numbered(hunk).lines]
    BY DEF Numbered
  <2>. QED BY <2>2, <2>4, <2>5
<1>. QED BY <1>1, <1>2, <1>3

----------------------------------------------------------------------------
(* What a row says, to the parser and of its marks. *)
Says(who, row, line, mark) ==
  LineOf(who, row) = line /\ (who = "detail" => row.mark = mark)

LEMMA RowSays ==
  ASSUME NEW who \in Printers, NEW line \in PatchLine, NEW mark \in {"none", "addition", "deletion"}
  PROVE  Says(who, PrintedRow(who, line, mark), line, mark)
BY RowsTyped DEF Says, PrintedRow

LEMMA HeaderRowSays ==
  ASSUME NEW who \in Printers, NEW file \in PrintedFile
  PROVE  Says(who, HeaderRow(who, file), HeaderLine(file), "none") /\ HeaderLine(file).k = "diff"
<1>1. HeaderLine(file) \in PatchLine
  BY LinesTyped
<1>2. HeaderLine(file).k = "diff"
  BY DEF HeaderLine, DiffLine
<1>. QED BY <1>1, <1>2, RowSays DEF HeaderRow

LEMMA HunkRowSays ==
  ASSUME NEW who \in Printers, NEW hunk \in PrintedHunk
  PROVE  Says(who, HunkRow(who, hunk), HunkLine(Numbered(hunk)), "none")
         /\ HunkLine(Numbered(hunk)).k = "hunk"
<1>1. HunkLine(Numbered(hunk)) \in PatchLine
  BY HunkRowsAre
<1>2. HunkLine(Numbered(hunk)).k = "hunk"
  BY DEF HunkLine
<1>. QED BY <1>1, <1>2, RowSays DEF HunkRow

LEMMA MarkerSays ==
  ASSUME NEW who \in Printers, NEW marker \in Markers(who), marker # <<>>
  PROVE  Says(who, Bare("no newline"), Bare("no newline"), "none")
         /\ Bare("no newline").k = "no newline"
<1>1. who # "detail"
  BY DEF Markers
<1>. QED BY <1>1 DEF Says, LineOf, Bare

LEMMA LineRowSays ==
  ASSUME NEW who \in Printers, NEW line \in PrintedLine
  PROVE  Says(who, LineRow(who, line), BodyLine(line.origin, line.content), MarkOf(line.origin))
         /\ MarkOf(line.origin) \in {"none", "addition", "deletion"}
         /\ LineMarker(who, line) \in Markers(who)
<1>1. BodyLine(line.origin, line.content) \in PatchLine
  BY BodyLineIs DEF PrintedLine
<1>2. MarkOf(line.origin) \in {"none", "addition", "deletion"}
  BY DEF PrintedLine, MarkOf
<1>3. LineMarker(who, line) \in Markers(who)
  BY DEF LineMarker, Markers, When
<1>. QED BY <1>1, <1>2, <1>3, RowSays DEF LineRow

(* The lines of a header, one of them next. *)
LEMMA MetaRowSays ==
  ASSUME NEW who \in Printers, NEW file \in PrintedFile, NEW m \in 0 .. Len(MetaRows(who, file))
  PROVE  /\ m = 0 => LinesOf(who, From(MetaRows(who, file), m)) = MetaSet(who, file)
         /\ m = Len(MetaRows(who, file)) => LinesOf(who, From(MetaRows(who, file), m)) = {}
         /\ m < Len(MetaRows(who, file)) =>
              \E line \in PatchLine :
                /\ Says(who, MetaRows(who, file)[m + 1], line, "none") /\ line.k \in HeaderKind
                /\ LinesOf(who, From(MetaRows(who, file), m))
                     = {line} \cup LinesOf(who, From(MetaRows(who, file), m + 1))
<1>. DEFINE meta == MetaRows(who, file)
<1>1. /\ meta \in Seq(Row) /\ LinesOf(who, meta) = MetaSet(who, file)
      /\ \A i \in 1 .. Len(meta) : \E line \in MetaSet(who, file) :
           line \in PatchLine /\ meta[i] = PrintedRow(who, line, "none")
  BY FileRowsAre
<1>2. m \in 0 .. Len(meta)
  OBVIOUS
<1>. HIDE DEF meta
<1>3. ASSUME NEW s \in Seq(Row)
      PROVE  LinesOf(who, s) = {LineOf(who, s[i]) : i \in 1 .. Len(s)}
  BY LenProperties DEF LinesOf
<1>4. /\ m = 0 => From(meta, m) = meta
      /\ m = Len(meta) => From(meta, m) = <<>>
  BY <1>1, <1>2, FromNext
<1>5. LinesOf(who, <<>>) = {}
  BY DEF LinesOf
<1>6. ASSUME m < Len(meta)
      PROVE  \E line \in PatchLine :
                /\ Says(who, meta[m + 1], line, "none") /\ line.k \in HeaderKind
                /\ LinesOf(who, From(meta, m)) = {line} \cup LinesOf(who, From(meta, m + 1))
  <2>1. m + 1 \in 1 .. Len(meta) /\ m + 1 \in 0 .. Len(meta) /\ m \in Nat /\ Len(meta) \in Nat
    BY <1>1, <1>2, <1>6, LenProperties
  <2>2. PICK line \in MetaSet(who, file) :
          line \in PatchLine /\ meta[m + 1] = PrintedRow(who, line, "none")
    BY <1>1, <2>1
  <2>3. Says(who, meta[m + 1], line, "none")
    BY <2>2, RowSays
  <2>4. line.k \in HeaderKind
    BY MetaSays
  <2>5. /\ From(meta, m) \in Seq(Row) /\ Len(From(meta, m)) = Len(meta) - m
        /\ \A i \in 1 .. Len(meta) - m : From(meta, m)[i] = meta[m + i]
    BY <1>1, <1>2, FromOf
  <2>6. /\ From(meta, m + 1) \in Seq(Row) /\ Len(From(meta, m + 1)) = Len(meta) - (m + 1)
        /\ \A i \in 1 .. Len(meta) - (m + 1) : From(meta, m + 1)[i] = meta[m + 1 + i]
    BY <1>1, <2>1, FromOf
  <2>7. LinesOf(who, From(meta, m)) = {LineOf(who, meta[m + i]) : i \in 1 .. Len(meta) - m}
    <3>1. LinesOf(who, From(meta, m)) = {LineOf(who, From(meta, m)[i]) : i \in 1 .. Len(meta) - m}
      BY <1>3, <2>5
    <3>. QED BY <2>5, <3>1
  <2>8. LinesOf(who, From(meta, m + 1))
          = {LineOf(who, meta[m + 1 + i]) : i \in 1 .. Len(meta) - (m + 1)}
    <3>1. LinesOf(who, From(meta, m + 1))
            = {LineOf(who, From(meta, m + 1)[i]) : i \in 1 .. Len(meta) - (m + 1)}
      BY <1>3, <2>6
    <3>. QED BY <2>6, <3>1
  <2>9. LineOf(who, meta[m + 1]) = line
    BY <2>3 DEF Says
  <2>10. LinesOf(who, From(meta, m)) \subseteq {line} \cup LinesOf(who, From(meta, m + 1))
    <3>1. ASSUME NEW i \in 1 .. Len(meta) - m
          PROVE  LineOf(who, meta[m + i]) \in {line} \cup LinesOf(who, From(meta, m + 1))
      <4>1. CASE i = 1
        BY <2>9, <4>1
      <4>2. CASE i # 1
        <5>1. i - 1 \in 1 .. Len(meta) - (m + 1) /\ m + 1 + (i - 1) = m + i
          BY <2>1, <4>2
        <5>. QED BY <2>8, <5>1
      <4>. QED BY <4>1, <4>2
    <3>. QED BY <2>7, <3>1
  <2>11. {line} \cup LinesOf(who, From(meta, m + 1)) \subseteq LinesOf(who, From(meta, m))
    <3>1. line \in LinesOf(who, From(meta, m))
      <4>1. 1 \in 1 .. Len(meta) - m
        BY <2>1
      <4>. QED BY <2>7, <2>9, <4>1
    <3>2. ASSUME NEW i \in 1 .. Len(meta) - (m + 1)
          PROVE  LineOf(who, meta[m + 1 + i]) \in LinesOf(who, From(meta, m))
      <4>1. 1 + i \in 1 .. Len(meta) - m /\ m + (1 + i) = m + 1 + i
        BY <2>1
      <4>. QED BY <2>7, <4>1
    <3>. QED BY <2>8, <3>1, <3>2
  <2>. QED BY <2>2, <2>3, <2>4, <2>10, <2>11
<1>7. m = 0 => LinesOf(who, From(meta, m)) = MetaSet(who, file)
  BY <1>1, <1>4
<1>8. m = Len(meta) => LinesOf(who, From(meta, m)) = {}
  BY <1>4, <1>5
<1>. QED BY <1>6, <1>7, <1>8 DEF meta

(* The next line of the text is what the next row says. *)
LEMMA RowIsNext ==
  ASSUME NEW who \in Printers, NEW left \in Seq(Row), Due(who, left), Reading
  PROVE  /\ left # <<>> => Current = LineOf(who, left[1])
         /\ left = <<>> => who = "configured" /\ Current = Bare("foreign")
<1>1. Len(left) \in Nat /\ (left = <<>> <=> Len(left) = 0)
  BY EmptySeq, LenProperties
<1>2. PICK n \in 0 .. Len(left) :
       /\ at + n <= Len(text)
       /\ \A i \in 1 .. n : text[at + i] = LineOf(who, left[i])
       /\ who \in {"git", "detail"} => n = Len(left) /\ Len(text) = at + n
       /\ who = "configured" => /\ n = Len(left) /\ Len(text) = at + n + 1
                               /\ text[at + n + 1] = Bare("foreign")
       /\ who = "cut" => n < Len(left) /\ Len(text) = at + n /\ left[n + 1].k = "body"
  BY DEF Due
<1>3. at \in Nat /\ at < Len(text) /\ Current = text[at + 1]
  BY DEF Due, Reading, Current
<1>4. CASE left # <<>>
  <2>1. 1 \in 1 .. n
    BY <1>1, <1>2, <1>3, <1>4 DEF Printers
  <2>. QED BY <1>2, <1>3, <1>4, <2>1
<1>5. CASE left = <<>>
  <2>1. n = 0
    BY <1>1, <1>5
  <2>2. who = "configured"
    BY <1>1, <1>2, <1>3, <1>5, <2>1 DEF Printers
  <2>3. at + n + 1 = at + 1
    BY <1>3, <2>1
  <2>. QED BY <1>2, <1>3, <1>5, <2>2, <2>3
<1>. QED BY <1>4, <1>5

(* At the end of the text nothing is left, or a hunk's body in one cut short. *)
LEMMA NoRowIsNext ==
  ASSUME NEW who \in Printers, NEW left \in Seq(Row), Due(who, left), at = Len(text)
  PROVE  /\ who \in {"git", "detail"} => left = <<>>
         /\ who # "configured"
         /\ who = "cut" => left # <<>> /\ left[1].k = "body"
<1>1. Len(left) \in Nat /\ (left = <<>> <=> Len(left) = 0)
  BY EmptySeq, LenProperties
<1>2. PICK n \in 0 .. Len(left) :
       /\ at + n <= Len(text)
       /\ who \in {"git", "detail"} => n = Len(left) /\ Len(text) = at + n
       /\ who = "configured" => /\ n = Len(left) /\ Len(text) = at + n + 1
       /\ who = "cut" => n < Len(left) /\ Len(text) = at + n /\ left[n + 1].k = "body"
  BY DEF Due
<1>3. at \in Nat
  BY DEF Due
<1>4. n = 0
  BY <1>1, <1>2, <1>3
<1>5. 0 + 1 = 1
  OBVIOUS
<1>. QED BY <1>1, <1>2, <1>3, <1>4, <1>5

(* A line read leaves the rest, marked as it was written. *)
LEMMA RowTaken ==
  ASSUME NEW who \in Printers, NEW patch, NEW left \in Seq(Row), NEW row, NEW rest, NEW line,
         NEW mark \in {"none", "addition", "deletion"},
         StartsWith(left, row, rest), Says(who, row, line, mark),
         Due(who, left), MarksKept(who, patch, left), Reading
  PROVE  /\ rest \in Seq(Row) /\ Current = line
         /\ Consume(mark) => Due(who, rest)' /\ MarksKept(who, patch, rest)'
<1>1. left # <<>> /\ Len(left) \in Nat \ {0} /\ left[1] = row /\ row \in Row /\ Tail(left) = rest
  BY DEF StartsWith
<1>2. rest \in Seq(Row) /\ Len(rest) = Len(left) - 1 /\ \A i \in 1 .. Len(rest) : rest[i] = left[i + 1]
  BY <1>1, HeadTailProperties
<1>3. Current = line
  BY <1>1, RowIsNext DEF Says
<1>4. ASSUME Consume(mark) PROVE Due(who, rest)'
  <2>1. PICK n \in 0 .. Len(left) :
          /\ at + n <= Len(text)
          /\ \A i \in 1 .. n : text[at + i] = LineOf(who, left[i])
          /\ who \in {"git", "detail"} => n = Len(left) /\ Len(text) = at + n
          /\ who = "configured" => /\ n = Len(left) /\ Len(text) = at + n + 1
                                  /\ text[at + n + 1] = Bare("foreign")
          /\ who = "cut" => n < Len(left) /\ Len(text) = at + n /\ left[n + 1].k = "body"
    BY DEF Due
  <2>2. at \in Nat /\ at < Len(text) /\ at' = at + 1 /\ text' = text
    BY <1>4 DEF Due, Reading, Consume
  <2>3. n \in Nat \ {0}
    BY <1>1, <2>1, <2>2 DEF Printers
  <2>4. n - 1 \in 0 .. Len(rest) /\ at + 1 + (n - 1) = at + n /\ n - 1 + 1 = n /\ at + 1 \in Nat
    <3>1. n <= Len(left) /\ Len(left) \in Nat /\ Len(rest) = Len(left) - 1
      BY <1>1, <1>2
    <3>. QED BY ONLY <2>2, <2>3, <3>1
  <2>5. ASSUME NEW i \in 1 .. n - 1 PROVE text[at + 1 + i] = LineOf(who, rest[i])
    <3>1. i + 1 \in 1 .. n /\ at + 1 + i = at + (i + 1) /\ i \in 1 .. Len(rest)
      BY <2>2, <2>3, <2>4
    <3>. QED BY <1>2, <2>1, <3>1
  <2>6. who = "cut" => n - 1 < Len(rest) /\ rest[n - 1 + 1].k = "body"
    <3>1. ASSUME who = "cut" PROVE n \in 1 .. Len(rest) /\ n - 1 < Len(rest) /\ left[n + 1].k = "body"
      BY <1>1, <1>2, <2>1, <2>3, <3>1
    <3>. QED BY <1>2, <2>4, <3>1
  <2>7. /\ at + 1 + (n - 1) <= Len(text)
        /\ who \in {"git", "detail"} => n - 1 = Len(rest) /\ Len(text) = at + 1 + (n - 1)
        /\ who = "configured" => /\ n - 1 = Len(rest) /\ Len(text) = at + 1 + (n - 1) + 1
                                /\ text[at + 1 + (n - 1) + 1] = Bare("foreign")
        /\ who = "cut" => Len(text) = at + 1 + (n - 1)
    BY <1>1, <1>2, <2>1, <2>4
  <2>8. \E k \in 0 .. Len(rest) :
          /\ at + 1 + k <= Len(text)
          /\ \A i \in 1 .. k : text[at + 1 + i] = LineOf(who, rest[i])
          /\ who \in {"git", "detail"} => k = Len(rest) /\ Len(text) = at + 1 + k
          /\ who = "configured" => /\ k = Len(rest) /\ Len(text) = at + 1 + k + 1
                                  /\ text[at + 1 + k + 1] = Bare("foreign")
          /\ who = "cut" => k < Len(rest) /\ Len(text) = at + 1 + k /\ rest[k + 1].k = "body"
    <3>. USE <2>4
    <3>. WITNESS n - 1 \in 0 .. Len(rest)
    <3>. QED BY <2>5, <2>6, <2>7
  <2>. QED BY <2>2, <2>4, <2>8 DEF Due
<1>5. ASSUME Consume(mark) PROVE MarksKept(who, patch, rest)'
  <2>. DEFINE rows == FilesRows(who, patch)
  <2>1. Len(marks) = at /\ marks \in Seq({"none", "addition", "deletion"}) /\ at \in Nat
    BY LenProperties DEF MarksKept, Due
  <2>2. at' = at + 1 /\ marks' = Append(marks, mark)
    BY <1>5 DEF Consume
  <2>3. /\ marks' \in Seq({"none", "addition", "deletion"}) /\ Len(marks') = at + 1
        /\ \A i \in 1 .. at : marks'[i] = marks[i]
        /\ marks'[at + 1] = mark
    BY <2>1, <2>2, AppendProperties
  <2>4. ASSUME who = "detail"
        PROVE  /\ Len(rows) = at + 1 + Len(rest)
               /\ \A i \in 1 .. Len(rest) : rest[i] = rows[at + 1 + i]
               /\ \A i \in 1 .. at + 1 : marks'[i] = rows[i].mark
    <3>1. /\ Len(rows) = at + Len(left)
          /\ \A i \in 1 .. Len(left) : left[i] = rows[at + i]
          /\ \A i \in 1 .. at : marks[i] = rows[i].mark
      BY <2>4 DEF MarksKept
    <3>. HIDE DEF rows
    <3>2. Len(rows) = at + 1 + Len(rest)
      BY <1>1, <1>2, <2>1, <3>1
    <3>3. ASSUME NEW i \in 1 .. Len(rest) PROVE rest[i] = rows[at + 1 + i]
      <4>1. i + 1 \in 1 .. Len(left) /\ at + (i + 1) = at + 1 + i
        BY <1>1, <1>2, <2>1
      <4>. QED BY <1>2, <3>1, <4>1
    <3>4. rows[at + 1].mark = mark
      <4>1. 1 \in 1 .. Len(left)
        BY <1>1
      <4>2. row.mark = mark
        BY <2>4 DEF Says
      <4>. QED BY <1>1, <3>1, <4>1, <4>2
    <3>5. ASSUME NEW i \in 1 .. at + 1 PROVE marks'[i] = rows[i].mark
      <4>1. i = at + 1 \/ i \in 1 .. at
        BY <2>1
      <4>. QED BY <2>3, <3>1, <3>4, <4>1
    <3>. QED BY <3>2, <3>3, <3>5
  <2>. HIDE DEF rows
  <2>5. /\ Len(marks') = at' /\ marks' \in Seq({"none", "addition", "deletion"})
        /\ who = "detail" =>
             /\ Len(rows) = at' + Len(rest)
             /\ \A i \in 1 .. Len(rest) : rest[i] = rows[at' + i]
             /\ \A i \in 1 .. at' : marks'[i] = rows[i].mark
    BY <2>2, <2>3, <2>4
  <2>. QED BY <2>5 DEF MarksKept, rows
<1>. QED BY <1>2, <1>3, <1>4, <1>5

----------------------------------------------------------------------------
(* What the parser has read *)
LEMMA OneMoreFile ==
  ASSUME NEW who, NEW patch, NEW list, NEW n \in Nat, NEW x,
         FilesKept(who, patch, list, n), SameAs(who, x, FilePatch(patch[n + 1]))
  PROVE  FilesKept(who, patch, Append(list, x), n + 1)
<1>. DEFINE S == {list[i] : i \in 1 .. n} \cup {x}
            more == Append(list, x)
<1>1. list \in Seq(S) /\ Len(list) = n /\ x \in S
  <2>1. list = [i \in 1 .. n |-> list[i]] /\ Len(list) = n
    BY DEF FilesKept
  <2>2. \A i \in 1 .. n : list[i] \in S
    OBVIOUS
  <2>3. x \in S
    OBVIOUS
  <2>. HIDE DEF S
  <2>4. list \in [1 .. n -> S]
    BY <2>1, <2>2
  <2>. QED BY <2>1, <2>3, <2>4
<1>. HIDE DEF S
<1>2. /\ more \in Seq(S) /\ Len(more) = n + 1 /\ more[n + 1] = x
      /\ \A i \in 1 .. n : more[i] = list[i]
  BY <1>1, AppendProperties
<1>. HIDE DEF more
<1>3. more = [i \in 1 .. n + 1 |-> more[i]]
  <2>1. more \in [1 .. n + 1 -> S]
    BY <1>2, LenProperties
  <2>. QED BY <2>1
<1>4. ASSUME NEW i \in 1 .. n + 1 PROVE SameAs(who, more[i], FilePatch(patch[i]))
  <2>1. i = n + 1 \/ i \in 1 .. n
    OBVIOUS
  <2>2. \A k \in 1 .. n : SameAs(who, list[k], FilePatch(patch[k]))
    BY DEF FilesKept
  <2>. QED BY <1>2, <2>1, <2>2
<1>5. FilesKept(who, patch, more, n + 1)
  BY <1>2, <1>3, <1>4 DEF FilesKept
<1>. QED BY <1>5 DEF more

LEMMA OneMoreHunk ==
  ASSUME NEW file \in PrintedFile, NEW h \in DOMAIN file.hunks
  PROVE  Append(HunksRead(file, h - 1), Numbered(file.hunks[h])) = HunksRead(file, h)
<1>. DEFINE f == [i \in 1 .. h |-> Numbered(file.hunks[i])]
            S == {f[i] : i \in 1 .. h}
            list == HunksRead(file, h - 1)
            x == Numbered(file.hunks[h])
            more == Append(list, x)
<1>1. h \in Nat \ {0}
  BY FileTyped, LenProperties
<1>2. /\ \A i \in 1 .. h : f[i] \in S
      /\ \A i \in 1 .. h - 1 : i \in 1 .. h /\ list[i] = f[i]
      /\ list = [i \in 1 .. h - 1 |-> list[i]]
      /\ h \in 1 .. h /\ x = f[h]
  BY <1>1 DEF HunksRead
<1>3. HunksRead(file, h) = f
  BY DEF HunksRead
<1>4. f = [i \in 1 .. h |-> f[i]]
  OBVIOUS
<1>. HIDE DEF f, S, list, x
<1>5. list \in [1 .. h - 1 -> S] /\ f \in [1 .. h -> S] /\ h - 1 \in Nat /\ h \in Nat
  <2>1. h - 1 \in Nat /\ h \in Nat
    BY <1>1
  <2>2. \A i \in 1 .. h - 1 : list[i] \in S
    BY <1>2
  <2>3. list \in [1 .. h - 1 -> S]
    BY ONLY <1>2, <2>2
  <2>4. f \in [1 .. h -> S]
    BY ONLY <1>2, <1>4
  <2>. QED BY <2>1, <2>3, <2>4
<1>6. list \in Seq(S) /\ Len(list) = h - 1 /\ f \in Seq(S) /\ Len(f) = h /\ x \in S
  BY <1>2, <1>5
<1>7. /\ more \in Seq(S) /\ Len(more) = h - 1 + 1 /\ more[h - 1 + 1] = x
      /\ \A i \in 1 .. h - 1 : more[i] = list[i]
  BY <1>6, AppendProperties
<1>8. \A i \in 1 .. h : more[i] = f[i]
  <2>1. h - 1 + 1 = h /\ \A i \in 1 .. h : i = h \/ i \in 1 .. h - 1
    BY <1>1
  <2>. QED BY <1>2, <1>7, <2>1
<1>9. Len(more) = Len(f)
  BY <1>1, <1>6, <1>7
<1>. HIDE DEF more
<1>10. more = f
  BY <1>6, <1>7, <1>8, <1>9, SeqEqual
<1>. QED BY <1>3, <1>10 DEF more, list, x

HeadWith(who, file, x, ahead, hunks) ==
  LET with == [x EXCEPT !.hunks = hunks]
  IN  HeadKept(who, file, with, ahead) /\ with.hunks = hunks

LEMMA HeadWithHunk ==
  ASSUME NEW who, NEW file, NEW x, NEW ahead, NEW z, HeadKept(who, file, x, ahead)
  PROVE  HeadWith(who, file, x, ahead, z)
<1>. DEFINE y == [x EXCEPT !.hunks = z]
<1>1. x = [old |-> x.old, new |-> x.new, similarity |-> x.similarity, moved |-> x.moved,
           added |-> x.added, deleted |-> x.deleted, binary |-> x.binary, hunks |-> x.hunks]
  BY DEF HeadKept, IsHeader
<1>2. y = [old |-> x.old, new |-> x.new, similarity |-> x.similarity, moved |-> x.moved,
           added |-> x.added, deleted |-> x.deleted, binary |-> x.binary, hunks |-> z]
  BY <1>1
<1>. HIDE DEF y
<1>3. /\ y.old = x.old /\ y.new = x.new /\ y.similarity = x.similarity /\ y.moved = x.moved
      /\ y.added = x.added /\ y.deleted = x.deleted /\ y.binary = x.binary /\ y.hunks = z
  BY <1>2
<1>4. IsHeader(y)
  BY <1>2, <1>3 DEF IsHeader
<1>5. HeadKept(who, file, y, ahead)
  BY <1>3, <1>4 DEF HeadKept
<1>. QED BY <1>3, <1>5 DEF HeadWith, y

LEMMA HeadIsSome ==
  ASSUME NEW who, NEW file, NEW x, NEW ahead, HeadKept(who, file, x, ahead)
  PROVE  x # Nothing
<1>1. x = [old |-> x.old, new |-> x.new, similarity |-> x.similarity, moved |-> x.moved,
           added |-> x.added, deleted |-> x.deleted, binary |-> x.binary, hunks |-> x.hunks]
  BY DEF HeadKept, IsHeader
<1>2. DOMAIN x # DOMAIN Nothing
  <2>1. "old" \in DOMAIN x
    BY <1>1
  <2>2. "old" \notin DOMAIN Nothing
    BY DEF Nothing, Bare
  <2>. QED BY <2>1, <2>2
<1>. QED BY <1>2

----------------------------------------------------------------------------
(* Where the parser stands *)
BetweenFiles(who, patch, left, f) ==
  left = FilesRows(who, From(patch, f)) /\ FilesKept(who, patch, FilesRead, f)

LEMMA OutsideIs ==
  ASSUME NEW who \in Printers, NEW patch \in Seq(PrintedFile), NEW left \in Seq(Row),
         Outside(who, patch, left)
  PROVE  \/ \E f \in 0 .. Len(patch) : BetweenFiles(who, patch, left, f)
         \/ \E f \in DOMAIN patch, marker \in Markers(who) :
              \E h \in 0 .. Len(patch[f].hunks), m \in 0 .. Len(MetaRows(who, patch[f])) :
                /\ InHeader(who, patch, left, f, h, m, marker)
                /\ \/ marker # <<>> \/ m < Len(MetaRows(who, patch[f]))
                   \/ m = Len(MetaRows(who, patch[f])) /\ h < Len(patch[f].hunks)
<1>1. CASE header = Nothing /\ FilesKept(who, patch, files, 0) /\ left = FilesRows(who, patch)
  <2>1. 0 \in 0 .. Len(patch)
    BY LenProperties
  <2>2. From(patch, 0) = patch
    BY <2>1, FromNext
  <2>. QED BY <1>1, <2>1, <2>2 DEF BetweenFiles, FilesRead
<1>2. ASSUME NEW f \in DOMAIN patch, NEW marker \in Markers(who),
             NEW h \in 0 .. Len(patch[f].hunks), NEW m \in 0 .. Len(MetaRows(who, patch[f])),
             InHeader(who, patch, left, f, h, m, marker),
             marker = <<>>, m = Len(MetaRows(who, patch[f])), h = Len(patch[f].hunks)
      PROVE  f \in 0 .. Len(patch) /\ BetweenFiles(who, patch, left, f)
  <2>. DEFINE file == patch[f]
  <2>1. f \in 1 .. Len(patch) /\ file \in PrintedFile /\ f - 1 \in Nat /\ f - 1 + 1 = f
    BY LenProperties, ElementOfSeq
  <2>2. left = FilesRows(who, From(patch, f))
    <3>1. HeaderLeftIs(who, patch, f, h, m, marker, HeaderLeft(who, patch, f, h, m, marker))
      BY HeaderLeftFirst
    <3>. QED BY <1>2, <3>1 DEF HeaderLeftIs, InHeader
  <2>3. HeadKept(who, file, header, {})
    BY <1>2, <2>1, MetaRowSays DEF InHeader
  <2>4. SameAs(who, Closed(header), FilePatch(file))
    <3>1. header.hunks = HunksRead(file, Len(file.hunks))
      BY <1>2 DEF InHeader
    <3>. HIDE DEF file
    <3>. QED BY <2>1, <2>3, <3>1, HeadCloses
  <2>5. FilesRead = Append(files, Closed(header)) /\ FilesKept(who, patch, files, f - 1)
    BY <1>2 DEF InHeader, FilesRead
  <2>6. FilesKept(who, patch, FilesRead, f)
    BY <2>1, <2>4, <2>5, OneMoreFile
  <2>. QED BY <2>1, <2>2, <2>6 DEF BetweenFiles
<1>3. ASSUME NEW f \in DOMAIN patch, NEW h \in 0 .. Len(patch[f].hunks),
             NEW m \in 0 .. Len(MetaRows(who, patch[f]))
      PROVE  /\ m < Len(MetaRows(who, patch[f])) \/ m = Len(MetaRows(who, patch[f]))
             /\ h < Len(patch[f].hunks) \/ h = Len(patch[f].hunks)
  <2>1. patch[f] \in PrintedFile
    BY LenProperties, ElementOfSeq
  <2>2. Len(MetaRows(who, patch[f])) \in Nat /\ Len(patch[f].hunks) \in Nat
    BY <2>1, FileRowsAre, FileTyped, LenProperties
  <2>. QED BY <2>2
<1>4. CASE \E f \in DOMAIN patch, marker \in Markers(who) :
             \E h \in 0 .. Len(patch[f].hunks), m \in 0 .. Len(MetaRows(who, patch[f])) :
               InHeader(who, patch, left, f, h, m, marker)
  <2>1. PICK f \in DOMAIN patch, marker \in Markers(who) :
          \E h \in 0 .. Len(patch[f].hunks), m \in 0 .. Len(MetaRows(who, patch[f])) :
            InHeader(who, patch, left, f, h, m, marker)
    BY <1>4
  <2>2. PICK h \in 0 .. Len(patch[f].hunks), m \in 0 .. Len(MetaRows(who, patch[f])) :
          InHeader(who, patch, left, f, h, m, marker)
    BY <2>1
  <2>3. CASE marker = <<>> /\ m = Len(MetaRows(who, patch[f])) /\ h = Len(patch[f].hunks)
    BY <1>2, <2>2, <2>3
  <2>4. CASE ~(marker = <<>> /\ m = Len(MetaRows(who, patch[f])) /\ h = Len(patch[f].hunks))
    BY <1>3, <2>2, <2>4
  <2>. QED BY <2>3, <2>4
<1>. QED BY <1>1, <1>4 DEF Outside

(* The row that comes next, at each place. *)
LEMMA RowAtMarker ==
  ASSUME NEW who \in Printers, NEW patch \in Seq(PrintedFile), NEW left,
         NEW f \in DOMAIN patch, NEW marker \in Markers(who), marker # <<>>,
         NEW h \in 0 .. Len(patch[f].hunks), NEW m \in 0 .. Len(MetaRows(who, patch[f])),
         InHeader(who, patch, left, f, h, m, marker)
  PROVE  /\ StartsWith(left, Bare("no newline"), HeaderLeft(who, patch, f, h, m, <<>>))
         /\ Says(who, Bare("no newline"), Bare("no newline"), "none")
         /\ Bare("no newline").k = "no newline" /\ afterHunk
<1>1. HeaderLeftIs(who, patch, f, h, m, marker, HeaderLeft(who, patch, f, h, m, marker))
  BY HeaderLeftFirst
<1>. QED BY <1>1, MarkerSays DEF HeaderLeftIs, InHeader

LEMMA RowAtMeta ==
  ASSUME NEW who \in Printers, NEW patch \in Seq(PrintedFile), NEW left,
         NEW f \in DOMAIN patch, NEW h \in 0 .. Len(patch[f].hunks),
         NEW m \in 0 .. Len(MetaRows(who, patch[f])), m < Len(MetaRows(who, patch[f])),
         InHeader(who, patch, left, f, h, m, <<>>)
  PROVE  /\ StartsWith(left, MetaRows(who, patch[f])[m + 1], HeaderLeft(who, patch, f, h, m + 1, <<>>))
         /\ m + 1 \in 0 .. Len(MetaRows(who, patch[f])) /\ header # Nothing
         /\ \E line \in PatchLine :
              /\ Says(who, MetaRows(who, patch[f])[m + 1], line, "none") /\ line.k \in HeaderKind
              /\ HeadKept(who, patch[f], header,
                          {line} \cup LinesOf(who, From(MetaRows(who, patch[f]), m + 1)))
<1>1. patch[f] \in PrintedFile
  BY LenProperties, ElementOfSeq
<1>2. <<>> \in Markers(who)
  BY DEF Markers
<1>3. HeaderLeftIs(who, patch, f, h, m, <<>>, HeaderLeft(who, patch, f, h, m, <<>>))
  BY <1>2, HeaderLeftFirst
<1>4. Len(MetaRows(who, patch[f])) \in Nat
  BY <1>1, FileRowsAre, LenProperties
<1>5. \E line \in PatchLine :
        /\ Says(who, MetaRows(who, patch[f])[m + 1], line, "none") /\ line.k \in HeaderKind
        /\ LinesOf(who, From(MetaRows(who, patch[f]), m))
             = {line} \cup LinesOf(who, From(MetaRows(who, patch[f]), m + 1))
  BY <1>1, MetaRowSays
<1>6. HeadKept(who, patch[f], header, LinesOf(who, From(MetaRows(who, patch[f]), m)))
      /\ header # Nothing /\ left = HeaderLeft(who, patch, f, h, m, <<>>)
  BY DEF InHeader
<1>7. m + 1 \in 0 .. Len(MetaRows(who, patch[f]))
  BY <1>4
<1>8. StartsWith(left, MetaRows(who, patch[f])[m + 1], HeaderLeft(who, patch, f, h, m + 1, <<>>))
  BY <1>3, <1>6 DEF HeaderLeftIs
<1>9. \E line \in PatchLine :
        /\ Says(who, MetaRows(who, patch[f])[m + 1], line, "none") /\ line.k \in HeaderKind
        /\ HeadKept(who, patch[f], header,
                    {line} \cup LinesOf(who, From(MetaRows(who, patch[f]), m + 1)))
  BY <1>5, <1>6
<1>. QED BY <1>6, <1>7, <1>8, <1>9

LEMMA RowAtHunk ==
  ASSUME NEW who \in Printers, NEW patch \in Seq(PrintedFile), NEW left,
         NEW f \in DOMAIN patch, NEW h \in 0 .. Len(patch[f].hunks), h < Len(patch[f].hunks),
         InHeader(who, patch, left, f, h, Len(MetaRows(who, patch[f])), <<>>)
  PROVE  /\ StartsWith(left, HunkRow(who, patch[f].hunks[h + 1]),
                       HunkLeft(who, patch, f, h + 1, 0, <<>>))
         /\ Says(who, HunkRow(who, patch[f].hunks[h + 1]),
                 HunkLine(Numbered(patch[f].hunks[h + 1])), "none")
         /\ HunkLine(Numbered(patch[f].hunks[h + 1])).k = "hunk"
         /\ patch[f].hunks[h + 1] \in PrintedHunk /\ h + 1 \in DOMAIN patch[f].hunks
         /\ h + 1 - 1 = h /\ header # Nothing /\ HeadKept(who, patch[f], header, {})
<1>1. patch[f] \in PrintedFile
  BY LenProperties, ElementOfSeq
<1>2. <<>> \in Markers(who)
  BY DEF Markers
<1>3. Len(MetaRows(who, patch[f])) \in 0 .. Len(MetaRows(who, patch[f]))
  BY <1>1, FileRowsAre, LenProperties
<1>4. HeaderLeftIs(who, patch, f, h, Len(MetaRows(who, patch[f])), <<>>,
                   HeaderLeft(who, patch, f, h, Len(MetaRows(who, patch[f])), <<>>))
  BY <1>2, <1>3, HeaderLeftFirst
<1>5. h + 1 \in DOMAIN patch[f].hunks /\ h + 1 - 1 = h
  BY <1>1, FileTyped, LenProperties
<1>6. patch[f].hunks[h + 1] \in PrintedHunk
  BY <1>1, <1>5, FileTyped, BodyTyped
<1>7. HeadKept(who, patch[f], header, {}) /\ header # Nothing
  BY <1>1, <1>3, MetaRowSays DEF InHeader
<1>8. left = HeaderLeft(who, patch, f, h, Len(MetaRows(who, patch[f])), <<>>)
  BY DEF InHeader
<1>. QED BY <1>4, <1>5, <1>6, <1>7, <1>8, HunkRowSays DEF HeaderLeftIs

LEMMA RowAtFile ==
  ASSUME NEW who \in Printers, NEW patch \in Seq(PrintedFile), NEW left,
         NEW f \in 0 .. Len(patch), BetweenFiles(who, patch, left, f)
  PROVE  /\ f = Len(patch) => left = <<>>
         /\ f < Len(patch) =>
              /\ StartsWith(left, HeaderRow(who, patch[f + 1]), HeaderLeft(who, patch, f + 1, 0, 0, <<>>))
              /\ Says(who, HeaderRow(who, patch[f + 1]), HeaderLine(patch[f + 1]), "none")
              /\ HeaderLine(patch[f + 1]).k = "diff"
              /\ patch[f + 1] \in PrintedFile /\ f + 1 \in DOMAIN patch /\ f + 1 - 1 = f
         /\ f < Len(patch) \/ f = Len(patch)
<1>1. FilesLeftIs(who, patch, f, FilesRows(who, From(patch, f)))
  BY FilesLeftFirst
<1>2. Len(patch) \in Nat
  BY LenProperties
<1>3. ASSUME f < Len(patch)
      PROVE  patch[f + 1] \in PrintedFile /\ f + 1 \in DOMAIN patch /\ f + 1 - 1 = f
  <2>1. f + 1 \in 1 .. Len(patch) /\ f + 1 - 1 = f
    BY <1>2, <1>3
  <2>. QED BY <2>1, LenProperties, ElementOfSeq
<1>. QED BY <1>1, <1>2, <1>3, HeaderRowSays DEF FilesLeftIs, BetweenFiles

LEMMA RowInHunk ==
  ASSUME NEW who \in Printers, NEW patch \in Seq(PrintedFile), NEW left,
         NEW f \in DOMAIN patch, NEW marker \in Markers(who), NEW h \in DOMAIN patch[f].hunks,
         NEW n \in 0 .. Len(patch[f].hunks[h].body),
         InHunk(who, patch, left, f, h, n, marker)
  PROVE  /\ marker # <<>> =>
              /\ StartsWith(left, Bare("no newline"), HunkLeft(who, patch, f, h, n, <<>>))
              /\ Says(who, Bare("no newline"), Bare("no newline"), "none")
              /\ Bare("no newline").k = "no newline"
         /\ marker = <<>> =>
              /\ StartsWith(left, LineRow(who, patch[f].hunks[h].body[n + 1]),
                            HunkLeft(who, patch, f, h, n + 1,
                                     LineMarker(who, patch[f].hunks[h].body[n + 1])))
              /\ patch[f].hunks[h].body[n + 1] \in PrintedLine
         /\ left # <<>> /\ body # Nothing /\ header # Nothing
         /\ patch[f] \in PrintedFile /\ patch[f].hunks[h] \in PrintedHunk
         /\ n < Len(patch[f].hunks[h].body) /\ n + 1 \in 0 .. Len(patch[f].hunks[h].body)
<1>1. patch[f] \in PrintedFile
  BY LenProperties, ElementOfSeq
<1>2. /\ patch[f].hunks[h] \in PrintedHunk /\ patch[f].hunks[h].body \in Seq(PrintedLine)
      /\ Len(patch[f].hunks[h].body) \in Nat
  BY <1>1, FileTyped, BodyTyped
<1>3. /\ n < Len(patch[f].hunks[h].body) /\ body # Nothing /\ header # Nothing
      /\ left = HunkLeft(who, patch, f, h, n, marker)
  BY BodyAtIs DEF InHunk
<1>4. HunkLeftIs(who, patch, f, h, n, marker, HunkLeft(who, patch, f, h, n, marker))
  BY HunkLeftFirst
<1>5. n + 1 \in 1 .. Len(patch[f].hunks[h].body) /\ n + 1 \in 0 .. Len(patch[f].hunks[h].body)
  BY <1>2, <1>3
<1>6. patch[f].hunks[h].body[n + 1] \in PrintedLine
  BY <1>2, <1>5, ElementOfSeq
<1>7. marker # <<>> => StartsWith(left, Bare("no newline"), HunkLeft(who, patch, f, h, n, <<>>))
  BY <1>3, <1>4 DEF HunkLeftIs
<1>8. marker = <<>> =>
        StartsWith(left, LineRow(who, patch[f].hunks[h].body[n + 1]),
                   HunkLeft(who, patch, f, h, n + 1, LineMarker(who, patch[f].hunks[h].body[n + 1])))
  BY <1>3, <1>4 DEF HunkLeftIs
<1>9. left # <<>>
  BY <1>7, <1>8 DEF StartsWith
<1>. QED BY <1>1, <1>2, <1>3, <1>5, <1>6, <1>7, <1>8, <1>9, MarkerSays

----------------------------------------------------------------------------
(* What the parser does with each line *)
Decides(k) ==
  /\ body = Nothing /\ k = "diff" => StartFile
  /\ body = Nothing /\ k = "foreign" => Refuse
  /\ body = Nothing /\ k = "no newline" /\ afterHunk => SkipMarker
  /\ body = Nothing /\ k \in HeaderKind /\ header # Nothing => ReadHeaderLine
  /\ body = Nothing /\ k = "hunk" /\ header # Nothing => StartHunk
  /\ body # Nothing /\ k = "no newline" => SkipMarker
  /\ body # Nothing /\ k \in BodyKind /\ Remains(Current) => ReadBodyLine

LEMMA LineDecides ==
  ASSUME PatchNext, Reading, at \in Nat, Len(text) \in Nat
  PROVE  Decides(Current.k)
<1>. DEFINE k == Current.k
<1>1. ~Finish
  BY DEF Finish, Reading
<1>2. /\ StartFile => body = Nothing /\ k = "diff"
      /\ ReadHeaderLine => body = Nothing /\ k \in HeaderKind
      /\ StartHunk => body = Nothing /\ k = "hunk"
      /\ ReadBodyLine => body # Nothing /\ k \in BodyKind
      /\ SkipMarker => k = "no newline"
      /\ Refuse /\ body = Nothing => /\ k # "diff" /\ (k = "no newline" => ~afterHunk)
                                     /\ k \in HeaderKind \cup {"hunk"} => header = Nothing
      /\ Refuse /\ body # Nothing => k # "no newline" /\ ~(k \in BodyKind /\ Remains(Current))
  BY DEF StartFile, ReadHeaderLine, StartHunk, ReadBodyLine, SkipMarker, Refuse
<1>3. StartFile \/ ReadHeaderLine \/ StartHunk \/ ReadBodyLine \/ SkipMarker \/ Refuse
  BY <1>1 DEF PatchNext
<1>. HIDE DEF k
<1>4. /\ "diff" \notin HeaderKind /\ "hunk" \notin HeaderKind /\ "no newline" \notin HeaderKind
      /\ "foreign" \notin HeaderKind
      /\ "no newline" \notin BodyKind
  BY DEF HeaderKind, BodyKind
<1>5. Decides(k)
  BY <1>2, <1>3, <1>4 DEF Decides
<1>. QED BY <1>5 DEF k

(* The end of the text is the only time the parser ends by itself. *)
LEMMA EndDecides ==
  ASSUME PatchNext, outcome = "reading", ~(at < Len(text))
  PROVE  Finish
BY DEF PatchNext, StartFile, ReadHeaderLine, StartHunk, ReadBodyLine, SkipMarker, Refuse, Reading

LEMMA TextIsLong ==
  ASSUME NEW who \in Printers, NEW left \in Seq(Row), Due(who, left)
  PROVE  at \in Nat /\ Len(text) \in Nat
<1>1. PICK n \in 0 .. Len(left) :
        /\ who \in {"git", "detail"} => Len(text) = at + n
        /\ who = "configured" => Len(text) = at + n + 1
        /\ who = "cut" => Len(text) = at + n
  BY DEF Due
<1>2. at \in Nat
  BY DEF Due
<1>. QED BY <1>1, <1>2 DEF Printers

(* The parser reads on. *)
Going(who, patch, rest) ==
  /\ outcome = "reading" /\ printer = who /\ subject = patch /\ Parsing(who, patch, rest)

LEMMA StartKept ==
  ASSUME NEW who \in Printers, NEW patch \in Seq(PrintedFile), NEW left \in Seq(Row),
         printer = who, subject = patch, Due(who, left), MarksKept(who, patch, left), Reading,
         NEW f \in 0 .. Len(patch), BetweenFiles(who, patch, left, f), body = Nothing,
         f < Len(patch), PatchNext
  PROVE  \E rest \in Seq(Row) : Going(who, patch, rest)'
<1>. DEFINE file == patch[f + 1]
            row == HeaderRow(who, file)
            line == HeaderLine(file)
            rest == HeaderLeft(who, patch, f + 1, 0, 0, <<>>)
<1>1. /\ StartsWith(left, row, rest) /\ Says(who, row, line, "none") /\ line.k = "diff"
      /\ file \in PrintedFile /\ f + 1 \in DOMAIN patch /\ f + 1 - 1 = f
  BY RowAtFile
<1>2. rest \in Seq(Row) /\ Current = line /\ (Consume("none") => Due(who, rest)' /\ MarksKept(who, patch, rest)')
  <2>. HIDE DEF row, line, rest
  <2>. QED BY <1>1, RowTaken
<1>3. StartFile
  <2>1. Decides(Current.k)
    BY TextIsLong, LineDecides
  <2>. QED BY <1>1, <1>2, <2>1 DEF Decides
<1>4. /\ Consume("none") /\ files' = FilesRead /\ header' = NewHeader(line) /\ body' = Nothing
      /\ outcome' = "reading" /\ printer' = who /\ subject' = patch
  BY <1>2, <1>3 DEF StartFile, Consume, Reading, subject
<1>5. /\ 0 \in 0 .. Len(file.hunks) /\ 0 \in 0 .. Len(MetaRows(who, file)) /\ <<>> \in Markers(who)
  BY <1>1, FileTyped, FileRowsAre, LenProperties DEF Markers
<1>6. HeadKept(who, file, NewHeader(line), LinesOf(who, From(MetaRows(who, file), 0)))
      /\ NewHeader(line).hunks = <<>>
  <2>1. LinesOf(who, From(MetaRows(who, file), 0)) = MetaSet(who, file)
    <3>. HIDE DEF file
    <3>. QED BY <1>1, <1>5, MetaRowSays
  <2>2. HeadKept(who, file, NewHeader(line), MetaSet(who, file)) /\ NewHeader(line).hunks = <<>>
    <3>. HIDE DEF file
    <3>. QED BY <1>1, HeadStarts
  <2>. QED BY <2>1, <2>2
<1>7. NewHeader(line) # Nothing
  BY <1>6, HeadIsSome
<1>8. HunksRead(file, 0) = <<>>
  BY DEF HunksRead
<1>9. FilesKept(who, patch, FilesRead, f)
  BY DEF BetweenFiles
<1>10. InHeader(who, patch, rest, f + 1, 0, 0, <<>>)'
  BY <1>1, <1>4, <1>6, <1>7, <1>8, <1>9 DEF InHeader
<1>. HIDE DEF rest, file
<1>11. Outside(who, patch, rest)'
  BY <1>1, <1>4, <1>5, <1>10 DEF Outside, file
<1>12. Going(who, patch, rest)'
  BY <1>2, <1>4, <1>11 DEF Going, Parsing
<1>. QED BY <1>2, <1>12

LEMMA RefuseKept ==
  ASSUME NEW who \in Printers, NEW patch \in Seq(PrintedFile), NEW left \in Seq(Row),
         printer = who, Due(who, left), Reading, left = <<>>, body = Nothing, PatchNext
  PROVE  PatchSurvivesText' /\ outcome' # "reading"
<1>1. who = "configured" /\ Current = Bare("foreign")
  BY RowIsNext
<1>2. Refuse
  <2>1. Decides(Current.k)
    BY TextIsLong, LineDecides
  <2>2. Current.k = "foreign"
    BY <1>1 DEF Bare
  <2>. QED BY <2>1, <2>2 DEF Decides
<1>3. outcome' = "malformed" /\ printer' = "configured"
  BY <1>1, <1>2 DEF Refuse
<1>. QED BY <1>3 DEF PatchSurvivesText

LEMMA HeaderKeptOn ==
  ASSUME NEW who \in Printers, NEW patch \in Seq(PrintedFile), NEW left \in Seq(Row),
         printer = who, subject = patch, Due(who, left), MarksKept(who, patch, left), Reading,
         NEW f \in DOMAIN patch, NEW h \in 0 .. Len(patch[f].hunks),
         NEW m \in 0 .. Len(MetaRows(who, patch[f])), m < Len(MetaRows(who, patch[f])),
         InHeader(who, patch, left, f, h, m, <<>>), body = Nothing, PatchNext
  PROVE  \E rest \in Seq(Row) : Going(who, patch, rest)'
<1>. DEFINE meta == MetaRows(who, patch[f])
            row == meta[m + 1]
            rest == HeaderLeft(who, patch, f, h, m + 1, <<>>)
            later == LinesOf(who, From(meta, m + 1))
<1>1. /\ StartsWith(left, row, rest) /\ m + 1 \in 0 .. Len(meta) /\ header # Nothing
      /\ \E line \in PatchLine :
           /\ Says(who, row, line, "none") /\ line.k \in HeaderKind
           /\ HeadKept(who, patch[f], header, {line} \cup later)
  BY RowAtMeta
<1>2. PICK line \in PatchLine : /\ Says(who, row, line, "none") /\ line.k \in HeaderKind
                                /\ HeadKept(who, patch[f], header, {line} \cup later)
  BY <1>1
<1>3. rest \in Seq(Row) /\ Current = line /\ (Consume("none") => Due(who, rest)' /\ MarksKept(who, patch, rest)')
  <2>. HIDE DEF row, rest
  <2>. QED BY <1>1, <1>2, RowTaken
<1>4. ReadHeaderLine
  <2>1. Decides(Current.k)
    BY TextIsLong, LineDecides
  <2>. QED BY <1>1, <1>2, <1>3, <2>1 DEF Decides
<1>5. /\ Consume("none") /\ files' = files /\ header' = WithLine(header, line) /\ body' = Nothing
      /\ outcome' = "reading" /\ printer' = who /\ subject' = patch
  BY <1>3, <1>4 DEF ReadHeaderLine, Consume, Reading, subject
<1>6. /\ HeadKept(who, patch[f], WithLine(header, line), later)
      /\ WithLine(header, line).hunks = header.hunks
  <2>. DEFINE file == patch[f]
  <2>1. HeadKept(who, file, header, {line} \cup later) /\ line.k \in HeaderKind
    BY <1>2
  <2>. HIDE DEF later, file
  <2>2. HeadKept(who, file, WithLine(header, line), later) /\ WithLine(header, line).hunks = header.hunks
    BY ONLY <2>1, HeadReads
  <2>. QED BY <2>2 DEF file
<1>7. WithLine(header, line) # Nothing
  BY <1>6, HeadIsSome
<1>8. FilesKept(who, patch, files, f - 1) /\ header.hunks = HunksRead(patch[f], h)
  BY DEF InHeader
<1>9. InHeader(who, patch, rest, f, h, m + 1, <<>>)'
  BY <1>5, <1>6, <1>7, <1>8 DEF InHeader
<1>10. <<>> \in Markers(who)
  BY DEF Markers
<1>. HIDE DEF rest, later
<1>11. Outside(who, patch, rest)'
  BY <1>1, <1>5, <1>9, <1>10 DEF Outside
<1>12. Going(who, patch, rest)'
  BY <1>3, <1>5, <1>11 DEF Going, Parsing
<1>. QED BY <1>3, <1>12

LEMMA OpenKept ==
  ASSUME NEW who \in Printers, NEW patch \in Seq(PrintedFile), NEW left \in Seq(Row),
         printer = who, subject = patch, Due(who, left), MarksKept(who, patch, left), Reading,
         NEW f \in DOMAIN patch, NEW h \in 0 .. Len(patch[f].hunks), h < Len(patch[f].hunks),
         InHeader(who, patch, left, f, h, Len(MetaRows(who, patch[f])), <<>>), body = Nothing,
         PatchNext
  PROVE  \E rest \in Seq(Row) : Going(who, patch, rest)'
<1>. DEFINE hunk == patch[f].hunks[h + 1]
            row == HunkRow(who, hunk)
            line == HunkLine(Numbered(hunk))
            rest == HunkLeft(who, patch, f, h + 1, 0, <<>>)
<1>1. /\ StartsWith(left, row, rest) /\ Says(who, row, line, "none") /\ line.k = "hunk"
      /\ hunk \in PrintedHunk /\ h + 1 \in DOMAIN patch[f].hunks
      /\ h + 1 - 1 = h /\ header # Nothing /\ HeadKept(who, patch[f], header, {})
  BY RowAtHunk
<1>2. rest \in Seq(Row) /\ Current = line /\ (Consume("none") => Due(who, rest)' /\ MarksKept(who, patch, rest)')
  <2>. HIDE DEF row, line, rest
  <2>. QED BY <1>1, RowTaken
<1>3. StartHunk
  <2>1. Decides(Current.k)
    BY TextIsLong, LineDecides
  <2>. QED BY <1>1, <1>2, <2>1 DEF Decides
<1>4. /\ Consume("none") /\ files' = files /\ header' = header /\ body' = OpenHunk(line)
      /\ outcome' = "reading" /\ printer' = who /\ subject' = patch
  BY <1>2, <1>3 DEF StartHunk, Consume, Reading, subject
<1>5. body' = BodyAt(hunk, 0)
  <2>1. OpenHunk(line) = BodyAt(hunk, 0)
    <3>. HIDE DEF hunk
    <3>. QED BY <1>1, HunkOpens
  <2>. QED BY <1>4, <2>1
<1>6. 0 < Len(hunk.body) /\ 0 \in 0 .. Len(hunk.body)
  <2>1. hunk.body \in Seq(PrintedLine) /\ hunk.body # <<>>
    BY <1>1 DEF PrintedHunk, PrintedLine
  <2>. HIDE DEF hunk
  <2>2. Len(hunk.body) \in Nat \ {0}
    BY <2>1, EmptySeq, LenProperties
  <2>. QED BY <2>2
<1>7. FilesKept(who, patch, files, f - 1) /\ header.hunks = HunksRead(patch[f], h)
  BY DEF InHeader
<1>8. InHunk(who, patch, rest, f, h + 1, 0, <<>>)'
  BY <1>1, <1>4, <1>5, <1>6, <1>7 DEF InHunk
<1>9. <<>> \in Markers(who)
  BY DEF Markers
<1>. HIDE DEF rest
<1>10. Inside(who, patch, rest)'
  BY <1>1, <1>6, <1>8, <1>9 DEF Inside
<1>11. Going(who, patch, rest)'
  BY <1>2, <1>4, <1>10 DEF Going, Parsing
<1>. QED BY <1>2, <1>11

LEMMA SkipOutsideKept ==
  ASSUME NEW who \in Printers, NEW patch \in Seq(PrintedFile), NEW left \in Seq(Row),
         printer = who, subject = patch, Due(who, left), MarksKept(who, patch, left), Reading,
         NEW f \in DOMAIN patch, NEW marker \in Markers(who), marker # <<>>,
         NEW h \in 0 .. Len(patch[f].hunks), NEW m \in 0 .. Len(MetaRows(who, patch[f])),
         InHeader(who, patch, left, f, h, m, marker), body = Nothing, PatchNext
  PROVE  \E rest \in Seq(Row) : Going(who, patch, rest)'
<1>. DEFINE row == Bare("no newline")
            rest == HeaderLeft(who, patch, f, h, m, <<>>)
<1>1. StartsWith(left, row, rest) /\ Says(who, row, row, "none") /\ row.k = "no newline" /\ afterHunk
  BY RowAtMarker
<1>2. rest \in Seq(Row) /\ Current = row /\ (Consume("none") => Due(who, rest)' /\ MarksKept(who, patch, rest)')
  <2>. HIDE DEF row, rest
  <2>. QED BY <1>1, RowTaken
<1>3. SkipMarker
  <2>1. Decides(Current.k)
    BY TextIsLong, LineDecides
  <2>. QED BY <1>1, <1>2, <2>1 DEF Decides
<1>4. /\ Consume("none") /\ files' = files /\ header' = header /\ body' = Nothing
      /\ outcome' = "reading" /\ printer' = who /\ subject' = patch
  BY <1>3 DEF SkipMarker, Consume, Reading, subject
<1>5. InHeader(who, patch, rest, f, h, m, <<>>)'
  BY <1>4 DEF InHeader
<1>6. <<>> \in Markers(who)
  BY DEF Markers
<1>. HIDE DEF rest
<1>7. Outside(who, patch, rest)'
  BY <1>4, <1>5, <1>6 DEF Outside
<1>8. Going(who, patch, rest)'
  BY <1>2, <1>4, <1>7 DEF Going, Parsing
<1>. QED BY <1>2, <1>8

LEMMA SkipInsideKept ==
  ASSUME NEW who \in Printers, NEW patch \in Seq(PrintedFile), NEW left \in Seq(Row),
         printer = who, subject = patch, Due(who, left), MarksKept(who, patch, left), Reading,
         NEW f \in DOMAIN patch, NEW marker \in Markers(who), marker # <<>>,
         NEW h \in DOMAIN patch[f].hunks, NEW n \in 0 .. Len(patch[f].hunks[h].body),
         InHunk(who, patch, left, f, h, n, marker), PatchNext
  PROVE  \E rest \in Seq(Row) : Going(who, patch, rest)'
<1>. DEFINE row == Bare("no newline")
            rest == HunkLeft(who, patch, f, h, n, <<>>)
<1>1. /\ StartsWith(left, row, rest) /\ Says(who, row, row, "none") /\ row.k = "no newline"
      /\ body # Nothing
  BY RowInHunk
<1>2. rest \in Seq(Row) /\ Current = row /\ (Consume("none") => Due(who, rest)' /\ MarksKept(who, patch, rest)')
  <2>. HIDE DEF row, rest
  <2>. QED BY <1>1, RowTaken
<1>3. SkipMarker
  <2>1. Decides(Current.k)
    BY TextIsLong, LineDecides
  <2>. QED BY <1>1, <1>2, <2>1 DEF Decides
<1>4. /\ Consume("none") /\ files' = files /\ header' = header /\ body' = body
      /\ outcome' = "reading" /\ printer' = who /\ subject' = patch
  BY <1>3 DEF SkipMarker, Consume, Reading, subject
<1>5. InHunk(who, patch, rest, f, h, n, <<>>)'
  BY <1>4 DEF InHunk
<1>6. <<>> \in Markers(who)
  BY DEF Markers
<1>. HIDE DEF rest
<1>7. Inside(who, patch, rest)'
  BY <1>5, <1>6 DEF Inside
<1>8. Going(who, patch, rest)'
  BY <1>2, <1>4, <1>7 DEF Going, Parsing
<1>. QED BY <1>2, <1>8

LEMMA BodyKeptOn ==
  ASSUME NEW who \in Printers, NEW patch \in Seq(PrintedFile), NEW left \in Seq(Row),
         printer = who, subject = patch, Due(who, left), MarksKept(who, patch, left), Reading,
         NEW f \in DOMAIN patch, NEW h \in DOMAIN patch[f].hunks,
         NEW n \in 0 .. Len(patch[f].hunks[h].body),
         InHunk(who, patch, left, f, h, n, <<>>), PatchNext
  PROVE  \E rest \in Seq(Row) : Going(who, patch, rest)'
<1>. DEFINE hunk == patch[f].hunks[h]
            printed == hunk.body[n + 1]
            row == LineRow(who, printed)
            line == BodyLine(printed.origin, printed.content)
            marker == LineMarker(who, printed)
            rest == HunkLeft(who, patch, f, h, n + 1, marker)
            mark == MarkOf(printed.origin)
<1>1. /\ StartsWith(left, row, rest) /\ printed \in PrintedLine
      /\ body # Nothing /\ header # Nothing /\ patch[f] \in PrintedFile /\ hunk \in PrintedHunk
      /\ n < Len(hunk.body) /\ n + 1 \in 0 .. Len(hunk.body)
  <2>1. <<>> \in Markers(who)
    BY DEF Markers
  <2>. QED BY <2>1, RowInHunk
<1>2. /\ Says(who, row, line, mark) /\ mark \in {"none", "addition", "deletion"}
      /\ marker \in Markers(who)
  <2>. HIDE DEF printed
  <2>. QED BY <1>1, LineRowSays
<1>3. /\ rest \in Seq(Row) /\ Current = line
      /\ Consume(mark) => Due(who, rest)' /\ MarksKept(who, patch, rest)'
  <2>. HIDE DEF row, line, rest, mark
  <2>. QED BY <1>1, <1>2, RowTaken
<1>4. body = BodyAt(hunk, n) /\ n \in 0 .. Len(hunk.body)
  BY DEF InHunk
<1>5. /\ line.k \in BodyKind /\ Origin(line) = printed.origin
      /\ OnSide(line, "old") => body.oldLeft > 0
      /\ OnSide(line, "new") => body.newLeft > 0
  <2>. HIDE DEF hunk
  <2>. QED BY <1>1, <1>4, NextOfBody
<1>6. ReadBodyLine
  <2>1. Decides(Current.k)
    BY TextIsLong, LineDecides
  <2>2. Remains(Current)
    BY <1>3, <1>5 DEF Remains
  <2>. QED BY <1>1, <1>3, <1>5, <2>1, <2>2 DEF Decides
<1>7. WithBody(body, line) = BodyAt(hunk, n + 1)
  <2>. HIDE DEF hunk
  <2>. QED BY <1>1, <1>4, BodyReads
<1>. DEFINE read == BodyAt(hunk, n + 1)
<1>8. /\ Consume(mark) /\ files' = files
      /\ outcome' = "reading" /\ printer' = who /\ subject' = patch
      /\ IF read.oldLeft = 0 /\ read.newLeft = 0
         THEN /\ header' = [header EXCEPT !.hunks = Append(header.hunks, HunkRead(read))]
              /\ body' = Nothing /\ afterHunk' = TRUE
         ELSE body' = read /\ header' = header /\ afterHunk' = afterHunk
  <2>1. mark = IF Origin(Current) = "context" THEN "none" ELSE Origin(Current)
    BY <1>3, <1>5 DEF MarkOf
  <2>2. WithBody(body, Current) = read
    BY <1>3, <1>7
  <2>. HIDE DEF read, mark
  <2>3. Consume(mark) /\ files' = files
    BY <1>6, <2>1 DEF ReadBodyLine
  <2>4. IF read.oldLeft = 0 /\ read.newLeft = 0
        THEN /\ header' = [header EXCEPT !.hunks = Append(header.hunks, HunkRead(read))]
             /\ body' = Nothing /\ afterHunk' = TRUE
        ELSE body' = read /\ header' = header /\ afterHunk' = afterHunk
    BY <1>6, <2>2 DEF ReadBodyLine
  <2>5. outcome' = "reading" /\ printer' = who /\ subject' = patch
    BY <2>3 DEF Consume, Reading, subject
  <2>. QED BY <2>3, <2>4, <2>5
<1>9. read.oldLeft = 0 /\ read.newLeft = 0 <=> n + 1 = Len(hunk.body)
  <2>. HIDE DEF hunk
  <2>. QED BY <1>1, BodyEnds
<1>10. /\ FilesKept(who, patch, files, f - 1) /\ HeadKept(who, patch[f], header, {})
       /\ header.hunks = HunksRead(patch[f], h - 1)
  BY DEF InHunk
<1>11. CASE n + 1 = Len(hunk.body)
  <2>. DEFINE z == Append(header.hunks, HunkRead(read))
              x == [header EXCEPT !.hunks = z]
  <2>1. header' = x /\ body' = Nothing /\ afterHunk' = TRUE
    BY <1>8, <1>9, <1>11
  <2>2. HunkRead(read) = Numbered(hunk)
    <3>. HIDE DEF hunk
    <3>. QED BY <1>1, <1>11, BodyEnds
  <2>3. z = HunksRead(patch[f], h)
    BY <1>1, <1>10, <2>2, OneMoreHunk
  <2>4. HeadKept(who, patch[f], x, {}) /\ x.hunks = z
    <3>. HIDE DEF z
    <3>1. HeadWith(who, patch[f], header, {}, z)
      BY <1>10, HeadWithHunk
    <3>. QED BY <3>1 DEF HeadWith
  <2>. HIDE DEF x, z
  <2>5. x # Nothing
    BY <2>4, HeadIsSome
  <2>6. Len(MetaRows(who, patch[f])) \in 0 .. Len(MetaRows(who, patch[f]))
    BY <1>1, FileRowsAre, LenProperties
  <2>7. HeadKept(who, patch[f], x, LinesOf(who, From(MetaRows(who, patch[f]), Len(MetaRows(who, patch[f])))))
    <3>1. LinesOf(who, From(MetaRows(who, patch[f]), Len(MetaRows(who, patch[f])))) = {}
      BY <1>1, <2>6, MetaRowSays
    <3>. QED BY <2>4, <3>1
  <2>8. rest = HeaderLeft(who, patch, f, h, Len(MetaRows(who, patch[f])), marker)
    <3>. HIDE DEF marker
    <3>. QED BY <1>2, <1>11, HunkLeftLast
  <2>9. h \in 0 .. Len(patch[f].hunks)
    BY <1>1, FileTyped, BodyTyped
  <2>. HIDE DEF rest, marker
  <2>10. InHeader(who, patch, rest, f, h, Len(MetaRows(who, patch[f])), marker)'
    BY <1>8, <1>10, <2>1, <2>3, <2>4, <2>5, <2>7, <2>8 DEF InHeader
  <2>11. Outside(who, patch, rest)'
    BY <1>2, <2>1, <2>6, <2>9, <2>10 DEF Outside
  <2>12. Going(who, patch, rest)'
    BY <1>3, <1>8, <2>11 DEF Going, Parsing
  <2>. QED BY <1>3, <2>12
<1>12. CASE n + 1 # Len(hunk.body)
  <2>1. body' = read /\ header' = header /\ afterHunk' = afterHunk
    BY <1>8, <1>9, <1>12
  <2>2. n + 1 < Len(hunk.body)
    <3>1. Len(hunk.body) \in Nat
      BY <1>1, LenProperties DEF PrintedHunk
    <3>. QED BY <1>1, <1>12, <3>1
  <2>. HIDE DEF marker
  <2>3. InHunk(who, patch, rest, f, h, n + 1, marker)'
    BY <1>1, <1>8, <1>10, <2>1, <2>2 DEF InHunk
  <2>. HIDE DEF rest
  <2>4. Inside(who, patch, rest)'
    BY <1>1, <1>2, <2>3 DEF Inside
  <2>5. Going(who, patch, rest)'
    BY <1>3, <1>8, <2>4 DEF Going, Parsing
  <2>. QED BY <1>3, <2>5
<1>. QED BY <1>11, <1>12

----------------------------------------------------------------------------
(* The end of the text *)
LEMMA EndKept ==
  ASSUME NEW who \in Printers, NEW patch \in Seq(PrintedFile), NEW left \in Seq(Row),
         printer = who, subject = patch, Parsing(who, patch, left), outcome = "reading",
         ~(at < Len(text)), PatchNext
  PROVE  PatchSurvivesText'
<1>1. Finish
  BY EndDecides
<1>2. /\ printer' = who /\ subject' = patch /\ marks' = marks /\ files' = FilesRead
      /\ at = Len(text) /\ outcome' = IF body = Nothing THEN "patch" ELSE "malformed"
  BY <1>1 DEF Finish, subject
<1>3. /\ who \in {"git", "detail"} => left = <<>>
      /\ who # "configured"
      /\ who = "cut" => left # <<>> /\ left[1].k = "body"
  BY <1>2, NoRowIsNext DEF Parsing
<1>4. CASE Inside(who, patch, left)
  <2>1. PICK f \in DOMAIN patch, marker \in Markers(who) :
          \E h \in DOMAIN patch[f].hunks : \E n \in 0 .. Len(patch[f].hunks[h].body) :
            InHunk(who, patch, left, f, h, n, marker)
    BY <1>4 DEF Inside
  <2>2. PICK h \in DOMAIN patch[f].hunks : \E n \in 0 .. Len(patch[f].hunks[h].body) :
          InHunk(who, patch, left, f, h, n, marker)
    BY <2>1
  <2>3. PICK n \in 0 .. Len(patch[f].hunks[h].body) : InHunk(who, patch, left, f, h, n, marker)
    BY <2>2
  <2>4. left # <<>> /\ body # Nothing
    BY <2>3, RowInHunk
  <2>5. who = "cut" /\ outcome' = "malformed"
    BY <1>2, <1>3, <2>4 DEF Printers
  <2>. QED BY <1>2, <2>5 DEF PatchSurvivesText
<1>5. CASE Outside(who, patch, left)
  <2>1. ASSUME NEW row, NEW rest, NEW line, NEW mark, StartsWith(left, row, rest),
               Says(who, row, line, mark), line.k # "body"
        PROVE  FALSE
    <3>1. left # <<>> /\ left[1] = row
      BY <2>1 DEF StartsWith
    <3>2. who = "cut" /\ row.k = "body"
      BY <1>3, <3>1 DEF Printers
    <3>3. line = row
      BY <2>1, <3>2 DEF Says, LineOf
    <3>. QED BY <2>1, <3>2, <3>3
  <2>2. PICK f \in 0 .. Len(patch) : BetweenFiles(who, patch, left, f)
    <3>1. ASSUME NEW f \in DOMAIN patch, NEW marker \in Markers(who),
                 NEW h \in 0 .. Len(patch[f].hunks), NEW m \in 0 .. Len(MetaRows(who, patch[f])),
                 InHeader(who, patch, left, f, h, m, marker),
                 \/ marker # <<>> \/ m < Len(MetaRows(who, patch[f]))
                 \/ m = Len(MetaRows(who, patch[f])) /\ h < Len(patch[f].hunks)
          PROVE  FALSE
      <4>1. CASE marker # <<>>
        <5>1. /\ StartsWith(left, Bare("no newline"), HeaderLeft(who, patch, f, h, m, <<>>))
              /\ Says(who, Bare("no newline"), Bare("no newline"), "none")
              /\ Bare("no newline").k = "no newline"
          BY <3>1, <4>1, RowAtMarker
        <5>. QED BY <2>1, <5>1
      <4>2. CASE marker = <<>> /\ m < Len(MetaRows(who, patch[f]))
        <5>1. InHeader(who, patch, left, f, h, m, <<>>) /\ m < Len(MetaRows(who, patch[f]))
          BY <3>1, <4>2
        <5>2. /\ StartsWith(left, MetaRows(who, patch[f])[m + 1], HeaderLeft(who, patch, f, h, m + 1, <<>>))
              /\ \E line \in PatchLine :
                   Says(who, MetaRows(who, patch[f])[m + 1], line, "none") /\ line.k \in HeaderKind
          BY <5>1, RowAtMeta
        <5>3. "body" \notin HeaderKind
          BY DEF HeaderKind
        <5>. QED BY <2>1, <5>2, <5>3
      <4>3. CASE marker = <<>> /\ m = Len(MetaRows(who, patch[f])) /\ h < Len(patch[f].hunks)
        <5>1. /\ InHeader(who, patch, left, f, h, Len(MetaRows(who, patch[f])), <<>>)
              /\ h < Len(patch[f].hunks)
          BY <3>1, <4>3
        <5>2. /\ StartsWith(left, HunkRow(who, patch[f].hunks[h + 1]),
                            HunkLeft(who, patch, f, h + 1, 0, <<>>))
              /\ Says(who, HunkRow(who, patch[f].hunks[h + 1]),
                      HunkLine(Numbered(patch[f].hunks[h + 1])), "none")
              /\ HunkLine(Numbered(patch[f].hunks[h + 1])).k = "hunk"
          BY <5>1, RowAtHunk
        <5>. QED BY <2>1, <5>2
      <4>. QED BY <3>1, <4>1, <4>2, <4>3
    <3>. QED BY <1>5, <3>1, OutsideIs
  <2>3. f = Len(patch)
    <3>1. ASSUME f < Len(patch) PROVE FALSE
      <4>1. /\ StartsWith(left, HeaderRow(who, patch[f + 1]), HeaderLeft(who, patch, f + 1, 0, 0, <<>>))
            /\ Says(who, HeaderRow(who, patch[f + 1]), HeaderLine(patch[f + 1]), "none")
            /\ HeaderLine(patch[f + 1]).k = "diff"
        BY <2>2, <3>1, RowAtFile
      <4>. QED BY <2>1, <4>1
    <3>. QED BY <2>2, <3>1, RowAtFile
  <2>4. left = <<>> /\ who \in {"git", "detail"} /\ body = Nothing
    BY <1>3, <1>5, <2>2, <2>3, RowAtFile DEF Printers, Outside
  <2>5. FilesKept(who, patch, FilesRead, Len(patch)) /\ DOMAIN patch = 1 .. Len(patch)
    BY <2>2, <2>3, LenProperties DEF BetweenFiles
  <2>6. ASSUME NEW i \in DOMAIN patch PROVE SameFile(files[i], FilePatch(patch[i]))'
    <3>1. SameAs(who, FilesRead[i], FilePatch(patch[i]))
      BY <2>5 DEF FilesKept
    <3>. QED BY <1>2, <3>1 DEF SameAs, SameFile
  <2>7. ASSUME who = "detail"
        PROVE  Decorations([i \in DOMAIN patch |-> FilePatch(patch[i])])
                 = [added   |-> {i \in DOMAIN marks : marks[i] = "addition"},
                    deleted |-> {i \in DOMAIN marks : marks[i] = "deletion"}]
    <3>. DEFINE rows == FilesRows(who, patch)
                written == [i \in DOMAIN patch |-> FilePatch(patch[i])]
    <3>1. /\ Len(rows) = at + Len(left) /\ Len(marks) = at /\ at \in Nat
          /\ \A i \in 1 .. at : marks[i] = rows[i].mark
          /\ marks \in Seq({"none", "addition", "deletion"})
      BY <2>7 DEF Parsing, MarksKept, Due
    <3>2. Len(left) = 0
      BY <2>4
    <3>3. rows \in Seq(Row)
      <4>1. 0 \in 0 .. Len(patch)
        BY LenProperties
      <4>2. From(patch, 0) = patch
        BY <4>1, FromNext
      <4>3. FilesRows(who, From(patch, 0)) \in Seq(Row)
        BY <4>1, FilesRowsFrom
      <4>. QED BY <4>2, <4>3
    <3>4. DetailText(written) = rows
      <4>1. [i \in DOMAIN written |-> WriteFile(written[i])] = [i \in DOMAIN patch |-> FileRows(who, patch[i])]
        BY <2>7 DEF FileRows
      <4>. QED BY <4>1 DEF DetailText, FilesRows
    <3>. HIDE DEF rows, written
    <3>5. DOMAIN rows = 1 .. at /\ DOMAIN marks = 1 .. at
      BY <3>1, <3>2, <3>3, LenProperties
    <3>6. \A mark : {i \in DOMAIN rows : rows[i].mark = mark} = {i \in DOMAIN marks : marks[i] = mark}
      BY <3>1, <3>5
    <3>. QED BY <3>4, <3>6 DEF Decorations, written
  <2>8. /\ outcome' = "patch" /\ Len(files') = Len(patch)
        /\ \A i \in DOMAIN patch : SameFile(files[i], FilePatch(patch[i]))'
        /\ who = "detail" => Decorations([i \in DOMAIN patch |-> FilePatch(patch[i])])
                 = [added   |-> {i \in DOMAIN marks' : marks'[i] = "addition"},
                    deleted |-> {i \in DOMAIN marks' : marks'[i] = "deletion"}]
    BY <1>2, <2>4, <2>5, <2>6, <2>7 DEF FilesKept
  <2>. QED BY <1>2, <2>4, <2>8 DEF PatchSurvivesText
<1>. QED BY <1>4, <1>5 DEF Parsing

----------------------------------------------------------------------------
(* The start of a text *)


LEMMA PrintIsRows ==
  ASSUME NEW patch \in Seq(PrintedFile), NEW who \in Printers
  PROVE  /\ FilesRows(who, patch) \in Seq(Row)
         /\ who # "detail" => GitText(patch) = FilesRows(who, patch)
         /\ who = "detail" =>
              DetailText([i \in DOMAIN patch |-> FilePatch(patch[i])]) = FilesRows(who, patch)
<1>1. FilesRows(who, patch) \in Seq(Row)
  <2>1. 0 \in 0 .. Len(patch)
    BY LenProperties
  <2>2. From(patch, 0) = patch
    BY <2>1, FromNext
  <2>3. FilesRows(who, From(patch, 0)) \in Seq(Row)
    BY <2>1, FilesRowsFrom
  <2>. QED BY <2>2, <2>3
<1>2. ASSUME who # "detail" PROVE GitText(patch) = FilesRows(who, patch)
  BY <1>2 DEF GitText, FilesRows, FileRows
<1>3. ASSUME who = "detail"
      PROVE  DetailText([i \in DOMAIN patch |-> FilePatch(patch[i])]) = FilesRows(who, patch)
  <2>. DEFINE written == [i \in DOMAIN patch |-> FilePatch(patch[i])]
  <2>1. [i \in DOMAIN written |-> WriteFile(written[i])] = [i \in DOMAIN patch |-> FileRows(who, patch[i])]
    BY <1>3 DEF FileRows
  <2>. QED BY <2>1 DEF DetailText, FilesRows
<1>. QED BY <1>1, <1>2, <1>3

(* What a patch is handed on as is a patch. *)
LEMMA HandedTyped == Handed \subseteq Seq(PrintedFile)
<1>. SUFFICES ASSUME NEW patch \in Subject PROVE AsText(patch) \in Seq(PrintedFile)
  BY DEF Handed
<1>1. patch \in Seq(PrintedFile) /\ Decoded \in [Content -> Content]
  BY PatchTextAssumption
<1>2. ASSUME NEW line \in PrintedLine PROVE LineAsText(line) \in PrintedLine
  BY <1>1 DEF LineAsText, PrintedLine
<1>3. ASSUME NEW hunk \in PrintedHunk PROVE HunkAsText(hunk) \in PrintedHunk
  <2>. DEFINE lines == [i \in DOMAIN hunk.body |-> LineAsText(hunk.body[i])]
  <2>1. /\ hunk.body \in Seq(PrintedLine) /\ hunk.body # <<>>
        /\ Len(hunk.body) \in Nat /\ DOMAIN hunk.body = 1 .. Len(hunk.body)
    <3>1. hunk.body \in Seq(PrintedLine) /\ hunk.body # <<>>
      BY DEF PrintedHunk, PrintedLine
    <3>. QED BY <3>1, LenProperties
  <2>2. \A i \in 1 .. Len(hunk.body) : LineAsText(hunk.body[i]) \in PrintedLine
    BY <1>2, <2>1, ElementOfSeq
  <2>3. lines \in Seq(PrintedLine)
    BY <2>1, <2>2, SeqDef
  <2>4. lines # <<>>
    <3>1. Len(hunk.body) # 0
      BY <2>1, EmptySeq
    <3>2. 1 \in 1 .. Len(hunk.body)
      BY <2>1, <3>1
    <3>3. DOMAIN lines = 1 .. Len(hunk.body)
      BY <2>1
    <3>. HIDE DEF lines
    <3>4. ASSUME lines = <<>> PROVE FALSE
      BY <3>2, <3>3, <3>4
    <3>. QED BY <3>4
  <2>5. HunkAsText(hunk) = [hunk EXCEPT !.body = lines]
    BY DEF HunkAsText
  <2>. HIDE DEF lines
  <2>. QED BY <2>3, <2>4, <2>5 DEF PrintedHunk, PrintedLine
<1>4. ASSUME NEW file \in PrintedFile PROVE FileAsText(file) \in PrintedFile
  <2>. DEFINE hunks == [i \in DOMAIN file.hunks |-> HunkAsText(file.hunks[i])]
  <2>1. /\ file.hunks \in Seq(PrintedHunk)
        /\ Len(file.hunks) \in Nat /\ DOMAIN file.hunks = 1 .. Len(file.hunks)
    <3>1. file.hunks \in Seq(PrintedHunk)
      BY DEF PrintedFile
    <3>. QED BY <3>1, LenProperties
  <2>2. \A i \in 1 .. Len(file.hunks) : HunkAsText(file.hunks[i]) \in PrintedHunk
    BY <1>3, <2>1, ElementOfSeq
  <2>3. hunks \in Seq(PrintedHunk)
    BY <2>1, <2>2, SeqDef
  <2>4. file.hunks = <<>> => hunks = <<>>
    OBVIOUS
  <2>5. FileAsText(file) = [file EXCEPT !.hunks = hunks]
    BY DEF FileAsText
  <2>. HIDE DEF hunks
  <2>. QED BY <2>3, <2>4, <2>5 DEF PrintedFile
<1>5. Len(patch) \in Nat /\ DOMAIN patch = 1 .. Len(patch)
  BY <1>1, LenProperties
<1>6. \A i \in 1 .. Len(patch) : FileAsText(patch[i]) \in PrintedFile
  BY <1>1, <1>4, ElementOfSeq
<1>. QED BY <1>5, <1>6, SeqDef DEF AsText

LEMMA PatchStarts == PatchInit \/ PatchIdle => PatchInv
<1>1. ASSUME PatchInit PROVE PatchInv
  <2>. DEFINE who == printer
              patch == subject
              left == FilesRows(who, patch)
  <2>1. /\ patch \in Handed /\ patch \in Seq(PrintedFile) /\ who \in Printers
        /\ text \in TextsOf(who, patch) /\ at = 0 /\ files = <<>> /\ header = Nothing
        /\ body = Nothing /\ marks = <<>> /\ outcome = "reading"
    BY <1>1, HandedTyped DEF PatchInit, Printers, Handed, subject
  <2>2. /\ left \in Seq(Row)
        /\ who # "detail" => GitText(patch) = left
        /\ who = "detail" => DetailText([i \in DOMAIN patch |-> FilePatch(patch[i])]) = left
    BY <2>1, PrintIsRows
  <2>3. Len(left) \in Nat /\ DOMAIN left = 1 .. Len(left)
    BY <2>2, LenProperties
  <2>. DEFINE rows == left
              Right(n) == /\ 0 + n <= Len(text)
                          /\ \A i \in 1 .. n : text[0 + i] = LineOf(who, rows[i])
                          /\ who \in {"git", "detail"} => n = Len(rows) /\ Len(text) = 0 + n
                          /\ who = "configured" => /\ n = Len(rows) /\ Len(text) = 0 + n + 1
                                                  /\ text[0 + n + 1] = Bare("foreign")
                          /\ who = "cut" => /\ n < Len(rows) /\ Len(text) = 0 + n
                                            /\ rows[n + 1].k = "body"
  <2>4. \E n \in 0 .. Len(rows) : Right(n)
    <3>. HIDE DEF left
    <3>1. CASE who = "git"
      <4>1. text = rows
        BY <2>1, <2>2, <3>1 DEF TextsOf
      <4>2. Right(Len(rows)) /\ Len(rows) \in 0 .. Len(rows)
        BY <2>3, <3>1, <4>1 DEF LineOf
      <4>. QED BY <4>2
    <3>2. CASE who = "detail"
      <4>1. text = [i \in DOMAIN rows |-> rows[i].line]
        BY <2>1, <2>2, <3>2 DEF TextsOf, Lines
      <4>2. text = [i \in 1 .. Len(rows) |-> rows[i].line] /\ Len(text) = Len(rows)
        BY <2>3, <4>1
      <4>3. Right(Len(rows)) /\ Len(rows) \in 0 .. Len(rows)
        BY <2>3, <3>2, <4>2 DEF LineOf
      <4>. QED BY <4>3
    <3>3. CASE who = "configured"
      <4>1. text = Append(rows, Bare("foreign"))
        BY <2>1, <2>2, <3>3 DEF TextsOf
      <4>2. /\ Len(text) = Len(rows) + 1 /\ text[Len(rows) + 1] = Bare("foreign")
            /\ \A i \in 1 .. Len(rows) : text[i] = rows[i]
        <5>. DEFINE S == Row \cup {Bare("foreign")}
        <5>1. rows \in Seq(S) /\ Bare("foreign") \in S
          BY <2>2, SeqMonotonic
        <5>. HIDE DEF S, rows
        <5>. QED BY <4>1, <5>1, AppendProperties
      <4>3. Right(Len(rows)) /\ Len(rows) \in 0 .. Len(rows)
        BY <2>3, <3>3, <4>2 DEF LineOf
      <4>. QED BY <4>3
    <3>4. CASE who = "cut"
      <4>1. PICK n \in {m \in DOMAIN rows : rows[m].k = "body"} : text = SubSeq(rows, 1, n - 1)
        BY <2>1, <2>2, <3>4 DEF TextsOf, CutInHunk
      <4>2. n \in 1 .. Len(rows) /\ rows[n].k = "body" /\ n - 1 + 1 = n /\ n - 1 \in 0 .. Len(rows)
            /\ n - 1 \in Nat /\ 0 + (n - 1) = n - 1
        BY <2>3, <4>1
      <4>3. Len(text) = n - 1 /\ \A i \in 1 .. n - 1 : text[i] = rows[i]
        <5>1. \A i \in 1 .. n - 1 : rows[i] \in Row
          BY <2>2, <2>3, <4>2, ElementOfSeq
        <5>2. /\ Len(SubSeq(rows, 1, n - 1)) = IF 1 <= n - 1 THEN n - 1 - 1 + 1 ELSE 0
              /\ \A i \in 1 .. n - 1 - 1 + 1 : SubSeq(rows, 1, n - 1)[i] = rows[1 + i - 1]
          <6>1. 1 \in Int /\ n - 1 \in Int
            BY <4>2
          <6>. HIDE DEF rows
          <6>. QED BY ONLY <5>1, <6>1, SubSeqProperties
        <5>. QED BY <4>1, <4>2, <5>2
      <4>4. \A i \in 1 .. n - 1 : 0 + i = i
        OBVIOUS
      <4>5. Right(n - 1)
        BY <2>3, <3>4, <4>2, <4>3, <4>4 DEF LineOf
      <4>. QED BY <4>2, <4>5
    <3>. QED BY <2>1, <3>1, <3>2, <3>3, <3>4 DEF Printers
  <2>5. Due(who, left)
    BY <2>1, <2>4 DEF Due
  <2>6. MarksKept(who, patch, left)
    <3>1. Len(<<>>) = 0 /\ <<>> \in Seq({"none", "addition", "deletion"})
      BY EmptySeq
    <3>. HIDE DEF left
    <3>2. Len(left) = 0 + Len(left) /\ \A i \in 1 .. Len(left) : 0 + i = i
      BY <2>3
    <3>3. 1 .. 0 = {}
      OBVIOUS
    <3>. QED BY <2>1, <3>1, <3>2, <3>3 DEF MarksKept, left
  <2>7. Outside(who, patch, left)
    <3>1. FilesKept(who, patch, files, 0)
      <4>1. <<>> = [i \in 1 .. 0 |-> <<>>[i]] /\ Len(<<>>) = 0 /\ 1 .. 0 = {}
        OBVIOUS
      <4>. QED BY <2>1, <4>1 DEF FilesKept
    <3>. QED BY <2>1, <3>1 DEF Outside
  <2>8. Parsing(who, patch, left)
    BY <2>2, <2>5, <2>6, <2>7 DEF Parsing
  <2>. HIDE DEF left
  <2>. QED BY <2>1, <2>2, <2>8 DEF PatchInv
<1>2. ASSUME PatchIdle PROVE PatchInv
  <2>1. /\ outcome = "patch" /\ printer = "git" /\ subject = <<>> /\ files = <<>>
    BY <1>2 DEF PatchIdle, subject, AsText
  <2>2. DOMAIN <<>> = {}
    OBVIOUS
  <2>. QED BY <2>1, <2>2 DEF PatchInv, PatchSurvivesText
<1>. QED BY <1>1, <1>2

----------------------------------------------------------------------------
(* A text that is being read was printed of a patch, is read up to a place, and
   what is left of it is what the print has left there: the header and its
   hunks hold what the lines before said, and the lines ahead hold the rest.
   Read to the end, or refused, it is as PatchSurvivesText says. *)
LEMMA PatchStaysUnlessNext == PatchInv /\ UNCHANGED patchVars => PatchInv'
<1>. SUFFICES ASSUME PatchInv, UNCHANGED patchVars PROVE PatchInv'
  OBVIOUS
<1>1. /\ subject' = subject /\ printer' = printer /\ text' = text /\ at' = at /\ files' = files
      /\ header' = header /\ body' = body /\ afterHunk' = afterHunk /\ marks' = marks
      /\ outcome' = outcome
  BY DEF patchVars, subject, AsText, FileAsText, HunkAsText, LineAsText
<1>2. CASE outcome # "reading"
  <2>1. PatchSurvivesText'
    BY <1>1, <1>2 DEF PatchInv, PatchSurvivesText, SameFile
  <2>. QED BY <1>1, <1>2, <2>1 DEF PatchInv
<1>3. CASE outcome = "reading"
  <2>1. PICK who \in Printers, patch \in Handed, left \in Seq(Row) :
          printer = who /\ subject = patch /\ Parsing(who, patch, left)
    BY <1>3 DEF PatchInv
  <2>2. Due(who, left)'
    BY <1>1, <2>1 DEF Parsing, Due
  <2>3. MarksKept(who, patch, left)'
    BY <1>1, <2>1 DEF Parsing, MarksKept
  <2>4. FilesKept(who, patch, files, 0)' <=> FilesKept(who, patch, files, 0)
    BY <1>1
  <2>5. ASSUME NEW f, NEW h, NEW m, NEW marker, InHeader(who, patch, left, f, h, m, marker)
        PROVE  InHeader(who, patch, left, f, h, m, marker)'
    BY <1>1, <2>5 DEF InHeader
  <2>6. ASSUME NEW f, NEW h, NEW n, NEW marker, InHunk(who, patch, left, f, h, n, marker)
        PROVE  InHunk(who, patch, left, f, h, n, marker)'
    BY <1>1, <2>6 DEF InHunk
  <2>7. Outside(who, patch, left) => Outside(who, patch, left)'
    BY <1>1, <2>4, <2>5 DEF Outside
  <2>8. Inside(who, patch, left) => Inside(who, patch, left)'
    BY <2>6 DEF Inside
  <2>9. Parsing(who, patch, left)'
    BY <2>1, <2>2, <2>3, <2>7, <2>8 DEF Parsing
  <2>. QED BY <1>1, <1>3, <2>1, <2>9 DEF PatchInv
<1>. QED BY <1>2, <1>3

LEMMA PatchGoesOn ==
  ASSUME NEW who \in Printers, NEW patch \in Handed, NEW left \in Seq(Row),
         printer = who, subject = patch, Parsing(who, patch, left), outcome = "reading", PatchNext
  PROVE  PatchInv'
<1>1. /\ patch \in Seq(PrintedFile) /\ Due(who, left) /\ MarksKept(who, patch, left)
      /\ Outside(who, patch, left) \/ Inside(who, patch, left)
  BY HandedTyped DEF Parsing
<1>2. ASSUME \E rest \in Seq(Row) : Going(who, patch, rest)' PROVE PatchInv'
  BY <1>2 DEF Going, PatchInv
<1>3. ASSUME PatchSurvivesText', outcome' # "reading" PROVE PatchInv'
  BY <1>3 DEF PatchInv
<1>4. CASE ~(at < Len(text))
  <2>1. PatchSurvivesText'
    BY <1>1, <1>4, EndKept
  <2>2. outcome' # "reading"
    BY <1>4, EndDecides DEF Finish
  <2>. QED BY <1>3, <2>1, <2>2
<1>5. CASE at < Len(text)
  <2>1. Reading
    BY <1>5 DEF Reading
  <2>2. CASE Inside(who, patch, left)
    <3>1. PICK f \in DOMAIN patch, marker \in Markers(who) :
            \E h \in DOMAIN patch[f].hunks : \E n \in 0 .. Len(patch[f].hunks[h].body) :
              InHunk(who, patch, left, f, h, n, marker)
      BY <2>2 DEF Inside
    <3>2. PICK h \in DOMAIN patch[f].hunks : \E n \in 0 .. Len(patch[f].hunks[h].body) :
            InHunk(who, patch, left, f, h, n, marker)
      BY <3>1
    <3>3. PICK n \in 0 .. Len(patch[f].hunks[h].body) : InHunk(who, patch, left, f, h, n, marker)
      BY <3>2
    <3>4. CASE marker # <<>>
      BY <1>1, <1>2, <2>1, <3>3, <3>4, SkipInsideKept
    <3>5. CASE marker = <<>>
      <4>1. InHunk(who, patch, left, f, h, n, <<>>)
        BY <3>3, <3>5
      <4>. QED BY <1>1, <1>2, <2>1, <4>1, BodyKeptOn
    <3>. QED BY <3>4, <3>5
  <2>3. CASE Outside(who, patch, left)
    <3>1. body = Nothing
      BY <2>3 DEF Outside
    <3>2. ASSUME NEW f \in 0 .. Len(patch), BetweenFiles(who, patch, left, f) PROVE PatchInv'
      <4>1. (f = Len(patch) => left = <<>>) /\ (f < Len(patch) \/ f = Len(patch))
        BY <1>1, <3>2, RowAtFile
      <4>2. CASE f < Len(patch)
        BY <1>1, <1>2, <2>1, <3>1, <3>2, <4>2, StartKept
      <4>3. CASE f = Len(patch)
        <5>1. left = <<>>
          BY <4>1, <4>3
        <5>2. PatchSurvivesText'
          BY <1>1, <2>1, <3>1, <5>1, RefuseKept
        <5>3. outcome' # "reading"
          BY <1>1, <2>1, <3>1, <5>1, RefuseKept
        <5>. QED BY <1>3, <5>2, <5>3
      <4>. QED BY <4>1, <4>2, <4>3
    <3>3. ASSUME NEW f \in DOMAIN patch, NEW marker \in Markers(who),
                 NEW h \in 0 .. Len(patch[f].hunks), NEW m \in 0 .. Len(MetaRows(who, patch[f])),
                 InHeader(who, patch, left, f, h, m, marker),
                 \/ marker # <<>> \/ m < Len(MetaRows(who, patch[f]))
                 \/ m = Len(MetaRows(who, patch[f])) /\ h < Len(patch[f].hunks)
          PROVE  PatchInv'
      <4>1. CASE marker # <<>>
        BY <1>1, <1>2, <2>1, <3>1, <3>3, <4>1, SkipOutsideKept
      <4>2. CASE marker = <<>> /\ m < Len(MetaRows(who, patch[f]))
        <5>1. InHeader(who, patch, left, f, h, m, <<>>) /\ m < Len(MetaRows(who, patch[f]))
          BY <3>3, <4>2
        <5>. QED BY <1>1, <1>2, <2>1, <3>1, <5>1, HeaderKeptOn
      <4>3. CASE marker = <<>> /\ m = Len(MetaRows(who, patch[f])) /\ h < Len(patch[f].hunks)
        <5>1. /\ InHeader(who, patch, left, f, h, Len(MetaRows(who, patch[f])), <<>>)
              /\ h < Len(patch[f].hunks)
          BY <3>3, <4>3
        <5>. QED BY <1>1, <1>2, <2>1, <3>1, <5>1, OpenKept
      <4>. QED BY <3>3, <4>1, <4>2, <4>3
    <3>. QED BY <1>1, <2>3, <3>2, <3>3, OutsideIs
  <2>. QED BY <1>1, <2>2, <2>3
<1>. QED BY <1>4, <1>5

LEMMA PatchKept == PatchInv /\ [PatchNext]_patchVars => PatchInv'
<1>1. ASSUME PatchInv, PatchNext PROVE PatchInv'
  <2>1. outcome = "reading"
    BY <1>1 DEF PatchNext, StartFile, ReadHeaderLine, StartHunk, ReadBodyLine, SkipMarker,
       Refuse, Finish, Reading
  <2>2. PICK who \in Printers, patch \in Handed, left \in Seq(Row) :
          printer = who /\ subject = patch /\ Parsing(who, patch, left)
    BY <1>1, <2>1 DEF PatchInv
  <2>. QED BY <1>1, <2>1, <2>2, PatchGoesOn
<1>. QED BY <1>1, PatchStaysUnlessNext

LEMMA PatchSurvives == PatchInv => PatchSurvivesText
BY DEF PatchInv, PatchSurvivesText

----------------------------------------------------------------------------
(* The specification *)

LEMMA NextOfPipes == [Next]_vars => [PipesNext]_pipesVars
BY DEF Next, vars

(* The clone's inductive invariant holds in every behaviour: a clone of any
   script through pipes of any size, whether or not its window closes. *)
THEOREM PipesSafety == Spec => []PipesInv
<1>1. Init => PipesInv
  BY PipesStart DEF Init, Idle
<1>2. PipesInv /\ [Next]_vars => PipesInv'
  BY PipesKept, NextOfPipes
<1>. QED BY <1>1, <1>2, PTL DEF Spec

(* For every script and size of pipe, and however the reads cut the bytes: no
   line is lost, split or handed out twice, and the row of the clone shows its
   updates in order and at last the last one (ProgressLineSplitter::feed,
   run_clone_streaming, pump_clone_progress, start_clone_progress_watch). *)
THEOREM LinesStayWhole == Spec => []LinesAreWhole
BY PipesSafety, InvShowsWholeLines, PTL

(* Both conversions give the author's date and time, for every date of the
   calendar, however far from the epoch, every offset and every second: the
   days are unbounded, as the code's would be but for the width of an i64
   (civil_from_days twice, format_commit_date, format_timestamp). *)
THEOREM DatesStayTheAuthors == Spec => []DatesAreTheAuthors
<1>1. Init => WallInv
  BY WallStarts DEF Init, Idle
<1>2. WallInv /\ [Next]_vars => WallInv'
  <2>1. WallInv /\ wall' = wall => WallInv'
    BY DEF WallInv, IsDate, DayNumber, LastDay, IsLeap, BeforeMonth
  <2>2. [Next]_vars => Midnight \/ wall' = wall
    BY DEF Next, vars
  <2>. QED BY <2>1, <2>2, WallTurns
<1>. QED BY <1>1, <1>2, WallShown, PTL DEF Spec

(* The detail panel shows its commit's patch or is about to, for any commits
   and whatever is handed over while the panel is detached (set_detail,
   render). *)
THEOREM EditorStaysOfDetail == Spec => []EditorShowsDetail
<1>1. Init => EditorShowsDetail
  BY EditorStarts DEF Init
<1>2. EditorShowsDetail /\ [Next]_vars => EditorShowsDetail'
  <2>1. [Next]_vars => [DetailNext]_detailVars
    BY DEF Next, vars
  <2>. QED BY <2>1, EditorKept
<1>. QED BY <1>1, <1>2, PTL DEF Spec

(* Every accepted URL, whatever else was pasted around it, gives a name to
   show and a directory's name of short safe characters, dashed at neither
   end, for any cap (validate_remote_url, remote_display_name,
   sanitize_for_filesystem). *)
THEOREM RemotesStayNamed == Spec => []RemotesAreNamed
<1>. DEFINE IsText == pasted \in Seq(Piece)
<1>1. Init => IsText
  <2>1. RemoteUrlInit => IsText
    BY RemoteUrlAssumption DEF RemoteUrlInit
  <2>2. RemoteUrlIdle => IsText
    BY EmptySeq DEF RemoteUrlIdle
  <2>3. Init => RemoteUrlInit \/ RemoteUrlIdle
    BY DEF Init, Idle
  <2>. QED BY <2>1, <2>2, <2>3
<1>2. IsText /\ [Next]_vars => IsText'
  <2>1. [Next]_vars => UNCHANGED pasted
    BY DEF Next, vars
  <2>. QED BY <2>1
<1>3. IsText => RemotesAreNamed
  BY PastedIsNamed
<1>. QED BY <1>1, <1>2, <1>3, PTL DEF Spec

(* In whichever order a repository's references are listed, the listing fails
   or is whole, and the sidebar and the badges show exactly what was listed,
   with the current branch marked and never offered for deletion but for
   another (read_all, from_entries, group_by_path, tree_item, subject_cell,
   Deletion::switch_to). *)
THEOREM ReferencesStayListed == Spec => []SidebarListsReferences
<1>1. Init => TreeInv
  BY TreeStarts DEF Init, Idle
<1>2. TreeInv /\ [Next]_vars => TreeInv'
  <2>1. [Next]_vars => [TreeNext]_treeVars
    BY DEF Next, vars
  <2>. QED BY <2>1, TreeKept
<1>3. TreeInv => SidebarListsReferences
  BY SidebarShowsListed
<1>. QED BY <1>1, <1>2, <1>3, PTL DEF Spec

(* What the sidebar shows is what git holds, for any repository and any URL:
   its references and the names of the remote projects (see
   ReferencesStayListed and RemotesStayNamed). *)
THEOREM SidebarStaysTrue == Spec => []SidebarIsTrue
<1>1. Spec => [](SidebarListsReferences /\ RemotesAreNamed)
  BY ReferencesStayListed, RemotesStayNamed, PTL
<1>2. SidebarListsReferences /\ RemotesAreNamed => SidebarIsTrue
  BY DEF SidebarIsTrue
<1>. QED BY <1>1, <1>2, PTL

(* A patch survives its text, for any patch of whatever files, hunks and lines:
   the parser reads git's output back to the last line, refuses one that stops
   inside a hunk or holds a foreign line, and marks in the panel's text exactly
   its changed lines (parse_patch, unified_diff_text_with_line_ranges). *)
THEOREM PatchStaysReadable == Spec => []PatchSurvivesText
<1>1. Init => PatchInv
  BY PatchStarts DEF Init, Idle
<1>2. PatchInv /\ [Next]_vars => PatchInv'
  <2>1. [Next]_vars => [PatchNext]_patchVars
    BY DEF Next, vars
  <2>. QED BY <2>1, PatchKept
<1>. QED BY <1>1, <1>2, PatchSurvives, PTL DEF Spec

(* What the detail panel shows of a commit is the commit, for any patch, any
   date and whichever commits are handed over (see PatchStaysReadable,
   EditorStaysOfDetail and DatesStayTheAuthors). *)
THEOREM CommitStaysShown == Spec => []CommitIsShown
<1>1. Spec => [](PatchSurvivesText /\ EditorShowsDetail /\ DatesAreTheAuthors)
  BY PatchStaysReadable, EditorStaysOfDetail, DatesStayTheAuthors, PTL
<1>2. PatchSurvivesText /\ EditorShowsDetail /\ DatesAreTheAuthors => CommitIsShown
  BY DEF CommitIsShown
<1>. QED BY <1>1, <1>2, PTL
=============================================================================
