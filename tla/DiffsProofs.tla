---------------------------- MODULE DiffsProofs ----------------------------
(***************************************************************************)
(* Proofs about the canonical form of a diff, for any change to any file   *)
(* whose lines are among Texts.                                            *)
(*                                                                         *)
(* All parsers of Diffs are folds.  The first part gives folds their       *)
(* equations (empty, one more line, concatenation) by induction over sets  *)
(* of numbers and of sequences; the second follows split_file_sections     *)
(* from header to header; the third shows that the canonical form of a     *)
(* canonical form is itself, and the last that of two ways to write a      *)
(* change neither the order of the files nor stamps nor metadata change    *)
(* its canonical form, and so its hash.                                    *)
(***************************************************************************)
EXTENDS Diffs, TLAPS, WellFoundedInduction, NaturalsInduction, SequenceTheorems,
  FiniteSetTheorems

\* Induction, for a set of numbers,
LEMMA SetOfNumbers ==
  ASSUME NEW N, 0 \in N, \A n \in Nat : n \in N => n + 1 \in N
  PROVE  Nat \subseteq N
<1> SUFFICES ASSUME Nat \ N # {} PROVE FALSE
  OBVIOUS
<1>1. PICK i \in Nat \ N : \A j \in Nat \ N : ~ (<<j, i>> \in OpToRel(<, Nat))
  BY NatLessThanWellFounded, WFMin
<1>2. i # 0 /\ i - 1 \in Nat
  OBVIOUS
<1>3. i - 1 \notin N
  <2>1. i = (i - 1) + 1
    BY <1>2
  <2> QED BY <1>2, <2>1
<1>4. <<i - 1, i>> \in Nat \X Nat /\ <<i - 1, i>>[1] < <<i - 1, i>>[2]
  BY <1>2
<1>5. <<i - 1, i>> \in OpToRel(<, Nat)
  BY <1>4 DEF OpToRel
<1> QED
  BY <1>1, <1>2, <1>3, <1>5

\* ... for the numbers up to a bound,
LEMMA PrefixesOf ==
  ASSUME NEW n \in Nat, NEW N, 0 \in N, \A i \in 0..n : i \in N /\ i < n => i + 1 \in N
  PROVE  \A i \in 0..n : i \in N
<1> DEFINE M == N \cup {i \in Nat : i > n}
<1>1. Nat \subseteq M
  <2>1. 0 \in M
    OBVIOUS
  <2>2. \A i \in Nat : i \in M => i + 1 \in M
    OBVIOUS
  <2> HIDE DEF M
  <2> QED
    BY <2>1, <2>2, SetOfNumbers
<1> QED
  BY <1>1

\* ... and for a set of sequences.
LEMMA SetOfSequences ==
  ASSUME NEW L, NEW A, << >> \in A,
         \A s \in Seq(L), x \in L : s \in A => Append(s, x) \in A
  PROVE  Seq(L) \subseteq A
<1> DEFINE N == {n \in Nat : \A s \in Seq(L) : Len(s) = n => s \in A}
<1>1. 0 \in N
  BY EmptySeq
<1>2. ASSUME NEW n \in Nat, n \in N PROVE n + 1 \in N
  <2> SUFFICES ASSUME NEW s \in Seq(L), Len(s) = n + 1 PROVE s \in A
    OBVIOUS
  <2>1. s # << >>
    BY EmptySeq
  <2>2. PICK t \in Seq(L), x \in L : s = Append(t, x)
    BY <2>1, SequenceEmptyOrAppend
  <2>3. Len(t) = n
    BY <2>2, AppendProperties, LenProperties
  <2> QED
    BY <1>2, <2>2, <2>3
<1>3. Nat \subseteq N
  <2> HIDE DEF N
  <2> QED
    BY <1>1, <1>2, SetOfNumbers
<1> QED
  BY <1>3, LenProperties

\* The last of some numbers.
LEMMA LastNumber ==
  ASSUME NEW n \in Nat, NEW s \in SUBSET (1..n), s # {}
  PROVE  /\ Max(s) \in s
         /\ \A i \in s : i <= Max(s)
<1>1. \E x \in s : \A y \in s : x >= y
  <2> DEFINE D == {d \in Nat : n - d \in s}
  <2>1. D \in SUBSET Nat /\ D # {}
    <3>1. PICK i \in s : TRUE
      OBVIOUS
    <3>2. n - i \in Nat /\ n - (n - i) = i
      BY <3>1
    <3> QED BY <3>1, <3>2
  <2>2. PICK d \in D : \A e \in D : ~ (<<e, d>> \in OpToRel(<, Nat))
    BY <2>1, NatLessThanWellFounded, WFMin
  <2>3. ASSUME NEW y \in s PROVE n - d >= y
    <3>1. n - y \in D /\ n - y \in Nat
      <4>1. n - y \in Nat /\ n - (n - y) = y
        OBVIOUS
      <4> QED BY <4>1
    <3>2. ASSUME n - y < d PROVE FALSE
      <4>1. <<n - y, d>> \in Nat \X Nat /\ <<n - y, d>>[1] < <<n - y, d>>[2]
        BY <3>1, <3>2
      <4>2. <<n - y, d>> \in OpToRel(<, Nat)
        BY <4>1 DEF OpToRel
      <4> QED BY <2>2, <3>1, <4>2
    <3> QED BY <3>2
  <2> QED
    BY <2>2, <2>3
<1> QED
  BY <1>1 DEF Max

\* The last of the numbers up to n is n.
LEMMA LastOfPrefix ==
  ASSUME NEW n \in Nat, n # 0
  PROVE  Max(1..n) = n /\ (1..n) \ {Max(1..n)} = 1..(n - 1)
<1>1. n \in 1..n
  OBVIOUS
<1>2. Max(1..n) \in 1..n /\ \A i \in 1..n : i <= Max(1..n)
  BY <1>1, LastNumber
<1>3. Max(1..n) = n
  BY <1>1, <1>2
<1> QED
  BY <1>3

\* Appending to a concatenation appends to its second part.
LEMMA AppendOfConcat ==
  ASSUME NEW S, NEW s \in Seq(S), NEW t \in Seq(S), NEW x \in S
  PROVE  Append(s \o t, x) = s \o Append(t, x)
  OBVIOUS

-----------------------------------------------------------------------------
(* Folds                                                                   *)

\* A table of what an operator makes of all sets of positions.
IsTable(H, n, T, b) ==
  H = [s \in SUBSET (1..n) |-> IF s = {} THEN b ELSE T[<<H[s \ {Max(s)}], Max(s)>>]]

\* The table of a fold over sets of positions exists,
LEMMA TableExists ==
  ASSUME NEW A, NEW b \in A, NEW n \in Nat, NEW T \in [A \X (1..n) -> A]
  PROVE  \E H \in [SUBSET (1..n) -> A] : IsTable(H, n, T, b)
<1> DEFINE R(H, m) == \A s \in SUBSET (1..m) :
                 H[s] = IF s = {} THEN b ELSE T[<<H[s \ {Max(s)}], Max(s)>>]
           N == {m \in 0..n : \E H \in [SUBSET (1..m) -> A] : R(H, m)}
<1>1. 0 \in N
  <2> DEFINE H == [s \in SUBSET (1..0) |-> b]
  <2>1. \A s \in SUBSET (1..0) : s = {}
    OBVIOUS
  <2>2. H \in [SUBSET (1..0) -> A] /\ R(H, 0)
    BY <2>1
  <2>3. 0 \in 0..n
    OBVIOUS
  <2> HIDE DEF H, R
  <2> QED BY <2>2, <2>3
<1>2. ASSUME NEW m \in 0..n, m \in N, m < n PROVE m + 1 \in N
  <2>1. PICK G \in [SUBSET (1..m) -> A] : R(G, m)
    BY <1>2
  <2> DEFINE H == [s \in SUBSET (1..(m + 1)) |->
                     IF m + 1 \in s THEN T[<<G[s \ {m + 1}], m + 1>>] ELSE G[s]]
  <2>2. ASSUME NEW s \in SUBSET (1..(m + 1))
        PROVE  /\ m + 1 \in s => s \ {m + 1} \in SUBSET (1..m)
               /\ m + 1 \notin s => s \in SUBSET (1..m)
    OBVIOUS
  <2>3. ASSUME NEW s \in SUBSET (1..(m + 1))
        PROVE  H[s] \in A
    <3>1. CASE m + 1 \in s
      <4>1. G[s \ {m + 1}] \in A
        BY <2>2, <3>1
      <4>2. <<G[s \ {m + 1}], m + 1>> \in A \X (1..n)
        BY <1>2, <4>1
      <4> QED BY <3>1, <4>2
    <3>2. CASE m + 1 \notin s
      BY <2>2, <3>2
    <3> QED BY <3>1, <3>2
  <2>4. ASSUME NEW s \in SUBSET (1..(m + 1))
        PROVE  H[s] = IF s = {} THEN b ELSE T[<<H[s \ {Max(s)}], Max(s)>>]
    <3>1. CASE m + 1 \in s
      <4>1. Max(s) = m + 1
        <5>1. m + 1 \in Nat /\ s # {}
          BY <3>1
        <5>2. Max(s) \in s /\ \A i \in s : i <= Max(s)
          BY <5>1, LastNumber
        <5>3. Max(s) \in 1..(m + 1) /\ m + 1 <= Max(s)
          BY <3>1, <5>2
        <5> QED BY <5>3
      <4>2. PICK t \in SUBSET (1..(m + 1)) : t = s \ {m + 1}
        OBVIOUS
      <4>3. H[t] = G[t]
        BY <4>2
      <4>4. H[s] = T[<<G[t], m + 1>>] /\ s # {}
        BY <3>1, <4>2
      <4> HIDE DEF H
      <4> QED BY <4>1, <4>2, <4>3, <4>4
    <3>2. CASE m + 1 \notin s /\ s # {}
      <4>1. s \in SUBSET (1..m) /\ H[s] = G[s]
        BY <3>2, <2>2
      <4>2. Max(s) \in 1..m /\ s \ {Max(s)} \in SUBSET (1..m)
        <5>1. m \in Nat
          OBVIOUS
        <5>2. Max(s) \in s
          BY <3>2, <4>1, <5>1, LastNumber
        <5> QED BY <4>1, <5>2
      <4>3. PICK t \in SUBSET (1..m) : t = s \ {Max(s)}
        BY <4>2
      <4>4. t \in SUBSET (1..(m + 1)) /\ m + 1 \notin t
        BY <4>3
      <4>5. H[t] = G[t]
        BY <4>4
      <4>6. G[s] = T[<<G[t], Max(s)>>]
        BY <2>1, <3>2, <4>1, <4>3
      <4> HIDE DEF H
      <4> QED BY <3>2, <4>1, <4>3, <4>5, <4>6
    <3>3. CASE s = {}
      BY <2>1, <3>3
    <3> QED BY <3>1, <3>2, <3>3
  <2>5. H \in [SUBSET (1..(m + 1)) -> A]
    BY <2>3
  <2>6. R(H, m + 1)
    <3> HIDE DEF H
    <3> QED BY <2>4
  <2>7. m + 1 \in 0..n
    BY <1>2
  <2> HIDE DEF H, R
  <2> QED
    BY <2>5, <2>6, <2>7
<1>3. n \in N
  <2> HIDE DEF N
  <2> QED BY <1>1, <1>2, PrefixesOf
<1>4. PICK H \in [SUBSET (1..n) -> A] : R(H, n)
  BY <1>3
<1>5. H = [s \in SUBSET (1..n) |-> H[s]]
  OBVIOUS
<1> QED
  BY <1>4, <1>5 DEF IsTable

\* What a fold may do with a state in A and a line in L.
Steps(A, L) == [A \X L -> A]

\* The table of a fold of F over d: what FoldLeft chooses.
IsFoldTable(G, A, L, F, b, d) ==
  /\ G = [s \in SUBSET DOMAIN d |->
            IF s = {} THEN b ELSE F[<<G[s \ {Max(s)}], d[Max(s)]>>]]
  /\ \A s \in SUBSET DOMAIN d :
       s # {} => G[s \ {Max(s)}] \in A /\ d[Max(s)] \in L

\* ... and so does the table that FoldLeft looks for.
LEMMA FoldTable ==
  ASSUME NEW A, NEW L, NEW F \in Steps(A, L), NEW b \in A, NEW d \in Seq(L)
  PROVE  \E G : IsFoldTable(G, A, L, F, b, d)
<1> DEFINE n == Len(d)
           T == [a \in A \X (1..n) |-> F[<<a[1], d[a[2]]>>]]
<1>1. n \in Nat /\ DOMAIN d = 1..n /\ \A i \in 1..n : d[i] \in L
  BY LenProperties
<1>2. T \in [A \X (1..n) -> A]
  BY <1>1 DEF Steps
<1> HIDE DEF n
<1>3. PICK H \in [SUBSET (1..n) -> A] : IsTable(H, n, T, b)
  <2> HIDE DEF T
  <2> QED BY <1>1, <1>2, TableExists
<1>4. ASSUME NEW s \in SUBSET (1..n), s # {}
      PROVE  /\ Max(s) \in 1..n
             /\ H[s \ {Max(s)}] \in A
             /\ T[<<H[s \ {Max(s)}], Max(s)>>] = F[<<H[s \ {Max(s)}], d[Max(s)]>>]
  <2>1. Max(s) \in 1..n
    BY <1>1, <1>4, LastNumber
  <2>2. s \ {Max(s)} \in SUBSET (1..n)
    OBVIOUS
  <2>3. PICK a, m : a = H[s \ {Max(s)}] /\ m = Max(s)
    OBVIOUS
  <2>4. a \in A /\ m \in 1..n
    BY <2>1, <2>2, <2>3
  <2>5. T[<<a, m>>] = F[<<a, d[m]>>]
    BY <2>4
  <2> QED
    BY <2>1, <2>3, <2>4, <2>5
<1>5. H = [s \in SUBSET (1..n) |->
             IF s = {} THEN b ELSE T[<<H[s \ {Max(s)}], Max(s)>>]]
  BY <1>3 DEF IsTable
<1> HIDE DEF T
<1>6. \A s \in SUBSET (1..n) :
        H[s] = IF s = {} THEN b ELSE F[<<H[s \ {Max(s)}], d[Max(s)]>>]
  BY <1>4, <1>5
<1>7. H = [s \in SUBSET DOMAIN d |->
             IF s = {} THEN b ELSE F[<<H[s \ {Max(s)}], d[Max(s)]>>]]
  BY <1>1, <1>6
<1> QED
  BY <1>1, <1>4, <1>7 DEF IsFoldTable

\* The states a fold of F goes through, and the last of them.
IsTrace(P, A, F, b, d) ==
  /\ P \in [0..Len(d) -> A]
  /\ P[0] = b
  /\ \A i \in 1..Len(d) : P[i] = F[<<P[i - 1], d[i]>>]

Folded(A, F, b, d) == (CHOOSE P : IsTrace(P, A, F, b, d))[Len(d)]

\* The states depend on the lines that were read, and on nothing else.
LEMMA TracesAgree ==
  ASSUME NEW A, NEW L, NEW F \in Steps(A, L), NEW b \in A, NEW d \in Seq(L),
         NEW e \in Seq(L), NEW n \in 0..Len(d), n <= Len(e),
         \A i \in 1..n : d[i] = e[i],
         NEW P, IsTrace(P, A, F, b, d), NEW Q, IsTrace(Q, A, F, b, e)
  PROVE  \A i \in 0..n : P[i] = Q[i]
<1> DEFINE N == {i \in 0..n : P[i] = Q[i]}
<1>1. Len(d) \in Nat /\ Len(e) \in Nat /\ n \in Nat
  BY LenProperties
<1>2. 0 \in N
  BY <1>1 DEF IsTrace
<1>3. ASSUME NEW i \in 0..n, i \in N, i < n PROVE i + 1 \in N
  <2>1. i + 1 \in 1..Len(d) /\ i + 1 \in 1..Len(e) /\ i + 1 \in 1..n /\ (i + 1) - 1 = i
    BY <1>1, <1>3
  <2>2. PICK j : j = i + 1
    OBVIOUS
  <2>3. j - 1 = i /\ j \in 1..Len(d) /\ j \in 1..Len(e) /\ j \in 1..n /\ j \in 0..n
    BY <1>1, <1>3, <2>1, <2>2
  <2>4. P[j] = F[<<P[j - 1], d[j]>>] /\ Q[j] = F[<<Q[j - 1], e[j]>>]
    BY <2>3 DEF IsTrace
  <2>5. P[j] = Q[j]
    BY <1>3, <2>3, <2>4
  <2> QED
    BY <2>2, <2>3, <2>5
<1>4. \A i \in 0..n : i \in N
  <2> HIDE DEF N
  <2> QED BY <1>1, <1>2, <1>3, PrefixesOf
<1> QED
  BY <1>4

\* What goes through the states of a trace is one.
LEMMA PrefixTrace ==
  ASSUME NEW A, NEW L, NEW F \in Steps(A, L), NEW b \in A, NEW d \in Seq(L),
         NEW H, H[1..0] = b,
         \A i \in 1..Len(d) : H[1..(i - 1)] \in A =>
           H[1..i] = F[<<H[1..(i - 1)], d[i]>>]
  PROVE  IsTrace([i \in 0..Len(d) |-> H[1..i]], A, F, b, d)
<1> DEFINE n == Len(d)
           N == {i \in 0..n : H[1..i] \in A}
<1>1. n \in Nat /\ \A i \in 1..n : d[i] \in L
  BY LenProperties
<1>2. 0 \in N
  BY <1>1
<1>3. ASSUME NEW i \in 0..n, i \in N, i < n PROVE i + 1 \in N
  <2>1. i + 1 \in 1..n /\ (i + 1) - 1 = i
    BY <1>1, <1>3
  <2>2. H[1..(i + 1)] = F[<<H[1..i], d[i + 1]>>]
    BY <1>3, <2>1
  <2> QED
    BY <1>1, <1>3, <2>1, <2>2 DEF Steps
<1>4. \A i \in 0..n : H[1..i] \in A
  <2>1. \A i \in 0..n : i \in N
    <3> HIDE DEF N, n
    <3> QED BY <1>1, <1>2, <1>3, PrefixesOf
  <2> QED BY <2>1
<1>5. \A i \in 1..n : i \in 0..n /\ i - 1 \in 0..n
  BY <1>1
<1>6. 0 \in 0..n
  BY <1>1
<1> QED
  BY <1>4, <1>5, <1>6 DEF IsTrace

\* There is a trace over every sequence.
LEMMA TraceExists ==
  ASSUME NEW A, NEW L, NEW F \in Steps(A, L), NEW b \in A, NEW d \in Seq(L)
  PROVE  \E P : IsTrace(P, A, F, b, d)
<1>1. PICK G : IsFoldTable(G, A, L, F, b, d)
  BY FoldTable
<1>2. Len(d) \in Nat /\ DOMAIN d = 1..Len(d)
  BY LenProperties
<1>3. G[1..0] = b
  <2>1. 1..0 = {}
    OBVIOUS
  <2>2. {} \in SUBSET DOMAIN d
    OBVIOUS
  <2>3. G[{}] = b
    BY <1>1, <2>2 DEF IsFoldTable
  <2> QED BY <2>1, <2>3
<1>4. ASSUME NEW i \in 1..Len(d) PROVE G[1..i] = F[<<G[1..(i - 1)], d[i]>>]
  <2>0. i \in Nat /\ i # 0 /\ i <= Len(d) /\ Len(d) \in Nat
    BY <1>2
  <2>1. 1..i \subseteq 1..Len(d) /\ i \in 1..i
    BY <2>0
  <2>2. Max(1..i) = i /\ (1..i) \ {Max(1..i)} = 1..(i - 1)
    BY <2>0, LastOfPrefix
  <2>3. G[1..i] = F[<<G[(1..i) \ {Max(1..i)}], d[Max(1..i)]>>]
    BY <1>1, <1>2, <2>1 DEF IsFoldTable
  <2> QED
    BY <2>2, <2>3
<1> QED
  BY <1>3, <1>4, PrefixTrace

\* What Folded is: the end of any trace; it lies in A, and goes on with each line.
LEMMA FoldedIsEnd ==
  ASSUME NEW A, NEW L, NEW F \in Steps(A, L), NEW b \in A, NEW d \in Seq(L),
         NEW P, IsTrace(P, A, F, b, d)
  PROVE  Folded(A, F, b, d) = P[Len(d)] /\ Folded(A, F, b, d) \in A
<1>1. PICK Q : IsTrace(Q, A, F, b, d) /\ Folded(A, F, b, d) = Q[Len(d)]
  BY DEF Folded
<1>2. Len(d) \in 0..Len(d) /\ Len(d) <= Len(d)
  BY LenProperties
<1>3. \A i \in 0..Len(d) : Q[i] = P[i]
  BY <1>1, <1>2, TracesAgree
<1>4. P[Len(d)] \in A
  BY <1>2 DEF IsTrace
<1> QED
  BY <1>1, <1>2, <1>3, <1>4

\* A fold goes on with each line that is appended.
LEMMA FoldedAppends ==
  ASSUME NEW A, NEW L, NEW F \in Steps(A, L), NEW b \in A, NEW d \in Seq(L), NEW x \in L
  PROVE  /\ Folded(A, F, b, << >>) = b
         /\ Folded(A, F, b, d) \in A
         /\ Folded(A, F, b, Append(d, x)) = F[<<Folded(A, F, b, d), x>>]
<1>1. Folded(A, F, b, << >>) = b
  <2>1. << >> \in Seq(L) /\ Len(<< >>) = 0
    BY EmptySeq
  <2>2. PICK P : IsTrace(P, A, F, b, << >>)
    BY <2>1, TraceExists
  <2>3. Folded(A, F, b, << >>) = P[0] /\ P[0] = b
    BY <2>1, <2>2, FoldedIsEnd DEF IsTrace
  <2> QED
    BY <2>3
<1> DEFINE e == Append(d, x)
<1>2. /\ e \in Seq(L) /\ Len(e) = Len(d) + 1 /\ e[Len(d) + 1] = x
      /\ Len(d) \in Nat
      /\ \A i \in 1..Len(d) : e[i] = d[i]
  BY AppendProperties, LenProperties
<1> HIDE DEF e
<1>3. PICK P : IsTrace(P, A, F, b, d)
  BY TraceExists
<1>4. PICK Q : IsTrace(Q, A, F, b, e)
  BY <1>2, TraceExists
<1>5. Len(d) \in 0..Len(d) /\ Len(d) <= Len(e) /\ Len(e) \in 1..Len(e) /\ Len(e) - 1 = Len(d)
  BY <1>2
<1>6. P[Len(d)] = Q[Len(d)]
  BY <1>2, <1>3, <1>4, <1>5, TracesAgree
<1>7. Q[Len(e)] = F[<<Q[Len(d)], x>>]
  BY <1>2, <1>4, <1>5 DEF IsTrace
<1>8. Folded(A, F, b, d) = P[Len(d)] /\ Folded(A, F, b, d) \in A
  BY <1>3, FoldedIsEnd
<1>9. Folded(A, F, b, e) = Q[Len(e)]
  BY <1>2, <1>4, FoldedIsEnd
<1> QED
  BY <1>1, <1>6, <1>7, <1>8, <1>9 DEF e

\* The sets of positions that FoldLeft takes up, from the first to the last.
LEMMA PrefixSets ==
  ASSUME NEW L, NEW d \in Seq(L)
  PROVE  /\ 1..0 = {} /\ {} \in SUBSET DOMAIN d
         /\ DOMAIN d = 1..Len(d) /\ Len(d) \in 0..Len(d)
         /\ \A i \in 1..Len(d) :
              /\ 1..i \in SUBSET DOMAIN d /\ 1..i # {} /\ d[i] \in L
              /\ Max(1..i) = i /\ (1..i) \ {Max(1..i)} = 1..(i - 1)
<1>1. DOMAIN d = 1..Len(d) /\ Len(d) \in Nat
  BY LenProperties
<1>2. ASSUME NEW i \in 1..Len(d)
      PROVE  /\ 1..i \in SUBSET DOMAIN d /\ 1..i # {} /\ d[i] \in L
             /\ Max(1..i) = i /\ (1..i) \ {Max(1..i)} = 1..(i - 1)
  <2>1. i \in Nat /\ i # 0 /\ i <= Len(d)
    BY <1>1
  <2>2. 1..i \subseteq 1..Len(d) /\ i \in 1..i
    BY <1>1, <2>1
  <2>3. Max(1..i) = i /\ (1..i) \ {Max(1..i)} = 1..(i - 1)
    BY <2>1, LastOfPrefix
  <2>4. d[i] \in L
    BY ElementOfSeq
  <2> QED
    BY <1>1, <2>2, <2>3, <2>4
<1>3. 1..0 = {} /\ {} \in SUBSET DOMAIN d /\ Len(d) \in 0..Len(d)
  BY <1>1
<1> QED
  BY <1>1, <1>2, <1>3

\* What FoldLeft chooses is what Folded says.
Folds(H, A, L, F, b, d) ==
  /\ H[{}] = b
  /\ \A s \in SUBSET DOMAIN d : s # {} /\ H[s \ {Max(s)}] \in A /\ d[Max(s)] \in L =>
       H[s] = F[<<H[s \ {Max(s)}], d[Max(s)]>>]

\* A table that FoldLeft chooses holds the end of the trace at the whole domain.
LEMMA FoldIsFolded ==
  ASSUME NEW A, NEW L, NEW F \in Steps(A, L), NEW b \in A, NEW d \in Seq(L),
         NEW H, Folds(H, A, L, F, b, d)
  PROVE  H[DOMAIN d] = Folded(A, F, b, d)
<1>1. ASSUME NEW i \in 1..Len(d), H[1..(i - 1)] \in A
      PROVE  H[1..i] = F[<<H[1..(i - 1)], d[i]>>]
  <2>1. /\ 1..i \in SUBSET DOMAIN d /\ 1..i # {} /\ d[i] \in L
        /\ Max(1..i) = i /\ (1..i) \ {Max(1..i)} = 1..(i - 1)
    BY PrefixSets
  <2>2. H[(1..i) \ {Max(1..i)}] \in A /\ d[Max(1..i)] \in L
    BY <1>1, <2>1
  <2>3. H[1..i] = F[<<H[(1..i) \ {Max(1..i)}], d[Max(1..i)]>>]
    BY <2>1, <2>2 DEF Folds
  <2> QED
    BY <2>1, <2>3
<1>2. H[1..0] = b
  BY PrefixSets DEF Folds
<1>3. IsTrace([i \in 0..Len(d) |-> H[1..i]], A, F, b, d)
  BY <1>1, <1>2, PrefixTrace
<1>4. Folded(A, F, b, d) = [i \in 0..Len(d) |-> H[1..i]][Len(d)]
  BY <1>3, FoldedIsEnd
<1> QED
  BY <1>4, PrefixSets

\* A fold over a concatenation goes on where that over its first part ends.
LEMMA FoldedConcat ==
  ASSUME NEW A, NEW L, NEW F \in Steps(A, L), NEW b \in A, NEW d \in Seq(L), NEW e \in Seq(L)
  PROVE  Folded(A, F, b, d \o e) = Folded(A, F, Folded(A, F, b, d), e)
<1> DEFINE c == Folded(A, F, b, d)
           M == {s \in Seq(L) : Folded(A, F, b, d \o s) = Folded(A, F, c, s)}
<1>0. c \in A
  <2>1. PICK P : IsTrace(P, A, F, b, d)
    BY TraceExists
  <2> QED
    BY <2>1, FoldedIsEnd
<1> HIDE DEF c
<1>1. << >> \in M
  <2>1. << >> \in Seq(L) /\ d \o << >> = d
    BY EmptySeq, ConcatEmptySeq
  <2>2. PICK P : IsTrace(P, A, F, c, << >>)
    BY <1>0, <2>1, TraceExists
  <2>3. Folded(A, F, c, << >>) = P[Len(<< >>)] /\ P[0] = c
    BY <1>0, <2>1, <2>2, FoldedIsEnd DEF IsTrace
  <2> QED
    BY <2>1, <2>3, EmptySeq DEF c
<1>2. ASSUME NEW s \in Seq(L), NEW x \in L, s \in M PROVE Append(s, x) \in M
  <2>1. d \o s \in Seq(L) /\ Append(s, x) \in Seq(L)
    BY ConcatProperties, AppendProperties
  <2>2. d \o Append(s, x) = Append(d \o s, x)
    OBVIOUS
  <2>3. Folded(A, F, b, Append(d \o s, x)) = F[<<Folded(A, F, b, d \o s), x>>]
    <3>1. PICK z \in Seq(L) : z = d \o s
      BY <2>1
    <3>2. Folded(A, F, b, Append(z, x)) = F[<<Folded(A, F, b, z), x>>]
      BY FoldedAppends
    <3> QED
      BY <3>1, <3>2
  <2>4. Folded(A, F, c, Append(s, x)) = F[<<Folded(A, F, c, s), x>>]
    BY <1>0, FoldedAppends
  <2> QED
    BY <1>2, <2>1, <2>2, <2>3, <2>4
<1>3. Seq(L) \subseteq M
  <2> HIDE DEF M
  <2> QED BY <1>1, <1>2, SetOfSequences
<1> QED
  BY <1>3 DEF c

\* The equations of a fold.
Unfolds(A, L, F, b, d) ==
  /\ Folded(A, F, b, << >>) = b
  /\ Folded(A, F, b, d) \in A
  /\ \A x \in L : /\ Folded(A, F, b, Append(d, x)) = F[<<Folded(A, F, b, d), x>>]
                  /\ Folded(A, F, b, <<x>>) = F[<<b, x>>]
  /\ \A e \in Seq(L) : Folded(A, F, b, d \o e) = Folded(A, F, Folded(A, F, b, d), e)

\* All of it at once, for the folds below.
LEMMA FoldedFacts ==
  ASSUME NEW A, NEW L, NEW F \in Steps(A, L), NEW b \in A, NEW d \in Seq(L)
  PROVE  Unfolds(A, L, F, b, d)
<1>1. << >> \in Seq(L) /\ Len(<< >>) = 0
  BY EmptySeq
<1>2. PICK P : IsTrace(P, A, F, b, << >>)
  BY <1>1, TraceExists
<1>3. Folded(A, F, b, << >>) = P[0] /\ P[0] = b
  BY <1>1, <1>2, FoldedIsEnd DEF IsTrace
<1>4. Folded(A, F, b, d) \in A
  <2>1. PICK Q : IsTrace(Q, A, F, b, d)
    BY TraceExists
  <2> QED
    BY <2>1, FoldedIsEnd
<1>5. ASSUME NEW x \in L
      PROVE  /\ Folded(A, F, b, Append(d, x)) = F[<<Folded(A, F, b, d), x>>]
             /\ Folded(A, F, b, <<x>>) = F[<<b, x>>]
  <2>1. Folded(A, F, b, Append(d, x)) = F[<<Folded(A, F, b, d), x>>]
    BY FoldedAppends
  <2>2. Folded(A, F, b, Append(<< >>, x)) = F[<<Folded(A, F, b, << >>), x>>]
    <3>1. PICK z \in Seq(L) : z = << >>
      BY <1>1
    <3>2. Folded(A, F, b, Append(z, x)) = F[<<Folded(A, F, b, z), x>>]
      BY FoldedAppends
    <3> QED
      BY <3>1, <3>2
  <2>3. Append(<< >>, x) = <<x>>
    OBVIOUS
  <2> QED
    BY <1>3, <2>1, <2>2, <2>3
<1> QED
  BY <1>3, <1>4, <1>5, FoldedConcat DEF Unfolds

-----------------------------------------------------------------------------
(* Sections                                                                *)

Sections == [path : PathNames, lines : Seq(Lines)]

\* What split_file_sections has found and holds.
Accs == [sections : Seq(Sections), path : PathNames \cup {Absent},
         lines : Seq(Lines), pending : Seq(Lines)]

\* The paths of the model, one by one.
LEMMA PathNamesAre == PathNames = {"", "f", "g", "i", "p"}
<1>1. DOMAIN Paths = {1, 2, 3, 4, 5}
  BY DEF Paths
<1>2. /\ Paths[1] = "" /\ Paths[2] = "f" /\ Paths[3] = "g"
      /\ Paths[4] = "i" /\ Paths[5] = "p"
  BY DEF Paths
<1> QED
  BY <1>1, <1>2 DEF PathNames

\* A section without a path differs from every file.
LEMMA AbsentIsNoPath == Absent \notin PathNames
  BY PathNamesAre DEF Absent

\* What each kind of line holds.
LEMMA KindsOfLines ==
  ASSUME NEW line \in Lines
  PROVE  /\ line.kind \in {"---", "+++", "@@", "body", "blank", "metadata"}
         /\ line.kind \in {"---", "+++"} => line.text \in PathNames /\ line.stamp \in BOOLEAN
         /\ line.kind = "@@" => line.start \in Nat
         /\ line.kind = "body" => line.tag \in {" ", "-", "+"} /\ line.text \in Texts
<1>1. CASE line \in [kind : {"---", "+++"}, text : PathNames, stamp : BOOLEAN]
  BY <1>1
<1>2. CASE line \in [kind : {"@@"}, start : Nat, olds : Nat, news : Nat]
  BY <1>2
<1>3. CASE line \in [kind : {"body"}, tag : {" ", "-", "+"}, text : Texts]
  BY <1>3
<1>4. CASE line \in {Blank, Metadata}
  <2>1. line.kind \in {"blank", "metadata"}
    BY <1>4 DEF Blank, Metadata
  <2> QED
    BY <2>1
<1> QED
  BY <1>1, <1>2, <1>3, <1>4 DEF Lines

\* A line that is read as a header names a file.
LEMMA HeadersHavePaths ==
  ASSUME NEW line \in Lines, IsHeader(line, "---") \/ IsHeader(line, "+++")
  PROVE  PathOf(line) \in PathNames
<1>1. CASE line.kind = "body"
  BY <1>1, PathNamesAre DEF PathOf
<1>2. CASE line.kind # "body"
  <2>1. line.kind \in {"---", "+++"}
    BY <1>2 DEF IsHeader
  <2> QED
    BY <1>2, <2>1, KindsOfLines DEF PathOf
<1> QED
  BY <1>1, <1>2

\* Closing a section adds a section.
LEMMA ClosedType ==
  ASSUME NEW acc \in Accs
  PROVE  Closed(acc) \in Seq(Sections)
<1>1. /\ acc.sections \in Seq(Sections) /\ acc.path \in PathNames \cup {Absent}
      /\ acc.lines \in Seq(Lines) /\ acc.pending \in Seq(Lines)
  BY DEF Accs
<1>2. acc.lines \o acc.pending \in Seq(Lines)
  BY <1>1, ConcatProperties
<1>3. Section(acc.path, acc.lines \o acc.pending) \in Sections
  BY <1>1, <1>2, PathNamesAre DEF Section, Sections
<1> QED
  BY <1>1, <1>3, AppendProperties DEF Closed

\* A line leads from one state of split_file_sections to another.
LEMMA SplitLineType ==
  ASSUME NEW acc \in Accs, NEW line \in Lines
  PROVE  SplitLine(acc, line) \in Accs
<1>1. /\ acc.sections \in Seq(Sections) /\ acc.path \in PathNames \cup {Absent}
      /\ acc.lines \in Seq(Lines) /\ acc.pending \in Seq(Lines)
  BY DEF Accs
<1>2. << >> \in Seq(Lines) /\ <<line>> \in Seq(Lines)
  BY EmptySeq, AppendProperties
<1>3. CASE IsHeader(line, "---")
  BY <1>2, <1>3, ClosedType DEF SplitLine, Accs
<1>4. CASE ~IsHeader(line, "---") /\ IsHeader(line, "+++")
  <2>1. PathOf(line) \in PathNames
    BY <1>4, HeadersHavePaths
  <2>2. acc.lines \o acc.pending \o <<line>> \in Seq(Lines)
    BY <1>1, <1>2, ConcatProperties
  <2>3. SplitLine(acc, line) =
          [acc EXCEPT !.path = PathOf(line), !.pending = << >>,
                      !.lines = acc.lines \o acc.pending \o <<line>>]
    BY <1>4 DEF SplitLine
  <2> QED
    BY <1>2, <2>1, <2>2, <2>3 DEF Accs
<1>5. CASE ~IsHeader(line, "---") /\ ~IsHeader(line, "+++")
  <2>1. Append(acc.lines, line) \in Seq(Lines)
    BY <1>1, AppendProperties
  <2> QED
    BY <1>1, <1>5, <2>1 DEF SplitLine, Accs
<1> QED
  BY <1>3, <1>4, <1>5

SplitStep == [x \in Accs \X Lines |-> SplitLine(x[1], x[2])]

\* The lines d, split from acc on.
SplitAll(acc, d) == Folded(Accs, SplitStep, acc, d)

\* Reading a line is a step of a fold.
LEMMA SplitSteps ==
  /\ SplitStep \in Steps(Accs, Lines)
  /\ \A a \in Accs, x \in Lines : SplitStep[<<a, x>>] = SplitLine(a, x)
  BY SplitLineType DEF SplitStep, Steps

\* The fold of split_file_sections, from any state on.
LEMMA SplitIsFolded ==
  ASSUME NEW b \in Accs, NEW d \in Seq(Lines)
  PROVE  FoldLeft(SplitLine, b, d) = SplitAll(b, d)
<1>1. PICK G : IsFoldTable(G, Accs, Lines, SplitStep, b, d)
  BY SplitSteps, FoldTable
<1>2. G = [s \in SUBSET DOMAIN d |->
             IF s = {} THEN b ELSE SplitLine(G[s \ {Max(s)}], d[Max(s)])]
  BY <1>1, SplitSteps DEF IsFoldTable
<1>3. PICK H : /\ H = [s \in SUBSET DOMAIN d |->
                         IF s = {} THEN b ELSE SplitLine(H[s \ {Max(s)}], d[Max(s)])]
               /\ FoldLeft(SplitLine, b, d) = H[DOMAIN d]
  BY <1>2 DEF FoldLeft, MapThenFoldSet
<1>4. Folds(H, Accs, Lines, SplitStep, b, d)
  BY <1>3, SplitSteps DEF Folds
<1> QED
  BY <1>3, <1>4, SplitSteps, FoldIsFolded DEF SplitAll

\* Its equations.
LEMMA SplitAllFacts ==
  ASSUME NEW b \in Accs, NEW d \in Seq(Lines)
  PROVE  /\ SplitAll(b, << >>) = b
         /\ SplitAll(b, d) \in Accs
         /\ \A x \in Lines : /\ SplitAll(b, Append(d, x)) = SplitLine(SplitAll(b, d), x)
                             /\ SplitAll(b, <<x>>) = SplitLine(b, x)
         /\ \A e \in Seq(Lines) : SplitAll(b, d \o e) = SplitAll(SplitAll(b, d), e)
<1>1. Unfolds(Accs, Lines, SplitStep, b, d)
  BY SplitSteps, FoldedFacts
<1> QED
  BY <1>1, SplitSteps DEF Unfolds, SplitAll

Start0 == [sections |-> << >>, path |-> Absent, lines |-> << >>, pending |-> << >>]

\* split_file_sections returns sections.
LEMMA SplitFromStart ==
  ASSUME NEW d \in Seq(Lines)
  PROVE  /\ Start0 \in Accs
         /\ SplitFileSections(d) = Closed(SplitAll(Start0, d))
         /\ SplitFileSections(d) \in Seq(Sections)
<1>1. Start0 \in Accs
  BY EmptySeq DEF Start0, Accs
<1>2. SplitFileSections(d) = Closed(SplitAll(Start0, d))
  BY <1>1, SplitIsFolded DEF SplitFileSections, Start0
<1>3. SplitAll(Start0, d) \in Accs
  BY <1>1, SplitAllFacts
<1> QED
  BY <1>1, <1>2, <1>3, ClosedType

\* What was found before does not matter for what is found next.
After(S, acc) == [sections |-> S \o acc.sections, path |-> acc.path,
                  lines |-> acc.lines, pending |-> acc.pending]

\* Earlier sections stay in front when a section is closed,
LEMMA AfterClosed ==
  ASSUME NEW S \in Seq(Sections), NEW acc \in Accs
  PROVE  /\ After(S, acc) \in Accs
         /\ Closed(After(S, acc)) = S \o Closed(acc)
<1>1. /\ acc.sections \in Seq(Sections) /\ acc.path \in PathNames \cup {Absent}
      /\ acc.lines \in Seq(Lines) /\ acc.pending \in Seq(Lines)
  BY DEF Accs
<1>2. S \o acc.sections \in Seq(Sections)
  BY <1>1, ConcatProperties
<1>3. /\ After(S, acc).sections = S \o acc.sections
      /\ After(S, acc).path = acc.path /\ After(S, acc).lines = acc.lines
      /\ After(S, acc).pending = acc.pending
      /\ After(S, acc) \in Accs
  BY <1>1, <1>2 DEF After, Accs
<1>4. ASSUME NEW s \in Sections
      PROVE  Append(S \o acc.sections, s) = S \o Append(acc.sections, s)
  <2>1. PICK t \in Seq(Sections) : t = acc.sections
    BY <1>1
  <2>2. Append(S \o t, s) = S \o Append(t, s)
    OBVIOUS
  <2> QED
    BY <2>1, <2>2
<1>5. Section(acc.path, acc.lines \o acc.pending) \in Sections
  BY <1>1, ConcatProperties, PathNamesAre DEF Section, Sections
<1> QED
  BY <1>3, <1>4, <1>5 DEF Closed

\* ... when a line is read,
LEMMA AfterSplitLine ==
  ASSUME NEW S \in Seq(Sections), NEW acc \in Accs, NEW line \in Lines
  PROVE  SplitLine(After(S, acc), line) = After(S, SplitLine(acc, line))
<1>1. DOMAIN acc = {"sections", "path", "lines", "pending"}
  BY DEF Accs
<1>2. CASE IsHeader(line, "---")
  <2>1. Closed(After(S, acc)) = S \o Closed(acc)
    BY AfterClosed
  <2>2. \A a \in Accs : SplitLine(a, line) =
          [sections |-> Closed(a), path |-> Absent, lines |-> << >>, pending |-> <<line>>]
    BY <1>2 DEF SplitLine
  <2>3. After(S, SplitLine(acc, line)) =
          [sections |-> S \o Closed(acc), path |-> Absent, lines |-> << >>, pending |-> <<line>>]
    <3> DEFINE r == SplitLine(acc, line)
    <3>1. /\ r.sections = Closed(acc) /\ r.path = Absent
          /\ r.lines = << >> /\ r.pending = <<line>>
      BY <1>2 DEF SplitLine
    <3> QED
      BY <3>1 DEF After
  <2> QED
    BY <2>1, <2>2, <2>3, AfterClosed
<1>3. CASE ~IsHeader(line, "---") /\ IsHeader(line, "+++")
  BY <1>1, <1>3 DEF SplitLine, After, Accs
<1>4. CASE ~IsHeader(line, "---") /\ ~IsHeader(line, "+++")
  BY <1>1, <1>4 DEF SplitLine, After, Accs
<1> QED
  BY <1>2, <1>3, <1>4

\* ... and when a diff is.
LEMMA AfterSplitAll ==
  ASSUME NEW S \in Seq(Sections), NEW acc \in Accs, NEW d \in Seq(Lines)
  PROVE  SplitAll(After(S, acc), d) = After(S, SplitAll(acc, d))
<1> DEFINE M == {e \in Seq(Lines) : SplitAll(After(S, acc), e) = After(S, SplitAll(acc, e))}
<1>1. << >> \in M
  BY AfterClosed, SplitAllFacts, EmptySeq
<1>2. ASSUME NEW e \in Seq(Lines), NEW x \in Lines, e \in M PROVE Append(e, x) \in M
  <2>1. SplitAll(acc, e) \in Accs /\ After(S, acc) \in Accs
    BY AfterClosed, SplitAllFacts
  <2>2. SplitAll(After(S, acc), Append(e, x)) = SplitLine(After(S, SplitAll(acc, e)), x)
    <3>1. SplitAll(After(S, acc), e) = After(S, SplitAll(acc, e))
      BY <1>2
    <3>2. SplitAll(After(S, acc), Append(e, x)) = SplitLine(SplitAll(After(S, acc), e), x)
      BY <2>1, SplitAllFacts
    <3> QED
      BY <3>1, <3>2
  <2>3. SplitAll(acc, Append(e, x)) = SplitLine(SplitAll(acc, e), x)
    BY SplitAllFacts
  <2>4. Append(e, x) \in Seq(Lines)
    BY AppendProperties
  <2> QED
    BY <2>1, <2>2, <2>3, <2>4, AfterSplitLine
<1>3. Seq(Lines) \subseteq M
  <2> HIDE DEF M
  <2> QED BY <1>1, <1>2, SetOfSequences
<1> QED
  BY <1>3

\* split_file_sections takes a diff apart wherever the header of a file begins.
LEMMA SplitsAtHeaders ==
  ASSUME NEW d \in Seq(Lines), NEW x \in Lines, IsHeader(x, "---"), NEW e \in Seq(Lines)
  PROVE  SplitFileSections(d \o (<<x>> \o e))
           = SplitFileSections(d) \o SplitFileSections(<<x>> \o e)
<1> DEFINE a == SplitAll(Start0, d)
           o == SplitLine(Start0, x)
<1>1. /\ <<x>> \in Seq(Lines) /\ <<x>> \o e \in Seq(Lines) /\ d \o (<<x>> \o e) \in Seq(Lines)
      /\ Start0 \in Accs
  BY ConcatProperties, AppendProperties, EmptySeq, SplitFromStart
<1>2. a \in Accs /\ o \in Accs
  BY <1>1, SplitAllFacts, SplitLineType
<1>3. Closed(Start0) = << >>
  BY DEF Closed, Start0
<1>4. Closed(a) \in Seq(Sections)
  BY <1>2, ClosedType
<1>5. SplitLine(a, x) = After(Closed(a), o)
  <2>1. Closed(a) \o << >> = Closed(a)
    BY <1>4, ConcatEmptySeq
  <2> QED
    BY <1>3, <2>1 DEF SplitLine, After
<1>6. SplitAll(Start0, d \o (<<x>> \o e)) = SplitAll(SplitLine(a, x), e)
  <2>1. SplitAll(Start0, d \o (<<x>> \o e)) = SplitAll(a, <<x>> \o e)
    BY <1>1, SplitAllFacts
  <2>2. SplitAll(a, <<x>> \o e) = SplitAll(SplitAll(a, <<x>>), e)
    <3>1. PICK h \in Seq(Lines) : h = <<x>>
      BY <1>1
    <3>2. SplitAll(a, h \o e) = SplitAll(SplitAll(a, h), e)
      BY <1>2, SplitAllFacts
    <3> QED
      BY <3>1, <3>2
  <2>3. SplitAll(a, <<x>>) = SplitLine(a, x)
    BY <1>1, <1>2, SplitAllFacts
  <2> QED
    BY <2>1, <2>2, <2>3
<1>7. SplitAll(Start0, <<x>> \o e) = SplitAll(o, e)
  <2>1. SplitAll(Start0, <<x>> \o e) = SplitAll(SplitAll(Start0, <<x>>), e)
    BY <1>1, SplitAllFacts
  <2>2. SplitAll(Start0, <<x>>) = SplitLine(Start0, x)
    BY <1>1, SplitAllFacts
  <2> QED
    BY <2>1, <2>2
<1>8. SplitAll(After(Closed(a), o), e) = After(Closed(a), SplitAll(o, e))
  BY <1>2, <1>4, AfterSplitAll
<1>9. SplitAll(o, e) \in Accs
  BY <1>2, SplitAllFacts
<1>10. Closed(After(Closed(a), SplitAll(o, e))) = Closed(a) \o Closed(SplitAll(o, e))
  BY <1>4, <1>9, AfterClosed
<1> HIDE DEF a, o
<1>11. SplitFileSections(d \o (<<x>> \o e)) = Closed(a) \o Closed(SplitAll(o, e))
  BY <1>1, <1>5, <1>6, <1>8, <1>10, SplitFromStart
<1>12. SplitFileSections(<<x>> \o e) = Closed(SplitAll(o, e))
  BY <1>1, <1>7, SplitFromStart
<1>13. SplitFileSections(d) = Closed(a)
  BY SplitFromStart DEF a
<1> QED
  BY <1>11, <1>12, <1>13

-----------------------------------------------------------------------------
(* The lines of a file, and the canonical form                             *)

\* Cleaning a header is done once and for all, and keeps what the parsers look at.
LEMMA CleanHeaderFacts ==
  ASSUME NEW line \in Lines
  PROVE  /\ CleanHeader(line) \in Lines
         /\ CleanHeader(CleanHeader(line)) = CleanHeader(line)
         /\ IsHeader(CleanHeader(line), "---") <=> IsHeader(line, "---")
         /\ IsHeader(CleanHeader(line), "+++") <=> IsHeader(line, "+++")
         /\ ~(IsHeader(line, "---") /\ IsHeader(line, "+++"))
         /\ IsHeader(line, "---") \/ IsHeader(line, "+++") =>
              PathOf(CleanHeader(line)) = PathOf(line)
         /\ KeepLine(CleanHeader(line)) <=> KeepLine(line)
<1>1. ~(IsHeader(line, "---") /\ IsHeader(line, "+++"))
  BY DEF IsHeader
<1>2. CASE IsHeader(line, "---")
  <2>1. PathOf(line) \in PathNames
    BY <1>2, HeadersHavePaths
  <2>2. CleanHeader(line) = [kind |-> "---", text |-> PathOf(line), stamp |-> FALSE]
    BY <1>2 DEF CleanHeader, Old
  <2>3. CleanHeader(line) \in Lines
    <3>1. CleanHeader(line) \in [kind : {"---", "+++"}, text : PathNames, stamp : BOOLEAN]
      BY <2>1, <2>2
    <3> QED
      BY <3>1 DEF Lines
  <2>4. /\ CleanHeader(line).kind = "---" /\ CleanHeader(line).text = PathOf(line)
    BY <2>2
  <2>5. IsHeader(CleanHeader(line), "---") /\ ~IsHeader(CleanHeader(line), "+++")
    BY <2>4 DEF IsHeader
  <2>6. PathOf(CleanHeader(line)) = PathOf(line)
    BY <2>4 DEF PathOf
  <2>7. CleanHeader(CleanHeader(line)) = CleanHeader(line)
    BY <1>2, <2>5, <2>6 DEF CleanHeader
  <2>8. KeepLine(line) /\ KeepLine(CleanHeader(line))
    BY <1>2, <2>4 DEF KeepLine, IsHeader
  <2> QED
    BY <1>1, <1>2, <2>3, <2>5, <2>6, <2>7, <2>8
<1>3. CASE IsHeader(line, "+++")
  <2>1. PathOf(line) \in PathNames
    BY <1>3, HeadersHavePaths
  <2>2. CleanHeader(line) = [kind |-> "+++", text |-> PathOf(line), stamp |-> FALSE]
    BY <1>1, <1>3 DEF CleanHeader, New
  <2>3. CleanHeader(line) \in Lines
    <3>1. CleanHeader(line) \in [kind : {"---", "+++"}, text : PathNames, stamp : BOOLEAN]
      BY <2>1, <2>2
    <3> QED
      BY <3>1 DEF Lines
  <2>4. /\ CleanHeader(line).kind = "+++" /\ CleanHeader(line).text = PathOf(line)
    BY <2>2
  <2>5. IsHeader(CleanHeader(line), "+++") /\ ~IsHeader(CleanHeader(line), "---")
    BY <2>4 DEF IsHeader
  <2>6. PathOf(CleanHeader(line)) = PathOf(line)
    BY <2>4 DEF PathOf
  <2>7. CleanHeader(CleanHeader(line)) = CleanHeader(line)
    BY <1>1, <1>3, <2>5, <2>6 DEF CleanHeader
  <2>8. KeepLine(line) /\ KeepLine(CleanHeader(line))
    BY <1>3, <2>4 DEF KeepLine, IsHeader
  <2> QED
    BY <1>1, <1>3, <2>3, <2>5, <2>6, <2>7, <2>8
<1>4. CASE ~IsHeader(line, "---") /\ ~IsHeader(line, "+++")
  <2>1. CleanHeader(line) = line
    BY <1>4 DEF CleanHeader
  <2> QED
    BY <1>4, <2>1
<1> QED
  BY <1>2, <1>3, <1>4

CleanLines(lines) == [i \in DOMAIN lines |-> CleanHeader(lines[i])]

\* The same for the lines of a section.
LEMMA CleanLinesFacts ==
  ASSUME NEW d \in Seq(Lines)
  PROVE  /\ CleanLines(d) \in Seq(Lines)
         /\ CleanLines(<< >>) = << >>
         /\ CleanLines(CleanLines(d)) = CleanLines(d)
         /\ CleanLines(d) = << >> <=> d = << >>
         /\ \A x \in Lines : /\ CleanLines(Append(d, x)) = Append(CleanLines(d), CleanHeader(x))
                             /\ CleanLines(<<x>>) = <<CleanHeader(x)>>
         /\ \A e \in Seq(Lines) : CleanLines(d \o e) = CleanLines(d) \o CleanLines(e)
<1>1. DOMAIN d = 1..Len(d) /\ Len(d) \in Nat /\ \A i \in 1..Len(d) : d[i] \in Lines
  BY LenProperties, ElementOfSeq
<1>2. \A i \in 1..Len(d) : CleanHeader(d[i]) \in Lines /\ CleanHeader(CleanHeader(d[i])) = CleanHeader(d[i])
  BY <1>1, CleanHeaderFacts
<1>3. CleanLines(d) \in Seq(Lines)
  BY <1>1, <1>2 DEF CleanLines
<1>4. CleanLines(<< >>) = << >>
  BY DEF CleanLines
<1>5. CleanLines(CleanLines(d)) = CleanLines(d)
  BY <1>1, <1>2 DEF CleanLines
<1>6. CleanLines(d) = << >> <=> d = << >>
  <2>1. DOMAIN CleanLines(d) = DOMAIN d
    BY DEF CleanLines
  <2> QED
    BY <1>3, <1>4, <2>1, LenProperties
<1>7. ASSUME NEW x \in Lines
      PROVE  /\ CleanLines(Append(d, x)) = Append(CleanLines(d), CleanHeader(x))
             /\ CleanLines(<<x>>) = <<CleanHeader(x)>>
  BY <1>1, <1>2, CleanHeaderFacts DEF CleanLines
<1>8. ASSUME NEW e \in Seq(Lines)
      PROVE  CleanLines(d \o e) = CleanLines(d) \o CleanLines(e)
  <2>1. DOMAIN e = 1..Len(e) /\ Len(e) \in Nat /\ \A i \in 1..Len(e) : e[i] \in Lines
    BY LenProperties, ElementOfSeq
  <2>2. \A i \in 1..Len(e) : CleanHeader(e[i]) \in Lines
    BY <2>1, CleanHeaderFacts
  <2> QED
    BY <1>1, <1>2, <2>1, <2>2 DEF CleanLines
<1> QED
  BY <1>3, <1>4, <1>5, <1>6, <1>7, <1>8

Added(path, lines, section) ==
  IF section.path = path THEN lines \o CleanLines(section.lines) ELSE lines

LinesStep(path) == [x \in Seq(Lines) \X Sections |-> Added(path, x[1], x[2])]

\* Adding the lines of a section is a step of a fold.
LEMMA LinesSteps ==
  ASSUME NEW path
  PROVE  /\ LinesStep(path) \in Steps(Seq(Lines), Sections)
         /\ \A a \in Seq(Lines), s \in Sections : LinesStep(path)[<<a, s>>] = Added(path, a, s)
<1>1. ASSUME NEW a \in Seq(Lines), NEW s \in Sections
      PROVE  Added(path, a, s) \in Seq(Lines)
  <2>1. s.lines \in Seq(Lines)
    BY DEF Sections
  <2>2. CleanLines(s.lines) \in Seq(Lines)
    BY <2>1, CleanLinesFacts
  <2> QED
    BY <2>2, ConcatProperties DEF Added
<1> QED
  BY <1>1 DEF LinesStep, Steps

\* The lines of a file are that fold over the sections.
LEMMA LinesOfIsFolded ==
  ASSUME NEW path, NEW ss \in Seq(Sections)
  PROVE  LinesOf(path, ss) = Folded(Seq(Lines), LinesStep(path), << >>, ss)
<1> DEFINE F == LinesStep(path)
           A == Seq(Lines)
<1>1. << >> \in A /\ F \in Steps(A, Sections)
  BY EmptySeq, LinesSteps
<1>2. PICK G : IsFoldTable(G, A, Sections, F, << >>, ss)
  BY <1>1, FoldTable
<1>3. G = [s \in SUBSET DOMAIN ss |->
             IF s = {} THEN << >> ELSE Added(path, G[s \ {Max(s)}], ss[Max(s)])]
  BY <1>2, LinesSteps DEF IsFoldTable
<1>4. PICK H : /\ H = [s \in SUBSET DOMAIN ss |->
                         IF s = {} THEN << >> ELSE Added(path, H[s \ {Max(s)}], ss[Max(s)])]
               /\ LinesOf(path, ss) = H[DOMAIN ss]
  BY <1>3 DEF LinesOf, FoldLeft, MapThenFoldSet, Added, CleanLines
<1>5. \A a \in A, s \in Sections : F[<<a, s>>] = Added(path, a, s)
  BY LinesSteps
<1>6. LinesOf(path, ss) = Folded(A, F, << >>, ss)
  <2> HIDE DEF A, F
  <2>1. Folds(H, A, Sections, F, << >>, ss)
    BY <1>4, <1>5 DEF Folds
  <2> QED
    BY <1>1, <1>4, <2>1, FoldIsFolded
<1> QED
  BY <1>6

\* Its equations.
LEMMA LinesOfFacts ==
  ASSUME NEW path, NEW ss \in Seq(Sections)
  PROVE  /\ LinesOf(path, << >>) = << >>
         /\ LinesOf(path, ss) \in Seq(Lines)
         /\ \A s \in Sections : /\ LinesOf(path, Append(ss, s)) = Added(path, LinesOf(path, ss), s)
                                /\ LinesOf(path, <<s>>) = Added(path, << >>, s)
<1> DEFINE F == LinesStep(path)
           A == Seq(Lines)
<1>1. << >> \in A /\ F \in Steps(A, Sections) /\ << >> \in Seq(Sections)
  BY EmptySeq, LinesSteps
<1>2. Unfolds(A, Sections, F, << >>, ss)
  BY <1>1, FoldedFacts
<1>3. \A s \in Sections : Append(ss, s) \in Seq(Sections) /\ <<s>> \in Seq(Sections)
  BY AppendProperties
<1>4. \A t \in Seq(Sections) : LinesOf(path, t) = Folded(A, F, << >>, t)
  BY LinesOfIsFolded
<1>5. \A a \in Seq(Lines), s \in Sections : F[<<a, s>>] = Added(path, a, s)
  BY LinesSteps
<1> HIDE DEF A, F
<1>6. LinesOf(path, << >>) = << >>
  BY <1>1, <1>2, <1>4 DEF Unfolds
<1>7. LinesOf(path, ss) \in A
  BY <1>2, <1>4 DEF Unfolds
<1>8. ASSUME NEW s \in Sections
      PROVE  /\ LinesOf(path, Append(ss, s)) = Added(path, LinesOf(path, ss), s)
             /\ LinesOf(path, <<s>>) = Added(path, << >>, s)
  <2>1. PICK u \in Seq(Sections) : u = Append(ss, s)
    BY <1>3
  <2>2. PICK v \in Seq(Sections) : v = <<s>>
    BY <1>3
  <2>3. /\ Folded(A, F, << >>, u) = F[<<Folded(A, F, << >>, ss), s>>]
        /\ Folded(A, F, << >>, v) = F[<< << >>, s>>]
    BY <1>2, <2>1, <2>2 DEF Unfolds
  <2>4. /\ LinesOf(path, u) = F[<<LinesOf(path, ss), s>>]
        /\ LinesOf(path, v) = F[<< << >>, s>>]
    BY <1>4, <2>3
  <2> QED
    BY <1>1, <1>5, <1>7, <2>1, <2>2, <2>4 DEF A
<1> QED
  BY <1>6, <1>7, <1>8 DEF A

\* The lines of a file in two lists of sections follow each other.
LEMMA LinesOfConcat ==
  ASSUME NEW path, NEW ss \in Seq(Sections), NEW tt \in Seq(Sections)
  PROVE  LinesOf(path, ss \o tt) = LinesOf(path, ss) \o LinesOf(path, tt)
<1> DEFINE M == {u \in Seq(Sections) : LinesOf(path, ss \o u) = LinesOf(path, ss) \o LinesOf(path, u)}
<1>1. << >> \in M
  <2>1. ss \o << >> = ss /\ << >> \in Seq(Sections)
    BY ConcatEmptySeq, EmptySeq
  <2>2. LinesOf(path, << >>) = << >> /\ LinesOf(path, ss) \in Seq(Lines)
    BY LinesOfFacts
  <2>3. LinesOf(path, ss) \o << >> = LinesOf(path, ss)
    BY <2>2, ConcatEmptySeq
  <2> QED
    BY <2>1, <2>2, <2>3
<1>2. ASSUME NEW u \in Seq(Sections), NEW s \in Sections, u \in M PROVE Append(u, s) \in M
  <2>1. Append(u, s) \in Seq(Sections) /\ ss \o u \in Seq(Sections)
    BY AppendProperties, ConcatProperties
  <2>2. ss \o Append(u, s) = Append(ss \o u, s)
    OBVIOUS
  <2>3. PICK v \in Seq(Sections) : v = ss \o u
    BY <2>1
  <2>4. LinesOf(path, Append(v, s)) = Added(path, LinesOf(path, v), s)
    BY LinesOfFacts
  <2>5. LinesOf(path, v) = LinesOf(path, ss) \o LinesOf(path, u)
    BY <1>2, <2>3
  <2>6. LinesOf(path, Append(u, s)) = Added(path, LinesOf(path, u), s)
    BY LinesOfFacts
  <2>7. /\ LinesOf(path, ss) \in Seq(Lines) /\ LinesOf(path, u) \in Seq(Lines)
        /\ CleanLines(s.lines) \in Seq(Lines)
    BY LinesOfFacts, CleanLinesFacts DEF Sections
  <2>8. Added(path, LinesOf(path, ss) \o LinesOf(path, u), s)
          = LinesOf(path, ss) \o Added(path, LinesOf(path, u), s)
    <3>1. PICK a \in Seq(Lines), b \in Seq(Lines), c \in Seq(Lines) :
             a = LinesOf(path, ss) /\ b = LinesOf(path, u) /\ c = CleanLines(s.lines)
      BY <2>7
    <3>2. (a \o b) \o c = a \o (b \o c)
      BY ConcatAssociative
    <3> QED
      BY <3>1, <3>2 DEF Added
  <2>9. LinesOf(path, ss \o Append(u, s)) = LinesOf(path, ss) \o LinesOf(path, Append(u, s))
    BY <2>2, <2>3, <2>4, <2>5, <2>6, <2>8
  <2> QED
    BY <2>1, <2>9
<1>3. Seq(Sections) \subseteq M
  <2> HIDE DEF M
  <2> QED BY <1>1, <1>2, SetOfSequences
<1> QED
  BY <1>3

FileAdded(ss, lines, path) == lines \o LinesOf(path, ss)

CanonStep(ss) == [x \in Seq(Lines) \X PathNames |-> FileAdded(ss, x[1], x[2])]

\* The files in the order of their paths.
Canon(ss) == (((LinesOf("", ss) \o LinesOf("f", ss)) \o LinesOf("g", ss))
                \o LinesOf("i", ss)) \o LinesOf("p", ss)

\* The order of the files.
LEMMA PathsAre ==
  /\ Paths \in Seq(PathNames) /\ Len(Paths) = 5
  /\ Paths[1] = "" /\ Paths[2] = "f" /\ Paths[3] = "g" /\ Paths[4] = "i" /\ Paths[5] = "p"
<1>1. Paths \in Seq({"", "f", "g", "i", "p"})
  BY DEF Paths
<1>2. /\ Len(Paths) = 5
      /\ Paths[1] = "" /\ Paths[2] = "f" /\ Paths[3] = "g" /\ Paths[4] = "i" /\ Paths[5] = "p"
  BY DEF Paths
<1> QED
  BY <1>1, <1>2, PathNamesAre

\* Adding the lines of a file is a step of a fold.
LEMMA CanonSteps ==
  ASSUME NEW ss \in Seq(Sections)
  PROVE  /\ CanonStep(ss) \in Steps(Seq(Lines), PathNames)
         /\ \A a \in Seq(Lines), p \in PathNames : CanonStep(ss)[<<a, p>>] = FileAdded(ss, a, p)
<1>1. ASSUME NEW a \in Seq(Lines), NEW p \in PathNames
      PROVE  FileAdded(ss, a, p) \in Seq(Lines)
  <2>1. LinesOf(p, ss) \in Seq(Lines)
    BY LinesOfFacts
  <2> QED
    BY <2>1, ConcatProperties DEF FileAdded
<1> QED
  BY <1>1 DEF CanonStep, Steps

\* The canonical form is that fold over the files.
LEMMA CanonicalIsFolded ==
  ASSUME NEW d \in Seq(Lines)
  PROVE  CanonicalDiff(d) =
           Folded(Seq(Lines), CanonStep(SplitFileSections(d)), << >>, Paths)
<1> DEFINE ss == SplitFileSections(d)
           F == CanonStep(ss)
           A == Seq(Lines)
<1>0. ss \in Seq(Sections) /\ Paths \in Seq(PathNames)
  BY SplitFromStart, PathsAre
<1>1. << >> \in A /\ F \in Steps(A, PathNames)
  BY <1>0, EmptySeq, CanonSteps
<1>2. PICK G : IsFoldTable(G, A, PathNames, F, << >>, Paths)
  BY <1>0, <1>1, FoldTable
<1>5. \A a \in A, p \in PathNames : F[<<a, p>>] = FileAdded(ss, a, p)
  BY <1>0, CanonSteps
<1>3. G = [s \in SUBSET DOMAIN Paths |->
             IF s = {} THEN << >> ELSE FileAdded(ss, G[s \ {Max(s)}], Paths[Max(s)])]
  <2> HIDE DEF A, F, ss
  <2> QED
    BY <1>2, <1>5 DEF IsFoldTable
<1>4. PICK H : /\ H = [s \in SUBSET DOMAIN Paths |->
                         IF s = {} THEN << >> ELSE FileAdded(ss, H[s \ {Max(s)}], Paths[Max(s)])]
               /\ CanonicalDiff(d) = H[DOMAIN Paths]
  BY <1>3 DEF CanonicalDiff, FoldLeft, MapThenFoldSet, FileAdded
<1>6. CanonicalDiff(d) = Folded(A, F, << >>, Paths)
  <2> HIDE DEF A, F, ss
  <2>1. PICK D \in Seq(PathNames) : D = Paths
    BY <1>0
  <2>2. PICK b \in A : b = << >>
    BY <1>1
  <2>3. Folds(H, A, PathNames, F, b, D)
    BY <1>4, <1>5, <2>1, <2>2 DEF Folds
  <2>4. H[DOMAIN D] = Folded(A, F, b, D)
    BY <1>1, <2>3, FoldIsFolded
  <2> QED
    BY <1>4, <2>1, <2>2, <2>4, Zenon
<1> QED
  BY <1>6

\* Unfolded, it is the lines of the five files, one after the other.
LEMMA FiveLines ==
  ASSUME NEW d \in Seq(Lines)
  PROVE  CanonicalDiff(d) = Canon(SplitFileSections(d))
<1> DEFINE ss == SplitFileSections(d)
           F == CanonStep(ss)
           A == Seq(Lines)
<1>1. ss \in Seq(Sections) /\ << >> \in A /\ Paths \in Seq(PathNames)
  BY SplitFromStart, EmptySeq, PathsAre
<1>2. /\ F \in Steps(A, PathNames)
      /\ \A a \in A, p \in PathNames : F[<<a, p>>] = FileAdded(ss, a, p)
  BY <1>1, CanonSteps
<1>3. LinesOf("", ss) \in A
  BY <1>1, LinesOfFacts
<1>4. CanonicalDiff(d) = Folded(A, F, << >>, Paths)
  BY CanonicalIsFolded
<1> HIDE DEF A, F, ss
<1>5. PICK P : IsTrace(P, A, F, << >>, Paths)
  <2>1. PICK D \in Seq(PathNames) : D = Paths
    BY <1>1
  <2>2. F \in Steps(A, PathNames)
    BY <1>2
  <2>3. PICK b \in A : b = << >>
    BY <1>1
  <2>4. \E P : IsTrace(P, A, F, b, D)
    BY <2>2, TraceExists
  <2> QED
    BY <2>1, <2>3, <2>4, Zenon
<1>6. Folded(A, F, << >>, Paths) = P[5]
  <2>1. PICK D \in Seq(PathNames) : D = Paths
    BY <1>1
  <2>2. PICK b \in A : b = << >>
    BY <1>1
  <2>3. IsTrace(P, A, F, b, D)
    BY <1>5, <2>1, <2>2, Zenon
  <2>4. Folded(A, F, b, D) = P[Len(D)]
    BY <1>2, <2>3, FoldedIsEnd
  <2>5. Len(D) = 5
    BY <2>1, PathsAre, Zenon
  <2> QED
    BY <2>1, <2>2, <2>4, <2>5, Zenon
<1>7. /\ P[0] = << >>
      /\ \A i \in 0..5 : P[i] \in A
      /\ \A i \in 1..5 : P[i] = F[<<P[i - 1], Paths[i]>>]
  BY <1>5, PathsAre DEF IsTrace
<1>8. \A i \in 1..5 : P[i] = FileAdded(ss, P[i - 1], Paths[i])
  <2> SUFFICES ASSUME NEW i \in 1..5 PROVE P[i] = FileAdded(ss, P[i - 1], Paths[i])
    OBVIOUS
  <2>1. P[i - 1] \in A
    BY <1>7
  <2>2. Paths[i] \in PathNames
    <3>1. i = 1 \/ i = 2 \/ i = 3 \/ i = 4 \/ i = 5
      OBVIOUS
    <3> QED
      BY <3>1, PathsAre, PathNamesAre
  <2> QED
    BY <1>2, <1>7, <2>1, <2>2
<1>9. << >> \o LinesOf("", ss) = LinesOf("", ss)
  BY <1>3, ConcatEmptySeq DEF A
<1>10. /\ P[1] = FileAdded(ss, P[0], "") /\ P[2] = FileAdded(ss, P[1], "f")
       /\ P[3] = FileAdded(ss, P[2], "g") /\ P[4] = FileAdded(ss, P[3], "i")
       /\ P[5] = FileAdded(ss, P[4], "p")
  <2>1. \A i \in 1..5 : P[i] = FileAdded(ss, P[i - 1], Paths[i])
    BY <1>8
  <2>2. /\ P[1] = FileAdded(ss, P[0], Paths[1]) /\ P[2] = FileAdded(ss, P[1], Paths[2])
        /\ P[3] = FileAdded(ss, P[2], Paths[3]) /\ P[4] = FileAdded(ss, P[3], Paths[4])
        /\ P[5] = FileAdded(ss, P[4], Paths[5])
    BY <2>1
  <2> QED
    BY <2>2, PathsAre
<1>11. P[5] = Canon(ss)
  BY <1>7, <1>9, <1>10 DEF FileAdded, Canon
<1> QED
  BY <1>4, <1>6, <1>11 DEF ss

-----------------------------------------------------------------------------
(* Stamps do not matter                                                    *)

\* What two readings of the same diff agree on when its headers differ in stamps.
Alike(a, b) ==
  /\ a.path = b.path
  /\ CleanLines(a.lines) = CleanLines(b.lines)
  /\ CleanLines(a.pending) = CleanLines(b.pending)
  /\ \A q \in PathNames : LinesOf(q, a.sections) = LinesOf(q, b.sections)

\* The fields of a state of split_file_sections.
LEMMA AccFields ==
  ASSUME NEW acc \in Accs
  PROVE  /\ acc.sections \in Seq(Sections) /\ acc.path \in PathNames \cup {Absent}
         /\ acc.lines \in Seq(Lines) /\ acc.pending \in Seq(Lines)
         /\ acc.lines \o acc.pending \in Seq(Lines)
         /\ Section(acc.path, acc.lines \o acc.pending) \in Sections
         /\ CleanLines(acc.lines \o acc.pending) = CleanLines(acc.lines) \o CleanLines(acc.pending)
<1>1. /\ acc.sections \in Seq(Sections) /\ acc.path \in PathNames \cup {Absent}
      /\ acc.lines \in Seq(Lines) /\ acc.pending \in Seq(Lines)
  BY DEF Accs
<1>2. acc.lines \o acc.pending \in Seq(Lines)
  BY <1>1, ConcatProperties
<1>3. Section(acc.path, acc.lines \o acc.pending) \in Sections
  BY <1>1, <1>2, PathNamesAre DEF Section, Sections
<1> QED
  BY <1>1, <1>2, <1>3, CleanLinesFacts

\* Readings that are alike end in the same lines,
LEMMA AlikeClosed ==
  ASSUME NEW a \in Accs, NEW b \in Accs, Alike(a, b), NEW q \in PathNames
  PROVE  LinesOf(q, Closed(a)) = LinesOf(q, Closed(b))
<1> DEFINE la == a.lines \o a.pending
           lb == b.lines \o b.pending
           s == Section(a.path, la)
           t == Section(b.path, lb)
<1>1. /\ a.sections \in Seq(Sections) /\ la \in Seq(Lines) /\ s \in Sections
      /\ b.sections \in Seq(Sections) /\ lb \in Seq(Lines) /\ t \in Sections
  BY AccFields
<1>2. /\ CleanLines(la) = CleanLines(a.lines) \o CleanLines(a.pending)
      /\ CleanLines(lb) = CleanLines(b.lines) \o CleanLines(b.pending)
  BY AccFields
<1>3. CleanLines(la) = CleanLines(lb)
  BY <1>2 DEF Alike
<1>4. la = << >> <=> lb = << >>
  BY <1>1, <1>3, CleanLinesFacts
<1>5. /\ Closed(a) = IF la = << >> THEN a.sections ELSE Append(a.sections, s)
      /\ Closed(b) = IF lb = << >> THEN b.sections ELSE Append(b.sections, t)
  BY DEF Closed
<1>6. s.path = t.path /\ s.lines = la /\ t.lines = lb
  BY DEF Section, Alike
<1>7. LinesOf(q, a.sections) = LinesOf(q, b.sections)
  BY DEF Alike
<1>8. /\ LinesOf(q, Append(a.sections, s)) = Added(q, LinesOf(q, a.sections), s)
      /\ LinesOf(q, Append(b.sections, t)) = Added(q, LinesOf(q, b.sections), t)
  BY <1>1, LinesOfFacts
<1>9. Added(q, LinesOf(q, a.sections), s) = Added(q, LinesOf(q, b.sections), t)
  BY <1>3, <1>6, <1>7 DEF Added
<1> HIDE DEF la, lb, s, t
<1> QED
  BY <1>4, <1>5, <1>7, <1>8, <1>9

\* ... and stay alike, whatever the stamps of the next line are.
LEMMA AlikeSplitLine ==
  ASSUME NEW a \in Accs, NEW b \in Accs, Alike(a, b), NEW x \in Lines
  PROVE  Alike(SplitLine(a, x), SplitLine(b, CleanHeader(x)))
<1> DEFINE y == CleanHeader(x)
           c == SplitLine(a, x)
           e == SplitLine(b, y)
<1>1. /\ y \in Lines /\ CleanHeader(y) = CleanHeader(x)
      /\ IsHeader(y, "---") <=> IsHeader(x, "---")
      /\ IsHeader(y, "+++") <=> IsHeader(x, "+++")
      /\ IsHeader(x, "---") \/ IsHeader(x, "+++") => PathOf(y) = PathOf(x)
      /\ KeepLine(y) <=> KeepLine(x)
  BY CleanHeaderFacts
<1>2. /\ a.lines \in Seq(Lines) /\ a.pending \in Seq(Lines)
      /\ b.lines \in Seq(Lines) /\ b.pending \in Seq(Lines)
      /\ a.lines \o a.pending \in Seq(Lines) /\ b.lines \o b.pending \in Seq(Lines)
      /\ CleanLines(a.lines \o a.pending) = CleanLines(a.lines) \o CleanLines(a.pending)
      /\ CleanLines(b.lines \o b.pending) = CleanLines(b.lines) \o CleanLines(b.pending)
  BY AccFields
<1>3. /\ <<x>> \in Seq(Lines) /\ <<y>> \in Seq(Lines)
      /\ CleanLines(<<x>>) = <<CleanHeader(x)>> /\ CleanLines(<<y>>) = <<CleanHeader(y)>>
      /\ CleanLines(<<x>>) = CleanLines(<<y>>)
  <2>1. \A z \in Lines : <<z>> \in Seq(Lines)
    OBVIOUS
  <2>2. \A z \in Lines : CleanLines(<<z>>) = <<CleanHeader(z)>>
    BY EmptySeq, CleanLinesFacts
  <2> QED
    BY <1>1, <2>1, <2>2, Zenon
<1>4. /\ a.path = b.path
      /\ CleanLines(a.lines) = CleanLines(b.lines)
      /\ CleanLines(a.pending) = CleanLines(b.pending)
      /\ \A q \in PathNames : LinesOf(q, a.sections) = LinesOf(q, b.sections)
  BY DEF Alike
<1>5. CASE IsHeader(x, "---")
  <2>1. /\ c.sections = Closed(a) /\ c.path = Absent /\ c.lines = << >> /\ c.pending = <<x>>
        /\ e.sections = Closed(b) /\ e.path = Absent /\ e.lines = << >> /\ e.pending = <<y>>
    BY <1>1, <1>5 DEF SplitLine
  <2>2. \A q \in PathNames : LinesOf(q, Closed(a)) = LinesOf(q, Closed(b))
    BY AlikeClosed
  <2> HIDE DEF c, e, y
  <2> QED
    BY <1>3, <2>1, <2>2 DEF Alike, y, c, e
<1>6. CASE ~IsHeader(x, "---") /\ IsHeader(x, "+++")
  <2>1. /\ c.sections = a.sections /\ c.path = PathOf(x)
        /\ c.lines = a.lines \o a.pending \o <<x>> /\ c.pending = << >>
    BY <1>6 DEF SplitLine, Accs
  <2>2. /\ e.sections = b.sections /\ e.path = PathOf(y)
        /\ e.lines = b.lines \o b.pending \o <<y>> /\ e.pending = << >>
    BY <1>1, <1>6 DEF SplitLine, Accs
  <2>3. CleanLines(c.lines) = CleanLines(a.lines \o a.pending) \o CleanLines(<<x>>)
    <3>1. PICK g \in Seq(Lines) : g = a.lines \o a.pending
      BY <1>2
    <3>2. PICK h \in Seq(Lines) : h = <<x>>
      BY <1>3
    <3>3. CleanLines(g \o h) = CleanLines(g) \o CleanLines(h)
      BY CleanLinesFacts
    <3> QED
      BY <2>1, <3>1, <3>2, <3>3, Zenon
  <2>4. CleanLines(e.lines) = CleanLines(b.lines \o b.pending) \o CleanLines(<<y>>)
    <3>1. PICK g \in Seq(Lines) : g = b.lines \o b.pending
      BY <1>2
    <3>2. PICK h \in Seq(Lines) : h = <<y>>
      BY <1>3
    <3>3. CleanLines(g \o h) = CleanLines(g) \o CleanLines(h)
      BY CleanLinesFacts
    <3> QED
      BY <2>2, <3>1, <3>2, <3>3, Zenon
  <2>5. CleanLines(c.lines) = CleanLines(e.lines)
    BY <1>2, <1>3, <1>4, <2>3, <2>4, Zenon
  <2>6. c.path = e.path
    BY <1>1, <1>6, <2>1, <2>2
  <2> HIDE DEF c, e, y
  <2> QED
    BY <1>4, <2>1, <2>2, <2>5, <2>6 DEF Alike, c, e, y
<1>7. CASE ~IsHeader(x, "---") /\ ~IsHeader(x, "+++") /\ a.path # Absent /\ KeepLine(x)
  <2>1. /\ c.sections = a.sections /\ c.path = a.path
        /\ c.lines = Append(a.lines, x) /\ c.pending = a.pending
    BY <1>7 DEF SplitLine, Accs
  <2>2. /\ e.sections = b.sections /\ e.path = b.path
        /\ e.lines = Append(b.lines, y) /\ e.pending = b.pending
    BY <1>1, <1>4, <1>7 DEF SplitLine, Accs
  <2>3. /\ CleanLines(Append(a.lines, x)) = Append(CleanLines(a.lines), CleanHeader(x))
        /\ CleanLines(Append(b.lines, y)) = Append(CleanLines(b.lines), CleanHeader(y))
    BY <1>1, <1>2, CleanLinesFacts
  <2>4. CleanLines(c.lines) = CleanLines(e.lines)
    BY <1>1, <1>4, <2>1, <2>2, <2>3, Zenon
  <2> HIDE DEF c, e, y
  <2> QED
    BY <1>4, <2>1, <2>2, <2>4 DEF Alike, c, e, y
<1>8. CASE ~IsHeader(x, "---") /\ ~IsHeader(x, "+++") /\ ~(a.path # Absent /\ KeepLine(x))
  <2>1. c = a
    BY <1>8 DEF SplitLine
  <2>2. e = b
    BY <1>1, <1>4, <1>8 DEF SplitLine
  <2> QED
    BY <2>1, <2>2
<1> QED
  BY <1>5, <1>6, <1>7, <1>8

\* The stamps of headers do not matter to what a canonical diff says of a file.
LEMMA StampsDoNotMatter ==
  ASSUME NEW d \in Seq(Lines), NEW q \in PathNames
  PROVE  LinesOf(q, SplitFileSections(d)) = LinesOf(q, SplitFileSections(CleanLines(d)))
<1> DEFINE M == {e \in Seq(Lines) : Alike(SplitAll(Start0, e), SplitAll(Start0, CleanLines(e)))}
<1>0. Start0 \in Accs
  BY EmptySeq, SplitFromStart
<1>1. << >> \in M
  <2>1. CleanLines(<< >>) = << >> /\ << >> \in Seq(Lines)
    BY EmptySeq, CleanLinesFacts
  <2> QED
    BY <2>1 DEF Alike
<1>2. ASSUME NEW e \in Seq(Lines), NEW x \in Lines, e \in M PROVE Append(e, x) \in M
  <2>1. CleanLines(e) \in Seq(Lines) /\ CleanHeader(x) \in Lines /\ Append(e, x) \in Seq(Lines)
    BY CleanLinesFacts, CleanHeaderFacts, AppendProperties
  <2>2. /\ SplitAll(Start0, e) \in Accs /\ SplitAll(Start0, CleanLines(e)) \in Accs
        /\ SplitAll(Start0, Append(e, x)) = SplitLine(SplitAll(Start0, e), x)
        /\ SplitAll(Start0, Append(CleanLines(e), CleanHeader(x)))
             = SplitLine(SplitAll(Start0, CleanLines(e)), CleanHeader(x))
    <3>1. PICK f \in Seq(Lines), y \in Lines : f = CleanLines(e) /\ y = CleanHeader(x)
      BY <2>1
    <3>2. /\ SplitAll(Start0, f) \in Accs
          /\ SplitAll(Start0, Append(f, y)) = SplitLine(SplitAll(Start0, f), y)
      BY <1>0, SplitAllFacts
    <3>3. /\ SplitAll(Start0, e) \in Accs
          /\ SplitAll(Start0, Append(e, x)) = SplitLine(SplitAll(Start0, e), x)
      BY <1>0, SplitAllFacts
    <3> QED
      BY <3>1, <3>2, <3>3, Zenon
  <2>3. CleanLines(Append(e, x)) = Append(CleanLines(e), CleanHeader(x))
    BY CleanLinesFacts
  <2>4. Alike(SplitLine(SplitAll(Start0, e), x),
              SplitLine(SplitAll(Start0, CleanLines(e)), CleanHeader(x)))
    BY <1>2, <2>2, AlikeSplitLine
  <2>5. Alike(SplitAll(Start0, Append(e, x)), SplitAll(Start0, CleanLines(Append(e, x))))
    BY <2>2, <2>3, <2>4, Zenon
  <2> QED
    BY <2>1, <2>5
<1>3. Seq(Lines) \subseteq M
  <2> HIDE DEF M
  <2> QED BY <1>1, <1>2, SetOfSequences
<1>4. CleanLines(d) \in Seq(Lines)
  BY CleanLinesFacts
<1>5. SplitAll(Start0, d) \in Accs /\ SplitAll(Start0, CleanLines(d)) \in Accs
  BY <1>0, <1>4, SplitAllFacts
<1>6. LinesOf(q, Closed(SplitAll(Start0, d))) = LinesOf(q, Closed(SplitAll(Start0, CleanLines(d))))
  BY <1>3, <1>5, AlikeClosed
<1> QED
  BY <1>4, <1>6, SplitFromStart

-----------------------------------------------------------------------------
(* A canonical form is its own                                             *)

\* A diff that is empty or begins with the header of a file.
Begins(d) ==
  \/ d = << >>
  \/ \E x \in Lines, e \in Seq(Lines) : IsHeader(x, "---") /\ d = <<x>> \o e

\* A section that is found again as it is, alone, when its lines are split.
Good(s) ==
  /\ Begins(CleanLines(s.lines))
  /\ SplitFileSections(CleanLines(s.lines)) = <<Section(s.path, CleanLines(s.lines))>>
  /\ s.path # Absent

GoodSections == {s \in Sections : Good(s)}

Held(acc) == acc.lines \o acc.pending
Reread(acc) == [sections |-> << >>, path |-> acc.path,
                lines |-> CleanLines(acc.lines), pending |-> CleanLines(acc.pending)]

\* What the reading of a diff has found behind the first header.
Sound(acc) ==
  /\ acc.sections \in Seq(GoodSections)
  /\ acc.path # Absent => acc.pending = << >>
  /\ Held(acc) # << >>
  /\ Begins(CleanLines(Held(acc)))
  /\ SplitAll(Start0, CleanLines(Held(acc))) = Reread(acc)

\* A diff that begins with a header does so whatever follows.
LEMMA BeginsConcat ==
  ASSUME NEW d \in Seq(Lines), Begins(d), NEW e \in Seq(Lines), d # << >> \/ Begins(e)
  PROVE  Begins(d \o e)
<1>1. CASE d = << >>
  <2>1. << >> \o e = e
    BY ConcatEmptySeq
  <2> QED
    BY <1>1, <2>1
<1>2. CASE d # << >>
  <2>1. PICK x \in Lines, f \in Seq(Lines) : IsHeader(x, "---") /\ d = <<x>> \o f
    BY <1>2, Zenon DEF Begins
  <2>2. PICK h \in Seq(Lines) : h = <<x>>
    <3>1. <<x>> \in Seq(Lines)
      OBVIOUS
    <3> QED
      BY <3>1
  <2>3. (h \o f) \o e = h \o (f \o e)
    BY ConcatAssociative
  <2>4. f \o e \in Seq(Lines)
    BY ConcatProperties
  <2>5. d \o e = <<x>> \o (f \o e)
    BY <2>1, <2>2, <2>3, Zenon
  <2> QED
    BY <2>1, <2>4, <2>5, Zenon DEF Begins
<1> QED
  BY <1>1, <1>2

\* The state that a second reading is in, and its fields.
LEMMA RereadType ==
  ASSUME NEW acc \in Accs
  PROVE  /\ Reread(acc) \in Accs /\ Held(acc) \in Seq(Lines)
         /\ Reread(acc).sections = << >> /\ Reread(acc).path = acc.path
         /\ Reread(acc).lines = CleanLines(acc.lines)
         /\ Reread(acc).pending = CleanLines(acc.pending)
<1>1. << >> \in Seq(Sections)
  BY EmptySeq
<1>2. /\ acc.path \in PathNames \cup {Absent} /\ acc.lines \in Seq(Lines)
      /\ acc.pending \in Seq(Lines) /\ Held(acc) \in Seq(Lines)
  BY AccFields DEF Held
<1>3. CleanLines(acc.lines) \in Seq(Lines) /\ CleanLines(acc.pending) \in Seq(Lines)
  BY <1>2, CleanLinesFacts
<1> HIDE DEF CleanLines
<1> QED
  BY <1>1, <1>2, <1>3 DEF Reread, Accs

\* A section that is closed is found again.
LEMMA SoundClosed ==
  ASSUME NEW acc \in Accs, Sound(acc)
  PROVE  Closed(acc) \in Seq(GoodSections)
<1> DEFINE u == Held(acc)
           s == Section(acc.path, u)
<1>1. /\ u \in Seq(Lines) /\ s \in Sections /\ u # << >>
      /\ CleanLines(u) = CleanLines(acc.lines) \o CleanLines(acc.pending)
  BY AccFields DEF Held, Sound
<1>2. CleanLines(u) \in Seq(Lines) /\ CleanLines(u) # << >>
  BY <1>1, CleanLinesFacts
<1>3. s.lines = u /\ s.path = (IF acc.path = Absent THEN "" ELSE acc.path) /\ s.path # Absent
  BY DEF Section, Absent
<1>4. Section(s.path, CleanLines(u)) = Section(acc.path, CleanLines(u))
  BY <1>3 DEF Section
<1>5. SplitFileSections(CleanLines(u)) = Closed(Reread(acc))
  BY <1>2, SplitFromStart DEF Sound
<1>6. Closed(Reread(acc)) = Append(<< >>, Section(acc.path, CleanLines(u)))
  BY <1>1, <1>2, RereadType DEF Closed
<1>7. Append(<< >>, Section(acc.path, CleanLines(u))) = <<Section(acc.path, CleanLines(u))>>
  OBVIOUS
<1>8. Good(s)
  BY <1>3, <1>4, <1>5, <1>6, <1>7 DEF Good, Sound
<1>9. s \in GoodSections
  BY <1>1, <1>8 DEF GoodSections
<1>10. Closed(acc) = Append(acc.sections, s)
  BY <1>1 DEF Closed, Held
<1> HIDE DEF s
<1> QED
  BY <1>9, <1>10, AppendProperties DEF Sound

\* The first header opens a section that will be.
LEMMA SoundOpens ==
  ASSUME NEW acc \in Accs, NEW x \in Lines, IsHeader(x, "---"), Closed(acc) \in Seq(GoodSections)
  PROVE  Sound(SplitLine(acc, x))
<1> DEFINE c == SplitLine(acc, x)
           y == CleanHeader(x)
<1>1. c.sections = Closed(acc) /\ c.path = Absent /\ c.lines = << >> /\ c.pending = <<x>>
  BY DEF SplitLine
<1>2. y \in Lines /\ IsHeader(y, "---")
  BY CleanHeaderFacts
<1>3. /\ CleanLines(<<x>>) = <<y>> /\ CleanLines(<< >>) = << >>
      /\ <<x>> \in Seq(Lines) /\ <<x>> # << >>
  <2>1. << >> \in Seq(Lines)
    BY EmptySeq
  <2>2. CleanLines(<<x>>) = <<y>> /\ CleanLines(<< >>) = << >>
    BY <2>1, CleanLinesFacts
  <2>3. <<x>> \in Seq(Lines)
    OBVIOUS
  <2>4. <<x>> # << >>
    OBVIOUS
  <2> QED
    BY <2>2, <2>3, <2>4
<1>4. Held(c) = <<x>>
  BY <1>1, <1>3, ConcatEmptySeq DEF Held
<1>5. Begins(<<y>>)
  <2>1. << >> \in Seq(Lines) /\ <<y>> \o << >> = <<y>>
    BY <1>2, EmptySeq, ConcatEmptySeq
  <2> QED
    BY <1>2, <2>1, Zenon DEF Begins
<1>6. SplitAll(Start0, <<y>>) = SplitLine(Start0, y)
  <2>1. PICK z \in Lines : z = y
    BY <1>2
  <2>2. SplitAll(Start0, <<z>>) = SplitLine(Start0, z)
    BY EmptySeq, SplitFromStart, SplitAllFacts
  <2> QED
    BY <2>1, <2>2, Zenon
<1>7. SplitLine(Start0, y)
        = [sections |-> << >>, path |-> Absent, lines |-> << >>, pending |-> <<y>>]
  BY <1>2 DEF SplitLine, Start0, Closed
<1>8. Reread(c) = [sections |-> << >>, path |-> Absent, lines |-> << >>, pending |-> <<y>>]
  BY <1>1, <1>3, Zenon DEF Reread
<1> HIDE DEF c, y
<1>9. SplitAll(Start0, CleanLines(Held(c))) = Reread(c)
  BY <1>3, <1>4, <1>6, <1>7, <1>8, Zenon
<1>10. Begins(CleanLines(Held(c)))
  BY <1>3, <1>4, <1>5, Zenon
<1> QED
  BY <1>1, <1>3, <1>4, <1>9, <1>10 DEF Sound, c

\* Each line keeps to that.
LEMMA SoundSplitLine ==
  ASSUME NEW acc \in Accs, Sound(acc), NEW x \in Lines
  PROVE  Sound(SplitLine(acc, x))
<1> DEFINE c == SplitLine(acc, x)
           y == CleanHeader(x)
           r == Reread(acc)
           u == CleanLines(Held(acc))
<1>1. /\ y \in Lines /\ CleanHeader(y) = CleanHeader(x)
      /\ IsHeader(y, "---") <=> IsHeader(x, "---")
      /\ IsHeader(y, "+++") <=> IsHeader(x, "+++")
      /\ IsHeader(x, "---") \/ IsHeader(x, "+++") => PathOf(y) = PathOf(x)
      /\ KeepLine(y) <=> KeepLine(x)
  BY CleanHeaderFacts
<1>2. /\ acc.lines \in Seq(Lines) /\ acc.pending \in Seq(Lines) /\ Held(acc) \in Seq(Lines)
      /\ u = CleanLines(acc.lines) \o CleanLines(acc.pending)
  BY AccFields DEF Held
<1>3. /\ u \in Seq(Lines) /\ u # << >> /\ Begins(u)
      /\ CleanLines(acc.lines) \in Seq(Lines) /\ CleanLines(acc.pending) \in Seq(Lines)
  BY <1>2, CleanLinesFacts DEF Sound
<1>4. /\ r \in Accs /\ r.sections = << >> /\ r.path = acc.path
      /\ r.lines = CleanLines(acc.lines) /\ r.pending = CleanLines(acc.pending)
  BY RereadType
<1>5. SplitAll(Start0, Append(u, y)) = SplitLine(r, y)
  <2>1. PICK z \in Lines : z = y
    BY <1>1
  <2>2. PICK v \in Seq(Lines) : v = u
    BY <1>3
  <2>3. SplitAll(Start0, Append(v, z)) = SplitLine(SplitAll(Start0, v), z)
    BY EmptySeq, SplitFromStart, SplitAllFacts
  <2>4. SplitAll(Start0, u) = r
    BY DEF Sound
  <2> QED
    BY <2>1, <2>2, <2>3, <2>4, Zenon
<1>6. Append(u, y) = u \o <<y>> /\ <<y>> \in Seq(Lines)
  <2>1. PICK z \in Lines : z = y
    BY <1>1
  <2>2. Append(u, z) = u \o <<z>> /\ <<z>> \in Seq(Lines)
    BY <1>3, AppendIsConcat
  <2> QED
    BY <2>1, <2>2, Zenon
<1>7. Begins(Append(u, y)) /\ Append(u, y) # << >>
  <2>1. PICK w \in Seq(Lines) : w = <<y>>
    BY <1>6
  <2>2. Begins(u \o w)
    BY <1>3, BeginsConcat
  <2>3. Append(u, y) # << >>
    BY <1>1, <1>3, AppendProperties
  <2> QED
    BY <1>6, <2>1, <2>2, <2>3, Zenon
<1>8. CASE IsHeader(x, "---")
  BY <1>8, SoundClosed, SoundOpens
<1>9. CASE ~IsHeader(x, "---") /\ IsHeader(x, "+++")
  <2>1. /\ c.sections = acc.sections /\ c.path = PathOf(x)
        /\ c.lines = acc.lines \o acc.pending \o <<x>> /\ c.pending = << >>
    BY <1>9 DEF SplitLine, Accs
  <2>2. c \in Accs
    BY SplitLineType
  <2>3. /\ c.lines \in Seq(Lines) /\ c.lines = Append(Held(acc), x)
    <3>1. Append(Held(acc), x) = Held(acc) \o <<x>>
      BY <1>2, AppendIsConcat
    <3>2. c.lines \in Seq(Lines)
      BY <2>2, AccFields
    <3> QED
      BY <2>1, <3>1, <3>2, Zenon DEF Held
  <2>4. /\ Held(c) = c.lines /\ CleanLines(c.pending) = << >>
    BY <2>1, <2>3, ConcatEmptySeq, CleanLinesFacts DEF Held
  <2>5. CleanLines(c.lines) = Append(u, y) /\ c.lines # << >>
    <3>1. CleanLines(Append(Held(acc), x)) = Append(u, y)
      BY <1>2, CleanLinesFacts
    <3>2. Append(Held(acc), x) # << >>
      BY <1>2, AppendProperties
    <3> QED
      BY <2>3, <3>1, <3>2, Zenon
  <2>6. SplitLine(r, y) = [sections |-> << >>, path |-> PathOf(y),
          lines |-> CleanLines(acc.lines) \o CleanLines(acc.pending) \o <<y>>, pending |-> << >>]
    <3>1. DOMAIN r = {"sections", "path", "lines", "pending"}
      BY <1>4 DEF Accs
    <3> HIDE DEF r, y
    <3> QED
      BY <1>1, <1>4, <1>9, <3>1 DEF SplitLine
  <2>7. CleanLines(acc.lines) \o CleanLines(acc.pending) \o <<y>> = Append(u, y)
    BY <1>2, <1>6, Zenon
  <2>8. Reread(c) = [sections |-> << >>, path |-> PathOf(y), lines |-> Append(u, y),
                     pending |-> << >>]
    <3>1. c.path = PathOf(y)
      BY <1>1, <1>9, <2>1
    <3> QED
      BY <2>4, <2>5, <3>1, Zenon DEF Reread
  <2>9. SplitAll(Start0, CleanLines(Held(c))) = Reread(c)
    BY <1>5, <2>4, <2>5, <2>6, <2>7, <2>8, Zenon
  <2>10. Begins(CleanLines(Held(c))) /\ Held(c) # << >>
    BY <1>7, <2>4, <2>5, Zenon
  <2>11. c.sections \in Seq(GoodSections)
    BY <2>1 DEF Sound
  <2> HIDE DEF c
  <2> QED
    BY <2>1, <2>9, <2>10, <2>11 DEF Sound, c
<1>10. CASE ~IsHeader(x, "---") /\ ~IsHeader(x, "+++") /\ acc.path # Absent /\ KeepLine(x)
  <2>1. /\ c.sections = acc.sections /\ c.path = acc.path
        /\ c.lines = Append(acc.lines, x) /\ c.pending = << >> /\ acc.pending = << >>
    BY <1>10 DEF SplitLine, Accs, Sound
  <2>2. c \in Accs
    BY SplitLineType
  <2>3. /\ Held(acc) = acc.lines /\ c.lines = Append(Held(acc), x) /\ c.lines \in Seq(Lines)
    <3>1. acc.lines \o << >> = acc.lines
      BY <1>2, ConcatEmptySeq
    <3>2. Held(acc) = acc.lines
      BY <2>1, <3>1, Zenon DEF Held
    <3>3. c.lines \in Seq(Lines)
      BY <2>2, AccFields
    <3> QED
      BY <2>1, <3>2, <3>3, Zenon
  <2>4. /\ Held(c) = c.lines /\ CleanLines(c.pending) = << >>
    BY <2>1, <2>3, ConcatEmptySeq, CleanLinesFacts DEF Held
  <2>5. CleanLines(c.lines) = Append(u, y) /\ c.lines # << >>
    <3>1. CleanLines(Append(Held(acc), x)) = Append(u, y)
      BY <1>2, CleanLinesFacts
    <3>2. Append(Held(acc), x) # << >>
      BY <1>2, AppendProperties
    <3> QED
      BY <2>3, <3>1, <3>2, Zenon
  <2>6. SplitLine(r, y) = [sections |-> << >>, path |-> acc.path,
                           lines |-> Append(CleanLines(acc.lines), y), pending |-> << >>]
    <3>1. DOMAIN r = {"sections", "path", "lines", "pending"}
      BY <1>4 DEF Accs
    <3>2. r.pending = << >>
      BY <1>4, <2>1, <2>4, Zenon
    <3> HIDE DEF r, y
    <3> QED
      BY <1>1, <1>4, <1>10, <3>1, <3>2 DEF SplitLine
  <2>7. CleanLines(acc.lines) = u
    BY <2>3, Zenon
  <2>8. Reread(c) = [sections |-> << >>, path |-> acc.path, lines |-> Append(u, y),
                     pending |-> << >>]
    BY <2>1, <2>4, <2>5, Zenon DEF Reread
  <2>9. SplitAll(Start0, CleanLines(Held(c))) = Reread(c)
    BY <1>5, <2>4, <2>5, <2>6, <2>7, <2>8, Zenon
  <2>10. Begins(CleanLines(Held(c))) /\ Held(c) # << >>
    BY <1>7, <2>4, <2>5, Zenon
  <2>11. c.sections \in Seq(GoodSections)
    BY <2>1 DEF Sound
  <2> HIDE DEF c
  <2> QED
    BY <2>1, <2>9, <2>10, <2>11 DEF Sound, c
<1>11. CASE ~IsHeader(x, "---") /\ ~IsHeader(x, "+++") /\ ~(acc.path # Absent /\ KeepLine(x))
  <2>1. c = acc
    BY <1>11 DEF SplitLine
  <2> QED
    BY <2>1
<1> QED
  BY <1>8, <1>9, <1>10, <1>11

\* The sections of a diff that begins with the header of a file.
LEMMA SectionsAreGood ==
  ASSUME NEW d \in Seq(Lines), Begins(d)
  PROVE  SplitFileSections(d) \in Seq(GoodSections)
<1>0. Start0 \in Accs /\ Closed(Start0) = << >> /\ << >> \in Seq(Lines)
  BY SplitFromStart, EmptySeq DEF Start0, Closed
<1>1. CASE d = << >>
  <2>1. SplitAll(Start0, << >>) = Start0
    BY <1>0, SplitAllFacts
  <2>2. SplitFileSections(d) = << >>
    BY <1>0, <1>1, <2>1, SplitFromStart, Zenon
  <2> QED
    BY <2>2, EmptySeq
<1>2. CASE d # << >>
  <2>1. PICK x \in Lines, e \in Seq(Lines) : IsHeader(x, "---") /\ d = <<x>> \o e
    BY <1>2, Zenon DEF Begins
  <2> DEFINE o == SplitLine(Start0, x)
             M == {f \in Seq(Lines) : Sound(SplitAll(o, f))}
  <2>2. o \in Accs /\ Sound(o)
    <3>1. Closed(Start0) \in Seq(GoodSections)
      BY <1>0, EmptySeq
    <3> QED
      BY <1>0, <2>1, <3>1, SplitLineType, SoundOpens
  <2> HIDE DEF o
  <2>3. << >> \in M
    BY <1>0, <2>2, SplitAllFacts
  <2>4. ASSUME NEW f \in Seq(Lines), NEW y \in Lines, f \in M PROVE Append(f, y) \in M
    <3>1. /\ SplitAll(o, f) \in Accs
          /\ SplitAll(o, Append(f, y)) = SplitLine(SplitAll(o, f), y)
      BY <2>2, SplitAllFacts
    <3>2. Sound(SplitLine(SplitAll(o, f), y))
      BY <2>4, <3>1, SoundSplitLine
    <3>3. Append(f, y) \in Seq(Lines)
      BY AppendProperties
    <3> QED
      BY <3>1, <3>2, <3>3
  <2>5. Seq(Lines) \subseteq M
    <3> HIDE DEF M
    <3> QED BY <2>3, <2>4, SetOfSequences
  <2>6. SplitAll(Start0, d) = SplitAll(o, e)
    <3>1. PICK h \in Seq(Lines) : h = <<x>>
      <4>1. <<x>> \in Seq(Lines)
        OBVIOUS
      <4> QED
        BY <4>1
    <3>2. SplitAll(Start0, h \o e) = SplitAll(SplitAll(Start0, h), e)
      BY <1>0, SplitAllFacts
    <3>3. SplitAll(Start0, <<x>>) = o
      BY <1>0, SplitAllFacts DEF o
    <3> QED
      BY <2>1, <3>1, <3>2, <3>3, Zenon
  <2>7. Sound(SplitAll(o, e)) /\ SplitAll(o, e) \in Accs
    BY <2>2, <2>5, SplitAllFacts
  <2>8. Closed(SplitAll(o, e)) \in Seq(GoodSections)
    BY <2>7, SoundClosed
  <2> QED
    BY <2>6, <2>8, SplitFromStart
<1> QED
  BY <1>1, <1>2

\* The sections of two diffs follow each other if the second begins with a header.
LEMMA SplitsWhereFilesBegin ==
  ASSUME NEW d \in Seq(Lines), NEW e \in Seq(Lines), Begins(e)
  PROVE  SplitFileSections(d \o e) = SplitFileSections(d) \o SplitFileSections(e)
<1>1. CASE e = << >>
  <2>1. << >> \in Seq(Lines) /\ d \o << >> = d /\ SplitFileSections(d) \in Seq(Sections)
    BY EmptySeq, ConcatEmptySeq, SplitFromStart
  <2>2. SplitAll(Start0, << >>) = Start0 /\ Closed(Start0) = << >>
    BY <2>1, SplitFromStart, SplitAllFacts DEF Start0, Closed
  <2>3. SplitFileSections(<< >>) = << >>
    BY <2>1, <2>2, SplitFromStart, Zenon
  <2>4. SplitFileSections(d) \o << >> = SplitFileSections(d)
    BY <2>1, ConcatEmptySeq
  <2> QED
    BY <1>1, <2>1, <2>3, <2>4, Zenon
<1>2. CASE e # << >>
  <2>1. PICK x \in Lines, f \in Seq(Lines) : IsHeader(x, "---") /\ e = <<x>> \o f
    BY <1>2, Zenon DEF Begins
  <2>2. SplitFileSections(d \o (<<x>> \o f))
          = SplitFileSections(d) \o SplitFileSections(<<x>> \o f)
    BY <2>1, SplitsAtHeaders
  <2> QED
    BY <2>1, <2>2, Zenon
<1> QED
  BY <1>1, <1>2

\* What the canonical diff says of one file.
LinesIn(path, d) == LinesOf(path, SplitFileSections(d))

\* So do the lines of a file.
LEMMA LinesInConcat ==
  ASSUME NEW path, NEW d \in Seq(Lines), NEW e \in Seq(Lines), Begins(e)
  PROVE  /\ LinesIn(path, d) \in Seq(Lines)
         /\ LinesIn(path, d \o e) = LinesIn(path, d) \o LinesIn(path, e)
<1>1. SplitFileSections(d) \in Seq(Sections) /\ SplitFileSections(e) \in Seq(Sections)
  BY SplitFromStart
<1>2. SplitFileSections(d \o e) = SplitFileSections(d) \o SplitFileSections(e)
  BY SplitsWhereFilesBegin
<1>3. LinesOf(path, SplitFileSections(d) \o SplitFileSections(e))
        = LinesOf(path, SplitFileSections(d)) \o LinesOf(path, SplitFileSections(e))
  BY <1>1, LinesOfConcat
<1>4. LinesOf(path, SplitFileSections(d)) \in Seq(Lines)
  BY <1>1, LinesOfFacts
<1> QED
  BY <1>2, <1>3, <1>4, Zenon DEF LinesIn

\* No sections, no lines.
LEMMA NoLines ==
  ASSUME NEW path
  PROVE  LinesOf(path, << >>) = << >>
<1>1. PICK ss \in Seq(Sections) : ss = << >>
  BY EmptySeq
<1> QED
  BY <1>1, LinesOfFacts

\* The lines of one file, taken from good sections, are those of that file alone.
LEMMA GoodLines ==
  ASSUME NEW p \in PathNames, NEW ss \in Seq(GoodSections)
  PROVE  /\ LinesOf(p, ss) \in Seq(Lines)
         /\ Begins(LinesOf(p, ss))
         /\ \A q \in PathNames :
              LinesIn(q, LinesOf(p, ss)) = IF q = p THEN LinesOf(p, ss) ELSE << >>
<1> DEFINE Alone(d) == /\ d \in Seq(Lines) /\ Begins(d)
                       /\ \A q \in PathNames : LinesIn(q, d) = IF q = p THEN d ELSE << >>
           M == {t \in Seq(GoodSections) : Alone(LinesOf(p, t))}
<1>0. \A t \in Seq(GoodSections) : t \in Seq(Sections)
  BY SeqMonotonic DEF GoodSections
<1>1. << >> \in M
  <2>1. << >> \in Seq(GoodSections) /\ << >> \in Seq(Sections) /\ << >> \in Seq(Lines)
    BY EmptySeq
  <2>2. \A q \in PathNames : LinesOf(q, << >>) = << >>
    BY NoLines
  <2>3. SplitAll(Start0, << >>) = Start0 /\ Closed(Start0) = << >>
    <3>1. SplitAll(Start0, << >>) = Start0
      BY <2>1, SplitFromStart, SplitAllFacts
    <3>2. Closed(Start0) = << >>
      BY DEF Start0, Closed
    <3> QED
      BY <3>1, <3>2
  <2>4. SplitFileSections(<< >>) = << >>
    BY <2>1, <2>3, SplitFromStart, Zenon
  <2>5. \A q \in PathNames : LinesIn(q, << >>) = << >>
    BY <2>2, <2>4, Zenon DEF LinesIn
  <2>6. Begins(<< >>)
    BY DEF Begins
  <2>7. Alone(<< >>)
    BY <2>1, <2>5, <2>6, Zenon
  <2> HIDE DEF Alone
  <2> QED
    BY <2>1, <2>2, <2>7, Zenon
<1>2. ASSUME NEW t \in Seq(GoodSections), NEW s \in GoodSections, t \in M
      PROVE  Append(t, s) \in M
  <2> DEFINE c == CleanLines(s.lines)
             d == LinesOf(p, t)
  <2>1. /\ s \in Sections /\ Good(s) /\ t \in Seq(Sections)
        /\ s.path \in PathNames /\ s.lines \in Seq(Lines)
    BY <1>0 DEF GoodSections, Sections
  <2>2. LinesOf(p, Append(t, s)) = Added(p, d, s)
    BY <2>1, LinesOfFacts
  <2>3. Append(t, s) \in Seq(GoodSections)
    BY AppendProperties
  <2>4. Alone(d)
    BY <1>2
  <2>5. CASE s.path # p
    <3>1. LinesOf(p, Append(t, s)) = d
      BY <2>2, <2>5 DEF Added
    <3> HIDE DEF Alone
    <3> QED
      BY <2>3, <2>4, <3>1, Zenon
  <2>6. CASE s.path = p
    <3>1. LinesOf(p, Append(t, s)) = d \o c
      BY <2>2, <2>6 DEF Added
    <3>2. c \in Seq(Lines) /\ CleanLines(c) = c
      BY <2>1, CleanLinesFacts
    <3>3. Begins(c) /\ SplitFileSections(c) = <<Section(p, c)>>
      BY <2>1, <2>6, Zenon DEF Good
    <3>4. /\ Section(p, c) \in Sections /\ Section(p, c).path = p /\ Section(p, c).lines = c
      BY <3>2, PathNamesAre DEF Section, Sections, Absent
    <3>5. ASSUME NEW q \in PathNames
          PROVE  LinesIn(q, c) = IF q = p THEN c ELSE << >>
      <4>1. LinesOf(q, <<Section(p, c)>>) = Added(q, << >>, Section(p, c))
        <5>1. << >> \in Seq(Sections)
          BY EmptySeq
        <5> QED
          BY <3>4, <5>1, LinesOfFacts
      <4>2. LinesIn(q, c) = Added(q, << >>, Section(p, c))
        BY <3>3, <4>1, Zenon DEF LinesIn
      <4>3. << >> \o CleanLines(c) = c
        BY <3>2, ConcatEmptySeq
      <4>4. Added(q, << >>, Section(p, c)) = IF p = q THEN << >> \o CleanLines(c) ELSE << >>
        BY <3>4, Zenon DEF Added
      <4> QED
        BY <4>2, <4>3, <4>4, Zenon
    <3>6. Begins(d \o c) /\ d \o c \in Seq(Lines)
      BY <2>4, <3>2, <3>3, BeginsConcat, ConcatProperties
    <3>7. ASSUME NEW q \in PathNames
          PROVE  LinesIn(q, d \o c) = IF q = p THEN d \o c ELSE << >>
      <4>1. LinesIn(q, d \o c) = LinesIn(q, d) \o LinesIn(q, c)
        BY <2>4, <3>2, <3>3, LinesInConcat
      <4>2. LinesIn(q, d) = IF q = p THEN d ELSE << >>
        BY <2>4
      <4>3. << >> \o << >> = << >>
        OBVIOUS
      <4> HIDE DEF c, d
      <4> QED
        BY <3>5, <4>1, <4>2, <4>3, Zenon
    <3>8. Alone(d \o c)
      BY <3>6, <3>7, Zenon
    <3> HIDE DEF Alone
    <3> QED
      BY <2>3, <3>1, <3>8, Zenon
  <2> QED
    BY <2>5, <2>6
<1>3. Seq(GoodSections) \subseteq M
  <2> HIDE DEF M
  <2> QED BY <1>1, <1>2, SetOfSequences
<1> QED
  BY <1>3

\* Nothing is added by files without lines.
LEMMA OneOfFive ==
  ASSUME NEW S, NEW l \in Seq(S)
  PROVE  /\ (((l \o << >>) \o << >>) \o << >>) \o << >> = l
         /\ (((<< >> \o l) \o << >>) \o << >>) \o << >> = l
         /\ (((<< >> \o << >>) \o l) \o << >>) \o << >> = l
         /\ (((<< >> \o << >>) \o << >>) \o l) \o << >> = l
         /\ (((<< >> \o << >>) \o << >>) \o << >>) \o l = l
<1>1. l \o << >> = l /\ << >> \o l = l
  BY ConcatEmptySeq
<1>2. << >> \o << >> = << >>
  OBVIOUS
<1> QED
  BY <1>1, <1>2, Zenon

\* What canonical_diff makes of a diff that begins with the header of a file,
\* it leaves as it is when it meets it again: the adapter of the engine may have
\* stripped a diff before, and its hash is the same (diffhash.py:33).
THEOREM CanonicalFormIsFinal ==
  ASSUME NEW d \in Seq(Lines), Begins(d)
  PROVE  CanonicalDiff(CanonicalDiff(d)) = CanonicalDiff(d)
<1> DEFINE ss == SplitFileSections(d)
           L(p) == LinesOf(p, ss)
           c2 == L("") \o L("f")
           c3 == c2 \o L("g")
           c4 == c3 \o L("i")
           c5 == c4 \o L("p")
<1>1. ss \in Seq(GoodSections)
  BY SectionsAreGood
<1>2. \A p \in PathNames :
        /\ L(p) \in Seq(Lines) /\ Begins(L(p))
        /\ \A q \in PathNames : LinesIn(q, L(p)) = IF q = p THEN L(p) ELSE << >>
  BY <1>1, GoodLines
<1>3. CanonicalDiff(d) = c5
  BY FiveLines DEF Canon
<1>4. /\ "" \in PathNames /\ "f" \in PathNames /\ "g" \in PathNames
      /\ "i" \in PathNames /\ "p" \in PathNames
  BY PathNamesAre
<1> HIDE DEF L
<1>5. c2 \in Seq(Lines) /\ c3 \in Seq(Lines) /\ c4 \in Seq(Lines) /\ c5 \in Seq(Lines)
  BY <1>2, <1>4, ConcatProperties
<1>6. ASSUME NEW q \in PathNames
      PROVE  LinesIn(q, c5) =
               (((LinesIn(q, L("")) \o LinesIn(q, L("f"))) \o LinesIn(q, L("g")))
                  \o LinesIn(q, L("i"))) \o LinesIn(q, L("p"))
  <2>0. \A x, y \in Seq(Lines) : Begins(y) => LinesIn(q, x \o y) = LinesIn(q, x) \o LinesIn(q, y)
    BY LinesInConcat
  <2>1. LinesIn(q, c2) = LinesIn(q, L("")) \o LinesIn(q, L("f"))
    BY <1>2, <1>4, <2>0, Zenon
  <2>2. LinesIn(q, c3) = LinesIn(q, c2) \o LinesIn(q, L("g"))
    BY <1>2, <1>4, <1>5, <2>0, Zenon
  <2>3. LinesIn(q, c4) = LinesIn(q, c3) \o LinesIn(q, L("i"))
    BY <1>2, <1>4, <1>5, <2>0, Zenon
  <2>4. LinesIn(q, c5) = LinesIn(q, c4) \o LinesIn(q, L("p"))
    BY <1>2, <1>4, <1>5, <2>0, Zenon
  <2> QED
    BY <2>1, <2>2, <2>3, <2>4, Zenon
<1>7. ASSUME NEW q \in PathNames
      PROVE  LinesIn(q, c5) = L(q)
  <2>1. \A p \in PathNames : LinesIn(q, L(p)) = IF q = p THEN L(p) ELSE << >>
    BY <1>2
  <2>2. L(q) \in Seq(Lines)
    BY <1>2
  <2>3. /\ (((L(q) \o << >>) \o << >>) \o << >>) \o << >> = L(q)
        /\ (((<< >> \o L(q)) \o << >>) \o << >>) \o << >> = L(q)
        /\ (((<< >> \o << >>) \o L(q)) \o << >>) \o << >> = L(q)
        /\ (((<< >> \o << >>) \o << >>) \o L(q)) \o << >> = L(q)
        /\ (((<< >> \o << >>) \o << >>) \o << >>) \o L(q) = L(q)
    BY <2>2, OneOfFive
  <2>4. q = "" \/ q = "f" \/ q = "g" \/ q = "i" \/ q = "p"
    BY PathNamesAre
  <2> HIDE DEF c5
  <2>5. CASE q = ""
    <3>1. /\ LinesIn(q, L("")) = L(q)
          /\ LinesIn(q, L("f")) = << >>
          /\ LinesIn(q, L("g")) = << >>
          /\ LinesIn(q, L("i")) = << >>
          /\ LinesIn(q, L("p")) = << >>
      BY <1>4, <2>1, <2>5
    <3> QED
      BY <1>6, <2>3, <3>1, Zenon
  <2>6. CASE q = "f"
    <3>1. /\ LinesIn(q, L("")) = << >>
          /\ LinesIn(q, L("f")) = L(q)
          /\ LinesIn(q, L("g")) = << >>
          /\ LinesIn(q, L("i")) = << >>
          /\ LinesIn(q, L("p")) = << >>
      BY <1>4, <2>1, <2>6
    <3> QED
      BY <1>6, <2>3, <3>1, Zenon
  <2>7. CASE q = "g"
    <3>1. /\ LinesIn(q, L("")) = << >>
          /\ LinesIn(q, L("f")) = << >>
          /\ LinesIn(q, L("g")) = L(q)
          /\ LinesIn(q, L("i")) = << >>
          /\ LinesIn(q, L("p")) = << >>
      BY <1>4, <2>1, <2>7
    <3> QED
      BY <1>6, <2>3, <3>1, Zenon
  <2>8. CASE q = "i"
    <3>1. /\ LinesIn(q, L("")) = << >>
          /\ LinesIn(q, L("f")) = << >>
          /\ LinesIn(q, L("g")) = << >>
          /\ LinesIn(q, L("i")) = L(q)
          /\ LinesIn(q, L("p")) = << >>
      BY <1>4, <2>1, <2>8
    <3> QED
      BY <1>6, <2>3, <3>1, Zenon
  <2>9. CASE q = "p"
    <3>1. /\ LinesIn(q, L("")) = << >>
          /\ LinesIn(q, L("f")) = << >>
          /\ LinesIn(q, L("g")) = << >>
          /\ LinesIn(q, L("i")) = << >>
          /\ LinesIn(q, L("p")) = L(q)
      BY <1>4, <2>1, <2>9
    <3> QED
      BY <1>6, <2>3, <3>1, Zenon
  <2> QED
    BY <2>4, <2>5, <2>6, <2>7, <2>8, <2>9
<1>8. CanonicalDiff(c5) =
        (((LinesIn("", c5) \o LinesIn("f", c5)) \o LinesIn("g", c5))
           \o LinesIn("i", c5)) \o LinesIn("p", c5)
  BY <1>5, FiveLines DEF Canon, LinesIn
<1> HIDE DEF c2, c3, c4, c5
<1>9. CanonicalDiff(c5) = c5
  BY <1>4, <1>7, <1>8, Zenon DEF c2, c3, c4, c5
<1> QED
  BY <1>3, <1>9, Zenon

-----------------------------------------------------------------------------
(* What the engine writes                                                  *)

ScriptLines(T) == [tag : {"=", " ", "-", "+"}, text : T]
HunkLines == [kind : {"@@"}, start : Nat, olds : Nat, news : Nat]
BodyLines(T) == [kind : {"body"}, tag : {" ", "-", "+"}, text : T]
ShownLines(T) == HunkLines \cup BodyLines(T) \cup {Blank}

\* The run of shown lines that holds a shown line has an end.
LEMMA EndExists ==
  ASSUME NEW S, NEW s \in Seq(S), NEW i \in 1..Len(s), Shown(s, i)
  PROVE  /\ EndOf(s, i) \in i..Len(s)
         /\ \A h \in i..EndOf(s, i) : Shown(s, h)
         /\ EndOf(s, i) = Len(s) \/ ~Shown(s, EndOf(s, i) + 1)
<1> DEFINE End(j) == /\ \A h \in i..j : Shown(s, h)
                     /\ j = Len(s) \/ ~Shown(s, j + 1)
           k == Len(s) - i
           N == {n \in 0..k : \A h \in i..(i + n) : Shown(s, h)}
<1>1. \E j \in i..Len(s) : End(j)
  <2> SUFFICES ASSUME \A j \in i..Len(s) : ~End(j) PROVE FALSE
    OBVIOUS
  <2>1. k \in Nat /\ Len(s) \in Nat /\ i \in Nat
    OBVIOUS
  <2>2. 0 \in N
    <3>1. \A h \in i..(i + 0) : h = i
      BY <2>1
    <3> QED
      BY <2>1, <3>1
  <2>3. ASSUME NEW n \in 0..k, n \in N, n < k PROVE n + 1 \in N
    <3>1. i + n \in i..Len(s) /\ i + n # Len(s)
      BY <2>1, <2>3
    <3>2. ~End(i + n)
      BY <3>1
    <3>3. \A h \in i..(i + n) : Shown(s, h)
      BY <2>3
    <3>4. Shown(s, i + n + 1)
      BY <3>1, <3>2, <3>3
    <3>5. \A h \in i..(i + (n + 1)) : h \in i..(i + n) \/ h = i + n + 1
      BY <2>1
    <3>6. n + 1 \in 0..k
      BY <2>1, <2>3
    <3> QED
      BY <3>3, <3>4, <3>5, <3>6
  <2>4. \A n \in 0..k : n \in N
    <3>1. \A n \in 0..k : n \in N /\ n < k => n + 1 \in N
      BY <2>3
    <3>2. k \in Nat
      BY <2>1
    <3> HIDE DEF N, k
    <3> QED
      BY <2>2, <3>1, <3>2, PrefixesOf, Zenon
  <2>5. k \in N /\ i + k = Len(s)
    <3>1. k \in 0..k /\ i + k = Len(s)
      BY <2>1
    <3> HIDE DEF N, k
    <3> QED
      BY <2>4, <3>1
  <2>6. End(Len(s))
    BY <2>1, <2>5
  <2> QED
    BY <2>1, <2>6
<1>2. EndOf(s, i) = CHOOSE j \in i..Len(s) : End(j)
  BY DEF EndOf
<1>3. EndOf(s, i) \in i..Len(s) /\ End(EndOf(s, i))
  <2> HIDE DEF End
  <2> QED
    BY <1>1, <1>2
<1> QED
  BY <1>3

\* A hunk's numbers are numbers.
LEMMA NumbersCount ==
  ASSUME NEW s, NEW a \in Int, NEW b \in Int
  PROVE  Number(s, a, b, IsOld) \in Nat /\ Number(s, a, b, IsNew) \in Nat
<1>1. IsFiniteSet(a..b)
  BY FS_Interval
<1>2. IsFiniteSet({h \in a..b : IsOld(s, h)}) /\ IsFiniteSet({h \in a..b : IsNew(s, h)})
  BY <1>1, FS_Subset
<1> QED
  BY <1>2, FS_CardinalityType DEF Number

\* The header of a hunk is a line.
LEMMA HunkAtType ==
  ASSUME NEW S, NEW s \in Seq(S), NEW i \in 1..Len(s), Shown(s, i)
  PROVE  HunkAt(s, i) \in HunkLines
<1>1. EndOf(s, i) \in Int /\ i \in Int /\ i - 1 \in Int /\ 1 \in Int
  BY EndExists
<1>2. /\ Number(s, i, EndOf(s, i), IsOld) \in Nat
      /\ Number(s, i, EndOf(s, i), IsNew) \in Nat
      /\ Number(s, 1, i - 1, IsOld) \in Nat
  BY <1>1, NumbersCount
<1> QED
  BY <1>2 DEF HunkAt, Hunk, HunkLines

\* One line of the script, behind the lines that are written already.
LineAt(s, trimmed, i) ==
  IF trimmed /\ s[i].tag = " " /\ s[i].text = "" THEN Blank ELSE Body(s[i].tag, s[i].text)
Written(s, trimmed, lines, i) ==
  IF ~Shown(s, i) THEN lines
  ELSE lines \o (IF i \in Starts(s) THEN <<HunkAt(s, i)>> ELSE << >>)
             \o <<LineAt(s, trimmed, i)>>

\* What is written for a line of a script are lines of a diff.
LEMMA WrittenType ==
  ASSUME NEW T, NEW s \in Seq(ScriptLines(T)), NEW trimmed \in BOOLEAN,
         NEW lines \in Seq(ShownLines(T)), NEW i \in 1..Len(s)
  PROVE  Written(s, trimmed, lines, i) \in Seq(ShownLines(T))
<1>1. CASE ~Shown(s, i)
  BY <1>1 DEF Written
<1>2. CASE Shown(s, i)
  <2>1. s[i].tag \in {" ", "-", "+"} /\ s[i].text \in T
    <3>1. s[i] \in ScriptLines(T)
      BY ElementOfSeq
    <3> QED
      BY <1>2, <3>1 DEF ScriptLines, Shown
  <2>2. Body(s[i].tag, s[i].text) \in BodyLines(T)
    BY <2>1 DEF Body, BodyLines
  <2>3. LineAt(s, trimmed, i) \in ShownLines(T)
    BY <2>2 DEF LineAt, ShownLines
  <2>4. HunkAt(s, i) \in ShownLines(T)
    BY <1>2, HunkAtType DEF ShownLines
  <2> DEFINE h == IF i \in Starts(s) THEN <<HunkAt(s, i)>> ELSE << >>
             l == <<LineAt(s, trimmed, i)>>
  <2>5. \A z \in ShownLines(T) : <<z>> \in Seq(ShownLines(T))
    OBVIOUS
  <2>6. h \in Seq(ShownLines(T)) /\ l \in Seq(ShownLines(T))
    BY <2>3, <2>4, <2>5, EmptySeq
  <2>7. Written(s, trimmed, lines, i) = lines \o h \o l
    BY <1>2 DEF Written
  <2> HIDE DEF h, l
  <2>8. lines \o h \o l \in Seq(ShownLines(T))
    BY <2>6, ConcatProperties
  <2> QED
    BY <2>7, <2>8
<1> QED
  BY <1>1, <1>2

RenderStep(T, s, trimmed) ==
  [x \in Seq(ShownLines(T)) \X (1..Len(s)) |-> Written(s, trimmed, x[1], x[2])]

\* What is written, line by line.
IsRendering(P, T, s, trimmed) ==
  /\ P \in [0..Len(s) -> Seq(ShownLines(T))]
  /\ P[0] = << >>
  /\ \A i \in 1..Len(s) : P[i] = Written(s, trimmed, P[i - 1], i)
  /\ Rendered(s, trimmed) = P[Len(s)]

\* The fold of Rendered goes through the lines of the script.
LEMMA RenderingExists ==
  ASSUME NEW T, NEW s \in Seq(ScriptLines(T)), NEW trimmed \in BOOLEAN
  PROVE  \E P : IsRendering(P, T, s, trimmed)
<1> DEFINE A == Seq(ShownLines(T))
           L == 1..Len(s)
           F == RenderStep(T, s, trimmed)
           d == [i \in DOMAIN s |-> i]
<1>1. /\ d \in Seq(L) /\ Len(d) = Len(s) /\ DOMAIN d = L /\ Len(s) \in Nat
      /\ \A i \in 1..Len(s) : d[i] = i
  <2>1. DOMAIN s = 1..Len(s) /\ Len(s) \in Nat
    BY LenProperties
  <2> QED
    BY <2>1
<1>2. << >> \in A
  BY EmptySeq
<1>3. \A a \in A, i \in L : F[<<a, i>>] = Written(s, trimmed, a, i)
  BY DEF RenderStep
<1>4. F \in Steps(A, L)
  BY WrittenType DEF RenderStep, Steps
<1> HIDE DEF A, L, F, d
<1>5. PICK b \in A : b = << >>
  BY <1>2
<1>6. PICK G : IsFoldTable(G, A, L, F, b, d)
  BY <1>1, <1>4, FoldTable
<1>7. G = [t \in SUBSET DOMAIN d |->
             IF t = {} THEN << >> ELSE Written(s, trimmed, G[t \ {Max(t)}], d[Max(t)])]
  BY <1>3, <1>5, <1>6 DEF IsFoldTable
<1>8. PICK H : /\ H = [t \in SUBSET DOMAIN d |->
                         IF t = {} THEN << >> ELSE Written(s, trimmed, H[t \ {Max(t)}], d[Max(t)])]
               /\ Rendered(s, trimmed) = H[DOMAIN d]
  <2> DEFINE Add(lines, i) == Written(s, trimmed, lines, i)
  <2>1. Rendered(s, trimmed) = FoldLeft(Add, << >>, d)
    BY DEF Rendered, Written, LineAt, d
  <2>2. \E H : /\ H = [t \in SUBSET DOMAIN d |->
                         IF t = {} THEN << >> ELSE Written(s, trimmed, H[t \ {Max(t)}], d[Max(t)])]
               /\ FoldLeft(Add, << >>, d) = H[DOMAIN d]
    BY <1>7 DEF FoldLeft, MapThenFoldSet
  <2> QED
    BY <2>1, <2>2
<1>9. Folds(H, A, L, F, << >>, d)
  <2>1. d \in Seq(L)
    BY <1>1
  <2> QED
    BY <1>3, <1>8, <2>1 DEF Folds
<1>10. Folds(H, A, L, F, b, d)
  BY <1>5, <1>9, Zenon
<1>11. H[DOMAIN d] = Folded(A, F, b, d)
  BY <1>1, <1>4, <1>10, FoldIsFolded
<1>12. PICK P : IsTrace(P, A, F, b, d)
  BY <1>1, <1>4, TraceExists
<1>13. Folded(A, F, b, d) = P[Len(d)]
  BY <1>1, <1>4, <1>12, FoldedIsEnd
<1>14. /\ P \in [0..Len(s) -> A] /\ P[0] = b
       /\ \A i \in 1..Len(s) : P[i] = F[<<P[i - 1], d[i]>>]
  BY <1>1, <1>12, Zenon DEF IsTrace
<1>15. ASSUME NEW i \in 1..Len(s)
       PROVE  P[i] = Written(s, trimmed, P[i - 1], i)
  <2>0. i - 1 \in 0..Len(s)
    BY <1>1
  <2>1. P[i - 1] \in A /\ i \in L /\ d[i] = i
    BY <1>1, <1>14, <2>0 DEF L
  <2>2. P[i] = F[<<P[i - 1], i>>]
    BY <1>14, <2>1
  <2> QED
    BY <1>3, <2>1, <2>2
<1>16. Rendered(s, trimmed) = P[Len(s)]
  BY <1>1, <1>8, <1>11, <1>13, Zenon
<1>17. P[0] = << >>
  BY <1>5, <1>14, Zenon
<1>18. P \in [0..Len(s) -> Seq(ShownLines(T))]
  BY <1>14 DEF A
<1> QED
  BY <1>15, <1>16, <1>17, <1>18, Zenon DEF IsRendering

\* What is written are lines that can be shown.
LEMMA RenderedType ==
  ASSUME NEW T, NEW s \in Seq(ScriptLines(T)), NEW trimmed \in BOOLEAN
  PROVE  Rendered(s, trimmed) \in Seq(ShownLines(T))
<1>1. PICK P : IsRendering(P, T, s, trimmed)
  BY RenderingExists
<1>2. Len(s) \in 0..Len(s)
  BY LenProperties
<1>3. P \in [0..Len(s) -> Seq(ShownLines(T))] /\ Rendered(s, trimmed) = P[Len(s)]
  BY <1>1 DEF IsRendering
<1> QED
  BY <1>2, <1>3

-----------------------------------------------------------------------------
(* What the engine writes of one file                                      *)

\* Lines that can be shown are lines.
LEMMA ShownAreLines ==
  ASSUME NEW T, T \subseteq Texts
  PROVE  ShownLines(T) \subseteq Lines
  BY DEF ShownLines, HunkLines, BodyLines, Lines

\* Metadata between files does not change the lines of any.
LEMMA MetadataIsSkipped ==
  ASSUME NEW path, NEW d \in Seq(Lines), NEW e \in Seq(Lines)
  PROVE  LinesIn(path, d \o (<<Metadata>> \o e)) = LinesIn(path, d \o e)
<1>1. Metadata \in Lines
  BY DEF Lines
<1>2. PICK m \in Seq(Lines) : m = <<Metadata>>
  <2>1. <<Metadata>> \in Seq(Lines)
    BY <1>1
  <2> QED
    BY <2>1
<1>3. Start0 \in Accs
  BY SplitFromStart, EmptySeq
<1>4. PICK a \in Accs : a = SplitAll(Start0, d)
  BY <1>3, SplitAllFacts
<1>5. SplitAll(a, m) = SplitLine(a, Metadata)
  <2>1. SplitAll(a, <<Metadata>>) = SplitLine(a, Metadata)
    BY <1>1, EmptySeq, SplitAllFacts
  <2> QED
    BY <1>2, <2>1, Zenon
<1>6. SplitLine(a, Metadata) = a
  BY DEF SplitLine, Metadata, IsHeader, KeepLine
<1>7. SplitAll(a, m \o e) = SplitAll(a, e)
  <2>1. SplitAll(a, m \o e) = SplitAll(SplitAll(a, m), e)
    BY SplitAllFacts
  <2> QED
    BY <1>5, <1>6, <2>1, Zenon
<1>8. PICK f \in Seq(Lines) : f = m \o e
  BY ConcatProperties
<1>9. /\ SplitAll(Start0, d \o f) = SplitAll(a, f)
      /\ SplitAll(Start0, d \o e) = SplitAll(a, e)
  <2>1. /\ SplitAll(Start0, d \o f) = SplitAll(SplitAll(Start0, d), f)
        /\ SplitAll(Start0, d \o e) = SplitAll(SplitAll(Start0, d), e)
    BY <1>3, SplitAllFacts
  <2> QED
    BY <1>4, <2>1, Zenon
<1>10. SplitAll(Start0, d \o f) = SplitAll(Start0, d \o e)
  BY <1>7, <1>8, <1>9, Zenon
<1>11. /\ SplitFileSections(d \o f) = Closed(SplitAll(Start0, d \o f))
       /\ SplitFileSections(d \o e) = Closed(SplitAll(Start0, d \o e))
  <2>1. d \o f \in Seq(Lines) /\ d \o e \in Seq(Lines)
    BY ConcatProperties
  <2> QED
    BY <2>1, SplitFromStart
<1>12. d \o f = d \o (<<Metadata>> \o e)
  BY <1>2, <1>8, Zenon
<1> QED
  BY <1>10, <1>11, <1>12, Zenon DEF LinesIn

\* A file that no header names has no lines.
Silent(path) == {x \in Lines : IsHeader(x, "+++") => PathOf(x) # path}

\* Where no header names a file, none of its lines are.
LEMMA NothingOfOthers ==
  ASSUME NEW q \in PathNames, q # "", NEW d \in Seq(Silent(q))
  PROVE  LinesIn(q, d) = << >>
<1> DEFINE Without(acc) == acc \in Accs /\ acc.path # q /\ LinesOf(q, acc.sections) = << >>
           M == {e \in Seq(Silent(q)) : Without(SplitAll(Start0, e))}
<1>0. \A e \in Seq(Silent(q)) : e \in Seq(Lines)
  BY SeqMonotonic DEF Silent
<1>1. Start0 \in Accs /\ << >> \in Seq(Lines)
  BY SplitFromStart, EmptySeq
<1>2. ASSUME NEW acc, Without(acc)
      PROVE  LinesOf(q, Closed(acc)) = << >>
  <2> DEFINE u == acc.lines \o acc.pending
             s == Section(acc.path, u)
  <2>1. acc.sections \in Seq(Sections) /\ s \in Sections
    BY <1>2, AccFields
  <2>2. s.path # q
    BY <1>2 DEF Section
  <2>3. LinesOf(q, Append(acc.sections, s)) = Added(q, LinesOf(q, acc.sections), s)
    BY <2>1, LinesOfFacts
  <2>4. Added(q, LinesOf(q, acc.sections), s) = << >>
    BY <1>2, <2>2 DEF Added
  <2>5. Closed(acc) = acc.sections \/ Closed(acc) = Append(acc.sections, s)
    BY DEF Closed
  <2> HIDE DEF s
  <2> QED
    BY <1>2, <2>3, <2>4, <2>5, Zenon
<1>3. << >> \in M
  <2>1. << >> \in Seq(Silent(q))
    BY EmptySeq
  <2>2. SplitAll(Start0, << >>) = Start0
    BY <1>1, SplitAllFacts
  <2>3. Start0.path = Absent /\ Start0.sections = << >>
    BY DEF Start0
  <2>4. Without(Start0)
    BY <1>1, <2>3, AbsentIsNoPath, NoLines
  <2> HIDE DEF Without
  <2> QED
    BY <2>1, <2>2, <2>4
<1>4. ASSUME NEW e \in Seq(Silent(q)), NEW x \in Silent(q), e \in M
      PROVE  Append(e, x) \in M
  <2> DEFINE a == SplitAll(Start0, e)
             c == SplitLine(a, x)
  <2>1. x \in Lines /\ e \in Seq(Lines) /\ Append(e, x) \in Seq(Silent(q))
    BY <1>0, AppendProperties DEF Silent
  <2>2. SplitAll(Start0, Append(e, x)) = c
    BY <1>1, <2>1, SplitAllFacts
  <2>3. Without(a)
    BY <1>4
  <2>4. c \in Accs
    BY <2>1, <2>3, SplitLineType
  <2>5. LinesOf(q, Closed(a)) = << >>
    BY <1>2, <2>3
  <2>6. CASE IsHeader(x, "---")
    <3>1. c.path = Absent /\ c.sections = Closed(a)
      BY <2>6 DEF SplitLine
    <3> HIDE DEF a, c
    <3> QED
      BY <2>1, <2>2, <2>4, <2>5, <3>1, AbsentIsNoPath
  <2>7. CASE ~IsHeader(x, "---") /\ IsHeader(x, "+++")
    <3>1. c.path = PathOf(x) /\ c.sections = a.sections
      BY <2>3, <2>7 DEF SplitLine, Accs
    <3>2. PathOf(x) # q
      BY <2>7 DEF Silent
    <3> HIDE DEF a, c
    <3> QED
      BY <2>1, <2>2, <2>3, <2>4, <3>1, <3>2
  <2>8. CASE ~IsHeader(x, "---") /\ ~IsHeader(x, "+++")
    <3>1. c.path = a.path /\ c.sections = a.sections
      BY <2>3, <2>8 DEF SplitLine, Accs
    <3> HIDE DEF a, c
    <3> QED
      BY <2>1, <2>2, <2>3, <2>4, <3>1
  <2> QED
    BY <2>6, <2>7, <2>8
<1>5. Seq(Silent(q)) \subseteq M
  <2> HIDE DEF M
  <2> QED BY <1>3, <1>4, SetOfSequences
<1>6. LinesOf(q, Closed(SplitAll(Start0, d))) = << >>
  <2>1. Without(SplitAll(Start0, d))
    BY <1>5
  <2> HIDE DEF Without
  <2> QED
    BY <1>2, <2>1
<1> QED
  BY <1>0, <1>6, SplitFromStart DEF LinesIn

Headerless == {x \in Lines : ~IsHeader(x, "---") /\ ~IsHeader(x, "+++")}

\* The diff of a file without further headers is one section.
LEMMA OneFile ==
  ASSUME NEW p \in PathNames, NEW stamp \in BOOLEAN, NEW e \in Seq(Headerless),
         NEW q \in PathNames, q # p
  PROVE  LinesIn(q, <<Old(p, stamp), New(p, stamp)>> \o e) = << >>
<1> DEFINE x == Old(p, stamp)
           y == New(p, stamp)
           a == SplitLine(SplitLine(Start0, x), y)
           Single(acc) == acc \in Accs /\ acc.path = p /\ acc.sections = << >>
           M == {f \in Seq(Headerless) : Single(SplitAll(a, f))}
<1>0. \A f \in Seq(Headerless) : f \in Seq(Lines)
  BY SeqMonotonic DEF Headerless
<1>1. /\ x \in Lines /\ IsHeader(x, "---") /\ PathOf(x) = p
      /\ y \in Lines /\ IsHeader(y, "+++") /\ ~IsHeader(y, "---") /\ PathOf(y) = p
  BY DEF Old, New, Lines, IsHeader, PathOf
<1>2. Start0 \in Accs /\ << >> \in Seq(Lines)
  BY SplitFromStart, EmptySeq
<1> HIDE DEF x, y
<1>3. a \in Accs /\ a.path = p /\ a.sections = << >>
  <2> DEFINE o == SplitLine(Start0, x)
  <2>1. o \in Accs
    BY <1>1, <1>2, SplitLineType
  <2>2. o.sections = << >>
    BY <1>1 DEF SplitLine, Start0, Closed
  <2> HIDE DEF o
  <2>3. SplitLine(o, y).path = p /\ SplitLine(o, y).sections = << >>
    BY <1>1, <2>1, <2>2 DEF SplitLine, Accs
  <2> QED
    BY <1>1, <2>1, <2>3, SplitLineType DEF o
<1> HIDE DEF a
<1>4. << >> \in M
  BY <1>2, <1>3, EmptySeq, SplitAllFacts
<1>5. ASSUME NEW f \in Seq(Headerless), NEW z \in Headerless, f \in M
      PROVE  Append(f, z) \in M
  <2> DEFINE b == SplitAll(a, f)
             c == SplitLine(b, z)
  <2>1. /\ z \in Lines /\ ~IsHeader(z, "---") /\ ~IsHeader(z, "+++")
        /\ f \in Seq(Lines) /\ Append(f, z) \in Seq(Headerless)
    BY <1>0, AppendProperties DEF Headerless
  <2>2. SplitAll(a, Append(f, z)) = c
    BY <1>3, <2>1, SplitAllFacts
  <2>3. Single(b)
    BY <1>5
  <2>4. c \in Accs
    BY <2>1, <2>3, SplitLineType
  <2>5. c.path = b.path /\ c.sections = b.sections
    BY <2>1, <2>3 DEF SplitLine, Accs
  <2> HIDE DEF b, c
  <2> QED
    BY <2>1, <2>2, <2>3, <2>4, <2>5
<1>6. Seq(Headerless) \subseteq M
  <2> HIDE DEF M
  <2> QED BY <1>4, <1>5, SetOfSequences
<1>7. PICK b \in Accs : b = SplitAll(a, e) /\ b.path = p /\ b.sections = << >>
  BY <1>6
<1>8. LinesOf(q, Closed(b)) = << >>
  <2> DEFINE s == Section(b.path, b.lines \o b.pending)
  <2>1. s \in Sections
    BY AccFields
  <2>2. s.path # q
    BY <1>7, AbsentIsNoPath DEF Section
  <2>3. LinesOf(q, <<s>>) = Added(q, << >>, s)
    <3>1. PICK z \in Sections : z = s
      BY <2>1
    <3>2. << >> \in Seq(Sections)
      BY EmptySeq
    <3>3. LinesOf(q, <<z>>) = Added(q, << >>, z)
      BY <3>2, LinesOfFacts
    <3> QED
      BY <3>1, <3>3, Zenon
  <2>4. Closed(b) = << >> \/ Closed(b) = <<s>>
    <3>1. Append(<< >>, s) = <<s>>
      OBVIOUS
    <3>2. Closed(b) = b.sections \/ Closed(b) = Append(b.sections, s)
      BY DEF Closed
    <3> HIDE DEF s
    <3> QED
      BY <1>7, <3>1, <3>2, Zenon
  <2>5. LinesOf(q, << >>) = << >>
    BY NoLines
  <2>6. Added(q, << >>, s) = << >>
    BY <2>2 DEF Added
  <2> HIDE DEF s
  <2> QED
    BY <2>3, <2>4, <2>5, <2>6, Zenon
<1>9. SplitAll(Start0, <<x, y>> \o e) = SplitAll(a, e)
  <2>1. PICK h \in Seq(Lines), k \in Seq(Lines) : h = <<x>> /\ k = Append(h, y)
    <3>1. <<x>> \in Seq(Lines)
      BY <1>1
    <3>2. Append(<<x>>, y) \in Seq(Lines)
      BY <1>1, <3>1, AppendProperties
    <3> QED
      BY <3>1, <3>2
  <2>2. <<x, y>> = k
    <3>1. <<x, y>> = Append(<<x>>, y)
      BY <1>1
    <3> QED
      BY <2>1, <3>1, Zenon
  <2>3. SplitAll(Start0, h) = SplitLine(Start0, x)
    <3>1. SplitAll(Start0, <<x>>) = SplitLine(Start0, x)
      BY <1>1, <1>2, SplitAllFacts
    <3> QED
      BY <2>1, <3>1, Zenon
  <2>4. SplitAll(Start0, Append(h, y)) = SplitLine(SplitAll(Start0, h), y)
    BY <1>1, <1>2, SplitAllFacts
  <2>5. SplitAll(Start0, k \o e) = SplitAll(SplitAll(Start0, k), e)
    BY <1>0, <1>2, SplitAllFacts
  <2> QED
    BY <2>1, <2>2, <2>3, <2>4, <2>5, Zenon DEF a
<1>10. <<x, y>> \o e \in Seq(Lines)
  BY <1>0, <1>1
<1>11. SplitFileSections(<<x, y>> \o e) = Closed(SplitAll(Start0, <<x, y>> \o e))
  BY <1>10, SplitFromStart
<1> QED
  BY <1>7, <1>8, <1>9, <1>11, Zenon DEF LinesIn, x, y

-----------------------------------------------------------------------------
(* The hash                                                                *)

\* The diff of one file, without what the engine writes between files.
Part(path, s, stamp) == <<Old(path, stamp), New(path, stamp)>> \o Rendered(s, FALSE)

\* Two lines, one after the other.
LEMMA PairIsConcat ==
  ASSUME NEW S, NEW x \in S, NEW y \in S
  PROVE  <<x, y>> = <<x>> \o <<y>>
<1>1. <<x>> \in Seq(S) /\ <<y>> \in Seq(S) /\ <<x, y>> \in Seq(S)
  OBVIOUS
<1>2. PICK a \in Seq(S), b \in Seq(S), c \in Seq(S) :
        /\ a = <<x>> /\ Len(a) = 1 /\ a[1] = x
        /\ b = <<y>> /\ Len(b) = 1 /\ b[1] = y
        /\ c = <<x, y>> /\ Len(c) = 2 /\ c[1] = x /\ c[2] = y
  BY <1>1
<1>3. /\ a \o b \in Seq(S) /\ Len(a \o b) = 2
      /\ \A i \in 1..2 : (a \o b)[i] = IF i <= 1 THEN a[i] ELSE b[i - 1]
  BY <1>2, ConcatProperties
<1>4. \A i \in 1..2 : (a \o b)[i] = c[i]
  BY <1>2, <1>3
<1>5. c = a \o b
  BY <1>2, <1>3, <1>4, SeqEqual
<1> QED
  BY <1>2, <1>5, Zenon

\* What is written of a change has no header that is not in its text.
LEMMA ShownKinds ==
  ASSUME NEW T, NEW x \in ShownLines(T)
  PROVE  \/ x.kind \in {"@@", "blank"}
         \/ x.kind = "body" /\ x.tag \in {" ", "-", "+"} /\ x.text \in T
<1>1. CASE x \in HunkLines
  <2>1. x.kind = "@@"
    BY <1>1 DEF HunkLines
  <2> QED
    BY <2>1
<1>2. CASE x \in BodyLines(T)
  <2>1. x.kind = "body" /\ x.tag \in {" ", "-", "+"} /\ x.text \in T
    BY <1>2 DEF BodyLines
  <2> QED
    BY <2>1
<1>3. CASE x = Blank
  BY <1>3 DEF Blank
<1> QED
  BY <1>1, <1>2, <1>3 DEF ShownLines

\* The diff of one file begins with its header, and stamps do not matter.
LEMMA PartFacts ==
  ASSUME NEW p \in PathNames, NEW stamp \in BOOLEAN,
         NEW T, T \subseteq Texts, NEW s \in Seq(ScriptLines(T))
  PROVE  /\ Part(p, s, stamp) \in Seq(Lines)
         /\ Begins(Part(p, s, stamp))
         /\ CleanLines(Part(p, s, stamp)) = CleanLines(Part(p, s, FALSE))
<1>1. PICK r \in Seq(ShownLines(T)) : r = Rendered(s, FALSE)
  BY RenderedType
<1>2. r \in Seq(Lines)
  BY ShownAreLines, SeqMonotonic
<1>3. /\ \A b \in BOOLEAN : /\ Old(p, b) \in Lines /\ New(p, b) \in Lines
                            /\ IsHeader(Old(p, b), "---")
                            /\ CleanHeader(Old(p, b)) = Old(p, FALSE)
                            /\ CleanHeader(New(p, b)) = New(p, FALSE)
  BY DEF Old, New, Lines, IsHeader, PathOf, CleanHeader
<1>4. ASSUME NEW x \in Lines, NEW y \in Lines
      PROVE  /\ <<x, y>> \in Seq(Lines) /\ <<x, y>> = <<x>> \o <<y>>
             /\ <<x>> \in Seq(Lines) /\ <<y>> \in Seq(Lines)
             /\ CleanLines(<<x, y>>) = <<CleanHeader(x), CleanHeader(y)>>
  <2>1. <<x, y>> \in Seq(Lines) /\ <<x>> \in Seq(Lines) /\ <<y>> \in Seq(Lines)
    OBVIOUS
  <2>2. <<x, y>> = <<x>> \o <<y>>
    BY PairIsConcat
  <2>3. PICK h \in Seq(Lines), k \in Seq(Lines) : h = <<x>> /\ k = <<y>>
    BY <2>1
  <2>4. CleanLines(h \o k) = CleanLines(h) \o CleanLines(k)
    BY CleanLinesFacts
  <2>5. CleanLines(<<x>>) = <<CleanHeader(x)>> /\ CleanLines(<<y>>) = <<CleanHeader(y)>>
    BY EmptySeq, CleanLinesFacts
  <2>6. <<CleanHeader(x)>> \o <<CleanHeader(y)>> = <<CleanHeader(x), CleanHeader(y)>>
    BY CleanHeaderFacts, PairIsConcat
  <2> QED
    BY <2>1, <2>2, <2>3, <2>4, <2>5, <2>6, Zenon
<1>5. ASSUME NEW b \in BOOLEAN
      PROVE  /\ <<Old(p, b), New(p, b)>> \in Seq(Lines)
             /\ CleanLines(<<Old(p, b), New(p, b)>>) = <<Old(p, FALSE), New(p, FALSE)>>
             /\ CleanLines(Part(p, s, b)) = <<Old(p, FALSE), New(p, FALSE)>> \o CleanLines(r)
             /\ Part(p, s, b) \in Seq(Lines)
  <2>1. Old(p, b) \in Lines /\ New(p, b) \in Lines
    BY <1>3
  <2>2. /\ <<Old(p, b), New(p, b)>> \in Seq(Lines)
        /\ CleanLines(<<Old(p, b), New(p, b)>>) = <<Old(p, FALSE), New(p, FALSE)>>
    <3>1. PICK x \in Lines, y \in Lines : x = Old(p, b) /\ y = New(p, b)
      BY <2>1
    <3>2. <<x, y>> \in Seq(Lines) /\ CleanLines(<<x, y>>) = <<CleanHeader(x), CleanHeader(y)>>
      BY <1>4
    <3>3. CleanHeader(x) = Old(p, FALSE) /\ CleanHeader(y) = New(p, FALSE)
      BY <1>3, <3>1, Zenon
    <3> QED
      BY <3>1, <3>2, <3>3, Zenon
  <2>3. PICK h \in Seq(Lines) : h = <<Old(p, b), New(p, b)>>
    BY <2>2
  <2>4. CleanLines(h \o r) = CleanLines(h) \o CleanLines(r) /\ h \o r \in Seq(Lines)
    BY <1>2, CleanLinesFacts, ConcatProperties
  <2> QED
    BY <1>1, <2>2, <2>3, <2>4, Zenon DEF Part
<1>6. CleanLines(Part(p, s, stamp)) = CleanLines(Part(p, s, FALSE))
  <2>1. FALSE \in BOOLEAN
    OBVIOUS
  <2> QED
    BY <1>5, <2>1, Zenon
<1>7. Begins(Part(p, s, stamp))
  <2>1. PICK x \in Lines, y \in Lines :
          x = Old(p, stamp) /\ y = New(p, stamp) /\ IsHeader(x, "---")
    BY <1>3
  <2>2. PICK h \in Seq(Lines), k \in Seq(Lines) : h = <<x>> /\ k = <<y>>
    <3>1. <<x>> \in Seq(Lines) /\ <<y>> \in Seq(Lines)
      BY <1>4
    <3> QED
      BY <3>1
  <2>3. (h \o k) \o r = h \o (k \o r)
    BY <1>2, ConcatAssociative
  <2>4. k \o r \in Seq(Lines)
    BY <1>2, ConcatProperties
  <2>5. <<x, y>> = <<x>> \o <<y>>
    BY <1>4
  <2>6. Part(p, s, stamp) = <<x>> \o (k \o r)
    BY <1>1, <2>1, <2>2, <2>3, <2>5, Zenon DEF Part
  <2> QED
    BY <2>1, <2>4, <2>6, Zenon DEF Begins
<1> QED
  BY <1>5, <1>6, <1>7

Untrimmed == [otherFirst : BOOLEAN, metadata : BOOLEAN, trimmed : {FALSE}]

\* The diff of a file is its part, behind the metadata if there is any.
LEMMA FileDiffIsPart ==
  ASSUME NEW l \in Untrimmed, NEW m \in BOOLEAN, m = l.metadata,
         NEW p \in PathNames, NEW s \in Seq(ScriptLines(Texts))
  PROVE  FileDiff(p, s, l) = IF m THEN <<Metadata>> \o Part(p, s, m) ELSE Part(p, s, m)
<1>0. l.metadata = m /\ l.trimmed = FALSE
  BY DEF Untrimmed
<1>1. Old(p, m) \in Lines /\ New(p, m) \in Lines /\ Metadata \in Lines
  BY DEF Old, New, Lines
<1>2. PICK h \in Seq(Lines), k \in Seq(Lines) :
        h = <<Old(p, m), New(p, m)>> /\ k = <<Metadata>>
  <2>1. <<Old(p, m), New(p, m)>> \in Seq(Lines) /\ <<Metadata>> \in Seq(Lines)
    BY <1>1
  <2> QED
    BY <2>1
<1>3. PICK r \in Seq(Lines) : r = Rendered(s, FALSE)
  <2>1. FALSE \in BOOLEAN
    OBVIOUS
  <2>2. Rendered(s, FALSE) \in Seq(ShownLines(Texts))
    BY <2>1, RenderedType
  <2> QED
    BY <2>2, ShownAreLines, SeqMonotonic
<1>4. (k \o h) \o r = k \o (h \o r) /\ << >> \o h = h
  <2>1. (k \o h) \o r = k \o (h \o r)
    OBVIOUS
  <2>2. << >> \o h = h
    BY ConcatEmptySeq
  <2> QED
    BY <2>1, <2>2
<1>5. FileDiff(p, s, l) = (IF m THEN k ELSE << >>) \o h \o r
  BY <1>0, <1>2, <1>3, Zenon DEF FileDiff
<1>6. Part(p, s, m) = h \o r
  BY <1>2, <1>3, Zenon DEF Part
<1>7. CASE m
  <2>1. FileDiff(p, s, l) = k \o h \o r
    BY <1>5, <1>7, Zenon
  <2> QED
    BY <1>2, <1>4, <1>6, <1>7, <2>1, Zenon
<1>8. CASE ~m
  <2>1. FileDiff(p, s, l) = << >> \o h \o r
    BY <1>5, <1>8, Zenon
  <2> QED
    BY <1>4, <1>6, <1>8, <2>1, Zenon
<1> QED
  BY <1>7, <1>8

\* What the parts of two files say, they say together.
SaidTogether(q, l, p1, s1, p2, s2) ==
  LinesIn(q, FileDiff(p1, s1, l) \o FileDiff(p2, s2, l))
    = LinesIn(q, Part(p1, s1, FALSE)) \o LinesIn(q, Part(p2, s2, FALSE))

\* The metadata and the stamps of a file do not matter, wherever it stands.
LEMMA TwoFiles ==
  ASSUME NEW q \in PathNames, NEW l \in Untrimmed,
         NEW p1 \in PathNames, NEW s1 \in Seq(ScriptLines(Texts)),
         NEW p2 \in PathNames, NEW s2 \in Seq(ScriptLines(Texts))
  PROVE  SaidTogether(q, l, p1, s1, p2, s2)
<1>0. PICK m \in BOOLEAN : m = l.metadata
  BY DEF Untrimmed
<1>1. PICK a \in Seq(Lines), b \in Seq(Lines) :
        /\ a = Part(p1, s1, m) /\ b = Part(p2, s2, m) /\ Begins(a) /\ Begins(b)
        /\ CleanLines(a) = CleanLines(Part(p1, s1, FALSE))
        /\ CleanLines(b) = CleanLines(Part(p2, s2, FALSE))
  BY PartFacts
<1>2. LinesIn(q, a \o b) = LinesIn(q, a) \o LinesIn(q, b)
  BY <1>1, LinesInConcat
<1>3. /\ LinesIn(q, a) = LinesIn(q, Part(p1, s1, FALSE))
      /\ LinesIn(q, b) = LinesIn(q, Part(p2, s2, FALSE))
  <2>1. PICK c \in Seq(Lines), d \in Seq(Lines) :
          c = Part(p1, s1, FALSE) /\ d = Part(p2, s2, FALSE)
    BY PartFacts
  <2>2. \A x \in Seq(Lines) : LinesIn(q, x) = LinesIn(q, CleanLines(x))
    BY StampsDoNotMatter DEF LinesIn
  <2> QED
    BY <1>1, <2>1, <2>2, Zenon
<1>4. LinesIn(q, FileDiff(p1, s1, l) \o FileDiff(p2, s2, l)) = LinesIn(q, a \o b)
  <2>2. ASSUME NEW p \in PathNames, NEW s \in Seq(ScriptLines(Texts))
        PROVE  FileDiff(p, s, l) = IF m THEN <<Metadata>> \o Part(p, s, m) ELSE Part(p, s, m)
    BY <1>0, FileDiffIsPart
  <2>3. CASE ~m
    BY <1>1, <2>2, <2>3, Zenon
  <2>4. CASE m
    <3>1. PICK k \in Seq(Lines) : k = <<Metadata>>
      <4>1. Metadata \in Lines
        BY DEF Lines
      <4>2. <<Metadata>> \in Seq(Lines)
        BY <4>1
      <4> QED
        BY <4>2
    <3>2. FileDiff(p1, s1, l) = k \o a /\ FileDiff(p2, s2, l) = k \o b
      BY <1>1, <2>2, <2>4, <3>1, Zenon
    <3>3. PICK c \in Seq(Lines) : c = k \o a
      BY ConcatProperties
    <3>4. LinesIn(q, c \o (k \o b)) = LinesIn(q, c \o b)
      BY <3>1, MetadataIsSkipped, Zenon
    <3>5. c \o b = k \o (a \o b)
      <4>1. (k \o a) \o b = k \o (a \o b)
        BY ConcatAssociative
      <4> QED
        BY <3>3, <4>1, Zenon
    <3>6. PICK f \in Seq(Lines) : f = a \o b
      BY ConcatProperties
    <3>7. PICK n \in Seq(Lines) : n = << >>
      BY EmptySeq
    <3>8. LinesIn(q, n \o (k \o f)) = LinesIn(q, n \o f)
      BY <3>1, MetadataIsSkipped, Zenon
    <3>9. n \o (k \o f) = k \o f /\ n \o f = f
      BY <3>7, ConcatProperties, ConcatEmptySeq
    <3> QED
      BY <3>2, <3>3, <3>4, <3>5, <3>6, <3>8, <3>9, Zenon
  <2> QED
    BY <2>3, <2>4
<1> QED
  BY <1>2, <1>3, <1>4, Zenon DEF SaidTogether

\* A change is a sequence of lines with tags.
LEMMA ScriptsAreSequences ==
  ASSUME NEW s \in Scripts
  PROVE  s \in Seq(ScriptLines(Texts))
<1>1. MaxLines \in Nat
  BY DiffsAssumption
<1>2. s \in UNION {[1..n -> ScriptLines(Texts)] : n \in 0..MaxLines}
  BY <1>1 DEF Scripts, BoundedSeq, SeqOf, ScriptLines
<1> QED
  BY <1>1, <1>2

\* So is the change of the second file.
LEMMA OtherIsScript ==
  /\ Other \in Seq(ScriptLines({"x", "y"})) /\ Other \in Seq(ScriptLines(Texts))
<1>1. {"x", "y"} \subseteq Texts
  BY DiffsAssumption
<1>2. Other \in Seq(ScriptLines({"x", "y"}))
  BY DEF Other, ScriptLines
<1>3. ScriptLines({"x", "y"}) \subseteq ScriptLines(Texts)
  BY <1>1 DEF ScriptLines
<1> QED
  BY <1>2, <1>3, SeqMonotonic

\* The second file's lines are its own: the first one's text may look like a
\* header, and then names a file that is neither.
LEMMA PartsAreApart ==
  ASSUME NEW s \in Seq(ScriptLines(Texts)), NEW q \in PathNames
  PROVE  /\ q # "g" => LinesIn(q, Part("g", Other, FALSE)) = << >>
         /\ LinesIn("g", Part("f", s, FALSE)) = << >>
<1>0. "f" \in PathNames /\ "g" \in PathNames /\ FALSE \in BOOLEAN
  BY PathNamesAre
<1>1. ASSUME q # "g"
      PROVE  LinesIn(q, Part("g", Other, FALSE)) = << >>
  <2>1. ShownLines({"x", "y"}) \subseteq Headerless
    <3>1. ShownLines({"x", "y"}) \subseteq Lines
      BY DiffsAssumption, ShownAreLines
    <3>2. ASSUME NEW x \in ShownLines({"x", "y"})
          PROVE  ~IsHeader(x, "---") /\ ~IsHeader(x, "+++")
      <4>1. \/ x.kind \in {"@@", "blank"}
            \/ x.kind = "body" /\ x.tag \in {" ", "-", "+"} /\ x.text \in {"x", "y"}
        BY ShownKinds
      <4> QED
        BY <4>1 DEF IsHeader, HeaderTexts
    <3> QED
      BY <3>1, <3>2 DEF Headerless
  <2>2. PICK r \in Seq(Headerless) : r = Rendered(Other, FALSE)
    <3>1. Rendered(Other, FALSE) \in Seq(ShownLines({"x", "y"}))
      BY <1>0, OtherIsScript, RenderedType
    <3> QED
      BY <2>1, <3>1, SeqMonotonic
  <2>3. LinesIn(q, <<Old("g", FALSE), New("g", FALSE)>> \o r) = << >>
    BY <1>0, <1>1, OneFile
  <2> QED
    BY <2>2, <2>3, Zenon DEF Part
<1>2. LinesIn("g", Part("f", s, FALSE)) = << >>
  <2>1. ShownLines(Texts) \subseteq Silent("g")
    <3>1. ShownLines(Texts) \subseteq Lines
      BY ShownAreLines
    <3>2. ASSUME NEW x \in ShownLines(Texts), IsHeader(x, "+++")
          PROVE  PathOf(x) # "g"
      <4>1. x.kind = "body"
        BY <3>2, ShownKinds DEF IsHeader
      <4> QED
        BY <4>1 DEF PathOf
    <3> QED
      BY <3>1, <3>2 DEF Silent
  <2>2. PICK r \in Seq(Silent("g")) : r = Rendered(s, FALSE)
    <3>1. Rendered(s, FALSE) \in Seq(ShownLines(Texts))
      BY <1>0, RenderedType
    <3> QED
      BY <2>1, <3>1, SeqMonotonic
  <2>3. Old("f", FALSE) \in Silent("g") /\ New("f", FALSE) \in Silent("g")
    BY <1>0 DEF Silent, Old, New, Lines, IsHeader, PathOf
  <2>4. PICK h \in Seq(Silent("g")) : h = <<Old("f", FALSE), New("f", FALSE)>>
    <3>1. PICK x \in Silent("g"), y \in Silent("g") :
            x = Old("f", FALSE) /\ y = New("f", FALSE)
      BY <2>3
    <3>2. <<x, y>> \in Seq(Silent("g"))
      OBVIOUS
    <3> QED
      BY <3>1, <3>2
  <2>5. h \o r \in Seq(Silent("g"))
    BY ConcatProperties
  <2>6. LinesIn("g", h \o r) = << >>
    BY <1>0, <2>5, NothingOfOthers
  <2> QED
    BY <2>2, <2>4, <2>6, Zenon DEF Part
<1> QED
  BY <1>1, <1>2

\* What the engine writes is a sequence of lines.
LEMMA RawDiffType ==
  ASSUME NEW s \in Scripts, NEW l \in [otherFirst : BOOLEAN, metadata : BOOLEAN, trimmed : BOOLEAN]
  PROVE  RawDiff(s, l) \in Seq(Lines)
<1>1. ASSUME NEW p \in PathNames, NEW t \in Seq(ScriptLines(Texts))
      PROVE  FileDiff(p, t, l) \in Seq(Lines)
  <2>1. /\ Old(p, l.metadata) \in Lines /\ New(p, l.metadata) \in Lines /\ Metadata \in Lines
        /\ l.trimmed \in BOOLEAN
    BY DEF Old, New, Lines
  <2>2. PICK h \in Seq(Lines), k \in Seq(Lines) :
          /\ h = <<Old(p, l.metadata), New(p, l.metadata)>>
          /\ k = IF l.metadata THEN <<Metadata>> ELSE << >>
    <3>1. <<Old(p, l.metadata), New(p, l.metadata)>> \in Seq(Lines) /\ <<Metadata>> \in Seq(Lines)
      BY <2>1
    <3> QED
      BY <3>1, EmptySeq
  <2>3. PICK r \in Seq(Lines) : r = Rendered(t, l.trimmed)
    <3>1. Rendered(t, l.trimmed) \in Seq(ShownLines(Texts))
      BY <2>1, RenderedType
    <3> QED
      BY <3>1, ShownAreLines, SeqMonotonic
  <2>4. k \o h \o r \in Seq(Lines)
    BY ConcatProperties
  <2> QED
    BY <2>2, <2>3, <2>4, Zenon DEF FileDiff
<1>2. /\ FileDiff("f", s, l) \in Seq(Lines) /\ FileDiff("g", Other, l) \in Seq(Lines)
  BY <1>1, PathNamesAre, ScriptsAreSequences, OtherIsScript
<1> QED
  BY <1>2, ConcatProperties DEF RawDiff

\* What the engine writes has the canonical form of its plainest writing.
LEMMA LayoutDoesNotMatter ==
  ASSUME NEW s \in Scripts, NEW l \in Untrimmed
  PROVE  CanonicalDiff(RawDiff(s, l)) = CanonicalDiff(RawDiff(s, Plain))
<1> DEFINE F(q) == LinesIn(q, Part("f", s, FALSE))
           O(q) == LinesIn(q, Part("g", Other, FALSE))
           V(q) == IF q = "g" THEN O(q) ELSE F(q)
<1>0. /\ "f" \in PathNames /\ "g" \in PathNames /\ {"x", "y"} \subseteq Texts
      /\ s \in Seq(ScriptLines(Texts)) /\ Other \in Seq(ScriptLines(Texts))
  BY PathNamesAre, ScriptsAreSequences, OtherIsScript, DiffsAssumption
<1>1. l \in Untrimmed /\ Plain \in Untrimmed
  BY DEF Plain, Untrimmed
<1>2. ASSUME NEW k \in Untrimmed, NEW q \in PathNames
      PROVE  LinesIn(q, RawDiff(s, k)) = V(q)
  <2>2. /\ LinesIn(q, FileDiff("f", s, k) \o FileDiff("g", Other, k)) = F(q) \o O(q)
        /\ LinesIn(q, FileDiff("g", Other, k) \o FileDiff("f", s, k)) = O(q) \o F(q)
    <3>1. /\ SaidTogether(q, k, "f", s, "g", Other)
          /\ SaidTogether(q, k, "g", Other, "f", s)
      BY <1>0, TwoFiles
    <3> QED
      BY <3>1, Zenon DEF SaidTogether
  <2>3. F(q) \in Seq(Lines) /\ O(q) \in Seq(Lines)
    <3>1. Part("f", s, FALSE) \in Seq(Lines) /\ Part("g", Other, FALSE) \in Seq(Lines)
      BY <1>0, PartFacts
    <3>2. \A d \in Seq(Lines) : LinesIn(q, d) \in Seq(Lines)
      BY SplitFromStart, LinesOfFacts DEF LinesIn
    <3> QED
      BY <3>1, <3>2
  <2>4. /\ q # "g" => O(q) = << >>
        /\ q = "g" => F(q) = << >>
    BY <1>0, PartsAreApart
  <2> HIDE DEF F, O
  <2>5. /\ F(q) \o << >> = F(q) /\ << >> \o F(q) = F(q)
        /\ O(q) \o << >> = O(q) /\ << >> \o O(q) = O(q)
    BY <2>3, ConcatEmptySeq
  <2>6. F(q) \o O(q) = V(q) /\ O(q) \o F(q) = V(q)
    BY <2>4, <2>5, Zenon
  <2> QED
    BY <2>2, <2>6, Zenon DEF RawDiff
<1>3. ASSUME NEW k \in Untrimmed
      PROVE  CanonicalDiff(RawDiff(s, k)) = (((V("") \o V("f")) \o V("g")) \o V("i")) \o V("p")
  <2>1. /\ "" \in PathNames /\ "f" \in PathNames /\ "g" \in PathNames
        /\ "i" \in PathNames /\ "p" \in PathNames
    BY PathNamesAre
  <2>2. RawDiff(s, k) \in Seq(Lines)
    BY RawDiffType DEF Untrimmed
  <2>3. CanonicalDiff(RawDiff(s, k)) = Canon(SplitFileSections(RawDiff(s, k)))
    BY <2>2, FiveLines
  <2> HIDE DEF V
  <2>4. /\ LinesIn("", RawDiff(s, k)) = V("") /\ LinesIn("f", RawDiff(s, k)) = V("f")
        /\ LinesIn("g", RawDiff(s, k)) = V("g") /\ LinesIn("i", RawDiff(s, k)) = V("i")
        /\ LinesIn("p", RawDiff(s, k)) = V("p")
    BY <1>2, <2>1
  <2> QED
    BY <2>3, <2>4, Zenon DEF Canon, LinesIn
<1> QED
  BY <1>1, <1>3, Zenon

\* The diff that is stored is one that the engine wrote, or its canonical form.
StoredAsWritten ==
  /\ script \in Scripts /\ layout \in Layouts
  /\ stage = "stored" => diff \in {RawDiff(script, layout), CanonicalDiff(RawDiff(script, layout))}

\* What is stored was written by the engine.
LEMMA StoredIsWritten == Spec => []StoredAsWritten
<1>1. Init => StoredAsWritten
  BY DEF Init, StoredAsWritten
<1>2. StoredAsWritten /\ [Next]_vars => StoredAsWritten'
  <2> SUFFICES ASSUME StoredAsWritten, [Next]_vars PROVE StoredAsWritten'
    OBVIOUS
  <2>1. CASE Receive
    BY <2>1 DEF StoredAsWritten, Receive
  <2>2. CASE Validate
    <3>1. stage' # "stored"
      BY <2>2 DEF Validate, Verdict
    <3> QED
      BY <2>2, <3>1 DEF StoredAsWritten, Validate
  <2>3. CASE Commit
    <3>1. stage' # "stored"
      BY <2>3 DEF Commit
    <3> QED
      BY <2>3, <3>1 DEF StoredAsWritten, Commit
  <2>4. CASE UNCHANGED vars
    BY <2>4 DEF StoredAsWritten, vars
  <2> QED
    BY <2>1, <2>2, <2>3, <2>4 DEF Next
<1> QED
  BY <1>1, <1>2, PTL DEF Spec

\* The hash a person confirms is one of the change: whichever file comes first,
\* with stamps and metadata or without, stripped by the adapter or not, what the
\* engine writes has one canonical form, as long as it keeps the blanks at the
\* ends of lines (diffhash.py:76).
THEOREM HashIsOfTheChange ==
  ASSUME "trims" \notin Habits
  PROVE  Spec => []HashIgnoresLayout
<1>1. StoredAsWritten => HashIgnoresLayout
  <2> SUFFICES ASSUME StoredAsWritten, stage = "stored"
               PROVE  CanonicalDiff(diff) = CanonicalDiff(RawDiff(script, Plain))
    BY DEF HashIgnoresLayout
  <2> DEFINE raw == RawDiff(script, layout)
             plain == RawDiff(script, Plain)
  <2>1. /\ script \in Scripts
        /\ layout \in Untrimmed
        /\ Plain \in [otherFirst : BOOLEAN, metadata : BOOLEAN, trimmed : BOOLEAN]
    BY DEF StoredAsWritten, Layouts, Plain, Untrimmed
  <2>2. CanonicalDiff(raw) = CanonicalDiff(plain)
    BY <2>1, LayoutDoesNotMatter
  <2>3. plain \in Seq(Lines) /\ Begins(plain)
    <3>1. plain \in Seq(Lines)
      BY <2>1, RawDiffType
    <3>2. /\ "f" \in PathNames /\ "g" \in PathNames
          /\ script \in Seq(ScriptLines(Texts)) /\ Other \in Seq(ScriptLines(Texts))
      BY <2>1, PathNamesAre, ScriptsAreSequences, OtherIsScript
    <3>3. PICK a \in Seq(Lines), b \in Seq(Lines) :
            a = Part("f", script, FALSE) /\ b = Part("g", Other, FALSE) /\ Begins(a) /\ Begins(b)
      BY <3>2, PartFacts
    <3>4. ASSUME NEW p \in PathNames, NEW s \in Seq(ScriptLines(Texts))
          PROVE  FileDiff(p, s, Plain) = Part(p, s, FALSE)
      <4>1. Old(p, FALSE) \in Lines /\ New(p, FALSE) \in Lines
        <5>1. \A x \in BOOLEAN : Old(p, x) \in Lines /\ New(p, x) \in Lines
          BY DEF Old, New, Lines
        <5>2. FALSE \in BOOLEAN
          OBVIOUS
        <5> QED
          BY <5>1, <5>2, Zenon
      <4>2. <<Old(p, FALSE), New(p, FALSE)>> \in Seq(Lines)
        <5>1. \A x, y \in Lines : <<x, y>> \in Seq(Lines)
          OBVIOUS
        <5> QED
          BY <4>1, <5>1, Zenon
      <4>3. << >> \o <<Old(p, FALSE), New(p, FALSE)>> = <<Old(p, FALSE), New(p, FALSE)>>
        BY <4>2, ConcatEmptySeq
      <4>4. Plain.metadata = FALSE /\ Plain.trimmed = FALSE
        BY DEF Plain
      <4>5. FileDiff(p, s, Plain)
              = << >> \o <<Old(p, FALSE), New(p, FALSE)>> \o Rendered(s, FALSE)
        BY <4>4, Zenon DEF FileDiff
      <4> QED
        BY <4>3, <4>5, Zenon DEF Part
    <3>5. RawDiff(script, Plain) = FileDiff("f", script, Plain) \o FileDiff("g", Other, Plain)
      BY DEF RawDiff, Plain
    <3>6. plain = a \o b
      BY <3>2, <3>3, <3>4, <3>5, Zenon
    <3>7. Begins(a \o b)
      BY <3>3, BeginsConcat
    <3> QED
      BY <3>1, <3>6, <3>7, Zenon
  <2>4. CanonicalDiff(CanonicalDiff(plain)) = CanonicalDiff(plain)
    BY <2>3, CanonicalFormIsFinal
  <2>5. diff = raw \/ diff = CanonicalDiff(raw)
    BY DEF StoredAsWritten
  <2> HIDE DEF raw, plain
  <2>6. CanonicalDiff(diff) = CanonicalDiff(plain)
    BY <2>2, <2>4, <2>5, Zenon
  <2> QED
    BY <2>6 DEF plain
<1> QED
  BY <1>1, StoredIsWritten, PTL
=============================================================================
