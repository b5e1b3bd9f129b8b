--------------------- MODULE SocketCommandSession_proofs ---------------------
(***************************************************************************)
(* What a call of Feed does, whatever bytes it is given: proofs about the  *)
(* operators of SocketCommandSession.                                      *)
(*                                                                         *)
(* A loop of the code is a recursive function on its turns.  That there is *)
(* one, and what holds after each of its turns, follows by induction,      *)
(* stated for sets of numbers so that it can be cited.                     *)
(***************************************************************************)
EXTENDS SocketCommandSession, SequenceTheorems, FiniteSetTheorems, TLAPS

-----------------------------------------------------------------------------
(* Induction.                                                              *)

(* What holds for nothing, and for one more, holds for every number.       *)
LEMMA SetInduction ==
  ASSUME NEW A \in SUBSET Nat, 0 \in A, \A n \in A : n + 1 \in A
  PROVE  A = Nat
<1> SUFFICES ASSUME NEW N \in Nat, N \notin A PROVE FALSE
  OBVIOUS
<1> DEFINE B == A \cap (0..N)
           C == B \ {0}
<1>1. \A n \in B : n =< N - 1
  OBVIOUS
<1>2. IsFiniteSet(B)
  <2>1. B \in SUBSET Nat /\ \A n \in B : n =< N
    OBVIOUS
  <2> HIDE DEF B
  <2> QED
    BY <2>1, FS_BoundedSetOfNaturals
<1>3. 0 \in B
  BY <1>1
<1>4. \A n \in B : n + 1 \in C
  BY <1>1
<1> DEFINE next == [n \in B |-> n + 1]
<1>5. next \in [B -> C]
  BY <1>4
<1>6. \A x, y \in B : next[x] = next[y] => x = y
  OBVIOUS
<1>7. IsFiniteSet(C) /\ Cardinality(C) = Cardinality(B) - 1
  BY <1>2, <1>3, FS_RemoveElement
<1>8. Cardinality(B) \in Nat /\ Cardinality(C) \in Nat
  BY <1>2, <1>7, FS_CardinalityType
<1> HIDE DEF B, C, next
<1> QED
  BY <1>2, <1>5, <1>6, <1>7, <1>8, FS_PigeonHole

(* There is a least number in a set of them, and a greatest if it has a    *)
(* bound.                                                                  *)
LEMMA Extremes ==
  ASSUME NEW S \in SUBSET Nat, S # {}
  PROVE  /\ Min(S) \in S /\ \A x \in S : Min(S) =< x
         /\ \A N \in Nat : (\A x \in S : x =< N) => Max(S) \in S /\ \A x \in S : x =< Max(S)
<1>1. \E m \in S : \A x \in S : m =< x
  <2> SUFFICES ASSUME \A m \in S : \E x \in S : x < m PROVE FALSE
    OBVIOUS
  <2> DEFINE A == {n \in Nat : \A x \in S : x > n}
  <2>1. 0 \in A
    BY SMT
  <2>2. \A n \in A : n + 1 \in A
    <3> SUFFICES ASSUME NEW n \in A, NEW x \in S, ~(x > n + 1) PROVE FALSE
      OBVIOUS
    <3>1. x = n + 1
      OBVIOUS
    <3>2. PICK y \in S : y < x
      OBVIOUS
    <3> QED
      BY <3>1, <3>2
  <2>3. A \in SUBSET Nat
    OBVIOUS
  <2>4. A = Nat
    <3> HIDE DEF A
    <3> QED
      BY <2>1, <2>2, <2>3, SetInduction
  <2>5. PICK y \in S : TRUE
    OBVIOUS
  <2>6. y \in A
    BY <2>4, <2>5
  <2> QED
    BY <2>5, <2>6
<1>2. ASSUME NEW N \in Nat, \A x \in S : x =< N
      PROVE  \E m \in S : \A x \in S : x =< m
  <2> SUFFICES ASSUME \A m \in S : \E x \in S : x > m PROVE FALSE
    OBVIOUS
  <2> DEFINE A == {n \in Nat : \E x \in S : x >= n}
  <2>0. PICK z \in S : TRUE
    OBVIOUS
  <2>1. 0 \in A
    BY <2>0
  <2>2. \A n \in A : n + 1 \in A
    <3> SUFFICES ASSUME NEW n \in A PROVE \E x \in S : x >= n + 1
      OBVIOUS
    <3>1. PICK y \in S : y >= n
      OBVIOUS
    <3>2. PICK x \in S : x > y
      OBVIOUS
    <3> QED
      BY <3>1, <3>2
  <2>3. A \in SUBSET Nat
    OBVIOUS
  <2>4. A = Nat
    <3> HIDE DEF A
    <3> QED
      BY <2>1, <2>2, <2>3, SetInduction
  <2>5. N + 1 \in A
    <3> HIDE DEF A
    <3> QED
      BY <2>4
  <2> QED
    BY <2>5, <1>2
<1> QED
  BY <1>1, <1>2 DEF Min, Max

(* What holds before the first turn, and after each turn if it did before, *)
(* holds after all.                                                        *)
LEMMA TurnInduction ==
  ASSUME NEW N \in Nat, NEW P, 0 \in P, \A n \in 1..N : n - 1 \in P => n \in P
  PROVE  \A n \in 0..N : n \in P
<1> DEFINE A == {n \in Nat : n =< N => n \in P}
<1>1. A \in SUBSET Nat /\ 0 \in A
  OBVIOUS
<1>2. ASSUME NEW n \in A PROVE n + 1 \in A
  <2> SUFFICES ASSUME n + 1 =< N PROVE n + 1 \in P
    OBVIOUS
  <2>1. n \in P /\ n + 1 \in 1..N /\ (n + 1) - 1 = n
    OBVIOUS
  <2> QED
    BY <2>1
<1> HIDE DEF A
<1>3. A = Nat
  BY <1>1, <1>2, SetInduction
<1> QED
  BY <1>3 DEF A

\* g is the course of N turns on a member of X, each from where the last ended.
Course(g, N, X, x, turn) ==
  g \in [0..N -> X] /\ g[0] = x /\ \A n \in 1..N : g[n] = turn[n][g[n - 1]]

(* Turns have a course.                                                    *)
LEMMA Turns ==
  ASSUME NEW N \in Nat, NEW X, NEW x \in X, NEW turn \in [1..N -> [X -> X]]
  PROVE  \E g : Course(g, N, X, x, turn)
<1> DEFINE Run(g, m) == g[0] = x /\ \A n \in 1..m : g[n] = turn[n][g[n - 1]]
           P == {m \in 0..N : \E g \in [0..m -> X] : Run(g, m)}
<1>1. 0 \in P
  <2> DEFINE none == [n \in 0..0 |-> x]
  <2>1. none \in [0..0 -> X] /\ Run(none, 0)
    OBVIOUS
  <2> HIDE DEF none, Run
  <2> QED
    BY <2>1
<1>2. ASSUME NEW m \in 1..N, m - 1 \in P PROVE m \in P
  <2>1. PICK g \in [0..(m - 1) -> X] : Run(g, m - 1)
    BY <1>2
  <2>2. PICK y : y = turn[m][g[m - 1]]
    OBVIOUS
  <2>3. y \in X
    BY <2>1, <2>2
  <2> DEFINE h == [n \in 0..m |-> IF n = m THEN y ELSE g[n]]
  <2>4. h \in [0..m -> X]
    BY <2>1, <2>3
  <2>5. h[0] = x
    BY <2>1
  <2>6. ASSUME NEW n \in 1..m PROVE h[n] = turn[n][h[n - 1]]
    <3>1. CASE n = m
      BY <3>1, <2>1, <2>2
    <3>2. CASE n # m
      BY <3>2, <2>1
    <3> QED
      BY <3>1, <3>2
  <2> HIDE DEF h
  <2>7. Run(h, m)
    BY <2>5, <2>6
  <2> QED
    BY <2>4, <2>7, SMTT(30)
<1> HIDE DEF P
<1>3. \A m \in 0..N : m \in P
  <2>1. \A m \in 1..N : m - 1 \in P => m \in P
    BY <1>2
  <2> QED
    BY <1>1, <2>1, TurnInduction, Zenon
<1>4. N \in P
  BY <1>3
<1> QED
  BY <1>4 DEF P, Course

-----------------------------------------------------------------------------
(* Sequences.                                                              *)

(* A function on 1..N is a sequence of N.                                  *)
LEMMA AsSequence ==
  ASSUME NEW T, NEW N \in Nat, NEW q \in [1..N -> T]
  PROVE  q \in Seq(T) /\ Len(q) = N
OBVIOUS

(* What a flattening is: its parts, one after another.                     *)
LEMMA FlattenTurns ==
  ASSUME NEW seqs \in Seq(Seq(Nat)), seqs # <<>>
  PROVE  /\ Len(seqs) \in Nat \ {0}
         /\ \E flat \in [1..Len(seqs) -> Seq(Nat)] :
              /\ flat[1] = seqs[1]
              /\ \A i \in 2..Len(seqs) : flat[i] = flat[i - 1] \o seqs[i]
              /\ FlattenSeq(seqs) = flat[Len(seqs)]
<1> DEFINE N == Len(seqs)
           Parts(f) == f = [i \in 1..N |-> IF i = 1 THEN seqs[i] ELSE f[i - 1] \o seqs[i]]
           turn == [n \in 1..N |-> [b \in Seq(Nat) |-> b \o seqs[n]]]
<1>1. N \in Nat \ {0} /\ \A i \in 1..N : seqs[i] \in Seq(Nat)
  BY EmptySeq
<1>2. turn \in [1..N -> [Seq(Nat) -> Seq(Nat)]]
  BY <1>1
<1>3. <<>> \in Seq(Nat)
  OBVIOUS
<1>4. \A n \in 1..N, b \in Seq(Nat) : turn[n][b] = b \o seqs[n]
  OBVIOUS
<1> HIDE DEF turn
<1>5. PICK g \in [0..N -> Seq(Nat)] : g[0] = <<>> /\ \A n \in 1..N : g[n] = turn[n][g[n - 1]]
  <2>1. N \in Nat
    BY <1>1
  <2>2. \E g : Course(g, N, Seq(Nat), <<>>, turn)
    BY <2>1, <1>2, <1>3, Turns
  <2> QED
    BY <2>2 DEF Course
<1>6. ASSUME NEW n \in 1..N
      PROVE  n - 1 \in 0..N /\ g[n] = g[n - 1] \o seqs[n]
  <2>1. n - 1 \in 0..N
    BY <1>1
  <2>2. g[n - 1] \in Seq(Nat)
    BY <2>1
  <2> QED
    BY <2>1, <2>2, <1>4, <1>5, Zenon
<1> DEFINE h == [i \in 1..N |-> g[i]]
<1>7. \A i \in 1..N : h[i] = IF i = 1 THEN seqs[i] ELSE h[i - 1] \o seqs[i]
  <2> SUFFICES ASSUME NEW i \in 1..N PROVE h[i] = IF i = 1 THEN seqs[i] ELSE h[i - 1] \o seqs[i]
    OBVIOUS
  <2>1. CASE i = 1
    <3>1. <<>> \o seqs[i] = seqs[i]
      BY <1>1, ConcatEmptySeq
    <3>2. i - 1 = 0 /\ h[i] = g[i]
      BY <2>1
    <3> QED
      BY <3>1, <3>2, <2>1, <1>5, <1>6, Zenon
  <2>2. CASE i # 1
    <3>1. i - 1 \in 1..N
      BY <2>2, <1>1
    <3> QED
      BY <3>1, <2>2, <1>6, Zenon
  <2> QED
    BY <2>1, <2>2
<1>8. Parts(h)
  BY <1>7
<1> HIDE DEF h, Parts
<1>9. PICK flat : Parts(flat) /\ FlattenSeq(seqs) = flat[N]
  <2>1. FlattenSeq(seqs) = (CHOOSE f : Parts(f))[N]
    BY <1>1, Zenon DEF FlattenSeq, Parts
  <2>2. Parts(CHOOSE f : Parts(f))
    BY <1>8
  <2> QED
    BY <2>1, <2>2
<1>10. /\ DOMAIN flat = 1..N /\ flat = [i \in 1..N |-> flat[i]]
       /\ flat[1] = seqs[1] /\ \A i \in 2..N : flat[i] = flat[i - 1] \o seqs[i]
  <2>1. flat = [i \in 1..N |-> IF i = 1 THEN seqs[i] ELSE flat[i - 1] \o seqs[i]]
    BY <1>9 DEF Parts
  <2>2. DOMAIN flat = 1..N /\ flat = [i \in 1..N |-> flat[i]]
    BY <2>1, Zenon
  <2>3. 1 \in 1..N /\ \A i \in 2..N : i \in 1..N /\ i # 1
    BY <1>1
  <2>4. ASSUME NEW i \in 1..N
        PROVE  flat[i] = IF i = 1 THEN seqs[i] ELSE flat[i - 1] \o seqs[i]
    BY <2>1, Zenon
  <2> QED
    BY <2>2, <2>3, <2>4, Zenon
<1> DEFINE P == {i \in 0..N : i = 0 \/ flat[i] \in Seq(Nat)}
<1>11. 0 \in P
  OBVIOUS
<1>12. \A n \in 1..N : n - 1 \in P => n \in P
  <2> SUFFICES ASSUME NEW n \in 1..N, n - 1 \in P PROVE flat[n] \in Seq(Nat)
    OBVIOUS
  <2>1. CASE n = 1
    BY <2>1, <1>1, <1>10
  <2>2. CASE n # 1
    <3>1. n \in 2..N /\ flat[n - 1] \in Seq(Nat) /\ seqs[n] \in Seq(Nat)
      BY <2>2, <1>1
    <3>2. flat[n] = flat[n - 1] \o seqs[n]
      BY <3>1, <1>10
    <3> QED
      BY <3>1, <3>2
  <2> QED
    BY <2>1, <2>2
<1> HIDE DEF P
<1>13. \A n \in 0..N : n \in P
  BY <1>1, <1>11, <1>12, TurnInduction
<1>14. \A n \in 1..N : flat[n] \in Seq(Nat)
  BY <1>13 DEF P
<1>15. flat \in [1..N -> Seq(Nat)]
  BY <1>10, <1>14
<1> QED
  BY <1>1, <1>9, <1>10, <1>15

(* A flattening is a sequence of what its parts are sequences of.          *)
LEMMA FlattenType ==
  ASSUME NEW seqs \in Seq(Seq(Nat))
  PROVE  FlattenSeq(seqs) \in Seq(Nat)
<1>1. CASE seqs = <<>>
  <2>1. Len(seqs) = 0
    BY <1>1
  <2>2. FlattenSeq(seqs) = <<>>
    BY <1>1, <2>1, Zenon DEF FlattenSeq
  <2> QED
    BY <2>2
<1>2. CASE seqs # <<>>
  <2>1. PICK flat \in [1..Len(seqs) -> Seq(Nat)] : FlattenSeq(seqs) = flat[Len(seqs)]
    BY <1>2, FlattenTurns, Zenon
  <2>2. Len(seqs) \in Nat \ {0}
    BY <1>2, FlattenTurns, Zenon
  <2>3. Len(seqs) \in 1..Len(seqs)
    BY <2>2
  <2> QED
    BY <2>1, <2>3, Zenon
<1> QED
  BY <1>1, <1>2

(* Two parts are concatenated.                                             *)
LEMMA FlattenPair ==
  ASSUME NEW s \in Seq(Nat), NEW t \in Seq(Nat)
  PROVE  FlattenSeq(<<s, t>>) = s \o t
<1>1. <<s, t>> \in Seq(Seq(Nat)) /\ <<s, t>> # <<>> /\ Len(<<s, t>>) = 2
  OBVIOUS
<1>2. PICK flat \in [1..2 -> Seq(Nat)] :
         flat[1] = s /\ (\A i \in 2..2 : flat[i] = flat[i - 1] \o <<s, t>>[i])
         /\ FlattenSeq(<<s, t>>) = flat[2]
  BY <1>1, FlattenTurns
<1>3. flat[2] = flat[2 - 1] \o <<s, t>>[2] /\ 2 - 1 = 1 /\ <<s, t>>[2] = t
  <2>1. 2 \in 2..2 /\ 2 - 1 = 1 /\ <<s, t>>[2] = t
    OBVIOUS
  <2> QED
    BY <2>1, <1>2, Zenon
<1>4. flat[2 - 1] = s
  BY <1>2, <1>3, Zenon
<1> QED
  BY <1>2, <1>3, <1>4, Zenon

(* What is common to the pieces cut out of a sequence of bytes.            *)
LEMMA Pieces ==
  ASSUME NEW data \in Seq(Nat), NEW n \in Nat, n =< Len(data)
  PROVE  /\ SubSeq(data, 1, n) \in Seq(Nat) /\ Len(SubSeq(data, 1, n)) = n
         /\ SubSeq(data, n + 1, Len(data)) \in Seq(Nat)
         /\ Len(SubSeq(data, n + 1, Len(data))) = Len(data) - n
<1>1. Len(data) \in Nat /\ \A i \in 1..Len(data) : data[i] \in Nat
  OBVIOUS
<1>2. \A i \in 1..n : data[i] \in Nat
  BY <1>1
<1>3. \A i \in (n + 1)..Len(data) : data[i] \in Nat
  BY <1>1
<1>4. /\ SubSeq(data, 1, n) \in Seq(Nat)
      /\ Len(SubSeq(data, 1, n)) = IF 1 <= n THEN n - 1 + 1 ELSE 0
  BY <1>2, SubSeqProperties
<1>5. /\ SubSeq(data, n + 1, Len(data)) \in Seq(Nat)
      /\ Len(SubSeq(data, n + 1, Len(data))) =
           IF n + 1 <= Len(data) THEN Len(data) - (n + 1) + 1 ELSE 0
  BY <1>1, <1>3, SubSeqProperties
<1>6. Len(SubSeq(data, 1, n)) = n
  BY <1>4
<1>7. Len(SubSeq(data, n + 1, Len(data))) = Len(data) - n
  BY <1>1, <1>5
<1> QED
  BY <1>4, <1>5, <1>6, <1>7

-----------------------------------------------------------------------------
(* Decoding.                                                               *)

\* What comes of reading something from data.
Reads(T, data) ==
  {r \in [value : T, left : Seq(Nat)] : Len(r.left) =< Len(data)} \cup {NoRead}

(* A read leaves no more than there was, and nothing when it fails.        *)
LEMMA ReadsLeave ==
  ASSUME NEW T, NEW data \in Seq(Nat), NEW r \in Reads(T, data)
  PROVE  /\ r.left \in Seq(Nat) /\ Len(r.left) \in Nat /\ Len(r.left) =< Len(data)
         /\ r = NoRead => r.left = <<>>
         /\ r # NoRead => r.value \in T
<1>1. NoRead.left = <<>> /\ Len(<<>>) = 0 /\ <<>> \in Seq(Nat) /\ Len(data) \in Nat
  BY DEF NoRead
<1>2. CASE r = NoRead
  <2>1. r.left = <<>>
    BY <1>1, <1>2, Zenon
  <2>2. Len(r.left) = 0 /\ r.left \in Seq(Nat)
    BY <1>1, <2>1, Zenon
  <2>3. Len(r.left) \in Nat /\ Len(r.left) =< Len(data)
    BY <1>1, <2>2
  <2> QED
    BY <1>2, <2>1, <2>2, <2>3
<1>3. CASE r # NoRead
  BY <1>3 DEF Reads
<1> QED
  BY <1>2, <1>3

(* A byte read.                                                            *)
LEMMA ByteReads ==
  ASSUME NEW data \in Seq(Nat)
  PROVE  Byte[data] \in Reads(Nat, data) /\ (data = <<>> => Byte[data] = NoRead)
<1>1. Byte[data] = IF data = <<>> THEN NoRead ELSE [value |-> Head(data), left |-> Tail(data)]
  BY DEF Byte
<1>2. CASE data = <<>>
  BY <1>1, <1>2 DEF Reads
<1>3. CASE data # <<>>
  <2>1. /\ Head(data) \in Nat /\ Tail(data) \in Seq(Nat) /\ Len(Tail(data)) = Len(data) - 1
        /\ Len(data) \in Nat
    BY <1>3, HeadTailProperties
  <2>2. [value |-> Head(data), left |-> Tail(data)] \in
          {r \in [value : Nat, left : Seq(Nat)] : Len(r.left) =< Len(data)}
    BY <2>1
  <2> QED
    BY <1>1, <1>3, <2>2 DEF Reads
<1> QED
  BY <1>2, <1>3

(* A byte read is the first, and leaves those that follow.                 *)
LEMMA ByteTaken ==
  ASSUME NEW n \in Nat, NEW data \in Seq(Nat), Len(data) = n + 1, NEW r, r = Byte[data]
  PROVE  /\ r.value = data[1] /\ r.left \in Seq(Nat) /\ Len(r.left) = n
         /\ \A i \in 1..n : r.left[i] = data[i + 1]
<1>1. data # <<>>
  OBVIOUS
<1>2. Byte[data] = [value |-> Head(data), left |-> Tail(data)]
  BY <1>1 DEF Byte
<1>3. /\ Tail(data) \in Seq(Nat) /\ Len(Tail(data)) = Len(data) - 1
      /\ \A i \in 1..Len(Tail(data)) : Tail(data)[i] = data[i + 1]
  BY <1>1, HeadTailProperties
<1>4. Head(data) = data[1]
  BY <1>1
<1> QED
  BY <1>2, <1>3, <1>4

(* A string read, itself no longer than what it was read from.             *)
LEMMA StringReads ==
  ASSUME NEW data \in Seq(Nat)
  PROVE  /\ ReadString[data] \in Reads({s \in Seq(Nat) : Len(s) =< Len(data)}, data)
         /\ data = <<>> => ReadString[data] = NoRead
<1> DEFINE T == {s \in Seq(Nat) : Len(s) =< Len(data)}
           n == Head(data)
           r == [value |-> SubSeq(data, 2, n + 1), left |-> SubSeq(data, n + 2, Len(data))]
<1>1. ReadString[data] =
        IF data = <<>> THEN NoRead ELSE IF Head(data) > Len(data) - 1 THEN NoRead ELSE r
  BY DEF ReadString
<1>2. CASE data = <<>> \/ Head(data) > Len(data) - 1
  BY <1>1, <1>2 DEF Reads
<1>3. CASE data # <<>> /\ ~(Head(data) > Len(data) - 1)
  <2>1. n \in Nat /\ Len(data) \in Nat /\ n + 1 =< Len(data)
    BY <1>3, HeadTailProperties
  <2>2. /\ \A i \in 2..(n + 1) : data[i] \in Nat
        /\ \A i \in (n + 2)..Len(data) : data[i] \in Nat
    <3> HIDE DEF n
    <3>1. \A i \in 1..Len(data) : data[i] \in Nat
      OBVIOUS
    <3>2. \A i \in 2..(n + 1) : i \in 1..Len(data)
      BY <2>1
    <3>3. \A i \in (n + 2)..Len(data) : i \in 1..Len(data)
      BY <2>1
    <3> QED
      BY <3>1, <3>2, <3>3
  <2>3. /\ SubSeq(data, 2, n + 1) \in Seq(Nat)
        /\ Len(SubSeq(data, 2, n + 1)) = IF 2 <= n + 1 THEN n + 1 - 2 + 1 ELSE 0
    BY <2>1, <2>2, SubSeqProperties
  <2>4. /\ SubSeq(data, n + 2, Len(data)) \in Seq(Nat)
        /\ Len(SubSeq(data, n + 2, Len(data))) =
             IF n + 2 <= Len(data) THEN Len(data) - (n + 2) + 1 ELSE 0
    BY <2>1, <2>2, SubSeqProperties
  <2> HIDE DEF n
  <2>5. SubSeq(data, 2, n + 1) \in T
    BY <2>1, <2>3
  <2>6. Len(SubSeq(data, n + 2, Len(data))) =< Len(data)
    BY <2>1, <2>4
  <2> HIDE DEF T
  <2>7. r \in Reads(T, data)
    BY <2>4, <2>5, <2>6 DEF Reads
  <2> QED
    BY <1>1, <1>3, <2>7 DEF n, T
<1> QED
  BY <1>2, <1>3

(* One more string of a list.                                              *)
LEMMA NextReads ==
  ASSUME NEW data \in Seq(Nat), NEW list \in Reads(Seq(Seq(Nat)), data)
  PROVE  /\ ReadNext(list) \in Reads(Seq(Seq(Nat)), data)
         /\ list = NoRead => ReadNext(list) = NoRead
<1>1. PICK item : item = ReadString[list.left]
  OBVIOUS
<1>2. /\ list.left \in Seq(Nat) /\ Len(list.left) \in Nat /\ Len(list.left) =< Len(data)
      /\ list = NoRead => list.left = <<>>
      /\ list # NoRead => list.value \in Seq(Seq(Nat))
  BY ReadsLeave
<1>3. /\ item \in Reads({s \in Seq(Nat) : Len(s) =< Len(list.left)}, list.left)
      /\ list.left = <<>> => item = NoRead
  BY <1>1, <1>2, StringReads, Zenon
<1>4. ReadNext(list) = IF item = NoRead THEN NoRead
                       ELSE [value |-> Append(list.value, item.value), left |-> item.left]
  BY <1>1, Zenon DEF ReadNext
<1>5. CASE item = NoRead
  BY <1>4, <1>5 DEF Reads
<1>6. CASE item # NoRead
  <2>1. list # NoRead
    BY <1>2, <1>3, <1>6, Zenon
  <2>2. list.value \in Seq(Seq(Nat))
    BY <1>2, <2>1, Zenon
  <2>3. /\ item.value \in {s \in Seq(Nat) : Len(s) =< Len(list.left)}
        /\ item.left \in Seq(Nat) /\ Len(item.left) \in Nat /\ Len(item.left) =< Len(list.left)
    BY <1>2, <1>3, <1>6, ReadsLeave, Zenon
  <2>4. Append(list.value, item.value) \in Seq(Seq(Nat))
    BY <2>2, <2>3, AppendProperties
  <2>5. Len(item.left) =< Len(data)
    BY <1>2, <2>3
  <2> QED
    BY <1>4, <1>6, <2>1, <2>3, <2>4, <2>5 DEF Reads
<1> QED
  BY <1>5, <1>6

(* What reading strings is: a string after another.                        *)
LEMMA StringsTurns ==
  ASSUME NEW N \in Nat, NEW data \in Seq(Nat)
  PROVE  \E list \in [0..N -> Reads(Seq(Seq(Nat)), data)] :
           /\ list[0] = [value |-> <<>>, left |-> data]
           /\ \A i \in 1..N : list[i] = ReadNext(list[i - 1])
           /\ ReadStrings(N, data) = list[N]
<1> DEFINE X == Reads(Seq(Seq(Nat)), data)
           first == [value |-> <<>>, left |-> data]
           Lists(f) == f = [i \in 0..N |-> IF i = 0 THEN first ELSE ReadNext(f[i - 1])]
           turn == [i \in 1..N |-> [l \in X |-> ReadNext(l)]]
<1>1. first \in X
  <2>1. <<>> \in Seq(Seq(Nat)) /\ Len(data) \in Nat
    OBVIOUS
  <2> QED
    BY <2>1 DEF Reads
<1>2. \A l \in X : ReadNext(l) \in X
  BY NextReads
<1> HIDE DEF X, first
<1>3. turn \in [1..N -> [X -> X]] /\ \A i \in 1..N, l \in X : turn[i][l] = ReadNext(l)
  BY <1>2
<1> HIDE DEF turn
<1>4. PICK g : Course(g, N, X, first, turn)
  BY <1>1, <1>3, Turns
<1>5. /\ g \in [0..N -> X] /\ g[0] = first /\ \A i \in 1..N : g[i] = turn[i][g[i - 1]]
  BY <1>4 DEF Course
<1>6. ASSUME NEW i \in 0..N PROVE g[i] = IF i = 0 THEN first ELSE ReadNext(g[i - 1])
  <2>1. CASE i = 0
    BY <1>5, <2>1
  <2>2. CASE i # 0
    <3>1. i \in 1..N /\ i - 1 \in 0..N
      BY <2>2
    <3>2. g[i - 1] \in X
      BY <1>5, <3>1
    <3> QED
      BY <1>3, <1>5, <2>2, <3>1, <3>2, Zenon
  <2> QED
    BY <2>1, <2>2
<1>7. Lists(g)
  <2>1. g = [i \in 0..N |-> g[i]]
    BY <1>5
  <2> QED
    BY <2>1, <1>6, Zenon
<1> HIDE DEF Lists
<1>8. PICK list : Lists(list) /\ ReadStrings(N, data) = list[N]
  <2>1. ReadStrings(N, data) = (CHOOSE f : Lists(f))[N]
    BY Zenon DEF ReadStrings, Lists, first
  <2>2. Lists(CHOOSE f : Lists(f))
    BY <1>7, Zenon
  <2> QED
    BY <2>1, <2>2
<1>9. /\ list = [i \in 0..N |-> list[i]]
      /\ \A i \in 0..N : list[i] = IF i = 0 THEN first ELSE ReadNext(list[i - 1])
  <2>1. list = [i \in 0..N |-> IF i = 0 THEN first ELSE ReadNext(list[i - 1])]
    BY <1>8 DEF Lists
  <2> QED
    BY <2>1, Zenon
<1>10. list[0] = first /\ \A i \in 1..N : list[i] = ReadNext(list[i - 1])
  <2>1. 0 \in 0..N /\ \A i \in 1..N : i \in 0..N /\ i # 0
    OBVIOUS
  <2> QED
    BY <1>9, <2>1, Zenon
<1> DEFINE P == {i \in 0..N : list[i] \in X}
<1>11. 0 \in P
  BY <1>1, <1>10
<1>12. \A n \in 1..N : n - 1 \in P => n \in P
  <2> SUFFICES ASSUME NEW n \in 1..N, n - 1 \in P PROVE n \in P
    OBVIOUS
  <2>1. n \in 0..N /\ list[n - 1] \in X
    OBVIOUS
  <2>2. list[n] = ReadNext(list[n - 1])
    BY <1>10
  <2> QED
    BY <2>1, <2>2, <1>2
<1> HIDE DEF P
<1>13. \A n \in 0..N : n \in P
  BY <1>11, <1>12, TurnInduction
<1>14. list \in [0..N -> X]
  BY <1>9, <1>13 DEF P
<1> QED
  BY <1>8, <1>10, <1>14 DEF X, first

(* So many strings read.                                                   *)
LEMMA StringsRead ==
  ASSUME NEW N \in Nat, NEW data \in Seq(Nat)
  PROVE  ReadStrings(N, data) \in Reads(Seq(Seq(Nat)), data)
<1>1. PICK list \in [0..N -> Reads(Seq(Seq(Nat)), data)] :
         /\ list[0] = [value |-> <<>>, left |-> data]
         /\ \A i \in 1..N : list[i] = ReadNext(list[i - 1])
         /\ ReadStrings(N, data) = list[N]
  BY StringsTurns
<1>2. N \in 0..N
  OBVIOUS
<1> QED
  BY <1>1, <1>2

(* A list read.                                                            *)
LEMMA ListReads ==
  ASSUME NEW strings \in Nat, NEW data \in Seq(Nat)
  PROVE  /\ ReadList(strings, data) \in Reads(Seq(Seq(Nat)), data)
         /\ data = <<>> => ReadList(strings, data) = NoRead
<1>1. PICK count : count = Byte[data]
  OBVIOUS
<1>2. count \in Reads(Nat, data) /\ (data = <<>> => count = NoRead)
  BY <1>1, ByteReads
<1>3. ReadList(strings, data) =
        IF count = NoRead THEN NoRead ELSE ReadStrings(strings * count.value, count.left)
  BY <1>1, Zenon DEF ReadList
<1>4. CASE count = NoRead
  BY <1>3, <1>4 DEF Reads
<1>5. CASE count # NoRead
  <2>1. /\ count.value \in Nat /\ count.left \in Seq(Nat) /\ Len(count.left) \in Nat
        /\ Len(count.left) =< Len(data)
    BY <1>2, <1>5, ReadsLeave
  <2>2. strings * count.value \in Nat
    BY <2>1
  <2>3. ReadList(strings, data) \in Reads(Seq(Seq(Nat)), count.left)
    BY <1>3, <1>5, <2>1, <2>2, StringsRead, Zenon
  <2>4. Len(data) \in Nat
    OBVIOUS
  <2>5. \A r \in [value : Seq(Seq(Nat)), left : Seq(Nat)] :
          Len(r.left) =< Len(count.left) => Len(r.left) =< Len(data)
    BY <2>1, <2>4
  <2>6. Reads(Seq(Seq(Nat)), count.left) \subseteq Reads(Seq(Seq(Nat)), data)
    BY <2>5, Zenon DEF Reads
  <2> QED
    BY <1>2, <1>5, <2>3, <2>6
<1> QED
  BY <1>4, <1>5

(* Strings as the values they are decoded to.                              *)
LEMMA TextType ==
  ASSUME NEW s \in Seq(Nat)
  PROVE  Text(s) \in [type : {"String"}, text : Seq(Nat)]
BY DEF Text, Value

(* The named arguments of a request.                                       *)
LEMMA EmplaceType ==
  ASSUME NEW strings \in Seq(Seq(Nat))
  PROVE  Emplace(strings) \subseteq [key : Seq(Nat), value : [type : {"String"}, text : Seq(Nat)]]
<1> SUFFICES ASSUME NEW i \in 1..(Len(strings) \div 2)
             PROVE  [key |-> strings[2 * i - 1], value |-> Text(strings[2 * i])] \in
                      [key : Seq(Nat), value : [type : {"String"}, text : Seq(Nat)]]
  BY Zenon DEF Emplace
<1>1. Len(strings) \in Nat
  OBVIOUS
<1>2. 2 * i - 1 \in 1..Len(strings) /\ 2 * i \in 1..Len(strings)
  BY <1>1
<1>3. strings[2 * i - 1] \in Seq(Nat) /\ strings[2 * i] \in Seq(Nat)
  BY <1>2, ElementOfSeq
<1>4. Text(strings[2 * i]) \in [type : {"String"}, text : Seq(Nat)]
  BY <1>3, TextType
<1> QED
  BY <1>3, <1>4, Zenon

(* What is decoded is the context of a request, whose raw text is no       *)
(* longer than the payload.                                                *)
LEMMA RequestDecoded ==
  ASSUME NEW payload \in Seq(Nat), DecodeRequest[payload] # Invalid
  PROVE  /\ DecodeRequest[payload] \in Context
         /\ Len(DecodeRequest[payload].raw) =< Len(payload)
<1>a1. PICK magic : magic = Byte[payload]
  OBVIOUS
<1>a2. PICK version : version = Byte[magic.left]
  OBVIOUS
<1>a3. PICK id : id = Byte[version.left]
  OBVIOUS
<1>a4. PICK path : path = ReadList(1, id.left)
  OBVIOUS
<1>a5. PICK positional : positional = ReadList(1, path.left)
  OBVIOUS
<1>a6. PICK named : named = ReadList(2, positional.left)
  OBVIOUS
<1>a7. PICK raw : raw = ReadString[named.left]
  OBVIOUS
<1> DEFINE found == [id |-> id.value, path |-> path.value,
                     positional |-> [i \in DOMAIN positional.value |-> Text(positional.value[i])],
                     named |-> Emplace(named.value), raw |-> raw.value]
           Texts == [type : {"String"}, text : Seq(Nat)]
<1>1. DecodeRequest[payload] =
        IF raw = NoRead THEN Invalid
        ELSE IF \/ magic.value # RequestMagic \/ version.value # Version
                \/ raw.left # <<>> \/ path.value = <<>>
        THEN Invalid ELSE found
  BY <1>a1, <1>a2, <1>a3, <1>a4, <1>a5, <1>a6, <1>a7, Zenon DEF DecodeRequest
<1>2. raw # NoRead /\ DecodeRequest[payload] = found
  BY <1>1, Zenon
<1>3. 1 \in Nat /\ 2 \in Nat /\ Len(payload) \in Nat
  OBVIOUS
<1>4. magic \in Reads(Nat, payload)
  BY <1>a1, ByteReads
<1>5. magic.left \in Seq(Nat) /\ Len(magic.left) \in Nat /\ Len(magic.left) =< Len(payload)
  BY <1>4, ReadsLeave
<1>6. version \in Reads(Nat, magic.left)
  BY <1>a2, <1>5, ByteReads
<1>7. version.left \in Seq(Nat) /\ Len(version.left) \in Nat /\ Len(version.left) =< Len(magic.left)
  BY <1>5, <1>6, ReadsLeave
<1>8. id \in Reads(Nat, version.left)
  BY <1>a3, <1>7, ByteReads
<1>9. /\ id.left \in Seq(Nat) /\ Len(id.left) \in Nat /\ Len(id.left) =< Len(version.left)
      /\ id = NoRead => id.left = <<>>
      /\ id # NoRead => id.value \in Nat
  BY <1>7, <1>8, ReadsLeave
<1>10. /\ path \in Reads(Seq(Seq(Nat)), id.left)
       /\ id.left = <<>> => path = NoRead
  BY <1>a4, <1>3, <1>9, ListReads
<1>11. /\ path.left \in Seq(Nat) /\ Len(path.left) \in Nat /\ Len(path.left) =< Len(id.left)
       /\ path = NoRead => path.left = <<>>
       /\ path # NoRead => path.value \in Seq(Seq(Nat))
  BY <1>9, <1>10, ReadsLeave
<1>12. /\ positional \in Reads(Seq(Seq(Nat)), path.left)
       /\ path.left = <<>> => positional = NoRead
  BY <1>a5, <1>3, <1>11, ListReads
<1>13. /\ positional.left \in Seq(Nat) /\ Len(positional.left) \in Nat
       /\ Len(positional.left) =< Len(path.left)
       /\ positional = NoRead => positional.left = <<>>
       /\ positional # NoRead => positional.value \in Seq(Seq(Nat))
  BY <1>11, <1>12, ReadsLeave
<1>14. /\ named \in Reads(Seq(Seq(Nat)), positional.left)
       /\ positional.left = <<>> => named = NoRead
  BY <1>a6, <1>3, <1>13, ListReads
<1>15. /\ named.left \in Seq(Nat) /\ Len(named.left) \in Nat
       /\ Len(named.left) =< Len(positional.left)
       /\ named = NoRead => named.left = <<>>
       /\ named # NoRead => named.value \in Seq(Seq(Nat))
  BY <1>13, <1>14, ReadsLeave
<1>16. /\ raw \in Reads({s \in Seq(Nat) : Len(s) =< Len(named.left)}, named.left)
       /\ named.left = <<>> => raw = NoRead
  BY <1>a7, <1>15, StringReads
<1>17. raw.value \in {s \in Seq(Nat) : Len(s) =< Len(named.left)}
  BY <1>2, <1>15, <1>16, ReadsLeave
<1>18. /\ named # NoRead /\ positional # NoRead /\ path # NoRead /\ id # NoRead
  BY <1>2, <1>9, <1>10, <1>11, <1>12, <1>13, <1>14, <1>15, <1>16, Zenon
<1>19. Len(raw.value) =< Len(payload)
  <2>1. raw.value \in Seq(Nat) /\ Len(raw.value) =< Len(named.left) /\ Len(raw.value) \in Nat
    BY <1>17
  <2>2. /\ Len(magic.left) =< Len(payload) /\ Len(version.left) =< Len(magic.left)
        /\ Len(id.left) =< Len(version.left) /\ Len(path.left) =< Len(id.left)
        /\ Len(positional.left) =< Len(path.left) /\ Len(named.left) =< Len(positional.left)
    BY <1>5, <1>7, <1>9, <1>11, <1>13, <1>15, Zenon
  <2>3. /\ Len(payload) \in Nat /\ Len(magic.left) \in Nat /\ Len(version.left) \in Nat
        /\ Len(id.left) \in Nat /\ Len(path.left) \in Nat /\ Len(positional.left) \in Nat
        /\ Len(named.left) \in Nat
    BY <1>3, <1>5, <1>7, <1>9, <1>11, <1>13, <1>15, Zenon
  <2>4. Len(named.left) =< Len(path.left)
    BY <2>2, <2>3
  <2>5. Len(path.left) =< Len(version.left)
    BY <2>2, <2>3
  <2>6. Len(version.left) =< Len(payload)
    BY <2>2, <2>3
  <2>7. Len(named.left) =< Len(version.left)
    BY <2>3, <2>4, <2>5
  <2>8. Len(named.left) =< Len(payload)
    BY <2>3, <2>6, <2>7
  <2> QED
    BY <2>1, <2>3, <2>8
<1>20. Emplace(named.value) \subseteq [key : Seq(Nat), value : Texts]
  BY <1>15, <1>18, EmplaceType
<1>21. [i \in DOMAIN positional.value |-> Text(positional.value[i])] \in Seq(Texts)
  <2>1. PICK n \in Nat : n = Len(positional.value) /\ DOMAIN positional.value = 1..n
    BY <1>13, <1>18, LenProperties
  <2>2. \A i \in 1..n : Text(positional.value[i]) \in Texts
    <3>1. \A i \in 1..n : positional.value[i] \in Seq(Nat)
      BY <1>13, <1>18, <2>1, ElementOfSeq
    <3> QED
      BY <3>1, TextType
  <2> HIDE DEF Texts
  <2>3. [i \in 1..n |-> Text(positional.value[i])] \in [1..n -> Texts]
    BY <2>2, Zenon
  <2>4. [i \in 1..n |-> Text(positional.value[i])] \in Seq(Texts)
    BY <2>3, SeqDef
  <2> QED
    BY <2>1, <2>4
<1>22. found \in Context
  BY <1>9, <1>11, <1>17, <1>18, <1>20, <1>21 DEF Context
<1>23. found.raw = raw.value
  BY Zenon
<1> QED
  BY <1>2, <1>19, <1>22, <1>23

(* Two sequences of bytes, joined.                                         *)
LEMMA Joined ==
  ASSUME NEW s \in Seq(Nat), NEW t \in Seq(Nat)
  PROVE  /\ s \o t \in Seq(Nat) /\ Len(s \o t) = Len(s) + Len(t)
         /\ \A i \in 1..(Len(s) + Len(t)) :
              (s \o t)[i] = IF i <= Len(s) THEN s[i] ELSE t[i - Len(s)]
BY ConcatProperties

(* A response whose message a field can hold is encoded, and decoded as    *)
(* what it was.                                                            *)
LEMMA ResponseDecoded ==
  ASSUME NEW id \in Nat, NEW result \in [success : BOOLEAN, code : Nat, message : Seq(Nat)],
         Len(result.message) =< Widest
  PROVE  /\ EncodeResponse(Response(id, result)) \in Seq(Nat)
         /\ EncodeResponse(Response(id, result)) # Invalid
         /\ DecodeResponse[EncodeResponse(Response(id, result))] = Response(id, result)
<1> DEFINE text == result.message
           n == Len(text)
<1>1. PICK r : r = Response(id, result)
  OBVIOUS
<1>2. /\ r.id = id /\ r.success = result.success /\ r.code = result.code /\ r.message = text
      /\ result.success \in BOOLEAN /\ result.code \in Nat /\ text \in Seq(Nat) /\ n \in Nat
  BY <1>1 DEF Response
<1>3. PICK flag : flag = IF r.success THEN 1 ELSE 0
  OBVIOUS
<1>4. flag \in Nat /\ flag =< 1 /\ (flag = 1) = r.success
  BY <1>2, <1>3
<1> DEFINE head == <<ResponseMagic, Version, id, flag, result.code>>
           body == <<n>> \o text
<1>5. head \in Seq(Nat) /\ Len(head) = 5
  BY <1>2, <1>4 DEF ResponseMagic, Version
<1>6. body \in Seq(Nat) /\ Len(body) = n + 1 /\ body[1] = n /\ \A i \in 1..n : body[i + 1] = text[i]
  <2>1. <<n>> \in Seq(Nat) /\ Len(<<n>>) = 1 /\ <<n>>[1] = n
    BY <1>2
  <2>2. /\ body \in Seq(Nat) /\ Len(body) = 1 + n
        /\ \A i \in 1..(1 + n) : body[i] = IF i <= 1 THEN <<n>>[i] ELSE text[i - 1]
    BY <1>2, <2>1, ConcatProperties
  <2>3. \A i \in 1..n : i + 1 \in 1..(1 + n) /\ ~(i + 1 <= 1) /\ (i + 1) - 1 = i
    BY <1>2
  <2> QED
    BY <1>2, <2>1, <2>2, <2>3
<1>7. AppendString(r.message) = body
  BY <1>2, ProtocolAssumption DEF AppendString
<1>8. EncodeResponse(r) = Join(<<head, body>>)
  BY <1>2, <1>3, <1>7, Zenon DEF EncodeResponse
<1> HIDE DEF head, body
<1>9. ToSet(<<head, body>>) = {head, body}
  BY DEF ToSet
<1>10. Invalid # head /\ Invalid # body
  BY <1>5, <1>6, ProtocolAssumption
<1>11. EncodeResponse(r) = head \o body
  BY <1>5, <1>6, <1>8, <1>9, <1>10, FlattenPair, Zenon DEF Join
<1>12. PICK data : data = head \o body
  OBVIOUS
<1>13. /\ data \in Seq(Nat) /\ Len(data) = n + 6
       /\ \A i \in 1..(n + 6) : data[i] = IF i <= 5 THEN head[i] ELSE body[i - 5]
  <2>1. 5 + (n + 1) = n + 6
    BY <1>2
  <2>2. /\ head \o body \in Seq(Nat) /\ Len(head \o body) = Len(head) + Len(body)
        /\ \A i \in 1..(Len(head) + Len(body)) :
             (head \o body)[i] = IF i <= Len(head) THEN head[i] ELSE body[i - Len(head)]
    BY <1>5, <1>6, Joined, Zenon
  <2>3. Len(head) + Len(body) = n + 6
    BY <1>5, <1>6, <2>1, Zenon
  <2> QED
    BY <1>5, <1>12, <2>2, <2>3, Zenon
<1>14. data # Invalid
  BY <1>13, ProtocolAssumption
<1>a. PICK magic : magic = Byte[data]
  OBVIOUS
<1>b. PICK version : version = Byte[magic.left]
  OBVIOUS
<1>c. PICK number : number = Byte[version.left]
  OBVIOUS
<1>d. PICK success : success = Byte[number.left]
  OBVIOUS
<1>e. PICK code : code = Byte[success.left]
  OBVIOUS
<1>f. PICK message : message = ReadString[code.left]
  OBVIOUS
<1>g. /\ magic.value = head[1] /\ magic.left \in Seq(Nat) /\ Len(magic.left) = n + 5
      /\ \A i \in 1..(n + 5) : magic.left[i] = data[i + 1]
  <2>1. n + 6 = (n + 5) + 1 /\ n + 5 \in Nat /\ 1 \in 1..(n + 6) /\ 1 <= 5
    BY <1>2, <1>13
  <2>2. /\ magic.value = data[1] /\ magic.left \in Seq(Nat) /\ Len(magic.left) = n + 5
        /\ \A i \in 1..(n + 5) : magic.left[i] = data[i + 1]
    <3>1. PICK m \in Nat : m = n + 5
      BY <2>1
    <3>2. data \in Seq(Nat) /\ Len(data) = m + 1
      BY <1>13, <2>1, <3>1, Zenon
    <3>3. /\ magic.value = data[1] /\ magic.left \in Seq(Nat) /\ Len(magic.left) = m
          /\ \A i \in 1..m : magic.left[i] = data[i + 1]
      BY <1>a, <3>2, ByteTaken, ZenonT(40)
    <3> QED
      BY <3>1, <3>3, Zenon
  <2> QED
    BY <1>13, <2>1, <2>2, Zenon
<1>h. /\ version.value = head[2] /\ version.left \in Seq(Nat) /\ Len(version.left) = n + 4
      /\ \A i \in 1..(n + 4) : version.left[i] = data[i + 2]
  <2>1. n + 5 = (n + 4) + 1 /\ n + 4 \in Nat
    BY <1>2, <1>g
  <2>2. /\ version.value = magic.left[1] /\ version.left \in Seq(Nat) /\ Len(version.left) = n + 4
        /\ \A i \in 1..(n + 4) : version.left[i] = magic.left[i + 1]
    BY <1>b, <1>g, <2>1, ByteTaken, ZenonT(40)
  <2>3. magic.left[1] = data[2] /\ data[2] = head[2]
    BY <1>2, <1>13, <1>g
  <2>4. \A i \in 1..(n + 4) : magic.left[i + 1] = data[i + 2]
    BY <1>2, <1>g
  <2> QED
    BY <2>2, <2>3, <2>4
<1>i. /\ number.value = head[3] /\ number.left \in Seq(Nat) /\ Len(number.left) = n + 3
      /\ \A i \in 1..(n + 3) : number.left[i] = data[i + 3]
  <2>1. n + 4 = (n + 3) + 1 /\ n + 3 \in Nat
    BY <1>2, <1>h
  <2>2. /\ number.value = version.left[1] /\ number.left \in Seq(Nat) /\ Len(number.left) = n + 3
        /\ \A i \in 1..(n + 3) : number.left[i] = version.left[i + 1]
    BY <1>c, <1>h, <2>1, ByteTaken, ZenonT(40)
  <2>3. version.left[1] = data[3] /\ data[3] = head[3]
    BY <1>2, <1>13, <1>h, SMTT(30)
  <2>4. \A i \in 1..(n + 3) : version.left[i + 1] = data[i + 3]
    BY <1>2, <1>h
  <2> QED
    BY <2>2, <2>3, <2>4
<1>j. /\ success.value = head[4] /\ success.left \in Seq(Nat) /\ Len(success.left) = n + 2
      /\ \A i \in 1..(n + 2) : success.left[i] = data[i + 4]
  <2>1. n + 3 = (n + 2) + 1 /\ n + 2 \in Nat
    BY <1>2, <1>i
  <2>2. /\ success.value = number.left[1] /\ success.left \in Seq(Nat) /\ Len(success.left) = n + 2
        /\ \A i \in 1..(n + 2) : success.left[i] = number.left[i + 1]
    BY <1>d, <1>i, <2>1, ByteTaken, ZenonT(40)
  <2>3. number.left[1] = data[4] /\ data[4] = head[4]
    BY <1>2, <1>13, <1>i, SMTT(30)
  <2>4. \A i \in 1..(n + 2) : number.left[i + 1] = data[i + 4]
    BY <1>2, <1>i
  <2> QED
    BY <2>2, <2>3, <2>4
<1>k. /\ code.value = head[5] /\ code.left \in Seq(Nat) /\ Len(code.left) = n + 1
      /\ \A i \in 1..(n + 1) : code.left[i] = body[i]
  <2>1. n + 2 = (n + 1) + 1 /\ n + 1 \in Nat
    BY <1>2, <1>j
  <2>2. /\ code.value = success.left[1] /\ code.left \in Seq(Nat) /\ Len(code.left) = n + 1
        /\ \A i \in 1..(n + 1) : code.left[i] = success.left[i + 1]
    BY <1>e, <1>j, <2>1, ByteTaken, ZenonT(40)
  <2>3. success.left[1] = data[5] /\ data[5] = head[5]
    BY <1>2, <1>13, <1>j
  <2>4. ASSUME NEW i \in 1..(n + 1) PROVE success.left[i + 1] = body[i]
    <3>1. i + 1 \in 1..(n + 2) /\ i + 5 \in 1..(n + 6) /\ ~(i + 5 <= 5) /\ (i + 5) - 5 = i
          /\ (i + 1) + 4 = i + 5
      BY <1>2
    <3> QED
      BY <1>13, <1>j, <3>1
  <2> QED
    BY <2>2, <2>3, <2>4
<1>l. message.value = text /\ message.left = <<>>
  <2>1. PICK left : left = code.left
    OBVIOUS
  <2>2. left \in Seq(Nat) /\ Len(left) = n + 1 /\ left[1] = n /\ \A i \in 1..n : left[i + 1] = text[i]
    <3>1. 1 \in 1..(n + 1) /\ \A i \in 1..n : i + 1 \in 1..(n + 1)
      BY <1>2
    <3> QED
      BY <1>6, <1>k, <2>1, <3>1
  <2>3. left # <<>> /\ Head(left) = n /\ ~(n > Len(left) - 1)
    BY <1>2, <2>2
  <2>4. message = [value |-> SubSeq(left, 2, n + 1), left |-> SubSeq(left, n + 2, Len(left))]
    BY <1>f, <2>1, <2>2, <2>3 DEF ReadString
  <2>5. SubSeq(left, n + 2, Len(left)) = <<>>
    BY <1>2, <2>2, SubSeqEmpty
  <2>6. \A i \in 2..(n + 1) : left[i] \in Nat
    BY <1>2, <2>2
  <2>7. /\ SubSeq(left, 2, n + 1) \in Seq(Nat)
        /\ Len(SubSeq(left, 2, n + 1)) = IF 2 <= n + 1 THEN n + 1 - 2 + 1 ELSE 0
        /\ \A i \in 1..(n + 1 - 2 + 1) : SubSeq(left, 2, n + 1)[i] = left[2 + i - 1]
    BY <1>2, <2>6, SubSeqProperties
  <2>8. Len(SubSeq(left, 2, n + 1)) = n
    BY <1>2, <2>7
  <2>9. ASSUME NEW i \in 1..n PROVE SubSeq(left, 2, n + 1)[i] = text[i]
    <3>1. i \in 1..(n + 1 - 2 + 1) /\ 2 + i - 1 = i + 1
      BY <1>2
    <3> QED
      BY <2>2, <2>7, <3>1
  <2>10. SubSeq(left, 2, n + 1) = text
    BY <1>2, <2>7, <2>8, <2>9, SeqEqual
  <2> QED
    BY <2>4, <2>5, <2>10
<1>m. message # NoRead
  BY <1>2, <1>l, ProtocolAssumption DEF NoRead
<1>n. head[1] = ResponseMagic /\ head[2] = Version /\ head[3] = id /\ head[4] = flag
      /\ head[5] = result.code
  BY DEF head
<1>o. ~(success.value > 1)
  BY <1>4, <1>j, <1>n
<1>p. DecodeResponse[data] =
        [id |-> number.value, success |-> success.value = 1, code |-> code.value,
         message |-> message.value]
  BY <1>a, <1>b, <1>c, <1>d, <1>e, <1>f, <1>g, <1>h, <1>l, <1>m, <1>n, <1>o, <1>13, Zenon
    DEF DecodeResponse
<1>15. DecodeResponse[data] = r
  <2>1. r = [id |-> id, success |-> result.success, code |-> result.code, message |-> text]
    BY <1>1, Zenon DEF Response
  <2>2. (success.value = 1) = result.success
    BY <1>2, <1>4, <1>j, <1>n, Zenon
  <2> QED
    BY <1>i, <1>k, <1>l, <1>n, <1>p, <2>1, <2>2, Zenon
<1> QED
  BY <1>1, <1>11, <1>12, <1>13, <1>14, <1>15

-----------------------------------------------------------------------------
(* Where sequences are in another.                                         *)

\* s is in data, after the first o bytes.
At(data, o, s) == o + Len(s) =< Len(data) /\ \A j \in 1..Len(s) : data[o + j] = s[j]

\* What follows the first o bytes.
From(data, o) == SubSeq(data, o + 1, Len(data))

Prefix(seqs, m) == [j \in 1..m |-> seqs[j]]

(* What follows is a sequence.                                             *)
LEMMA Following ==
  ASSUME NEW data \in Seq(Nat), NEW o \in 0..Len(data)
  PROVE  /\ From(data, o) \in Seq(Nat) /\ Len(From(data, o)) = Len(data) - o
         /\ \A i \in 1..(Len(data) - o) : From(data, o)[i] = data[o + i]
<1>1. Len(data) \in Nat /\ o \in Nat /\ o =< Len(data)
  OBVIOUS
<1>2. From(data, o) \in Seq(Nat) /\ Len(From(data, o)) = Len(data) - o
  BY <1>1, Pieces DEF From
<1>3. ASSUME NEW i \in 1..(Len(data) - o) PROVE From(data, o)[i] = data[o + i]
  <2>1. \A j \in (o + 1)..Len(data) : data[j] \in Nat
    BY <1>1
  <2> DEFINE m == o + 1
  <2>2. \A j \in 1..(Len(data) - m + 1) : SubSeq(data, m, Len(data))[j] = data[m + j - 1]
    <3>1. m \in Int /\ Len(data) \in Int /\ \A j \in m..Len(data) : data[j] \in Nat
      BY <1>1, <2>1
    <3> HIDE DEF m
    <3> QED
      BY <3>1, SubSeqProperties
  <2>3. i \in 1..(Len(data) - (o + 1) + 1) /\ o + 1 + i - 1 = o + i
    BY <1>1
  <2> QED
    BY <2>2, <2>3 DEF From
<1> QED
  BY <1>2, <1>3

(* Of two sequences in a row, the second follows the first.                *)
LEMMA AtBoth ==
  ASSUME NEW data \in Seq(Nat), NEW o \in Nat, NEW s \in Seq(Nat), NEW t \in Seq(Nat),
         At(data, o, s \o t)
  PROVE  At(data, o, s) /\ At(data, o + Len(s), t)
<1>1. /\ Len(s) \in Nat /\ Len(t) \in Nat /\ Len(data) \in Nat /\ Len(s \o t) = Len(s) + Len(t)
      /\ \A i \in 1..(Len(s) + Len(t)) : (s \o t)[i] = IF i <= Len(s) THEN s[i] ELSE t[i - Len(s)]
  BY Joined
<1>2. /\ o + (Len(s) + Len(t)) =< Len(data)
      /\ \A j \in 1..(Len(s) + Len(t)) : data[o + j] = (s \o t)[j]
  BY <1>1, Zenon DEF At
<1> DEFINE q == s \o t
<1> HIDE DEF q
<1>a. /\ \A i \in 1..(Len(s) + Len(t)) : q[i] = IF i <= Len(s) THEN s[i] ELSE t[i - Len(s)]
      /\ \A j \in 1..(Len(s) + Len(t)) : data[o + j] = q[j]
      /\ Len(s) \in Nat /\ Len(t) \in Nat
  BY <1>1, <1>2 DEF q
<1>3. ASSUME NEW j \in 1..Len(s) PROVE data[o + j] = s[j]
  <2>1. j \in 1..(Len(s) + Len(t)) /\ j =< Len(s)
    BY <1>a
  <2> QED
    BY <1>a, <2>1, Zenon
<1>4. ASSUME NEW j \in 1..Len(t) PROVE data[o + Len(s) + j] = t[j]
  <2>1. Len(s) + j \in 1..(Len(s) + Len(t)) /\ ~(Len(s) + j =< Len(s)) /\ Len(s) + j - Len(s) = j
        /\ o + (Len(s) + j) = o + Len(s) + j
    BY <1>a
  <2>2. data[o + (Len(s) + j)] = t[Len(s) + j - Len(s)]
    <3>1. data[o + (Len(s) + j)] = q[Len(s) + j]
      BY <1>a, <2>1, Zenon
    <3>2. \A i \in 1..(Len(s) + Len(t)) : ~(i =< Len(s)) => q[i] = t[i - Len(s)]
      BY <1>a, Zenon
    <3>3. q[Len(s) + j] = t[Len(s) + j - Len(s)]
      BY <2>1, <3>2
    <3> QED
      BY <3>1, <3>3, Zenon
  <2> QED
    BY <2>1, <2>2
<1> QED
  <2>1. o + Len(s) =< Len(data) /\ o + Len(s) + Len(t) =< Len(data)
    BY <1>1, <1>2
  <2> QED
    BY <2>1, <1>3, <1>4 DEF At

(* A sequence is in itself.                                                *)
LEMMA AtSelf ==
  ASSUME NEW data \in Seq(Nat)
  PROVE  At(data, 0, data)
BY DEF At

(* Flattened prefixes grow by a part.                                      *)
LEMMA FlattenPrefix ==
  ASSUME NEW seqs \in Seq(Seq(Nat)), NEW m \in 1..Len(seqs)
  PROVE  FlattenSeq(Prefix(seqs, m)) = FlattenSeq(Prefix(seqs, m - 1)) \o seqs[m]
<1>1. /\ m \in Nat /\ m - 1 \in Nat /\ seqs[m] \in Seq(Nat)
      /\ \A i \in 1..m : seqs[i] \in Seq(Nat)
  OBVIOUS
<1>2. /\ Prefix(seqs, m) \in Seq(Seq(Nat)) /\ Len(Prefix(seqs, m)) = m /\ Prefix(seqs, m) # <<>>
      /\ Prefix(seqs, m - 1) \in Seq(Seq(Nat)) /\ Len(Prefix(seqs, m - 1)) = m - 1
  <2>1. Prefix(seqs, m) \in [1..m -> Seq(Nat)]
    BY <1>1 DEF Prefix
  <2>2. Prefix(seqs, m - 1) \in [1..(m - 1) -> Seq(Nat)]
    BY <1>1 DEF Prefix
  <2>3. Prefix(seqs, m) \in Seq(Seq(Nat)) /\ Len(Prefix(seqs, m)) = m
    BY <1>1, <2>1, AsSequence
  <2>4. Prefix(seqs, m - 1) \in Seq(Seq(Nat)) /\ Len(Prefix(seqs, m - 1)) = m - 1
    BY <1>1, <2>2, AsSequence
  <2>5. Prefix(seqs, m) # <<>>
    BY <2>3
  <2> QED
    BY <2>3, <2>4, <2>5
<1> DEFINE q == Prefix(seqs, m)
           p == Prefix(seqs, m - 1)
<1>3. /\ \A i \in 1..m : q[i] = seqs[i]
      /\ \A i \in 1..(m - 1) : p[i] = seqs[i]
  BY DEF Prefix
<1>4. PICK g \in [1..m -> Seq(Nat)] :
        g[1] = q[1] /\ (\A i \in 2..m : g[i] = g[i - 1] \o q[i]) /\ FlattenSeq(q) = g[m]
  BY <1>2, FlattenTurns
<1>5. CASE m = 1
  <2>1. Len(p) = 0 /\ p = <<>>
    BY <1>2, <1>5
  <2>2. FlattenSeq(p) = <<>>
    BY <2>1, Zenon DEF FlattenSeq
  <2>3. FlattenSeq(q) = seqs[1]
    BY <1>3, <1>4, <1>5
  <2>4. <<>> \o seqs[1] = seqs[1]
    BY <1>1, <1>5, ConcatEmptySeq
  <2> QED
    BY <2>2, <2>3, <2>4, <1>5
<1>6. CASE m # 1
  <2>1. m - 1 \in Nat \ {0} /\ p # <<>> /\ m \in 2..m
    BY <1>1, <1>2, <1>6
  <2>2. PICK h \in [1..(m - 1) -> Seq(Nat)] :
          h[1] = p[1] /\ (\A i \in 2..(m - 1) : h[i] = h[i - 1] \o p[i]) /\ FlattenSeq(p) = h[m - 1]
    BY <1>2, <2>1, FlattenTurns
  <2> DEFINE P == {i \in 0..(m - 1) : i = 0 \/ g[i] = h[i]}
  <2>3. 0 \in P
    BY <1>1
  <2>4. ASSUME NEW i \in 1..(m - 1), i - 1 \in P PROVE i \in P
    <3>1. CASE i = 1
      BY <3>1, <1>3, <1>4, <2>2
    <3>2. CASE i # 1
      <4>1. i \in 2..(m - 1) /\ i \in 2..m /\ i \in 1..m /\ g[i - 1] = h[i - 1]
        BY <1>1, <2>4, <3>2
      <4>2. g[i] = g[i - 1] \o q[i] /\ h[i] = h[i - 1] \o p[i] /\ q[i] = p[i]
        BY <4>1, <1>3, <1>4, <2>2
      <4>3. g[i] = h[i]
        BY <4>1, <4>2, Zenon
      <4> QED
        BY <4>3
    <3> QED
      BY <3>1, <3>2
  <2>5. \A i \in 0..(m - 1) : i \in P
    <3> HIDE DEF P
    <3> QED
      BY <1>1, <2>3, <2>4, TurnInduction
  <2>6. m - 1 \in 0..(m - 1) /\ m - 1 # 0
    BY <2>1
  <2>7. g[m - 1] = h[m - 1]
    BY <2>5, <2>6
  <2>8. g[m] = g[m - 1] \o q[m] /\ q[m] = seqs[m]
    <3>1. m \in 1..m
      BY <1>1
    <3> QED
      BY <3>1, <1>3, <1>4, <2>1, Zenon
  <2> QED
    BY <1>4, <2>2, <2>7, <2>8, Zenon
<1> QED
  BY <1>5, <1>6

(* What of a sequence of parts there is up to each, and where each is.     *)
LEMMA Flattened ==
  ASSUME NEW seqs \in Seq(Seq(Nat)), NEW flat, flat = [m \in 0..Len(seqs) |-> FlattenSeq(Prefix(seqs, m))]
  PROVE  /\ flat \in [0..Len(seqs) -> Seq(Nat)]
         /\ flat[0] = <<>>
         /\ \A m \in 1..Len(seqs) : flat[m] = flat[m - 1] \o seqs[m]
         /\ flat[Len(seqs)] = FlattenSeq(seqs)
<1>1. Len(seqs) \in Nat /\ \A i \in 1..Len(seqs) : seqs[i] \in Seq(Nat)
  OBVIOUS
<1>2. ASSUME NEW m \in 0..Len(seqs) PROVE FlattenSeq(Prefix(seqs, m)) \in Seq(Nat)
  <2>1. Prefix(seqs, m) \in Seq(Seq(Nat))
    BY <1>1 DEF Prefix
  <2> QED
    BY <2>1, FlattenType
<1>3. flat[0] = <<>>
  <2>1. Prefix(seqs, 0) = <<>> /\ Len(Prefix(seqs, 0)) = 0
    BY DEF Prefix
  <2>2. FlattenSeq(Prefix(seqs, 0)) = <<>>
    BY <2>1, Zenon DEF FlattenSeq
  <2> QED
    BY <1>1, <2>2
<1>4. ASSUME NEW m \in 1..Len(seqs) PROVE flat[m] = flat[m - 1] \o seqs[m]
  <2>1. m \in 0..Len(seqs) /\ m - 1 \in 0..Len(seqs)
    BY <1>1
  <2> QED
    BY <2>1, FlattenPrefix
<1>5. flat[Len(seqs)] = FlattenSeq(seqs)
  <2>1. Prefix(seqs, Len(seqs)) = seqs
    BY <1>1 DEF Prefix
  <2>2. Len(seqs) \in 0..Len(seqs)
    BY <1>1
  <2> QED
    BY <2>1, <2>2
<1> QED
  BY <1>2, <1>3, <1>4, <1>5

(* The parts of a flattening follow one another, wherever it is.           *)
LEMMA AtParts ==
  ASSUME NEW data \in Seq(Nat), NEW o \in Nat, NEW seqs \in Seq(Seq(Nat)),
         At(data, o, FlattenSeq(seqs))
  PROVE  \E off \in [0..Len(seqs) -> Nat] :
           /\ off[0] = o
           /\ \A m \in 1..Len(seqs) :
                off[m] = off[m - 1] + Len(seqs[m]) /\ At(data, off[m - 1], seqs[m])
           /\ off[Len(seqs)] = o + Len(FlattenSeq(seqs))
<1> DEFINE N == Len(seqs)
<1>1. PICK flat \in [0..N -> Seq(Nat)] :
        /\ flat[0] = <<>> /\ flat[N] = FlattenSeq(seqs)
        /\ \A m \in 1..N : flat[m] = flat[m - 1] \o seqs[m]
  BY Flattened
<1>2. N \in Nat /\ \A m \in 1..N : seqs[m] \in Seq(Nat)
  OBVIOUS
<1>3. ASSUME NEW m \in 1..N
      PROVE  /\ m - 1 \in 0..N /\ m \in 0..N /\ flat[m - 1] \in Seq(Nat) /\ seqs[m] \in Seq(Nat)
             /\ flat[m] = flat[m - 1] \o seqs[m]
             /\ Len(flat[m]) = Len(flat[m - 1]) + Len(seqs[m])
             /\ Len(flat[m - 1]) \in Nat /\ Len(seqs[m]) \in Nat
  <2>1. m - 1 \in 0..N /\ m \in 0..N
    BY <1>2
  <2>2. flat[m - 1] \in Seq(Nat) /\ seqs[m] \in Seq(Nat)
    BY <1>2, <2>1
  <2>3. Len(flat[m - 1] \o seqs[m]) = Len(flat[m - 1]) + Len(seqs[m])
    BY <2>2, Joined
  <2>4. Len(flat[m - 1]) \in Nat /\ Len(seqs[m]) \in Nat
    BY <2>2
  <2> QED
    BY <1>1, <2>1, <2>2, <2>3, <2>4, Zenon
<1> DEFINE P == {n \in 0..N : At(data, o, flat[N - n])}
<1>4. 0 \in P
  <2>1. N - 0 = N /\ 0 \in 0..N
    BY <1>2
  <2> QED
    BY <2>1, <1>1, Zenon
<1>5. ASSUME NEW n \in 1..N, n - 1 \in P PROVE n \in P
  <2>1. N - (n - 1) \in 1..N /\ N - (n - 1) - 1 = N - n /\ n \in 0..N
    BY <1>2
  <2>2. PICK m \in 1..N : m = N - (n - 1) /\ m - 1 = N - n
    BY <2>1
  <2>3. At(data, o, flat[m])
    BY <1>5, <2>2
  <2>4. At(data, o, flat[m - 1])
    <3>1. flat[m - 1] \in Seq(Nat) /\ seqs[m] \in Seq(Nat) /\ flat[m] = flat[m - 1] \o seqs[m]
      BY <1>3
    <3>2. At(data, o, flat[m - 1] \o seqs[m])
      BY <2>3, <3>1
    <3> QED
      BY <3>1, <3>2, AtBoth, Zenon
  <2> QED
    BY <2>1, <2>2, <2>4
<1>6. \A n \in 0..N : n \in P
  <2> HIDE DEF P
  <2> QED
    BY <1>2, <1>4, <1>5, TurnInduction
<1>7. ASSUME NEW m \in 0..N PROVE At(data, o, flat[m])
  <2>1. N - m \in 0..N /\ N - (N - m) = m
    BY <1>2
  <2>2. N - m \in P
    BY <1>6, <2>1
  <2>3. At(data, o, flat[N - (N - m)])
    BY <2>2
  <2> QED
    BY <2>1, <2>3, Zenon
<1> DEFINE off == [m \in 0..N |-> o + Len(flat[m])]
<1>8. off \in [0..N -> Nat]
  <2>1. \A m \in 0..N : Len(flat[m]) \in Nat
    BY <1>1
  <2> QED
    BY <2>1
<1>9. off[0] = o /\ off[N] = o + Len(FlattenSeq(seqs))
  <2>1. 0 \in 0..N /\ N \in 0..N
    BY <1>2
  <2>2. Len(flat[0]) = 0
    BY <1>1
  <2> QED
    <3>1. off[0] = o + Len(flat[0]) /\ off[N] = o + Len(flat[N])
      BY <2>1
    <3>2. o + 0 = o
      OBVIOUS
    <3> HIDE DEF off
    <3> QED
      BY <1>1, <2>2, <3>1, <3>2
<1>10. ASSUME NEW m \in 1..N
       PROVE  off[m] = off[m - 1] + Len(seqs[m]) /\ At(data, off[m - 1], seqs[m])
  <2>1. /\ m - 1 \in 0..N /\ m \in 0..N /\ flat[m - 1] \in Seq(Nat) /\ seqs[m] \in Seq(Nat)
        /\ flat[m] = flat[m - 1] \o seqs[m]
        /\ Len(flat[m]) = Len(flat[m - 1]) + Len(seqs[m])
        /\ Len(flat[m - 1]) \in Nat /\ Len(seqs[m]) \in Nat
    BY <1>3
  <2>2. off[m] = o + Len(flat[m]) /\ off[m - 1] = o + Len(flat[m - 1])
    BY <2>1
  <2>3. At(data, o, flat[m - 1] \o seqs[m])
    BY <1>7, <2>1
  <2>4. At(data, o + Len(flat[m - 1]), seqs[m])
    BY <2>1, <2>3, AtBoth
  <2>5. off[m] = off[m - 1] + Len(seqs[m])
    <3>1. \A a, b, c \in Nat : c = a + b => o + c = o + a + b
      OBVIOUS
    <3>2. off[m] = o + Len(flat[m - 1]) + Len(seqs[m])
      <4>1. Len(flat[m]) \in Nat
        <5>1. flat[m] \in Seq(Nat) /\ \A u \in Seq(Nat) : Len(u) \in Nat
          <6>1. m \in 0..N
            BY <2>1, Zenon
          <6>2. flat[m] \in Seq(Nat)
            BY <6>1, Zenon
          <6>3. \A u \in Seq(Nat) : Len(u) \in Nat
            OBVIOUS
          <6> QED
            BY <6>2, <6>3, Zenon
        <5> QED
          BY <5>1, Zenon
      <4>2. o + Len(flat[m]) = o + Len(flat[m - 1]) + Len(seqs[m])
        BY <2>1, <3>1, <4>1, Zenon
      <4> QED
        BY <2>2, <4>2, Zenon
    <3> QED
      BY <2>2, <3>2, Zenon
  <2> QED
    BY <2>2, <2>4, <2>5
<1> QED
  <2> HIDE DEF off
  <2> QED
    BY <1>8, <1>9, <1>10

(* A piece cut out of a sequence.                                          *)
LEMMA Cut ==
  ASSUME NEW data \in Seq(Nat), NEW a \in Nat, NEW b \in Nat, a =< b, b =< Len(data)
  PROVE  /\ SubSeq(data, a + 1, b) \in Seq(Nat) /\ Len(SubSeq(data, a + 1, b)) = b - a
         /\ \A i \in 1..(b - a) : SubSeq(data, a + 1, b)[i] = data[a + i]
<1> DEFINE m == a + 1
           x == SubSeq(data, m, b)
<1>1. /\ m \in Int /\ b \in Int /\ b - m + 1 = b - a /\ b - a \in Nat
      /\ (IF m =< b THEN b - m + 1 ELSE 0) = b - a
      /\ \A i \in 1..(b - a) : m + i - 1 = a + i
  OBVIOUS
<1>2. \A i \in m..b : data[i] \in Nat
  <2>1. \A i \in m..b : i \in 1..Len(data)
    OBVIOUS
  <2> QED
    BY <2>1
<1>3. /\ x \in Seq(Nat) /\ Len(x) = (IF m =< b THEN b - m + 1 ELSE 0)
      /\ \A i \in 1..(b - m + 1) : x[i] = data[m + i - 1]
  <2> HIDE DEF m
  <2> QED
    BY <1>1, <1>2, SubSeqProperties
<1> HIDE DEF x, m
<1>4. \A i \in 1..(b - a) : x[i] = data[a + i]
  BY <1>1, <1>3
<1>5. x = SubSeq(data, a + 1, b)
  BY DEF x, m
<1> QED
  BY <1>1, <1>3, <1>4, <1>5

(* What is in a sequence is what is cut out of it there.                   *)
LEMMA CutAt ==
  ASSUME NEW data \in Seq(Nat), NEW o \in Nat, NEW s \in Seq(Nat), At(data, o, s)
  PROVE  SubSeq(data, o + 1, o + Len(s)) = s
<1>1. /\ Len(data) \in Nat /\ Len(s) \in Nat /\ o + Len(s) =< Len(data)
      /\ \A j \in 1..Len(s) : data[o + j] = s[j]
  BY DEF At
<1> DEFINE b == o + Len(s)
           x == SubSeq(data, o + 1, b)
<1>2. b \in Nat /\ o =< b /\ b =< Len(data) /\ b - o = Len(s)
  BY <1>1
<1>3. x \in Seq(Nat) /\ Len(x) = b - o /\ \A i \in 1..(b - o) : x[i] = data[o + i]
  <2> HIDE DEF b
  <2> QED
    BY <1>2, Cut
<1> HIDE DEF x, b
<1>4. Len(x) = Len(s) /\ \A i \in 1..Len(x) : x[i] = s[i]
  BY <1>1, <1>2, <1>3
<1>5. x = s
  BY <1>3, <1>4, SeqEqual
<1> QED
  BY <1>5 DEF x, b

(* What is in a sequence is in what follows the bytes before it.           *)
LEMMA AtFollowing ==
  ASSUME NEW data \in Seq(Nat), NEW o \in Nat, NEW s \in Seq(Nat), At(data, o, s)
  PROVE  At(From(data, o), 0, s)
<1>1. /\ Len(data) \in Nat /\ Len(s) \in Nat /\ o + Len(s) =< Len(data)
      /\ \A j \in 1..Len(s) : data[o + j] = s[j]
  BY DEF At
<1>2. o \in 0..Len(data) /\ Len(s) =< Len(data) - o /\ \A j \in 1..Len(s) : j \in 1..(Len(data) - o)
  BY <1>1
<1>3. Len(From(data, o)) = Len(data) - o /\ \A i \in 1..(Len(data) - o) : From(data, o)[i] = data[o + i]
  BY <1>2, Following
<1>4. \A j \in 1..Len(s) : From(data, o)[j] = s[j]
  BY <1>1, <1>2, <1>3, Zenon
<1>5. 0 + Len(s) =< Len(From(data, o))
  BY <1>1, <1>2, <1>3
<1>6. \A j \in 1..Len(s) : 0 + j = j
  OBVIOUS
<1> QED
  BY <1>4, <1>5, <1>6, Zenon DEF At

(* What follows more bytes of what follows some.                           *)
LEMMA FollowingFollowing ==
  ASSUME NEW data \in Seq(Nat), NEW o \in Nat, NEW p \in Nat, o + p =< Len(data)
  PROVE  From(From(data, o), p) = From(data, o + p)
<1> DEFINE d == From(data, o)
           e == o + p
           t == From(data, e)
           x == From(d, p)
<1>1. /\ Len(data) \in Nat /\ e \in Nat /\ o \in 0..Len(data) /\ e \in 0..Len(data)
      /\ Len(data) - e = Len(data) - o - p /\ p =< Len(data) - o /\ Len(data) - e \in Nat
  OBVIOUS
<1>2. /\ d \in Seq(Nat) /\ Len(d) = Len(data) - o
      /\ \A i \in 1..(Len(data) - o) : d[i] = data[o + i]
  <2> HIDE DEF e
  <2> QED
    BY <1>1, Following
<1>3. t \in Seq(Nat) /\ Len(t) = Len(data) - e /\ \A i \in 1..(Len(data) - e) : t[i] = data[e + i]
  <2> HIDE DEF e
  <2> QED
    BY <1>1, Following
<1>4. x \in Seq(Nat) /\ Len(x) = Len(d) - p /\ \A i \in 1..(Len(d) - p) : x[i] = d[p + i]
  <2>1. p \in 0..Len(d)
    BY <1>1, <1>2
  <2> HIDE DEF d
  <2> QED
    BY <1>2, <2>1, Following
<1> HIDE DEF d, t, x
<1>5. ASSUME NEW i \in 1..Len(x) PROVE x[i] = t[i]
  <2>1. i \in 1..(Len(d) - p) /\ p + i \in 1..(Len(data) - o) /\ i \in 1..(Len(data) - e)
        /\ o + (p + i) = e + i
    BY <1>1, <1>2, <1>4
  <2>2. x[i] = d[p + i]
    BY <1>4, <2>1
  <2>3. d[p + i] = data[o + (p + i)]
    BY <1>2, <2>1
  <2>4. t[i] = data[e + i]
    BY <1>3, <2>1
  <2> QED
    BY <2>1, <2>2, <2>3, <2>4
<1>6. Len(x) = Len(t)
  BY <1>1, <1>2, <1>3, <1>4
<1>7. x = t
  BY <1>3, <1>4, <1>5, <1>6, SeqEqual
<1> QED
  BY <1>7 DEF x, t, d

(* A byte is read where it is.                                             *)
LEMMA ByteAt ==
  ASSUME NEW data \in Seq(Nat), NEW o \in Nat, o < Len(data)
  PROVE  Byte[From(data, o)] = [value |-> data[o + 1], left |-> From(data, o + 1)]
<1> DEFINE d == From(data, o)
<1>1. Len(data) \in Nat /\ o \in 0..Len(data) /\ o + 1 =< Len(data) /\ 1 \in 1..(Len(data) - o)
  OBVIOUS
<1>2. d \in Seq(Nat) /\ Len(d) = Len(data) - o /\ d[1] = data[o + 1]
  BY <1>1, Following
<1>3. From(d, 1) = From(data, o + 1)
  BY <1>1, FollowingFollowing
<1> HIDE DEF d
<1>4. d # <<>> /\ Len(d) \in Nat /\ 1 \in 0..Len(d)
  BY <1>1, <1>2
<1>5. Byte[d] = [value |-> Head(d), left |-> Tail(d)]
  BY <1>2, <1>4 DEF Byte
<1>6. Head(d) = data[o + 1]
  BY <1>2, <1>4
<1>7. Tail(d) = From(d, 1)
  <2>1. Tail(d) \in Seq(Nat) /\ Len(Tail(d)) = Len(d) - 1 /\ \A i \in 1..Len(Tail(d)) : Tail(d)[i] = d[i + 1]
    BY <1>2, <1>4, HeadTailProperties
  <2>2. /\ From(d, 1) \in Seq(Nat) /\ Len(From(d, 1)) = Len(d) - 1
        /\ \A i \in 1..(Len(d) - 1) : From(d, 1)[i] = d[1 + i]
    BY <1>2, <1>4, Following
  <2>3. \A i \in 1..Len(Tail(d)) : Tail(d)[i] = From(d, 1)[i]
    BY <2>1, <2>2
  <2> QED
    BY <2>1, <2>2, <2>3, SeqEqual
<1> QED
  BY <1>3, <1>5, <1>6, <1>7 DEF d

(* And a string.                                                           *)
LEMMA StringAt ==
  ASSUME NEW data \in Seq(Nat), NEW o \in Nat, NEW s \in Seq(Nat), At(data, o, <<Len(s)>> \o s)
  PROVE  /\ ReadString[From(data, o)] = [value |-> s, left |-> From(data, o + 1 + Len(s))]
         /\ o + 1 + Len(s) =< Len(data)
<1> DEFINE d == From(data, o)
<1>1. /\ Len(data) \in Nat /\ Len(s) \in Nat /\ <<Len(s)>> \in Seq(Nat) /\ Len(<<Len(s)>>) = 1
      /\ <<Len(s)>>[1] = Len(s) /\ <<Len(s)>> \o s \in Seq(Nat) /\ Len(<<Len(s)>> \o s) = 1 + Len(s)
  <2>1. <<Len(s)>> \in Seq(Nat) /\ Len(<<Len(s)>>) = 1 /\ <<Len(s)>>[1] = Len(s) /\ Len(s) \in Nat
    OBVIOUS
  <2> QED
    BY <2>1, Joined
<1>2. o + (1 + Len(s)) =< Len(data)
  BY <1>1, Zenon DEF At
<1>3. At(d, 0, <<Len(s)>> \o s)
  BY <1>1, AtFollowing
<1>4. d \in Seq(Nat) /\ Len(d) = Len(data) - o
  <2>1. o \in 0..Len(data)
    BY <1>1, <1>2
  <2> QED
    BY <2>1, Following
<1>5. From(d, 1 + Len(s)) = From(data, o + 1 + Len(s))
  <2>1. o + (1 + Len(s)) = o + 1 + Len(s) /\ 1 + Len(s) \in Nat
    BY <1>1
  <2> QED
    BY <1>2, <2>1, FollowingFollowing
<1> HIDE DEF d
<1>6. At(d, 0, <<Len(s)>>) /\ At(d, 1, s)
  <2>1. 0 \in Nat /\ 0 + Len(<<Len(s)>>) = 1
    BY <1>1
  <2>2. At(d, 0, <<Len(s)>>) /\ At(d, 0 + Len(<<Len(s)>>), s)
    BY <1>1, <1>3, <1>4, <2>1, AtBoth
  <2> QED
    BY <2>1, <2>2
<1>7. d[1] = Len(s) /\ 1 + Len(s) =< Len(d)
  BY <1>1, <1>6 DEF At
<1>8. d # <<>> /\ Head(d) = Len(s) /\ ~(Head(d) > Len(d) - 1)
  <2>1. d # <<>> /\ Head(d) = d[1] /\ Len(d) \in Nat
    <3>1. Len(s) \in Nat
      OBVIOUS
    <3>2. Len(d) \in Nat
      BY <1>4
    <3>3. \A l, n \in Nat : 1 + n =< l => l >= 1
      OBVIOUS
    <3>4. Len(d) >= 1
      BY <1>7, <3>1, <3>2, <3>3, Zenon
    <3> QED
      BY <1>4, <3>2, <3>4
  <2>2. ~(Len(s) > Len(d) - 1)
    BY <1>1, <1>7, <2>1
  <2> QED
    BY <1>7, <2>1, <2>2, Zenon
<1>9. ReadString[d] = [value |-> SubSeq(d, 2, Len(s) + 1), left |-> SubSeq(d, Len(s) + 2, Len(d))]
  BY <1>4, <1>8 DEF ReadString
<1>10. SubSeq(d, 2, Len(s) + 1) = s
  <2>1. SubSeq(d, 1 + 1, 1 + Len(s)) = s
    BY <1>4, <1>6, CutAt
  <2>2. 1 + 1 = 2 /\ 1 + Len(s) = Len(s) + 1
    BY <1>1
  <2> QED
    BY <2>1, <2>2
<1>11. SubSeq(d, Len(s) + 2, Len(d)) = From(d, 1 + Len(s))
  <2>1. Len(s) + 2 = 1 + Len(s) + 1
    BY <1>1
  <2> QED
    BY <2>1 DEF From
<1> QED
  <2>1. o + 1 + Len(s) =< Len(data)
    BY <1>1, <1>2
  <2>2. ReadString[d] = [value |-> s, left |-> From(data, o + 1 + Len(s))]
    BY <1>5, <1>9, <1>10, <1>11
  <2> QED
    BY <2>1, <2>2 DEF d

\* A string as it is encoded.
Coded(s) == <<Len(s)>> \o s

LEMMA CodedType ==
  ASSUME NEW s \in Seq(Nat)
  PROVE  Coded(s) \in Seq(Nat) /\ Len(Coded(s)) = 1 + Len(s) /\ Len(s) \in Nat
<1>1. <<Len(s)>> \in Seq(Nat) /\ Len(<<Len(s)>>) = 1 /\ Len(s) \in Nat
  OBVIOUS
<1> QED
  BY <1>1, Joined DEF Coded

(* A prefix grows by an element.                                           *)
LEMMA PrefixGrows ==
  ASSUME NEW N \in Nat, NEW seqs \in [1..N -> Seq(Nat)], NEW m \in 1..N
  PROVE  /\ Prefix(seqs, m - 1) \in Seq(Seq(Nat))
         /\ Append(Prefix(seqs, m - 1), seqs[m]) = Prefix(seqs, m)
<1>1. m \in Nat /\ m - 1 \in Nat /\ m - 1 + 1 = m /\ seqs[m] \in Seq(Nat) /\ \A i \in 1..m : seqs[i] \in Seq(Nat)
  OBVIOUS
<1>2. Prefix(seqs, m - 1) \in [1..(m - 1) -> Seq(Nat)] /\ Prefix(seqs, m) \in [1..m -> Seq(Nat)]
  BY <1>1 DEF Prefix
<1>3. /\ Prefix(seqs, m - 1) \in Seq(Seq(Nat)) /\ Len(Prefix(seqs, m - 1)) = m - 1
      /\ Prefix(seqs, m) \in Seq(Seq(Nat)) /\ Len(Prefix(seqs, m)) = m
  BY <1>1, <1>2, AsSequence
<1> DEFINE p == Prefix(seqs, m - 1)
           q == Prefix(seqs, m)
           r == Append(p, seqs[m])
<1>4. /\ \A i \in 1..(m - 1) : p[i] = seqs[i]
      /\ \A i \in 1..m : q[i] = seqs[i]
  BY DEF Prefix
<1>5. r \in Seq(Seq(Nat)) /\ Len(r) = m /\ \A i \in 1..m : r[i] = IF i = m THEN seqs[m] ELSE p[i]
  <2> HIDE DEF p
  <2>1. p \in Seq(Seq(Nat)) /\ Len(p) + 1 = m
    BY <1>1, <1>3 DEF p
  <2>2. r \in Seq(Seq(Nat)) /\ Len(r) = Len(p) + 1 /\ (\A i \in 1..Len(p) : r[i] = p[i]) /\ r[Len(p) + 1] = seqs[m]
    BY <1>1, <2>1, AppendProperties
  <2> QED
    BY <1>1, <1>3, <2>1, <2>2
<1>q. q \in Seq(Seq(Nat)) /\ Len(q) = m
  BY <1>3
<1> HIDE DEF r, p, q
<1>6. ASSUME NEW i \in 1..Len(r) PROVE r[i] = q[i]
  <2>1. i \in 1..m /\ (i = m \/ i \in 1..(m - 1))
    BY <1>1, <1>5
  <2> QED
    BY <2>1, <1>4, <1>5, Zenon
<1>7. r = q
  BY <1>q, <1>5, <1>6, SeqEqual
<1> QED
  BY <1>3, <1>7 DEF p, q, r

(* A sequence of bytes is not what was not read.                           *)
LEMMA ReadSomething ==
  ASSUME NEW s \in Seq(Nat), NEW t, NEW r, r = [value |-> s, left |-> t]
  PROVE  r # NoRead /\ r.value = s /\ r.left = t
BY ProtocolAssumption DEF NoRead

(* Strings are read where they are, one after another.                     *)
LEMMA StringsAt ==
  ASSUME NEW N \in Nat, NEW data \in Seq(Nat), NEW texts \in [1..N -> Seq(Nat)],
         NEW off \in [0..N -> Nat], off[0] =< Len(data),
         \A m \in 1..N : /\ off[m] = off[m - 1] + 1 + Len(texts[m])
                         /\ At(data, off[m - 1], Coded(texts[m]))
  PROVE  /\ ReadStrings(N, From(data, off[0])) = [value |-> texts, left |-> From(data, off[N])]
         /\ off[N] =< Len(data)
<1> DEFINE d == From(data, off[0])
           List(m) == [value |-> Prefix(texts, m), left |-> From(data, off[m])]
<1>1. 0 \in 0..N /\ N \in 0..N /\ off[0] \in Nat /\ off[0] \in 0..Len(data)
  OBVIOUS
<1>2. d \in Seq(Nat)
  BY <1>1, Following
<1> HIDE DEF d
<1>3. PICK list \in [0..N -> Reads(Seq(Seq(Nat)), d)] :
        /\ list[0] = [value |-> <<>>, left |-> d]
        /\ \A i \in 1..N : list[i] = ReadNext(list[i - 1])
        /\ ReadStrings(N, d) = list[N]
  BY <1>2, StringsTurns, Zenon
<1> DEFINE P == {m \in 0..N : list[m] = List(m) /\ off[m] =< Len(data)}
<1>4. 0 \in P
  <2>1. Prefix(texts, 0) = <<>>
    BY DEF Prefix
  <2> QED
    BY <1>1, <1>3, <2>1 DEF d
<1>5. ASSUME NEW m \in 1..N, m - 1 \in P PROVE m \in P
  <2>1. m - 1 \in 0..N /\ m \in 0..N /\ off[m - 1] \in Nat /\ texts[m] \in Seq(Nat)
    OBVIOUS
  <2>2. list[m - 1] = List(m - 1)
    BY <1>5
  <2>3. off[m] = off[m - 1] + 1 + Len(texts[m]) /\ At(data, off[m - 1], <<Len(texts[m])>> \o texts[m])
    BY Zenon DEF Coded
  <2>4. /\ ReadString[From(data, off[m - 1])] = [value |-> texts[m], left |-> From(data, off[m - 1] + 1 + Len(texts[m]))]
        /\ off[m - 1] + 1 + Len(texts[m]) =< Len(data)
    BY <2>1, <2>3, StringAt, Zenon
  <2>5. PICK item : item = ReadString[list[m - 1].left]
    OBVIOUS
  <2>6. item = [value |-> texts[m], left |-> From(data, off[m])]
    <3>1. list[m - 1].left = From(data, off[m - 1])
      BY <2>2
    <3> QED
      BY <2>3, <2>4, <2>5, <3>1, Zenon
  <2>7. item # NoRead /\ item.value = texts[m] /\ item.left = From(data, off[m])
    BY <2>1, <2>6, ReadSomething
  <2>8. list[m] = ReadNext(list[m - 1])
    BY <1>3
  <2>9. list[m] = [value |-> Append(list[m - 1].value, item.value), left |-> item.left]
    BY <2>5, <2>7, <2>8, Zenon DEF ReadNext
  <2>10. Append(Prefix(texts, m - 1), texts[m]) = Prefix(texts, m)
    BY PrefixGrows
  <2>11. list[m - 1].value = Prefix(texts, m - 1)
    BY <2>2
  <2>12. list[m] = List(m)
    BY <2>7, <2>9, <2>10, <2>11, Zenon
  <2>13. off[m] =< Len(data)
    BY <2>3, <2>4, Zenon
  <2> QED
    BY <2>1, <2>12, <2>13
<1>6. \A m \in 0..N : m \in P
  <2> HIDE DEF P
  <2> QED
    BY <1>4, <1>5, TurnInduction
<1>7. list[N] = List(N) /\ off[N] =< Len(data)
  BY <1>1, <1>6
<1>8. Prefix(texts, N) = texts
  BY DEF Prefix
<1> QED
  BY <1>3, <1>7, <1>8, Zenon DEF d

(* What is joined fits, and is flattened.                                  *)
LEMMA JoinFits ==
  ASSUME NEW parts, Join(parts) # Invalid
  PROVE  Join(parts) = FlattenSeq(parts) /\ \A i \in DOMAIN parts : parts[i] # Invalid
<1>1. Invalid \notin ToSet(parts)
  BY Zenon DEF Join
<1> QED
  BY <1>1, Zenon DEF Join, ToSet

LEMMA StringFits ==
  ASSUME NEW s \in Seq(Nat)
  PROVE  /\ AppendString(s) \in Seq(Nat) \cup {Invalid}
         /\ AppendString(s) # Invalid => AppendString(s) = Coded(s)
<1>1. Coded(s) \in Seq(Nat)
  BY CodedType
<1> QED
  BY <1>1, Zenon DEF AppendString, Coded

\* A list as it is encoded: how many, and the code of each.
Listed(codes) == <<<<Len(codes)>>>> \o codes

LEMMA ListedType ==
  ASSUME NEW codes \in Seq(Seq(Nat))
  PROVE  /\ Listed(codes) \in Seq(Seq(Nat)) /\ Len(Listed(codes)) = Len(codes) + 1
         /\ Len(codes) \in Nat
         /\ Listed(codes)[1] = <<Len(codes)>>
         /\ \A m \in 1..Len(codes) : Listed(codes)[m + 1] = codes[m]
<1> DEFINE n == Len(codes)
           head == <<<<n>>>>
<1>1. n \in Nat /\ <<n>> \in Seq(Nat)
  OBVIOUS
<1>2. head \in Seq(Seq(Nat)) /\ Len(head) = 1 /\ head[1] = <<n>>
  <2> HIDE DEF n
  <2> QED
    BY <1>1
<1> HIDE DEF head
<1>3. /\ head \o codes \in Seq(Seq(Nat)) /\ Len(head \o codes) = Len(head) + Len(codes)
      /\ \A i \in 1..(Len(head) + Len(codes)) :
           (head \o codes)[i] = IF i <= Len(head) THEN head[i] ELSE codes[i - Len(head)]
  BY <1>2, ConcatProperties
<1>4. Listed(codes) = head \o codes
  BY DEF Listed, head
<1> DEFINE q == head \o codes
<1> HIDE DEF q
<1>5. /\ q \in Seq(Seq(Nat)) /\ Len(q) = 1 + n
      /\ \A i \in 1..(1 + n) : q[i] = IF i <= 1 THEN head[i] ELSE codes[i - 1]
  BY <1>2, <1>3 DEF q
<1>6. Listed(codes) = q
  BY <1>4 DEF q
<1>7. q[1] = <<n>>
  <2>1. 1 \in 1..(1 + n) /\ 1 =< 1
    BY <1>1
  <2> QED
    BY <1>2, <1>5, <2>1, Zenon
<1>8. ASSUME NEW m \in 1..n PROVE q[m + 1] = codes[m]
  <2>1. PICK l \in 1..(1 + n) : l = m + 1 /\ l - 1 = m /\ ~(l =< 1)
    BY <1>1
  <2>2. q[l] = codes[l - 1]
    BY <1>5, <2>1, Zenon
  <2> QED
    BY <2>1, <2>2, Zenon
<1>9. Len(q) = n + 1
  BY <1>1, <1>5
<1> QED
  BY <1>1, <1>5, <1>6, <1>7, <1>8, <1>9

(* Where a list is: its count, and the code of each item.                  *)
LEMMA ListAt ==
  ASSUME NEW data \in Seq(Nat), NEW o \in Nat, NEW codes \in Seq(Seq(Nat)),
         At(data, o, FlattenSeq(Listed(codes)))
  PROVE  /\ o + 1 =< Len(data) /\ data[o + 1] = Len(codes)
         /\ \E off \in [0..Len(codes) -> Nat] :
              /\ off[0] = o + 1
              /\ \A m \in 1..Len(codes) :
                   off[m] = off[m - 1] + Len(codes[m]) /\ At(data, off[m - 1], codes[m])
              /\ off[Len(codes)] = o + Len(FlattenSeq(Listed(codes)))
<1> DEFINE n == Len(codes)
<1>1. PICK parts : parts = Listed(codes)
  OBVIOUS
<1>2. /\ parts \in Seq(Seq(Nat)) /\ Len(parts) = n + 1 /\ n \in Nat /\ parts[1] = <<n>>
      /\ \A m \in 1..n : parts[m + 1] = codes[m]
  BY <1>1, ListedType
<1>3. PICK out \in [0..(n + 1) -> Nat] :
        /\ out[0] = o
        /\ \A m \in 1..(n + 1) : out[m] = out[m - 1] + Len(parts[m]) /\ At(data, out[m - 1], parts[m])
        /\ out[n + 1] = o + Len(FlattenSeq(parts))
  <2>1. \E out \in [0..Len(parts) -> Nat] :
          /\ out[0] = o
          /\ \A m \in 1..Len(parts) : out[m] = out[m - 1] + Len(parts[m]) /\ At(data, out[m - 1], parts[m])
          /\ out[Len(parts)] = o + Len(FlattenSeq(parts))
    <3>1. At(data, o, FlattenSeq(parts))
      BY <1>1
    <3> QED
      BY <1>2, <3>1, AtParts, Zenon
  <2> QED
    BY <1>2, <2>1, Zenon
<1> DEFINE off == [m \in 0..n |-> out[m + 1]]
<1>4. out[1] = o + 1 /\ At(data, o, <<n>>)
  <2>1. 1 \in 1..(n + 1) /\ 1 - 1 = 0 /\ Len(<<n>>) = 1
    BY <1>2
  <2> QED
    BY <1>2, <1>3, <2>1
<1>5. o + 1 =< Len(data) /\ data[o + 1] = n
  <2>1. Len(<<n>>) = 1 /\ <<n>>[1] = n /\ 1 \in 1..1
    OBVIOUS
  <2> QED
    BY <1>4, <2>1 DEF At
<1>6. off \in [0..n -> Nat] /\ off[0] = o + 1 /\ off[n] = o + Len(FlattenSeq(parts))
  <2>1. 0 \in 0..n /\ n \in 0..n /\ 0 + 1 = 1 /\ \A m \in 0..n : m + 1 \in 0..(n + 1)
    BY <1>2
  <2> QED
    BY <1>3, <1>4, <2>1
<1>7. ASSUME NEW m \in 1..n
      PROVE  off[m] = off[m - 1] + Len(codes[m]) /\ At(data, off[m - 1], codes[m])
  <2>1. m \in 0..n /\ m - 1 \in 0..n /\ m + 1 \in 1..(n + 1) /\ m + 1 - 1 = m /\ m - 1 + 1 = m
    BY <1>2
  <2>2. off[m] = out[m + 1] /\ off[m - 1] = out[m] /\ parts[m + 1] = codes[m]
    BY <1>2, <2>1
  <2>3. out[m + 1] = out[m] + Len(parts[m + 1]) /\ At(data, out[m], parts[m + 1])
    <3>1. PICK l \in 1..(n + 1) : l = m + 1 /\ l - 1 = m
      BY <2>1
    <3>2. out[l] = out[l - 1] + Len(parts[l]) /\ At(data, out[l - 1], parts[l])
      BY <1>3, Zenon
    <3> QED
      BY <3>1, <3>2, Zenon
  <2> QED
    BY <2>2, <2>3, Zenon
<1> HIDE DEF off
<1> QED
  BY <1>1, <1>5, <1>6, <1>7

Strings(n) == [1..n -> Seq(Nat)]

StringCodes(n, texts) == [m \in 1..n |-> Coded(texts[m])]

(* A list of strings is read where it is.                                  *)
LEMMA StringListAt ==
  ASSUME NEW data \in Seq(Nat), NEW o \in Nat, NEW n \in Nat, NEW texts \in Strings(n),
         At(data, o, FlattenSeq(Listed(StringCodes(n, texts))))
  PROVE  ReadList(1, From(data, o)) =
           [value |-> texts,
            left |-> From(data, o + Len(FlattenSeq(Listed(StringCodes(n, texts)))))]
<1> USE DEF Strings
<1>a. PICK codes : codes = StringCodes(n, texts)
  OBVIOUS
<1>b. codes = [m \in 1..n |-> Coded(texts[m])] /\ At(data, o, FlattenSeq(Listed(codes)))
  BY <1>a, Zenon DEF StringCodes
<1>1. codes \in Seq(Seq(Nat)) /\ Len(codes) = n
  <2>1. codes \in [1..n -> Seq(Nat)]
    BY <1>b, CodedType
  <2> QED
    BY <2>1, AsSequence
<1>2. o + 1 =< Len(data) /\ data[o + 1] = n
  BY <1>1, <1>b, ListAt
<1>3. PICK off \in [0..n -> Nat] :
        /\ off[0] = o + 1
        /\ \A m \in 1..n : off[m] = off[m - 1] + Len(codes[m]) /\ At(data, off[m - 1], codes[m])
        /\ off[n] = o + Len(FlattenSeq(Listed(codes)))
  <2>1. \E off \in [0..Len(codes) -> Nat] :
          /\ off[0] = o + 1
          /\ \A m \in 1..Len(codes) :
               off[m] = off[m - 1] + Len(codes[m]) /\ At(data, off[m - 1], codes[m])
          /\ off[Len(codes)] = o + Len(FlattenSeq(Listed(codes)))
    BY <1>1, <1>b, ListAt, Zenon
  <2> QED
    BY <1>1, <2>1, Zenon
<1>4. ASSUME NEW m \in 1..n
      PROVE  /\ off[m] = off[m - 1] + 1 + Len(texts[m])
             /\ At(data, off[m - 1], Coded(texts[m]))
  <2>1. codes[m] = Coded(texts[m]) /\ Len(Coded(texts[m])) = 1 + Len(texts[m]) /\ Len(texts[m]) \in Nat
    BY <1>b, CodedType
  <2>2. off[m - 1] \in Nat
    OBVIOUS
  <2>3. off[m] = off[m - 1] + (1 + Len(texts[m])) /\ At(data, off[m - 1], Coded(texts[m]))
    BY <1>3, <2>1, Zenon
  <2>4. \A a, b \in Nat : a + (1 + b) = a + 1 + b
    OBVIOUS
  <2>5. off[m] = off[m - 1] + 1 + Len(texts[m])
    BY <2>1, <2>2, <2>3, <2>4, Zenon
  <2> QED
    BY <2>3, <2>5
<1>5. ReadStrings(n, From(data, o + 1)) = [value |-> texts, left |-> From(data, off[n])]
  <2>1. off[0] =< Len(data)
    BY <1>2, <1>3
  <2>2. \A m \in 1..n : /\ off[m] = off[m - 1] + 1 + Len(texts[m])
                       /\ At(data, off[m - 1], Coded(texts[m]))
    BY <1>4
  <2>3. ReadStrings(n, From(data, off[0])) = [value |-> texts, left |-> From(data, off[n])]
    BY <2>1, <2>2, StringsAt
  <2> QED
    BY <1>3, <2>3, Zenon
<1>6. Len(data) \in Nat
  OBVIOUS
<1>7. o < Len(data)
  BY <1>2, <1>6
<1>8. PICK count : count = Byte[From(data, o)]
  OBVIOUS
<1>9. count = [value |-> n, left |-> From(data, o + 1)]
  BY <1>2, <1>7, <1>8, ByteAt
<1>10. count # NoRead /\ count.value = n /\ count.left = From(data, o + 1)
  <2>1. n # Invalid
    BY ProtocolAssumption
  <2>2. count.value = n /\ count.left = From(data, o + 1)
    BY <1>9
  <2>3. NoRead.value = Invalid
    BY DEF NoRead
  <2> QED
    BY <2>1, <2>2, <2>3, Zenon
<1>11. 1 * count.value = n
  BY <1>10
<1> QED
  BY <1>a, <1>3, <1>5, <1>8, <1>10, <1>11, Zenon DEF ReadList

\* Keys and values in turn.
Alternate(n, keys, texts) ==
  [j \in 1..(2 * n) |-> IF j % 2 = 1 THEN keys[(j + 1) \div 2] ELSE texts[j \div 2]]

InTurn(all, n, keys, texts, T) ==
  /\ all \in [1..(2 * n) -> T]
  /\ \A m \in 1..n : /\ 2 * m - 1 \in 1..(2 * n) /\ 2 * m \in 1..(2 * n)
                     /\ all[2 * m - 1] = keys[m] /\ all[2 * m] = texts[m]
  /\ \A j \in 1..(2 * n) : \E m \in 1..n : j = 2 * m - 1 \/ j = 2 * m

LEMMA Alternates ==
  ASSUME NEW n \in Nat, NEW T, NEW keys \in [1..n -> T], NEW texts \in [1..n -> T]
  PROVE  InTurn(Alternate(n, keys, texts), n, keys, texts, T)
<1> DEFINE all == Alternate(n, keys, texts)
<1>1. ASSUME NEW j \in 1..(2 * n)
      PROVE  IF j % 2 = 1 THEN (j + 1) \div 2 \in 1..n /\ j = 2 * ((j + 1) \div 2) - 1
             ELSE j \div 2 \in 1..n /\ j = 2 * (j \div 2)
  OBVIOUS
<1>2. ASSUME NEW m \in 1..n
      PROVE  /\ 2 * m - 1 \in 1..(2 * n) /\ 2 * m \in 1..(2 * n)
             /\ (2 * m - 1) % 2 = 1 /\ (2 * m - 1 + 1) \div 2 = m
             /\ (2 * m) % 2 = 0 /\ (2 * m) \div 2 = m
  OBVIOUS
<1>3. \A j \in 1..(2 * n) : all[j] = IF j % 2 = 1 THEN keys[(j + 1) \div 2] ELSE texts[j \div 2]
  BY DEF Alternate
<1>a. all = [j \in 1..(2 * n) |-> all[j]]
  BY DEF Alternate
<1> HIDE DEF all
<1>4. all \in [1..(2 * n) -> T]
  <2>1. ASSUME NEW j \in 1..(2 * n) PROVE all[j] \in T
    <3>1. CASE j % 2 = 1
      BY <1>1, <1>3, <3>1
    <3>2. CASE j % 2 # 1
      BY <1>1, <1>3, <3>2
    <3> QED
      BY <3>1, <3>2
  <2> QED
    BY <1>a, <2>1
<1>5. ASSUME NEW m \in 1..n
      PROVE  all[2 * m - 1] = keys[m] /\ all[2 * m] = texts[m]
  BY <1>2, <1>3
<1>6. ASSUME NEW j \in 1..(2 * n) PROVE \E m \in 1..n : j = 2 * m - 1 \/ j = 2 * m
  BY <1>1, Zenon
<1> QED
  BY <1>2, <1>4, <1>5, <1>6, Zenon DEF all, InTurn

PairCodes(n, keys, texts) == [m \in 1..n |-> Coded(keys[m]) \o Coded(texts[m])]

Pairs(n, keys, texts) == {[key |-> keys[i], value |-> Text(texts[i])] : i \in 1..n}

(* A list of pairs is read where it is, as its strings.                    *)
LEMMA PairListAt ==
  ASSUME NEW data \in Seq(Nat), NEW o \in Nat, NEW n \in Nat,
         NEW keys \in Strings(n), NEW texts \in Strings(n),
         At(data, o, FlattenSeq(Listed(PairCodes(n, keys, texts))))
  PROVE  ReadList(2, From(data, o)) =
           [value |-> Alternate(n, keys, texts),
            left |-> From(data, o + Len(FlattenSeq(Listed(PairCodes(n, keys, texts)))))]
<1> USE DEF Strings
<1>a. PICK codes : codes = PairCodes(n, keys, texts)
  OBVIOUS
<1>b. /\ codes = [m \in 1..n |-> Coded(keys[m]) \o Coded(texts[m])]
      /\ At(data, o, FlattenSeq(Listed(codes)))
  BY <1>a, Zenon DEF PairCodes
<1>1. ASSUME NEW m \in 1..n
      PROVE  /\ codes[m] = Coded(keys[m]) \o Coded(texts[m]) /\ codes[m] \in Seq(Nat)
             /\ Coded(keys[m]) \in Seq(Nat) /\ Coded(texts[m]) \in Seq(Nat)
             /\ Len(codes[m]) = (1 + Len(keys[m])) + (1 + Len(texts[m]))
             /\ Len(Coded(keys[m])) = 1 + Len(keys[m])
             /\ Len(keys[m]) \in Nat /\ Len(texts[m]) \in Nat
  <2>1. /\ Coded(keys[m]) \in Seq(Nat) /\ Len(Coded(keys[m])) = 1 + Len(keys[m]) /\ Len(keys[m]) \in Nat
        /\ Coded(texts[m]) \in Seq(Nat) /\ Len(Coded(texts[m])) = 1 + Len(texts[m])
        /\ Len(texts[m]) \in Nat
    BY CodedType
  <2>2. codes[m] = Coded(keys[m]) \o Coded(texts[m])
    BY <1>b
  <2>3. /\ Coded(keys[m]) \o Coded(texts[m]) \in Seq(Nat)
        /\ Len(Coded(keys[m]) \o Coded(texts[m])) = Len(Coded(keys[m])) + Len(Coded(texts[m]))
    BY <2>1, Joined, Zenon
  <2> QED
    BY <2>1, <2>2, <2>3, Zenon
<1>2. codes \in Seq(Seq(Nat)) /\ Len(codes) = n
  <2>1. codes \in [1..n -> Seq(Nat)]
    BY <1>b, <1>1
  <2> QED
    BY <2>1, AsSequence
<1>3. o + 1 =< Len(data) /\ data[o + 1] = n
  BY <1>b, <1>2, ListAt
<1>4. PICK off \in [0..n -> Nat] :
        /\ off[0] = o + 1
        /\ \A m \in 1..n : off[m] = off[m - 1] + Len(codes[m]) /\ At(data, off[m - 1], codes[m])
        /\ off[n] = o + Len(FlattenSeq(Listed(codes)))
  <2>1. \E off \in [0..Len(codes) -> Nat] :
          /\ off[0] = o + 1
          /\ \A m \in 1..Len(codes) :
               off[m] = off[m - 1] + Len(codes[m]) /\ At(data, off[m - 1], codes[m])
          /\ off[Len(codes)] = o + Len(FlattenSeq(Listed(codes)))
    BY <1>b, <1>2, ListAt, Zenon
  <2> QED
    BY <1>2, <2>1, Zenon
<1> DEFINE middle == [m \in 1..n |-> off[m - 1] + 1 + Len(keys[m])]
           all == Alternate(n, keys, texts)
           after == [m \in 1..n |-> off[m]]
           ends == Alternate(n, middle, after)
           to == [j \in 0..(2 * n) |-> IF j = 0 THEN off[0] ELSE ends[j]]
<1>5. ASSUME NEW m \in 1..n
      PROVE  /\ m - 1 \in 0..n /\ m \in 0..n /\ off[m - 1] \in Nat /\ off[m] \in Nat
             /\ middle[m] = off[m - 1] + 1 + Len(keys[m])
             /\ off[m] = middle[m] + 1 + Len(texts[m])
             /\ At(data, off[m - 1], Coded(keys[m])) /\ At(data, middle[m], Coded(texts[m]))
             /\ middle[m] \in Nat
  <2>1. m - 1 \in 0..n /\ m \in 0..n
    OBVIOUS
  <2>2. off[m - 1] \in Nat /\ off[m] \in Nat
    BY <2>1
  <2>3. middle[m] = off[m - 1] + 1 + Len(keys[m])
    OBVIOUS
  <2> HIDE DEF middle
  <2>4. off[m] = off[m - 1] + ((1 + Len(keys[m])) + (1 + Len(texts[m])))
    BY <1>1, <1>4, Zenon
  <2>a. PICK a \in Nat : a = off[m - 1]
    BY <2>2
  <2>b. PICK b \in Nat : b = Len(keys[m])
    BY <1>1
  <2>c. PICK c \in Nat : c = Len(texts[m])
    BY <1>1
  <2>5. /\ \A x, y, z \in Nat : x + ((1 + y) + (1 + z)) = x + 1 + y + 1 + z
        /\ \A x, y \in Nat : x + 1 + y \in Nat /\ x + (1 + y) = x + 1 + y
    OBVIOUS
  <2>6. Len(keys[m]) \in Nat /\ Len(texts[m]) \in Nat
    BY <1>1, Zenon
  <2>7. off[m] = middle[m] + 1 + Len(texts[m]) /\ middle[m] \in Nat
    <3>1. off[m] = a + ((1 + b) + (1 + c)) /\ middle[m] = a + 1 + b
      BY <2>3, <2>4, <2>a, <2>b, <2>c, Zenon
    <3>2. a + ((1 + b) + (1 + c)) = a + 1 + b + 1 + c /\ a + 1 + b \in Nat
      OBVIOUS
    <3>3. off[m] = middle[m] + 1 + c /\ middle[m] \in Nat
      BY <3>1, <3>2, Zenon
    <3> QED
      BY <2>c, <3>3, Zenon
  <2>8. At(data, off[m - 1], Coded(keys[m]) \o Coded(texts[m]))
    BY <1>1, <1>4, Zenon
  <2>9. At(data, off[m - 1], Coded(keys[m])) /\ At(data, off[m - 1] + Len(Coded(keys[m])), Coded(texts[m]))
    BY <1>1, <2>2, <2>8, AtBoth, Zenon
  <2>10. off[m - 1] + Len(Coded(keys[m])) = middle[m]
    <3>1. Len(Coded(keys[m])) = 1 + Len(keys[m])
      BY <1>1, Zenon
    <3>2. off[m - 1] + (1 + Len(keys[m])) = off[m - 1] + 1 + Len(keys[m])
      BY <2>2, <2>5, <2>6, Zenon
    <3> QED
      BY <2>3, <3>1, <3>2, Zenon
  <2> QED
    BY <2>1, <2>2, <2>3, <2>7, <2>9, <2>10
<1>6. middle \in [1..n -> Nat] /\ after \in [1..n -> Nat] /\ \A m \in 1..n : after[m] = off[m]
  BY <1>5
<1> HIDE DEF middle, after
<1>7. /\ all \in [1..(2 * n) -> Seq(Nat)]
      /\ \A m \in 1..n : all[2 * m - 1] = keys[m] /\ all[2 * m] = texts[m]
      /\ \A j \in 1..(2 * n) : \E m \in 1..n : j = 2 * m - 1 \/ j = 2 * m
  <2>1. InTurn(Alternate(n, keys, texts), n, keys, texts, Seq(Nat))
    BY Alternates, Zenon
  <2> QED
    BY <2>1, Zenon DEF all, InTurn
<1>8. /\ to \in [0..(2 * n) -> Nat] /\ to[0] = off[0]
      /\ \A m \in 1..n : to[2 * m - 1] = middle[m] /\ to[2 * m] = off[m]
  <2>1. /\ ends \in [1..(2 * n) -> Nat]
        /\ \A m \in 1..n : /\ 2 * m - 1 \in 1..(2 * n) /\ 2 * m \in 1..(2 * n)
                           /\ ends[2 * m - 1] = middle[m] /\ ends[2 * m] = off[m]
    <3>1. InTurn(Alternate(n, middle, after), n, middle, after, Nat)
      BY <1>6, Alternates, Zenon
    <3> QED
      BY <1>6, <3>1, Zenon DEF ends, InTurn
  <2> HIDE DEF ends
  <2>2. to = [j \in 0..(2 * n) |-> IF j = 0 THEN off[0] ELSE ends[j]]
    OBVIOUS
  <2> HIDE DEF to
  <2>3. 0 \in 0..n /\ off[0] \in Nat
    OBVIOUS
  <2>4. \A j \in 1..(2 * n) : j \in 0..(2 * n) /\ j # 0
    OBVIOUS
  <2>5. to \in [0..(2 * n) -> Nat] /\ to[0] = off[0]
    <3>1. ASSUME NEW j \in 0..(2 * n) PROVE (IF j = 0 THEN off[0] ELSE ends[j]) \in Nat
      <4>1. CASE j = 0
        BY <2>3, <4>1
      <4>2. CASE j # 0
        <5>1. j \in 1..(2 * n)
          BY <4>2
        <5> QED
          BY <2>1, <4>2, <5>1, Zenon
      <4> QED
        BY <4>1, <4>2
    <3>2. 0 \in 0..(2 * n)
      OBVIOUS
    <3> QED
      BY <2>2, <3>1, <3>2, Zenon
  <2>6. \A j \in 1..(2 * n) : to[j] = ends[j]
    BY <2>2, <2>4, Zenon
  <2> QED
    BY <2>1, <2>5, <2>6, Zenon
<1> HIDE DEF to, all
<1>9. ASSUME NEW m \in 1..n
      PROVE  to[2 * m - 1 - 1] = off[m - 1]
  <2>1. CASE m = 1
    <3>1. 2 * m - 1 - 1 = 0 /\ m - 1 = 0
      BY <2>1
    <3> QED
      BY <1>8, <3>1, Zenon
  <2>2. CASE m # 1
    <3>1. 2 * m - 1 - 1 = 2 * (m - 1) /\ m - 1 \in 1..n
      BY <2>2
    <3> QED
      BY <1>8, <3>1, Zenon
  <2> QED
    BY <2>1, <2>2
<1>10. ASSUME NEW j \in 1..(2 * n)
       PROVE  to[j] = to[j - 1] + 1 + Len(all[j]) /\ At(data, to[j - 1], Coded(all[j]))
  <2>1. PICK m \in 1..n : j = 2 * m - 1 \/ j = 2 * m
    BY <1>7
  <2>2. CASE j = 2 * m - 1
    BY <1>5, <1>7, <1>8, <1>9, <2>2, Zenon
  <2>3. CASE j = 2 * m
    <3>1. j - 1 = 2 * m - 1
      BY <2>3
    <3> QED
      BY <1>5, <1>7, <1>8, <2>3, <3>1, Zenon
  <2> QED
    BY <2>1, <2>2, <2>3
<1>11. to[2 * n] = off[n]
  <2>1. CASE n = 0
    <3>1. 2 * n = 0
      BY <2>1
    <3> QED
      BY <1>8, <2>1, <3>1, Zenon
  <2>2. CASE n # 0
    <3>1. n \in 1..n
      BY <2>2
    <3> QED
      BY <1>8, <3>1, Zenon
  <2> QED
    BY <2>1, <2>2
<1>12. ReadStrings(2 * n, From(data, o + 1)) = [value |-> all, left |-> From(data, off[n])]
  <2>1. 2 * n \in Nat /\ to[0] =< Len(data)
    BY <1>3, <1>4, <1>8
  <2> DEFINE l == 2 * n
  <2> HIDE DEF l
  <2>2. ReadStrings(l, From(data, to[0])) = [value |-> all, left |-> From(data, to[l])]
    <3>1. /\ l \in Nat /\ to \in [0..l -> Nat] /\ all \in [1..l -> Seq(Nat)]
          /\ \A j \in 1..l : to[j] = to[j - 1] + 1 + Len(all[j]) /\ At(data, to[j - 1], Coded(all[j]))
      BY <1>7, <1>8, <1>10, <2>1 DEF l
    <3> QED
      BY <2>1, <3>1, StringsAt
  <2> QED
    BY <1>4, <1>8, <1>11, <2>2, Zenon DEF l
<1>13. o < Len(data)
  <2>1. Len(data) \in Nat
    OBVIOUS
  <2> QED
    BY <1>3, <2>1
<1>14. PICK count : count = Byte[From(data, o)]
  OBVIOUS
<1>15. count = [value |-> n, left |-> From(data, o + 1)]
  BY <1>3, <1>13, <1>14, ByteAt
<1>16. count # NoRead /\ count.value = n /\ count.left = From(data, o + 1)
  <2>1. n # Invalid
    BY ProtocolAssumption
  <2>2. count.value = n /\ count.left = From(data, o + 1)
    BY <1>15
  <2>3. NoRead.value = Invalid
    BY DEF NoRead
  <2> QED
    BY <2>1, <2>2, <2>3, Zenon
<1> QED
  BY <1>a, <1>4, <1>12, <1>14, <1>16, Zenon DEF ReadList, all

(* Of different keys, a map keeps every value.                             *)
LEMMA Emplaced ==
  ASSUME NEW n \in Nat, NEW keys \in Strings(n), NEW texts \in Strings(n),
         \A i, j \in 1..n : keys[i] = keys[j] => i = j
  PROVE  Emplace(Alternate(n, keys, texts)) = Pairs(n, keys, texts)
<1> USE DEF Strings
<1> DEFINE all == Alternate(n, keys, texts)
<1>1. /\ all \in [1..(2 * n) -> Seq(Nat)]
      /\ \A m \in 1..n : all[2 * m - 1] = keys[m] /\ all[2 * m] = texts[m]
  <2>1. InTurn(Alternate(n, keys, texts), n, keys, texts, Seq(Nat))
    BY Alternates, Zenon
  <2> QED
    BY <2>1, Zenon DEF all, InTurn
<1> HIDE DEF all
<1>2. Len(all) \div 2 = n
  <2>1. 2 * n \in Nat /\ (2 * n) \div 2 = n
    OBVIOUS
  <2>2. Len(all) = 2 * n
    BY <1>1, <2>1, AsSequence
  <2> QED
    BY <2>1, <2>2
<1>3. {i \in 1..n : \A j \in 1..(i - 1) : all[2 * j - 1] # all[2 * i - 1]} = 1..n
  <2> SUFFICES ASSUME NEW i \in 1..n, NEW j \in 1..(i - 1) PROVE all[2 * j - 1] # all[2 * i - 1]
    OBVIOUS
  <2>1. j \in 1..n /\ j # i
    OBVIOUS
  <2> QED
    BY <1>1, <2>1, Zenon
<1>4. Emplace(all) =
        {[key |-> all[2 * i - 1], value |-> Text(all[2 * i])] :
           i \in {i \in 1..n : \A j \in 1..(i - 1) : all[2 * j - 1] # all[2 * i - 1]}}
  BY <1>2, Zenon DEF Emplace
<1>5. Emplace(all) = {[key |-> all[2 * i - 1], value |-> Text(all[2 * i])] : i \in 1..n}
  BY <1>3, <1>4, Zenon
<1>6. {[key |-> all[2 * i - 1], value |-> Text(all[2 * i])] : i \in 1..n} =
        {[key |-> keys[i], value |-> Text(texts[i])] : i \in 1..n}
  <2>1. \A i \in 1..n : [key |-> all[2 * i - 1], value |-> Text(all[2 * i])] =
                         [key |-> keys[i], value |-> Text(texts[i])]
    BY <1>1, Zenon
  <2> DEFINE F(i) == [key |-> all[2 * i - 1], value |-> Text(all[2 * i])]
             G(i) == [key |-> keys[i], value |-> Text(texts[i])]
  <2>2. \A i \in 1..n : F(i) = G(i)
    BY <2>1
  <2> HIDE DEF F, G
  <2>3. {F(i) : i \in 1..n} = {G(i) : i \in 1..n}
    BY <2>2
  <2> QED
    BY <2>3 DEF F, G
<1> QED
  BY <1>5, <1>6 DEF all, Pairs

(* A list that fits is its count and its items, all of them encoded.       *)
LEMMA JoinedList ==
  ASSUME NEW n \in Nat, NEW codes \in [1..n -> Seq(Nat) \cup {Invalid}],
         Join(<<<<n>>>> \o codes) # Invalid
  PROVE  /\ codes \in [1..n -> Seq(Nat)] /\ codes \in Seq(Seq(Nat)) /\ Len(codes) = n
         /\ Join(<<<<n>>>> \o codes) = FlattenSeq(Listed(codes))
         /\ FlattenSeq(Listed(codes)) \in Seq(Nat)
<1> DEFINE T == Seq(Nat) \cup {Invalid}
           head == <<<<n>>>>
           all == head \o codes
<1>1. codes \in Seq(T) /\ Len(codes) = n
  BY AsSequence
<1>2. head \in Seq(T) /\ Len(head) = 1
  <2>1. <<n>> \in T
    OBVIOUS
  <2> HIDE DEF T
  <2> QED
    BY <2>1
<1>3. /\ all \in Seq(T) /\ Len(all) = 1 + n
      /\ \A i \in 1..(1 + n) : all[i] = IF i <= 1 THEN head[i] ELSE codes[i - 1]
  <2> HIDE DEF head, T
  <2>1. /\ head \o codes \in Seq(T) /\ Len(head \o codes) = Len(head) + Len(codes)
        /\ \A i \in 1..(Len(head) + Len(codes)) :
             (head \o codes)[i] = IF i <= Len(head) THEN head[i] ELSE codes[i - Len(head)]
    BY <1>1, <1>2, ConcatProperties
  <2> QED
    BY <1>1, <1>2, <2>1, Zenon
<1>4. Join(all) = FlattenSeq(all) /\ \A i \in DOMAIN all : all[i] # Invalid
  <2>1. Join(all) # Invalid
    OBVIOUS
  <2> HIDE DEF all
  <2> QED
    BY <2>1, JoinFits
<1>5. ASSUME NEW m \in 1..n PROVE codes[m] \in Seq(Nat)
  <2> HIDE DEF all, head
  <2>1. PICK l \in 1..(1 + n) : l = m + 1 /\ l - 1 = m /\ ~(l =< 1)
    OBVIOUS
  <2>2. all[l] = codes[m]
    BY <1>3, <2>1, Zenon
  <2>3. DOMAIN all = 1..(1 + n)
    BY <1>3
  <2>4. all[l] # Invalid
    BY <1>4, <2>3, Zenon
  <2> QED
    BY <2>2, <2>4
<1>6. codes \in [1..n -> Seq(Nat)]
  BY <1>5
<1>7. codes \in Seq(Seq(Nat)) /\ Len(codes) = n
  BY <1>6, AsSequence
<1>8. all = Listed(codes)
  BY <1>7, Zenon DEF Listed
<1>9. FlattenSeq(Listed(codes)) \in Seq(Nat)
  <2>1. Listed(codes) \in Seq(Seq(Nat))
    BY <1>7, ListedType
  <2> QED
    BY <2>1, FlattenType
<1> QED
  BY <1>4, <1>6, <1>7, <1>8, <1>9

(* A list of strings that fits.                                            *)
LEMMA StringListFits ==
  ASSUME NEW n \in Nat, NEW items \in [1..n -> Seq(Nat)], AppendList(items, AppendString) # Invalid
  PROVE  /\ AppendList(items, AppendString) = FlattenSeq(Listed(StringCodes(n, items)))
         /\ FlattenSeq(Listed(StringCodes(n, items))) \in Seq(Nat)
<1> DEFINE codes == StringCodes(n, items)
           c == [m \in 1..n |-> AppendString(items[m])]
<1>1. Len(items) = n /\ DOMAIN items = 1..n
  BY AsSequence
<1>2. AppendList(items, AppendString) = Join(<<<<n>>>> \o c)
  BY <1>1, Zenon DEF AppendList
<1>3. \A m \in 1..n : /\ AppendString(items[m]) \in Seq(Nat) \cup {Invalid}
                      /\ AppendString(items[m]) # Invalid => AppendString(items[m]) = Coded(items[m])
  BY StringFits
<1>4. c \in [1..n -> Seq(Nat) \cup {Invalid}] /\ \A m \in 1..n : c[m] = AppendString(items[m])
  BY <1>3
<1>c. c = [m \in 1..n |-> c[m]]
  OBVIOUS
<1> HIDE DEF c
<1>5. /\ c \in [1..n -> Seq(Nat)] /\ Join(<<<<n>>>> \o c) = FlattenSeq(Listed(c))
      /\ FlattenSeq(Listed(c)) \in Seq(Nat)
  BY <1>2, <1>4, JoinedList
<1>6. \A m \in 1..n : c[m] = Coded(items[m])
  <2>1. \A m \in 1..n : c[m] # Invalid
    BY <1>5, ProtocolAssumption
  <2> QED
    BY <1>3, <1>4, <2>1, Zenon
<1>7. c = codes
  BY <1>c, <1>6, Zenon DEF StringCodes, PairCodes
<1> QED
  BY <1>2, <1>5, <1>7, Zenon

(* A list of values that fits: the text of each.                           *)
LEMMA ValueListFits ==
  ASSUME NEW n \in Nat, NEW items \in [1..n -> [type : STRING, text : Seq(Nat)]],
         NEW texts \in [1..n -> Seq(Nat)], \A m \in 1..n : texts[m] = items[m].text,
         AppendList(items, AppendCommandValue) # Invalid
  PROVE  /\ AppendList(items, AppendCommandValue) = FlattenSeq(Listed(StringCodes(n, texts)))
         /\ FlattenSeq(Listed(StringCodes(n, texts))) \in Seq(Nat)
<1> DEFINE codes == StringCodes(n, texts)
           c == [m \in 1..n |-> AppendCommandValue(items[m])]
<1>1. Len(items) = n /\ DOMAIN items = 1..n
  BY AsSequence
<1>2. AppendList(items, AppendCommandValue) = Join(<<<<n>>>> \o c)
  BY <1>1, Zenon DEF AppendList
<1>3. \A m \in 1..n : /\ AppendCommandValue(items[m]) \in Seq(Nat) \cup {Invalid}
                      /\ AppendCommandValue(items[m]) # Invalid =>
                           AppendCommandValue(items[m]) = Coded(items[m].text)
  <2>1. \A m \in 1..n : items[m].text \in Seq(Nat)
    OBVIOUS
  <2>2. \A m \in 1..n : /\ AppendString(items[m].text) \in Seq(Nat) \cup {Invalid}
                        /\ AppendString(items[m].text) # Invalid =>
                             AppendString(items[m].text) = Coded(items[m].text)
    BY <2>1, StringFits
  <2>3. Invalid \in Seq(Nat) \cup {Invalid}
    OBVIOUS
  <2> QED
    BY <2>2, <2>3, Zenon DEF AppendCommandValue
<1>4. c \in [1..n -> Seq(Nat) \cup {Invalid}] /\ \A m \in 1..n : c[m] = AppendCommandValue(items[m])
  BY <1>3
<1>c. c = [m \in 1..n |-> c[m]]
  OBVIOUS
<1> HIDE DEF c
<1>5. /\ c \in [1..n -> Seq(Nat)] /\ Join(<<<<n>>>> \o c) = FlattenSeq(Listed(c))
      /\ FlattenSeq(Listed(c)) \in Seq(Nat)
  BY <1>2, <1>4, JoinedList
<1>6. \A m \in 1..n : c[m] = Coded(texts[m])
  <2>1. \A m \in 1..n : c[m] # Invalid
    BY <1>5, ProtocolAssumption
  <2> QED
    BY <1>3, <1>4, <2>1, Zenon
<1>7. c = codes
  BY <1>c, <1>6, Zenon DEF StringCodes, PairCodes
<1> QED
  BY <1>2, <1>5, <1>7, Zenon

(* A pair that fits: its key, then the text of its value.                  *)
LEMMA PairFits ==
  ASSUME NEW p \in [key : Seq(Nat), value : [type : STRING, text : Seq(Nat)]]
  PROVE  /\ AppendPair(p) \in Seq(Nat) \cup {Invalid}
         /\ AppendPair(p) # Invalid => AppendPair(p) = Coded(p.key) \o Coded(p.value.text)
<1>1. p.key \in Seq(Nat) /\ p.value.text \in Seq(Nat)
  OBVIOUS
<1>2. /\ Coded(p.key) \in Seq(Nat) /\ Coded(p.value.text) \in Seq(Nat)
  BY <1>1, CodedType
<1>3. Coded(p.key) \o Coded(p.value.text) \in Seq(Nat)
  BY <1>2, Joined
<1>4. CASE AppendPair(p) # Invalid
  <2> DEFINE s == AppendString(p.key)
             t == AppendCommandValue(p.value)
  <2>1. AppendPair(p) = Join(<<s, t>>)
    BY Zenon DEF AppendPair
  <2>2. Join(<<s, t>>) = FlattenSeq(<<s, t>>) /\ \A i \in DOMAIN <<s, t>> : <<s, t>>[i] # Invalid
    <3> HIDE DEF s, t
    <3> QED
      BY <1>4, <2>1, JoinFits
  <2>3. s # Invalid /\ t # Invalid
    <3> HIDE DEF s, t
    <3>1. 1 \in DOMAIN <<s, t>> /\ 2 \in DOMAIN <<s, t>> /\ <<s, t>>[1] = s /\ <<s, t>>[2] = t
      OBVIOUS
    <3> QED
      BY <2>2, <3>1, Zenon
  <2>4. s = Coded(p.key)
    BY <1>1, <2>3, StringFits
  <2>5. t = Coded(p.value.text)
    <3>1. t = AppendString(p.value.text)
      BY <2>3, Zenon DEF AppendCommandValue
    <3> QED
      BY <1>1, <2>3, <3>1, StringFits
  <2>6. FlattenSeq(<<Coded(p.key), Coded(p.value.text)>>) = Coded(p.key) \o Coded(p.value.text)
    BY <1>2, FlattenPair
  <2> QED
    BY <1>3, <2>1, <2>2, <2>4, <2>5, <2>6
<1> QED
  BY <1>3, <1>4

(* A list of pairs that fits.                                              *)
LEMMA PairListFits ==
  ASSUME NEW n \in Nat,
         NEW items \in [1..n -> [key : Seq(Nat), value : [type : STRING, text : Seq(Nat)]]],
         NEW keys \in Strings(n), \A m \in 1..n : keys[m] = items[m].key,
         NEW texts \in Strings(n), \A m \in 1..n : texts[m] = items[m].value.text,
         AppendList(items, AppendPair) # Invalid
  PROVE  /\ AppendList(items, AppendPair) = FlattenSeq(Listed(PairCodes(n, keys, texts)))
         /\ FlattenSeq(Listed(PairCodes(n, keys, texts))) \in Seq(Nat)
<1> USE DEF Strings
<1> DEFINE codes == PairCodes(n, keys, texts)
           c == [m \in 1..n |-> AppendPair(items[m])]
<1>1. Len(items) = n /\ DOMAIN items = 1..n
  BY AsSequence
<1>2. AppendList(items, AppendPair) = Join(<<<<n>>>> \o c)
  BY <1>1, Zenon DEF AppendList
<1>3. \A m \in 1..n : /\ AppendPair(items[m]) \in Seq(Nat) \cup {Invalid}
                      /\ AppendPair(items[m]) # Invalid =>
                           AppendPair(items[m]) = Coded(items[m].key) \o Coded(items[m].value.text)
  <2>1. \A m \in 1..n : items[m] \in [key : Seq(Nat), value : [type : STRING, text : Seq(Nat)]]
    OBVIOUS
  <2> QED
    BY <2>1, PairFits, Zenon
<1>4. c \in [1..n -> Seq(Nat) \cup {Invalid}] /\ \A m \in 1..n : c[m] = AppendPair(items[m])
  BY <1>3
<1>c. c = [m \in 1..n |-> c[m]]
  OBVIOUS
<1> HIDE DEF c
<1>5. /\ c \in [1..n -> Seq(Nat)] /\ Join(<<<<n>>>> \o c) = FlattenSeq(Listed(c))
      /\ FlattenSeq(Listed(c)) \in Seq(Nat)
  BY <1>2, <1>4, JoinedList
<1>6. \A m \in 1..n : c[m] = Coded(keys[m]) \o Coded(texts[m])
  <2>1. \A m \in 1..n : c[m] # Invalid
    BY <1>5, ProtocolAssumption
  <2> QED
    BY <1>3, <1>4, <2>1, Zenon
<1>7. c = codes
  BY <1>c, <1>6, Zenon DEF StringCodes, PairCodes
<1> QED
  BY <1>2, <1>5, <1>7, Zenon

(* The elements of a finite set in some order, each once.                  *)
LEMMA Ordered ==
  ASSUME NEW S, IsFiniteSet(S)
  PROVE  /\ Cardinality(S) \in Nat
         /\ SetToSeq(S) \in [1..Cardinality(S) -> S]
         /\ \A i, j \in 1..Cardinality(S) : SetToSeq(S)[i] = SetToSeq(S)[j] => i = j
         /\ \A p \in S : \E i \in 1..Cardinality(S) : SetToSeq(S)[i] = p
<1> DEFINE n == Cardinality(S)
<1>1. n \in Nat /\ ExistsBijection(1..n, S)
  BY FS_CardinalityType
<1>2. \E f \in [1..n -> S] : IsInjective(f)
  BY <1>1, Zenon DEF ExistsBijection, Bijection, Injection
<1>3. SetToSeq(S) \in [1..n -> S] /\ IsInjective(SetToSeq(S))
  BY <1>2, Zenon DEF SetToSeq
<1>4. PICK q : q = SetToSeq(S)
  OBVIOUS
<1>5. q \in [1..n -> S] /\ IsInjective(q) /\ q \in Injection(1..n, S)
  BY <1>3, <1>4, Zenon DEF Injection
<1>6. IsFiniteSet(1..n) /\ Cardinality(1..n) = n
  BY <1>1, FS_Interval
<1>7. q \in Surjection(1..n, S)
  BY <1>5, <1>6, FS_Injection, Zenon
<1>8. /\ \A i, j \in 1..n : q[i] = q[j] => i = j
      /\ \A p \in S : \E i \in 1..n : q[i] = p
  <2>1. DOMAIN q = 1..n
    BY <1>5
  <2> QED
    BY <1>5, <1>7, <2>1, Zenon DEF IsInjective, Surjection
<1> QED
  BY <1>1, <1>4, <1>5, <1>8, Zenon

-----------------------------------------------------------------------------
(* A pair with another value, and a request with other named arguments.    *)
LEMMA PairSet ==
  ASSUME NEW S, NEW T, NEW p \in [key : S, value : T], NEW t
  PROVE  [p EXCEPT !.value = t] = [key |-> p.key, value |-> t]
OBVIOUS

LEMMA NamedSet ==
  ASSUME NEW i, NEW x, NEW y, NEW z, NEW w, NEW b, NEW q,
         q = [id |-> i, path |-> x, positional |-> y, named |-> z, raw |-> w]
  PROVE  [q EXCEPT !.named = b] = [id |-> i, path |-> x, positional |-> y, named |-> b, raw |-> w]
OBVIOUS

(* A request as it arrives.                                                *)
LEMMA DecodedParts ==
  ASSUME NEW c \in Request
  PROVE  AsDecoded(c) =
           [id |-> c.id, path |-> c.path,
            positional |-> [i \in DOMAIN c.positional |-> Text(c.positional[i].text)],
            named |-> {[p EXCEPT !.value = Text(@.text)] : p \in c.named}, raw |-> c.raw]
<1>0. c = [id |-> c.id, path |-> c.path, positional |-> c.positional, named |-> c.named, raw |-> c.raw]
  BY DEF Request
<1>a. PICK a : a = [i \in DOMAIN c.positional |-> Text(c.positional[i].text)]
  OBVIOUS
<1>b. PICK b : b = {[p EXCEPT !.value = Text(@.text)] : p \in c.named}
  OBVIOUS
<1>1. AsDecoded(c) = [c EXCEPT !.positional = a, !.named = b]
  BY <1>a, <1>b, Zenon DEF AsDecoded
<1>2. [c EXCEPT !.positional = a, !.named = b] =
        [id |-> c.id, path |-> c.path, positional |-> a, named |-> b, raw |-> c.raw]
  <2>1. PICK i, x, y, z, w : /\ i = c.id /\ x = c.path /\ y = c.positional /\ z = c.named /\ w = c.raw
                             /\ c = [id |-> i, path |-> x, positional |-> y, named |-> z, raw |-> w]
    BY <1>0, Zenon
  <2>2. PICK q : q = [c EXCEPT !.positional = a]
    OBVIOUS
  <2>3. q = [id |-> i, path |-> x, positional |-> a, named |-> z, raw |-> w]
    BY <2>1, <2>2
  <2>4. [q EXCEPT !.named = b] = [id |-> i, path |-> x, positional |-> a, named |-> b, raw |-> w]
    BY <2>3, NamedSet
  <2> QED
    BY <2>1, <2>2, <2>4, Zenon
<1> QED
  BY <1>1, <1>2, <1>a, <1>b, Zenon

(* A request can arrive.                                                   *)
LEMMA DecodedType ==
  ASSUME NEW c \in Request
  PROVE  AsDecoded(c) \in Context /\ AsDecoded(c) # Invalid
<1> DEFINE CommandValue == [type : STRING, text : Seq(Nat)]
           Pair == [key : Seq(Nat), value : CommandValue]
           TextValue == [type : {"String"}, text : Seq(Nat)]
           TextPair == [key : Seq(Nat), value : TextValue]
<1>0. /\ c.id \in Nat /\ c.path \in Seq(Seq(Nat)) /\ c.positional \in Seq(CommandValue)
      /\ c.named \in SUBSET Pair /\ c.raw \in Seq(Nat)
  BY DEF Request
<1>a. PICK a : a = [i \in DOMAIN c.positional |-> Text(c.positional[i].text)]
  OBVIOUS
<1>b. PICK b : b = {[p EXCEPT !.value = Text(@.text)] : p \in c.named}
  OBVIOUS
<1>1. AsDecoded(c) = [id |-> c.id, path |-> c.path, positional |-> a, named |-> b, raw |-> c.raw]
  BY <1>a, <1>b, DecodedParts, Zenon
<1>v. \A text \in Seq(Nat) : Text(text) \in TextValue
  BY DEF Text, Value
<1>2. a \in Seq(TextValue)
  <2>1. PICK n \in Nat : n = Len(c.positional)
    BY <1>0
  <2>2. a \in [1..n -> TextValue]
    <3>0. \A v \in CommandValue : v.text \in Seq(Nat)
      OBVIOUS
    <3> HIDE DEF CommandValue, TextValue
    <3>1. DOMAIN c.positional = 1..n /\ \A i \in 1..n : c.positional[i].text \in Seq(Nat)
      BY <1>0, <2>1, <3>0
    <3> QED
      BY <1>a, <1>v, <3>1
  <2> HIDE DEF CommandValue, TextValue
  <2> QED
    BY <2>2, AsSequence
<1>3. b \in SUBSET TextPair
  <2> SUFFICES ASSUME NEW p \in c.named PROVE [p EXCEPT !.value = Text(@.text)] \in TextPair
    BY <1>b, Zenon
  <2>1. PICK t : t = Text(p.value.text)
    OBVIOUS
  <2>2. p \in Pair /\ p.key \in Seq(Nat) /\ p.value.text \in Seq(Nat)
    BY <1>0
  <2>3. t \in TextValue
    BY <1>v, <2>1, <2>2
  <2>4. [p EXCEPT !.value = t] = [key |-> p.key, value |-> t]
    BY <2>2, PairSet
  <2>5. [key |-> p.key, value |-> t] \in TextPair
    BY <2>2, <2>3
  <2> QED
    BY <2>1, <2>4, <2>5, Zenon
<1>4. AsDecoded(c) \in Context
  BY <1>0, <1>1, <1>2, <1>3 DEF Context
<1> QED
  BY <1>4, ProtocolAssumption

(* A request that is encoded is decoded as it was, but for the types of    *)
(* its arguments: with the same number, path, positional and named         *)
(* arguments in the same places, and raw text.                             *)
THEOREM RequestTravels ==
  ASSUME NEW c \in Request, c.path # <<>>, IsMap(c.named), EncodeRequest(c) \in Seq(Nat)
  PROVE  DecodeRequest[EncodeRequest(c)] = AsDecoded(c) /\ EncodeRequest(c) # <<>>
<1> DEFINE CommandValue == [type : STRING, text : Seq(Nat)]
           Pair == [key : Seq(Nat), value : CommandValue]
           head == <<RequestMagic, Version, c.id>>
           path == AppendList(c.path, AppendString)
           positional == AppendList(c.positional, AppendCommandValue)
           pairs == SetToSeq(c.named)
           named == AppendList(pairs, AppendPair)
           raw == AppendString(c.raw)
           parts == <<head, path, positional, named, raw>>
           l == Len(c.path)
           k == Len(c.positional)
           n == Cardinality(c.named)
           values == [m \in 1..k |-> c.positional[m].text]
           keys == [m \in 1..n |-> pairs[m].key]
           texts == [m \in 1..n |-> pairs[m].value.text]
           pathCodes == StringCodes(l, c.path)
           valueCodes == StringCodes(k, values)
           pairCodes == PairCodes(n, keys, texts)
           data == EncodeRequest(c)
<1>1. /\ c = [id |-> c.id, path |-> c.path, positional |-> c.positional, named |-> c.named, raw |-> c.raw]
      /\ c.id \in Nat /\ c.path \in Seq(Seq(Nat)) /\ c.positional \in Seq(CommandValue)
      /\ c.named \in SUBSET Pair /\ c.raw \in Seq(Nat)
  BY DEF Request
<1>2. IsFiniteSet(c.named) /\ \A p, q \in c.named : p.key = q.key => p = q
  BY DEF IsMap
<1>3. /\ n \in Nat /\ pairs \in [1..n -> c.named]
      /\ \A i, j \in 1..n : pairs[i] = pairs[j] => i = j
      /\ \A p \in c.named : \E i \in 1..n : pairs[i] = p
  BY <1>2, Ordered
<1>4. l \in Nat /\ c.path \in [1..l -> Seq(Nat)] /\ k \in Nat /\ c.positional \in [1..k -> CommandValue]
  <2> HIDE DEF CommandValue
  <2> QED
    BY <1>1
<1> HIDE DEF pairs, n
<1>5. pairs \in [1..n -> Pair]
  BY <1>1, <1>3
<1>6. data = Join(parts)
  BY Zenon DEF EncodeRequest, pairs
<1>7. data = FlattenSeq(parts) /\ \A i \in DOMAIN parts : parts[i] # Invalid
  <2>1. data # Invalid
    BY ProtocolAssumption
  <2> HIDE DEF parts, data
  <2> QED
    BY <1>6, <2>1, JoinFits
<1>8. head # Invalid /\ path # Invalid /\ positional # Invalid /\ named # Invalid /\ raw # Invalid
  <2> HIDE DEF head, path, positional, named, raw
  <2>1. /\ 1 \in DOMAIN parts /\ 2 \in DOMAIN parts /\ 3 \in DOMAIN parts /\ 4 \in DOMAIN parts
        /\ 5 \in DOMAIN parts
        /\ parts[1] = head /\ parts[2] = path /\ parts[3] = positional /\ parts[4] = named
        /\ parts[5] = raw
    OBVIOUS
  <2> HIDE DEF parts
  <2> QED
    BY <1>7, <2>1, Zenon
<1>13. values \in [1..k -> Seq(Nat)] /\ keys \in Strings(n) /\ texts \in Strings(n)
  <2>1. \A m \in 1..n : pairs[m] \in Pair
    BY <1>5
  <2>2. \A p \in Pair : p.key \in Seq(Nat) /\ p.value.text \in Seq(Nat)
    OBVIOUS
  <2> QED
    BY <1>4, <2>1, <2>2 DEF Strings
<1>9. path = FlattenSeq(Listed(pathCodes)) /\ path \in Seq(Nat)
  BY <1>4, <1>8, StringListFits
<1>10. positional = FlattenSeq(Listed(valueCodes)) /\ positional \in Seq(Nat)
  <2>1. \A m \in 1..k : values[m] = c.positional[m].text
    OBVIOUS
  <2> HIDE DEF values
  <2> QED
    BY <1>4, <1>13, <1>8, <2>1, ValueListFits, Zenon
<1>11. named = FlattenSeq(Listed(pairCodes)) /\ named \in Seq(Nat)
  <2>1. \A m \in 1..n : keys[m] = pairs[m].key /\ texts[m] = pairs[m].value.text
    OBVIOUS
  <2> HIDE DEF keys, texts
  <2> QED
    <3>1. n \in Nat /\ pairs \in [1..n -> Pair] /\ keys \in Strings(n) /\ texts \in Strings(n)
      BY <1>3, <1>5, <1>13
    <3>2. \A m \in 1..n : keys[m] = pairs[m].key
      BY <2>1
    <3>3. \A m \in 1..n : texts[m] = pairs[m].value.text
      BY <2>1
    <3>4. AppendList(pairs, AppendPair) # Invalid
      BY <1>8
    <3> QED
      BY <3>1, <3>2, <3>3, <3>4, PairListFits, Zenon
<1>12. raw = Coded(c.raw) /\ raw \in Seq(Nat)
  BY <1>1, <1>8, StringFits
<1>14. head \in Seq(Nat) /\ Len(head) = 3 /\ head[1] = RequestMagic /\ head[2] = Version /\ head[3] = c.id
  BY <1>1 DEF RequestMagic, Version
<1> HIDE DEF head, path, positional, named, raw
<1>15. parts \in Seq(Seq(Nat)) /\ Len(parts) = 5 /\ parts[1] = head /\ parts[2] = path
       /\ parts[3] = positional /\ parts[4] = named /\ parts[5] = raw
  BY <1>9, <1>10, <1>11, <1>12, <1>14
<1> HIDE DEF parts
<1>d. data \in Seq(Nat)
  OBVIOUS
<1> HIDE DEF data, pathCodes, valueCodes, pairCodes, values, keys, texts
<1>16. PICK off \in [0..5 -> Nat] :
         /\ off[0] = 0 /\ off[5] = 0 + Len(data)
         /\ \A m \in 1..5 : off[m] = off[m - 1] + Len(parts[m]) /\ At(data, off[m - 1], parts[m])
  <2>1. At(data, 0, data)
    BY <1>d, AtSelf
  <2>2. \E off \in [0..Len(parts) -> Nat] :
          /\ off[0] = 0
          /\ \A m \in 1..Len(parts) : off[m] = off[m - 1] + Len(parts[m]) /\ At(data, off[m - 1], parts[m])
          /\ off[Len(parts)] = 0 + Len(FlattenSeq(parts))
    <3>1. 0 \in Nat /\ At(data, 0, FlattenSeq(parts))
      BY <1>7, <2>1
    <3> QED
      BY <1>d, <1>15, <3>1, AtParts, Zenon
  <2> QED
    BY <1>7, <1>15, <2>2, Zenon
<1>17. /\ off[1] = 3 /\ off[2] = 3 + Len(path) /\ off[3] = off[2] + Len(positional)
       /\ off[4] = off[3] + Len(named) /\ off[5] = off[4] + Len(raw) /\ off[5] = Len(data)
       /\ At(data, 0, head) /\ At(data, off[1], path) /\ At(data, off[2], positional)
       /\ At(data, off[3], named) /\ At(data, off[4], raw)
  <2>1. /\ 1 \in 1..5 /\ 2 \in 1..5 /\ 3 \in 1..5 /\ 4 \in 1..5 /\ 5 \in 1..5
        /\ 1 - 1 = 0 /\ 2 - 1 = 1 /\ 3 - 1 = 2 /\ 4 - 1 = 3 /\ 5 - 1 = 4 /\ 0 + 3 = 3
    OBVIOUS
  <2>2. /\ off[1] = off[0] + Len(parts[1]) /\ At(data, off[0], parts[1])
        /\ off[2] = off[1] + Len(parts[2]) /\ At(data, off[1], parts[2])
        /\ off[3] = off[2] + Len(parts[3]) /\ At(data, off[2], parts[3])
        /\ off[4] = off[3] + Len(parts[4]) /\ At(data, off[3], parts[4])
        /\ off[5] = off[4] + Len(parts[5]) /\ At(data, off[4], parts[5])
    BY <1>16, <2>1, Zenon
  <2>3. Len(data) \in Nat /\ 0 + Len(data) = Len(data)
    BY <1>d
  <2> QED
    BY <1>14, <1>15, <1>16, <2>1, <2>2, <2>3, Zenon
<1>18. 3 =< Len(data) /\ data[1] = RequestMagic /\ data[2] = Version /\ data[3] = c.id
  <2>1. At(data, 0, head)
    BY <1>17
  <2>2. 0 + Len(head) =< Len(data) /\ \A j \in 1..Len(head) : data[0 + j] = head[j]
    BY <2>1, Zenon DEF At
  <2>3. 0 + 3 =< Len(data) /\ \A j \in 1..3 : data[0 + j] = head[j]
    BY <1>14, <2>2, Zenon
  <2>4. 3 =< Len(data)
    BY <1>d, <2>3
  <2>5. data[1] = head[1] /\ data[2] = head[2] /\ data[3] = head[3]
    BY <2>3
  <2> QED
    BY <1>14, <2>4, <2>5, Zenon
<1>19. PICK magicRead : magicRead = Byte[data]
  OBVIOUS
<1>20. PICK versionRead : versionRead = Byte[magicRead.left]
  OBVIOUS
<1>21. PICK idRead : idRead = Byte[versionRead.left]
  OBVIOUS
<1>22. PICK pathRead : pathRead = ReadList(1, idRead.left)
  OBVIOUS
<1>23. PICK positionalRead : positionalRead = ReadList(1, pathRead.left)
  OBVIOUS
<1>24. PICK namedRead : namedRead = ReadList(2, positionalRead.left)
  OBVIOUS
<1>25. PICK rawRead : rawRead = ReadString[namedRead.left]
  OBVIOUS
<1>26. From(data, 0) = data
  <2>1. SubSeq(data, 1, Len(data)) = data
    BY <1>d
  <2>2. 0 + 1 = 1
    OBVIOUS
  <2> QED
    BY <2>1, <2>2, Zenon DEF From
<1>27. magicRead.value = RequestMagic /\ magicRead.left = From(data, 1)
  <2>1. Byte[From(data, 0)] = [value |-> data[0 + 1], left |-> From(data, 0 + 1)]
    <3>1. 0 \in Nat /\ 0 < Len(data)
      BY <1>d, <1>18
    <3> QED
      BY <1>d, <3>1, ByteAt
  <2>2. 0 + 1 = 1
    OBVIOUS
  <2>3. magicRead = [value |-> data[1], left |-> From(data, 1)]
    BY <1>18, <1>19, <1>26, <2>1, <2>2, Zenon
  <2>4. magicRead.value = data[1] /\ magicRead.left = From(data, 1)
    BY <2>3
  <2> QED
    BY <1>18, <2>4, Zenon
<1>28. versionRead.value = Version /\ versionRead.left = From(data, 2)
  <2>1. Byte[From(data, 1)] = [value |-> data[1 + 1], left |-> From(data, 1 + 1)]
    <3>1. 1 \in Nat /\ 1 < Len(data)
      BY <1>d, <1>18
    <3> QED
      BY <1>d, <3>1, ByteAt
  <2>2. 1 + 1 = 2
    OBVIOUS
  <2>3. versionRead = [value |-> data[2], left |-> From(data, 2)]
    BY <1>18, <1>20, <1>27, <2>1, <2>2, Zenon
  <2>4. versionRead.value = data[2] /\ versionRead.left = From(data, 2)
    BY <2>3
  <2> QED
    BY <1>18, <2>4, Zenon
<1>29. idRead.value = c.id /\ idRead.left = From(data, off[1])
  <2>1. Byte[From(data, 2)] = [value |-> data[2 + 1], left |-> From(data, 2 + 1)]
    <3>1. 2 \in Nat /\ 2 < Len(data)
      BY <1>d, <1>18
    <3> QED
      BY <1>d, <3>1, ByteAt
  <2>2. 2 + 1 = 3
    OBVIOUS
  <2>3. idRead = [value |-> data[3], left |-> From(data, 3)]
    BY <1>21, <1>28, <2>1, <2>2, Zenon
  <2>4. idRead.value = data[3] /\ idRead.left = From(data, 3)
    BY <2>3
  <2> QED
    BY <1>17, <1>18, <2>4, Zenon
<1>30. off[1] \in Nat /\ off[2] \in Nat /\ off[3] \in Nat /\ off[4] \in Nat
  BY <1>16
<1>31. pathRead = [value |-> c.path, left |-> From(data, off[2])]
  <2>1. ReadList(1, From(data, off[1])) =
          [value |-> c.path, left |-> From(data, off[1] + Len(FlattenSeq(Listed(pathCodes))))]
    <3>1. At(data, off[1], FlattenSeq(Listed(pathCodes)))
      BY <1>9, <1>17
    <3> QED
      <4>1. l \in Nat /\ c.path \in Strings(l) /\ off[1] \in Nat
        BY <1>4, <1>30 DEF Strings
      <4> HIDE DEF l
      <4> QED
        BY <1>d, <3>1, <4>1, StringListAt, Zenon DEF pathCodes
  <2>2. off[1] + Len(FlattenSeq(Listed(pathCodes))) = off[2]
    BY <1>9, <1>17, Zenon
  <2> QED
    BY <1>22, <1>29, <2>1, <2>2, Zenon
<1>32. positionalRead = [value |-> values, left |-> From(data, off[3])]
  <2>1. ReadList(1, From(data, off[2])) =
          [value |-> values, left |-> From(data, off[2] + Len(FlattenSeq(Listed(valueCodes))))]
    <3>1. At(data, off[2], FlattenSeq(Listed(valueCodes)))
      BY <1>10, <1>17
    <3> QED
      <4>1. k \in Nat /\ values \in Strings(k) /\ off[2] \in Nat
        BY <1>4, <1>13, <1>30 DEF Strings
      <4> HIDE DEF k
      <4> QED
        BY <1>d, <3>1, <4>1, StringListAt, Zenon DEF valueCodes
  <2>2. off[2] + Len(FlattenSeq(Listed(valueCodes))) = off[3]
    BY <1>10, <1>17, Zenon
  <2>3. pathRead.left = From(data, off[2])
    BY <1>31
  <2> QED
    BY <1>23, <2>1, <2>2, <2>3, Zenon
<1>33. namedRead = [value |-> Alternate(n, keys, texts), left |-> From(data, off[4])]
  <2>1. ReadList(2, From(data, off[3])) =
          [value |-> Alternate(n, keys, texts),
           left |-> From(data, off[3] + Len(FlattenSeq(Listed(pairCodes))))]
    <3>1. At(data, off[3], FlattenSeq(Listed(pairCodes)))
      BY <1>11, <1>17
    <3> QED
      <4>1. n \in Nat /\ keys \in Strings(n) /\ texts \in Strings(n) /\ off[3] \in Nat
        BY <1>3, <1>13, <1>30
      <4> QED
        BY <1>d, <3>1, <4>1, PairListAt, Zenon DEF pairCodes
  <2>2. off[3] + Len(FlattenSeq(Listed(pairCodes))) = off[4]
    BY <1>11, <1>17, Zenon
  <2>3. positionalRead.left = From(data, off[3])
    BY <1>32
  <2> QED
    BY <1>24, <2>1, <2>2, <2>3, Zenon
<1>34. rawRead = [value |-> c.raw, left |-> <<>>]
  <2>1. /\ ReadString[From(data, off[4])] =
             [value |-> c.raw, left |-> From(data, off[4] + 1 + Len(c.raw))]
    <3>1. At(data, off[4], <<Len(c.raw)>> \o c.raw)
      BY <1>12, <1>17, Zenon DEF Coded
    <3> QED
      BY <1>d, <1>1, <1>30, <3>1, StringAt
  <2>2. off[4] + 1 + Len(c.raw) = Len(data)
    <3>1. Len(raw) = 1 + Len(c.raw) /\ Len(c.raw) \in Nat
      BY <1>1, <1>12, CodedType
    <3>2. \A a, b \in Nat : a + 1 + b = a + (1 + b)
      OBVIOUS
    <3> QED
      BY <1>17, <1>30, <3>1, <3>2, Zenon
  <2>3. From(data, Len(data)) = <<>>
    <3>1. Len(data) \in Nat /\ Len(data) \in 0..Len(data)
      BY <1>d
    <3>2. From(data, Len(data)) \in Seq(Nat) /\ Len(From(data, Len(data))) = Len(data) - Len(data)
      BY <1>d, <3>1, Following
    <3> QED
      BY <3>1, <3>2
  <2>4. namedRead.left = From(data, off[4])
    BY <1>33
  <2> QED
    BY <1>25, <2>1, <2>2, <2>3, <2>4, Zenon
<1>35. rawRead # NoRead /\ rawRead.value = c.raw /\ rawRead.left = <<>>
  BY <1>1, <1>34, ReadSomething
<1>36. /\ pathRead.value = c.path /\ positionalRead.value = values
       /\ namedRead.value = Alternate(n, keys, texts)
  BY <1>31, <1>32, <1>33
<1>37. DecodeRequest[data] =
         [id |-> c.id, path |-> c.path,
          positional |-> [i \in DOMAIN values |-> Text(values[i])],
          named |-> Emplace(Alternate(n, keys, texts)), raw |-> c.raw]
  <2>1. DecodeRequest[data] =
          IF rawRead = NoRead THEN Invalid
          ELSE IF \/ magicRead.value # RequestMagic \/ versionRead.value # Version
                  \/ rawRead.left # <<>> \/ pathRead.value = <<>>
          THEN Invalid
          ELSE [id |-> idRead.value, path |-> pathRead.value,
                positional |-> [i \in DOMAIN positionalRead.value |-> Text(positionalRead.value[i])],
                named |-> Emplace(namedRead.value), raw |-> rawRead.value]
    BY <1>d, <1>19, <1>20, <1>21, <1>22, <1>23, <1>24, <1>25, Zenon DEF DecodeRequest
  <2> QED
    BY <2>1, <1>27, <1>28, <1>29, <1>35, <1>36, Zenon
<1>38. [i \in DOMAIN values |-> Text(values[i])] = [i \in DOMAIN c.positional |-> Text(c.positional[i].text)]
  <2>1. DOMAIN values = 1..k /\ DOMAIN c.positional = 1..k
    BY <1>4, <1>13
  <2>2. \A i \in 1..k : values[i] = c.positional[i].text
    BY DEF values
  <2> QED
    BY <2>1, <2>2, Zenon
<1>39. Emplace(Alternate(n, keys, texts)) = {[p EXCEPT !.value = Text(@.text)] : p \in c.named}
  <2>1. \A m \in 1..n : keys[m] = pairs[m].key /\ texts[m] = pairs[m].value.text
    BY DEF keys, texts
  <2>2. \A i, j \in 1..n : keys[i] = keys[j] => i = j
    <3>1. \A m \in 1..n : pairs[m] \in c.named
      BY <1>3
    <3> SUFFICES ASSUME NEW i \in 1..n, NEW j \in 1..n, keys[i] = keys[j] PROVE i = j
      OBVIOUS
    <3>2. pairs[i].key = pairs[j].key
      BY <2>1
    <3>3. pairs[i] = pairs[j]
      BY <1>2, <3>1, <3>2
    <3> QED
      BY <1>3, <3>3
  <2>3. Emplace(Alternate(n, keys, texts)) = Pairs(n, keys, texts)
    BY <1>3, <1>13, <2>2, Emplaced, Zenon
  <2> DEFINE F(p) == [p EXCEPT !.value = Text(@.text)]
             G(i) == [key |-> keys[i], value |-> Text(texts[i])]
  <2>4. ASSUME NEW i \in 1..n PROVE G(i) = F(pairs[i]) /\ pairs[i] \in c.named
    <3>1. pairs[i] \in Pair /\ pairs[i] \in c.named
      BY <1>3, <1>5
    <3>a. PICK p : p = pairs[i]
      OBVIOUS
    <3>b. PICK t : t = Text(p.value.text)
      OBVIOUS
    <3>2. [p EXCEPT !.value = t] = [key |-> p.key, value |-> t]
      BY <3>1, <3>a, PairSet
    <3>3. F(pairs[i]) = [key |-> pairs[i].key, value |-> Text(pairs[i].value.text)]
      BY <3>a, <3>b, <3>2, Zenon DEF F
    <3> QED
      BY <2>1, <3>1, <3>3, Zenon DEF G
  <2> HIDE DEF F, G
  <2>5. {G(i) : i \in 1..n} = {F(p) : p \in c.named}
    <3>1. {G(i) : i \in 1..n} \subseteq {F(p) : p \in c.named}
      BY <2>4, Zenon
    <3>2. ASSUME NEW p \in c.named PROVE F(p) \in {G(i) : i \in 1..n}
      <4>1. PICK i \in 1..n : pairs[i] = p
        BY <1>3
      <4>2. G(i) = F(p)
        BY <2>4, <4>1
      <4> QED
        BY <4>2
    <3> QED
      BY <3>1, <3>2, Zenon
  <2> QED
    BY <2>3, <2>5, Zenon DEF F, G, Pairs
<1>40. AsDecoded(c) =
         [id |-> c.id, path |-> c.path,
          positional |-> [i \in DOMAIN c.positional |-> Text(c.positional[i].text)],
          named |-> {[p EXCEPT !.value = Text(@.text)] : p \in c.named}, raw |-> c.raw]
  BY DecodedParts, Zenon
<1>41. data # <<>>
  BY <1>d, <1>18
<1> QED
  BY <1>37, <1>38, <1>39, <1>40, <1>41 DEF data

-----------------------------------------------------------------------------
(* What a request leaves behind.                                           *)

Result == [success : BOOLEAN, code : Nat, message : Seq(Nat)]

\* The policy and the observer that were asked are these.
Ruled(e, hooks) ==
  e.did # "refused" =>
    /\ (e.did = "denied") = (hooks.policy /\ e.context.path[1] \in Guarded)
    /\ e.observed = hooks.observer

\* The writer takes the answer.
Taken(f, answer) == answer # Invalid /\ f.writable # 0

\* The call f, when e has been logged, the answer written, and the session is s.
Answered(f, s, e, answer) ==
  [session |-> s, log |-> Append(f.log, e),
   answers |-> IF Taken(f, answer) THEN Append(f.answers, answer) ELSE f.answers,
   writable |-> IF Taken(f, answer) THEN f.writable - 1 ELSE f.writable,
   wrote |-> Taken(f, answer), success |-> f.success, returned |-> f.returned]

(* The parts of a call.                                                    *)
LEMMA CallFields ==
  ASSUME NEW f \in Calls
  PROVE  /\ f.session \in Session /\ f.log \in Seq(Entry) /\ f.answers \in Seq(Seq(Nat))
         /\ f.writable \in Nat /\ f.wrote \in BOOLEAN /\ f.success \in BOOLEAN
         /\ f.returned \in BOOLEAN
         /\ f = [session |-> f.session, log |-> f.log, answers |-> f.answers,
                 writable |-> f.writable, wrote |-> f.wrote, success |-> f.success,
                 returned |-> f.returned]
BY DEF Calls

(* The parts of a session.                                                 *)
LEMMA SessionFields ==
  ASSUME NEW s \in Session
  PROVE  /\ s.config \in Config /\ s.hooks \in Hooks /\ s.requestID \in Nat
         /\ s.line \in Seq(Nat) /\ s.structured \in Seq(Nat)
         /\ s.discardUntilNewline \in BOOLEAN /\ s.expectedStructuredBytes \in Nat
BY DEF Session

(* Logging and then writing.                                               *)
LEMMA LoggedWritten ==
  ASSUME NEW f \in Calls, NEW did, NEW context, NEW result, NEW answer
  PROVE  Write(Log(f, did, context, result), answer) =
           Answered(f, f.session,
                    [did |-> did, context |-> context, result |-> result,
                     observed |-> did \in {"denied", "executed"} /\ f.session.hooks.observer],
                    answer)
<1>1. PICK e : e = [did |-> did, context |-> context, result |-> result,
                    observed |-> did \in {"denied", "executed"} /\ f.session.hooks.observer]
  OBVIOUS
<1>2. PICK g : g = Log(f, did, context, result)
  OBVIOUS
<1>3. g = [session |-> f.session, log |-> Append(f.log, e), answers |-> f.answers,
           writable |-> f.writable, wrote |-> f.wrote, success |-> f.success,
           returned |-> f.returned]
  <2>1. g = [f EXCEPT !.log = Append(f.log, e)]
    BY <1>1, <1>2, Zenon DEF Log
  <2>2. PICK s, l, a, w, o, u, r :
          /\ s = f.session /\ l = f.log /\ a = f.answers /\ w = f.writable /\ o = f.wrote
          /\ u = f.success /\ r = f.returned
    OBVIOUS
  <2>3. f = [session |-> s, log |-> l, answers |-> a, writable |-> w, wrote |-> o, success |-> u,
             returned |-> r]
    BY <2>2, CallFields, Zenon
  <2>4. PICK x : x = Append(f.log, e)
    OBVIOUS
  <2>5. g = [session |-> s, log |-> x, answers |-> a, writable |-> w, wrote |-> o, success |-> u,
             returned |-> r]
    BY <2>1, <2>3, <2>4
  <2> QED
    BY <2>2, <2>4, <2>5, Zenon
<1>4. Write(g, answer) = Answered(f, f.session, e, answer)
  <2>1. CASE Taken(f, answer)
    <3>1. Write(g, answer) = [g EXCEPT !.wrote = TRUE, !.writable = g.writable - 1,
                                       !.answers = Append(g.answers, answer)]
      BY <1>3, <2>1 DEF Write, Taken
    <3> QED
      BY <1>3, <2>1, <3>1 DEF Answered
  <2>2. CASE ~Taken(f, answer)
    <3>1. Write(g, answer) = [g EXCEPT !.wrote = FALSE]
      BY <1>3, <2>2 DEF Write, Taken
    <3>2. PICK w : w = Taken(f, answer)
      OBVIOUS
    <3>3. w = FALSE
      BY <2>2, <3>2
    <3>4. Answered(f, f.session, e, answer) =
            [session |-> f.session, log |-> Append(f.log, e), answers |-> f.answers,
             writable |-> f.writable, wrote |-> FALSE, success |-> f.success,
             returned |-> f.returned]
      BY <2>2, <3>2, <3>3, Zenon DEF Answered
    <3> QED
      BY <1>3, <3>1, <3>4
  <2> QED
    BY <2>1, <2>2
<1> QED
  BY <1>1, <1>2, <1>4

(* What an answered request does to a call.                                *)
LEMMA AnsweredType ==
  ASSUME NEW f \in Calls, NEW s \in Session, NEW e \in Entry, NEW answer \in Seq(Nat) \cup {Invalid}
  PROVE  /\ Answered(f, s, e, answer) \in Calls
         /\ Answered(f, s, e, answer).session = s
         /\ Answered(f, s, e, answer).returned = f.returned
         /\ Answered(f, s, e, answer).log = Append(f.log, e)
         /\ Taken(f, answer) => /\ Answered(f, s, e, answer).answers = Append(f.answers, answer)
                                /\ Answered(f, s, e, answer).writable = f.writable - 1
<1>1. Append(f.log, e) \in Seq(Entry)
  BY CallFields, AppendProperties
<1>2. Taken(f, answer) => answer \in Seq(Nat) /\ f.writable - 1 \in Nat
  BY CallFields DEF Taken
<1>3. (IF Taken(f, answer) THEN f.writable - 1 ELSE f.writable) \in Nat
  BY <1>2, CallFields
<1>4. (IF Taken(f, answer) THEN Append(f.answers, answer) ELSE f.answers) \in Seq(Seq(Nat))
  <2>1. CASE Taken(f, answer)
    <3>1. answer \in Seq(Nat) /\ f.answers \in Seq(Seq(Nat))
      BY <1>2, <2>1, CallFields
    <3>2. Append(f.answers, answer) \in Seq(Seq(Nat))
      BY <3>1, AppendProperties
    <3> QED
      BY <2>1, <3>2
  <2>2. CASE ~Taken(f, answer)
    BY <2>2, CallFields
  <2> QED
    BY <2>1, <2>2
<1>5. Taken(f, answer) \in BOOLEAN
  BY DEF Taken
<1>6. Answered(f, s, e, answer) \in Calls
  BY <1>1, <1>3, <1>4, <1>5, CallFields DEF Answered, Calls
<1> QED
  BY <1>6 DEF Answered

(* What is logged, as the hooks were.                                      *)
LEMMA Entries ==
  ASSUME NEW hooks \in Hooks, NEW did \in {"refused", "denied", "executed"},
         NEW context \in Context \cup {Null}, NEW result \in Result
  PROVE  [did |-> did, context |-> context, result |-> result,
          observed |-> did \in {"denied", "executed"} /\ hooks.observer] \in Entry
BY DEF Entry, Result, Hooks

(* The results the session makes.                                          *)
LEMMA Errors ==
  /\ Malformed \in Result /\ TooLong \in Result /\ Empty \in Result /\ Unknown \in Result
  /\ Denied \in Result
  /\ Len(Malformed.message) = 0 /\ Len(TooLong.message) = 0 /\ Len(Unknown.message) = 0
  /\ Len(Denied.message) = 0
  /\ \A text \in Seq(Nat) : Ok(text) \in Result /\ Ok(text).message = text
<1>1. \A code \in Nat : Error(code) \in Result /\ Len(Error(code).message) = 0
  BY DEF Error, Result
<1>2. 1 \in Nat /\ 2 \in Nat /\ 3 \in Nat /\ 4 \in Nat /\ 5 \in Nat
  OBVIOUS
<1>3. \A text \in Seq(Nat) : Ok(text) \in Result /\ Ok(text).message = text
  BY DEF Ok, Result
<1> QED
  BY <1>1, <1>2, <1>3, Zenon DEF Malformed, TooLong, Empty, Unknown, Denied

(* A line in answer to a result.                                           *)
LEMMA LineResultType ==
  ASSUME NEW result \in Result
  PROVE  LineResult(result) \in Seq(Nat)
<1>1. PICK ok \in Nat : ok = IF result.success THEN 79 ELSE 69
  OBVIOUS
<1>2. <<ok, result.code>> \in Seq(Nat) /\ result.message \in Seq(Nat)
  BY DEF Result
<1>3. <<ok, result.code>> \o result.message \in Seq(Nat)
  BY <1>2, ConcatProperties
<1> QED
  BY <1>1, <1>3, Zenon DEF LineResult

(* An execution is logged, with what the policy of the moment decides.     *)
LEMMA Executed ==
  ASSUME NEW f \in Calls, NEW context \in Context
  PROVE  \E did \in {"denied", "executed"}, result \in Result :
           /\ Execute(f, context) = Log(f, did, context, result)
           /\ Len(result.message) =< Len(context.raw)
           /\ (did = "denied") = (f.session.hooks.policy /\ context.path[1] \in Guarded)
<1>1. context.raw \in Seq(Nat) /\ Len(context.raw) \in Nat
  BY DEF Context
<1>2. Invoke(context) \in Result /\ Len(Invoke(context).message) =< Len(context.raw)
  <2>1. Invoke(context) = Ok(context.raw) \/ Invoke(context) = Unknown
    BY Zenon DEF Invoke
  <2>2. 0 =< Len(context.raw)
    BY <1>1
  <2>3. Len(context.raw) =< Len(context.raw)
    BY <1>1
  <2> QED
    BY <1>1, <2>1, <2>2, <2>3, Errors, Zenon
<1>3. Denied \in Result /\ Len(Denied.message) =< Len(context.raw)
  BY <1>1, Errors
<1>4. "denied" # "executed"
  OBVIOUS
<1>5. f.session.hooks.policy \in BOOLEAN
  BY CallFields, SessionFields DEF Hooks
<1>6. CASE f.session.hooks.policy /\ context.path[1] \in Guarded
  <2>1. Execute(f, context) = Log(f, "denied", context, Denied)
    BY <1>6, Zenon DEF Execute
  <2>2. ("denied" = "denied") = (f.session.hooks.policy /\ context.path[1] \in Guarded)
    BY <1>5, <1>6
  <2> QED
    BY <1>3, <2>1, <2>2, Zenon
<1>7. CASE ~(f.session.hooks.policy /\ context.path[1] \in Guarded)
  <2>1. Execute(f, context) = Log(f, "executed", context, Invoke(context))
    BY <1>7, Zenon DEF Execute
  <2>2. ("executed" = "denied") = (f.session.hooks.policy /\ context.path[1] \in Guarded)
    BY <1>4, <1>5, <1>7
  <2> QED
    BY <1>2, <2>1, <2>2, Zenon
<1> QED
  BY <1>6, <1>7

(* What was logged last.                                                   *)
LEMMA LoggedLast ==
  ASSUME NEW f \in Calls, NEW did \in {"refused", "denied", "executed"},
         NEW context \in Context \cup {Null}, NEW result \in Result
  PROVE  Last(Log(f, did, context, result).log).result = result
<1>1. PICK e : e = [did |-> did, context |-> context, result |-> result,
                    observed |-> did \in {"denied", "executed"} /\ f.session.hooks.observer]
  OBVIOUS
<1>2. f.session.hooks \in Hooks
  BY CallFields, SessionFields
<1>3. e \in Entry
  BY <1>1, <1>2, Entries, Zenon
<1>4. e.result = result
  BY <1>1
<1>5. Log(f, did, context, result) = [f EXCEPT !.log = Append(f.log, e)]
  BY <1>1, Zenon DEF Log
<1>6. Log(f, did, context, result).log = Append(f.log, e)
  BY <1>5 DEF Calls
<1>7. Len(Append(f.log, e)) = Len(f.log) + 1 /\ Append(f.log, e)[Len(f.log) + 1] = e
  BY <1>3, CallFields, AppendProperties
<1> QED
  BY <1>4, <1>6, <1>7, Zenon DEF Last

(* What is left of a line without the spaces around it, and its first word. *)
LEMMA LineTexts ==
  ASSUME NEW text \in Seq(Nat)
  PROVE  Trim(text) \in Seq(Nat) /\ FirstWord(text) \in Seq(Nat)
<1>1. Len(text) \in Nat /\ DOMAIN text = 1..Len(text) /\ \A i \in 1..Len(text) : text[i] \in Nat
  OBVIOUS
<1>2. Trim(text) \in Seq(Nat)
  <2> DEFINE visible == {i \in DOMAIN text : text[i] # Space}
  <2>1. CASE visible = {}
    <3>1. Trim(text) = <<>>
      BY <2>1, Zenon DEF Trim
    <3> QED
      BY <3>1
  <2>2. CASE visible # {}
    <3>1. visible \in SUBSET Nat /\ \A i \in visible : i =< Len(text) /\ i \in 1..Len(text)
      BY <1>1
    <3>2. Trim(text) = SubSeq(text, Min(visible), Max(visible))
      BY <2>2, Zenon DEF Trim
    <3> HIDE DEF visible
    <3>3. Min(visible) \in visible /\ Max(visible) \in visible
      BY <1>1, <2>2, <3>1, Extremes
    <3>4. Min(visible) \in 1..Len(text) /\ Max(visible) \in 1..Len(text)
      BY <3>1, <3>3
    <3>5. /\ Min(visible) \in Int /\ Max(visible) \in Int
          /\ \A i \in Min(visible)..Max(visible) : text[i] \in Nat
      BY <1>1, <3>4
    <3>6. SubSeq(text, Min(visible), Max(visible)) \in Seq(Nat)
      BY <3>5, SubSeqProperties
    <3> QED
      BY <3>2, <3>6
  <2> QED
    BY <2>1, <2>2
<1>3. FirstWord(text) \in Seq(Nat)
  <2>1. PICK all : all = Append(text, Space)
    OBVIOUS
  <2>2. Space \in Nat
    BY DEF Space
  <2>3. Len(all) = Len(text) + 1 /\ all[Len(text) + 1] = Space
    BY <2>1, <2>2, AppendProperties
  <2> DEFINE I == {i \in 1..Len(all) : all[i] = Space}
  <2>4. Len(text) + 1 \in I /\ I \in SUBSET Nat /\ \A i \in I : i \in 1..(Len(text) + 1)
    BY <1>1, <2>3
  <2>5. FirstWord(text) = SubSeq(text, 1, Min(I) - 1)
    <3>1. FirstWord(text) = SubSeq(text, 1, (IF I # {} THEN Min(I) ELSE 0) - 1)
      BY <2>1, Zenon DEF FirstWord, SelectInSeq
    <3> QED
      BY <2>4, <3>1, Zenon
  <2> HIDE DEF I
  <2>6. Min(I) \in I
    BY <2>4, Extremes
  <2>7. Min(I) - 1 \in Int /\ 1 \in Int /\ \A i \in 1..(Min(I) - 1) : text[i] \in Nat
    <3>1. PICK m : m = Min(I)
      OBVIOUS
    <3>2. m \in 1..(Len(text) + 1)
      BY <2>4, <2>6, <3>1, Zenon
    <3>3. m - 1 \in Int /\ \A i \in 1..(m - 1) : i \in 1..Len(text)
      BY <1>1, <3>2
    <3> QED
      BY <1>1, <3>1, <3>3
  <2>8. SubSeq(text, 1, Min(I) - 1) \in Seq(Nat)
    BY <2>7, SubSeqProperties
  <2> QED
    BY <2>5, <2>8
<1> QED
  BY <1>2, <1>3

-----------------------------------------------------------------------------
(* A turn of a call.                                                       *)

\* The answer is that to the request of the entry.
Replied(mode, e, answer) ==
  IF mode = "Line" THEN answer = LineResult(e.result)
  ELSE DecodeResponse[answer] = Response(IF e.did = "refused" THEN 0 ELSE e.context.id, e.result)

\* From f to g the session is the same one, with the same hooks.
Continues(f, g) ==
  /\ g \in Calls
  /\ g.session.config = f.session.config /\ g.session.hooks = f.session.hooks

\* And nothing is done away with.
Quiet(f, g) ==
  /\ Continues(f, g)
  /\ g.log = f.log /\ g.answers = f.answers /\ g.writable = f.writable

\* Or one request, whose answer is written when the writer takes it; it can
\* be encoded when it fits.
Wrote(mode, fits, f, g, e, answer) ==
  /\ Ruled(e, f.session.hooks)
  /\ fits => answer # Invalid /\ Replied(mode, e, answer)
  /\ g.log = Append(f.log, e)
  /\ g.answers = IF Taken(f, answer) THEN Append(f.answers, answer) ELSE f.answers
  /\ g.writable = IF Taken(f, answer) THEN f.writable - 1 ELSE f.writable

Told(mode, fits, f, g) ==
  /\ Continues(f, g)
  /\ \E e \in Entry, answer \in Seq(Nat) \cup {Invalid} : Wrote(mode, fits, f, g, e, answer)

(* Nothing done before or after a turn makes it another one.               *)
LEMMA QuietBefore ==
  ASSUME NEW mode, NEW fits, NEW f, NEW g, NEW h, Quiet(f, g), Told(mode, fits, g, h)
  PROVE  Told(mode, fits, f, h)
<1>1. PICK e \in Entry, answer \in Seq(Nat) \cup {Invalid} : Wrote(mode, fits, g, h, e, answer)
  BY Zenon DEF Told
<1>2. g.session.hooks = f.session.hooks /\ g.log = f.log /\ g.answers = f.answers
      /\ g.writable = f.writable
  BY Zenon DEF Quiet, Continues
<1>3. Wrote(mode, fits, f, h, e, answer)
  BY <1>1, <1>2, Zenon DEF Wrote, Taken
<1>4. Continues(f, h)
  BY Zenon DEF Quiet, Told, Continues
<1> QED
  BY <1>3, <1>4, Zenon DEF Told

(* The same, after it.                                                     *)
LEMMA QuietAfter ==
  ASSUME NEW mode, NEW fits, NEW f, NEW g, NEW h, Told(mode, fits, f, g), Quiet(g, h)
  PROVE  Told(mode, fits, f, h)
<1>1. PICK e \in Entry, answer \in Seq(Nat) \cup {Invalid} : Wrote(mode, fits, f, g, e, answer)
  BY Zenon DEF Told
<1>2. h.log = g.log /\ h.answers = g.answers /\ h.writable = g.writable
  BY Zenon DEF Quiet
<1>3. Wrote(mode, fits, f, h, e, answer)
  BY <1>1, <1>2, Zenon DEF Wrote
<1>4. Continues(f, h)
  BY Zenon DEF Quiet, Told, Continues
<1> QED
  BY <1>3, <1>4, Zenon DEF Told

(* Nothing done twice.                                                     *)
LEMMA QuietTwice ==
  ASSUME NEW f, NEW g, NEW h, Quiet(f, g), Quiet(g, h)
  PROVE  Quiet(f, h)
BY Zenon DEF Quiet, Continues

(* A call in which nothing has been done since.                            *)
LEMMA QuietSelf ==
  ASSUME NEW f \in Calls
  PROVE  Quiet(f, f)
BY Zenon DEF Quiet, Continues

(* A session put in the place of another.                                  *)
LEMMA SessionSet ==
  ASSUME NEW f \in Calls, NEW s \in Session,
         s.config = f.session.config, s.hooks = f.session.hooks, NEW g,
         g = [f EXCEPT !.session = s]
  PROVE  Quiet(f, g) /\ g.session = s /\ g.returned = f.returned
<1>2. PICK t, l, a, w, o, u, r :
        /\ t = f.session /\ l = f.log /\ a = f.answers /\ w = f.writable /\ o = f.wrote
        /\ u = f.success /\ r = f.returned
  OBVIOUS
<1>3. f = [session |-> t, log |-> l, answers |-> a, writable |-> w, wrote |-> o, success |-> u,
           returned |-> r]
  BY <1>2, CallFields, Zenon
<1>5. g = [session |-> s, log |-> l, answers |-> a, writable |-> w, wrote |-> o,
           success |-> u, returned |-> r]
  BY <1>3
<1>6. g \in Calls
  BY <1>2, <1>5, CallFields DEF Calls
<1>7. g.session = s /\ g.log = f.log /\ g.answers = f.answers /\ g.writable = f.writable
      /\ g.returned = f.returned
  BY <1>2, <1>5, Zenon
<1>8. Quiet(f, g)
  BY <1>6, <1>7, Zenon DEF Quiet, Continues
<1> QED
  BY <1>7, <1>8, Zenon

(* The bytes of a line.                                                    *)
LEMMA LineSet ==
  ASSUME NEW f \in Calls, NEW line \in Seq(Nat)
  PROVE  /\ Quiet(f, Set(f, "line", line))
         /\ Set(f, "line", line).returned = f.returned
         /\ Set(f, "line", line).session.line = line
         /\ Set(f, "line", line).session.structured = f.session.structured
         /\ Set(f, "line", line).session.expectedStructuredBytes = f.session.expectedStructuredBytes
<1>1. PICK old : old = f.session
  OBVIOUS
<1>2. PICK s : s = [old EXCEPT !.line = line]
  OBVIOUS
<1>3. old \in Session
  BY <1>1, CallFields
<1>4. s \in Session /\ s.config = old.config /\ s.hooks = old.hooks
  BY <1>2, <1>3 DEF Session
<1>5. /\ s.line = line
      /\ s.structured = old.structured
      /\ s.expectedStructuredBytes = old.expectedStructuredBytes
  BY <1>2, <1>3 DEF Session
<1>6. PICK g : g = Set(f, "line", line)
  OBVIOUS
<1>7. g = [f EXCEPT !.session = s]
  BY <1>1, <1>2, <1>6 DEF Set
<1>8. Quiet(f, g) /\ g.session = s /\ g.returned = f.returned
  BY <1>1, <1>4, <1>7, SessionSet
<1> QED
  BY <1>1, <1>5, <1>6, <1>8, Zenon

(* Whether those to come are discarded.                                    *)
LEMMA DiscardSet ==
  ASSUME NEW f \in Calls, NEW b \in BOOLEAN
  PROVE  /\ Quiet(f, Set(f, "discardUntilNewline", b))
         /\ Set(f, "discardUntilNewline", b).returned = f.returned
         /\ Set(f, "discardUntilNewline", b).session.line = f.session.line
         /\ Set(f, "discardUntilNewline", b).session.structured = f.session.structured
         /\ Set(f, "discardUntilNewline", b).session.expectedStructuredBytes = f.session.expectedStructuredBytes
<1>1. PICK old : old = f.session
  OBVIOUS
<1>2. PICK s : s = [old EXCEPT !.discardUntilNewline = b]
  OBVIOUS
<1>3. old \in Session
  BY <1>1, CallFields
<1>4. s \in Session /\ s.config = old.config /\ s.hooks = old.hooks
  BY <1>2, <1>3 DEF Session
<1>5. /\ s.line = old.line
      /\ s.structured = old.structured
      /\ s.expectedStructuredBytes = old.expectedStructuredBytes
  BY <1>2, <1>3 DEF Session
<1>6. PICK g : g = Set(f, "discardUntilNewline", b)
  OBVIOUS
<1>7. g = [f EXCEPT !.session = s]
  BY <1>1, <1>2, <1>6 DEF Set
<1>8. Quiet(f, g) /\ g.session = s /\ g.returned = f.returned
  BY <1>1, <1>4, <1>7, SessionSet
<1> QED
  BY <1>1, <1>5, <1>6, <1>8, Zenon

(* The bytes of frames.                                                    *)
LEMMA StructuredSet ==
  ASSUME NEW f \in Calls, NEW data \in Seq(Nat)
  PROVE  /\ Quiet(f, Set(f, "structured", data))
         /\ Set(f, "structured", data).returned = f.returned
         /\ Set(f, "structured", data).session.line = f.session.line
         /\ Set(f, "structured", data).session.structured = data
         /\ Set(f, "structured", data).session.expectedStructuredBytes = f.session.expectedStructuredBytes
<1>1. PICK old : old = f.session
  OBVIOUS
<1>2. PICK s : s = [old EXCEPT !.structured = data]
  OBVIOUS
<1>3. old \in Session
  BY <1>1, CallFields
<1>4. s \in Session /\ s.config = old.config /\ s.hooks = old.hooks
  BY <1>2, <1>3 DEF Session
<1>5. /\ s.line = old.line
      /\ s.structured = data
      /\ s.expectedStructuredBytes = old.expectedStructuredBytes
  BY <1>2, <1>3 DEF Session
<1>6. PICK g : g = Set(f, "structured", data)
  OBVIOUS
<1>7. g = [f EXCEPT !.session = s]
  BY <1>1, <1>2, <1>6 DEF Set
<1>8. Quiet(f, g) /\ g.session = s /\ g.returned = f.returned
  BY <1>1, <1>4, <1>7, SessionSet
<1> QED
  BY <1>1, <1>5, <1>6, <1>8, Zenon

(* How many of them are awaited.                                           *)
LEMMA ExpectedSet ==
  ASSUME NEW f \in Calls, NEW n \in Nat
  PROVE  /\ Quiet(f, Set(f, "expectedStructuredBytes", n))
         /\ Set(f, "expectedStructuredBytes", n).returned = f.returned
         /\ Set(f, "expectedStructuredBytes", n).session.line = f.session.line
         /\ Set(f, "expectedStructuredBytes", n).session.structured = f.session.structured
         /\ Set(f, "expectedStructuredBytes", n).session.expectedStructuredBytes = n
<1>1. PICK old : old = f.session
  OBVIOUS
<1>2. PICK s : s = [old EXCEPT !.expectedStructuredBytes = n]
  OBVIOUS
<1>3. old \in Session
  BY <1>1, CallFields
<1>4. s \in Session /\ s.config = old.config /\ s.hooks = old.hooks
  BY <1>2, <1>3 DEF Session
<1>5. /\ s.line = old.line
      /\ s.structured = old.structured
      /\ s.expectedStructuredBytes = n
  BY <1>2, <1>3 DEF Session
<1>6. PICK g : g = Set(f, "expectedStructuredBytes", n)
  OBVIOUS
<1>7. g = [f EXCEPT !.session = s]
  BY <1>1, <1>2, <1>6 DEF Set
<1>8. Quiet(f, g) /\ g.session = s /\ g.returned = f.returned
  BY <1>1, <1>4, <1>7, SessionSet
<1> QED
  BY <1>1, <1>5, <1>6, <1>8, Zenon

(* The number of the request.                                              *)
LEMMA NumberSet ==
  ASSUME NEW f \in Calls, NEW n \in Nat
  PROVE  /\ Quiet(f, Set(f, "requestID", n))
         /\ Set(f, "requestID", n).returned = f.returned
         /\ Set(f, "requestID", n).session.line = f.session.line
         /\ Set(f, "requestID", n).session.structured = f.session.structured
         /\ Set(f, "requestID", n).session.expectedStructuredBytes =
              f.session.expectedStructuredBytes
<1>1. PICK old : old = f.session
  OBVIOUS
<1>2. PICK s : s = [old EXCEPT !.requestID = n]
  OBVIOUS
<1>3. old \in Session
  BY <1>1, CallFields
<1>4. s \in Session /\ s.config = old.config /\ s.hooks = old.hooks
  BY <1>2, <1>3 DEF Session
<1>5. /\ s.line = old.line
      /\ s.structured = old.structured
      /\ s.expectedStructuredBytes = old.expectedStructuredBytes
  BY <1>2, <1>3 DEF Session
<1>6. PICK g : g = Set(f, "requestID", n)
  OBVIOUS
<1>7. g = [f EXCEPT !.session = s]
  BY <1>1, <1>2, <1>6 DEF Set
<1>8. Quiet(f, g) /\ g.session = s /\ g.returned = f.returned
  BY <1>1, <1>4, <1>7, SessionSet
<1> QED
  BY <1>1, <1>5, <1>6, <1>8, Zenon

(* What the caller is told leaves the session, and what was done.          *)
LEMMA Concluded ==
  ASSUME NEW f \in Calls, NEW b \in BOOLEAN
  PROVE  /\ Quiet(f, And(f)) /\ And(f).session = f.session /\ And(f).returned = f.returned
         /\ Quiet(f, Return(f, b)) /\ Return(f, b).session = f.session
         /\ Return(f, b).returned = TRUE
         /\ Quiet(f, [f EXCEPT !.wrote = TRUE]) /\ [f EXCEPT !.wrote = TRUE].session = f.session
         /\ [f EXCEPT !.wrote = TRUE].returned = f.returned
<1>1. PICK t, l, a, w, o, u, r :
        /\ t = f.session /\ l = f.log /\ a = f.answers /\ w = f.writable /\ o = f.wrote
        /\ u = f.success /\ r = f.returned
  OBVIOUS
<1>2. f = [session |-> t, log |-> l, answers |-> a, writable |-> w, wrote |-> o, success |-> u,
           returned |-> r]
  BY <1>1, CallFields, Zenon
<1>3. ASSUME NEW g, NEW x \in BOOLEAN, NEW y \in BOOLEAN, NEW z \in BOOLEAN,
             g = [session |-> t, log |-> l, answers |-> a, writable |-> w, wrote |-> x,
                  success |-> y, returned |-> z]
      PROVE  Quiet(f, g) /\ g.session = f.session /\ g.returned = z
  <2>1. g \in Calls
    BY <1>1, <1>3, CallFields DEF Calls
  <2>2. /\ g.session = f.session /\ g.log = f.log /\ g.answers = f.answers
        /\ g.writable = f.writable /\ g.returned = z
    BY <1>1, <1>3, Zenon
  <2> QED
    BY <2>1, <2>2, Zenon DEF Quiet, Continues
<1>4. o \in BOOLEAN /\ u \in BOOLEAN /\ r \in BOOLEAN
  BY <1>1, CallFields
<1>5. PICK both \in BOOLEAN : both = (o /\ u)
  BY <1>4
<1>6. And(f) = [session |-> t, log |-> l, answers |-> a, writable |-> w, wrote |-> o,
                success |-> both, returned |-> r]
  <2>1. And(f) = [f EXCEPT !.success = both]
    BY <1>1, <1>5, Zenon DEF And
  <2> QED
    BY <1>2, <2>1
<1>y. PICK yes \in BOOLEAN : yes = TRUE
  OBVIOUS
<1>z. PICK c \in BOOLEAN : c = b
  OBVIOUS
<1>7. Return(f, b) = [session |-> t, log |-> l, answers |-> a, writable |-> w, wrote |-> o,
                      success |-> c, returned |-> yes]
  <2>1. Return(f, b) = [f EXCEPT !.success = c, !.returned = yes]
    BY <1>y, <1>z, Zenon DEF Return
  <2> QED
    BY <1>2, <2>1
<1>8. PICK g : g = [f EXCEPT !.wrote = TRUE]
  OBVIOUS
<1>g. g = [session |-> t, log |-> l, answers |-> a, writable |-> w, wrote |-> yes,
           success |-> u, returned |-> r]
  <2>1. g = [f EXCEPT !.wrote = yes]
    BY <1>y, <1>8, Zenon
  <2> QED
    BY <1>2, <2>1
<1>9. Quiet(f, And(f)) /\ And(f).session = f.session /\ And(f).returned = f.returned
  <2>1. Quiet(f, And(f)) /\ And(f).session = f.session /\ And(f).returned = r
    BY <1>3, <1>4, <1>6
  <2> QED
    BY <1>1, <2>1, Zenon
<1>10. Quiet(f, Return(f, b)) /\ Return(f, b).session = f.session /\ Return(f, b).returned = TRUE
  <2>1. Quiet(f, Return(f, b)) /\ Return(f, b).session = f.session /\ Return(f, b).returned = yes
    BY <1>3, <1>4, <1>7
  <2> QED
    BY <1>y, <2>1, Zenon
<1>11. /\ Quiet(f, [f EXCEPT !.wrote = TRUE]) /\ [f EXCEPT !.wrote = TRUE].session = f.session
       /\ [f EXCEPT !.wrote = TRUE].returned = f.returned
  <2>1. Quiet(f, g) /\ g.session = f.session /\ g.returned = r
    BY <1>3, <1>4, <1>g
  <2> QED
    BY <1>1, <1>8, <2>1, Zenon
<1> QED
  BY <1>9, <1>10, <1>11, Zenon

Deeds == {"refused", "denied", "executed"}
Contexts == Context \cup {Null}
Encodings == Seq(Nat) \cup {Invalid}

\* A turn that leaves the session to its caller.
Done(mode, fits, f, h) ==
  Told(mode, fits, f, h) /\ h.session = f.session /\ h.returned = f.returned

\* The policy is asked as the hooks tell.
Judged(hooks, did, context) ==
  did # "refused" => (did = "denied") = (hooks.policy /\ context.path[1] \in Guarded)

\* What is logged.
Made(f, did, context, result) ==
  [did |-> did, context |-> context, result |-> result,
   observed |-> did \in {"denied", "executed"} /\ f.session.hooks.observer]

Fitting(mode, fits, e, answer) == fits => answer # Invalid /\ Replied(mode, e, answer)

(* Logging and then writing are a turn.                                    *)
LEMMA WrittenTold ==
  ASSUME NEW f \in Calls, NEW did \in Deeds,
         NEW context \in Contexts, NEW result \in Result,
         NEW answer \in Encodings, NEW mode, NEW fits, NEW e,
         e = Made(f, did, context, result), Judged(f.session.hooks, did, context),
         Fitting(mode, fits, e, answer), NEW h,
         h = Write(Log(f, did, context, result), answer)
  PROVE  Done(mode, fits, f, h)
<1>0. /\ did \in {"refused", "denied", "executed"} /\ context \in Context \cup {Null}
      /\ answer \in Seq(Nat) \cup {Invalid}
  BY Zenon DEF Deeds, Contexts, Encodings
<1>1. f.session \in Session /\ f.session.hooks \in Hooks
  BY CallFields, SessionFields
<1>2. e \in Entry
  BY <1>0, <1>1, Entries, Zenon DEF Made
<1>3. Ruled(e, f.session.hooks)
  <2>1. e.did = did /\ e.context = context
        /\ e.observed = (did \in {"denied", "executed"} /\ f.session.hooks.observer)
    BY DEF Made
  <2>2. did # "refused" => did \in {"denied", "executed"}
    BY <1>0
  <2>3. f.session.hooks.observer \in BOOLEAN
    BY <1>1 DEF Hooks
  <2>4. did # "refused" => e.observed = f.session.hooks.observer
    BY <2>1, <2>2, <2>3
  <2> QED
    BY <2>1, <2>4, Zenon DEF Ruled, Judged
<1>4. h = Answered(f, f.session, e, answer)
  <2>1. Write(Log(f, did, context, result), answer) =
          Answered(f, f.session,
                   [did |-> did, context |-> context, result |-> result,
                    observed |-> did \in {"denied", "executed"} /\ f.session.hooks.observer],
                   answer)
    BY LoggedWritten
  <2> QED
    BY <2>1, Zenon DEF Made
<1>5. /\ h \in Calls /\ h.session = f.session /\ h.returned = f.returned
  <2>1. /\ Answered(f, f.session, e, answer) \in Calls
        /\ Answered(f, f.session, e, answer).session = f.session
        /\ Answered(f, f.session, e, answer).returned = f.returned
    BY <1>0, <1>1, <1>2, AnsweredType
  <2> QED
    BY <1>4, <2>1, Zenon
<1>6. /\ h.log = Append(f.log, e)
      /\ h.answers = IF Taken(f, answer) THEN Append(f.answers, answer) ELSE f.answers
      /\ h.writable = IF Taken(f, answer) THEN f.writable - 1 ELSE f.writable
  <2>1. PICK s, l, a, w, u, r :
          /\ s = f.session /\ l = Append(f.log, e)
          /\ a = IF Taken(f, answer) THEN Append(f.answers, answer) ELSE f.answers
          /\ w = IF Taken(f, answer) THEN f.writable - 1 ELSE f.writable
          /\ u = f.success /\ r = f.returned
    OBVIOUS
  <2>2. h = [session |-> s, log |-> l, answers |-> a, writable |-> w, wrote |-> Taken(f, answer),
             success |-> u, returned |-> r]
    BY <1>4, <2>1, Zenon DEF Answered
  <2>3. h.log = l /\ h.answers = a /\ h.writable = w
    BY <2>2
  <2> QED
    BY <2>1, <2>3, Zenon
<1>7. Wrote(mode, fits, f, h, e, answer)
  BY <1>3, <1>6, Zenon DEF Wrote, Fitting
<1>8. Continues(f, h)
  BY <1>5, Zenon DEF Continues
<1> QED
  BY <1>0, <1>2, <1>5, <1>7, <1>8, Zenon DEF Told, Done

-----------------------------------------------------------------------------
(* Line mode.                                                              *)

(* Logging a result and answering with it.                                 *)
LEMMA ResultTold ==
  ASSUME NEW f \in Calls, NEW did \in Deeds,
         NEW context \in Contexts, NEW result \in Result,
         Judged(f.session.hooks, did, context), NEW h,
         h = WriteLineResult(Log(f, did, context, result), result)
  PROVE  Done("Line", TRUE, f, h)
<1>1. PICK e : e = Made(f, did, context, result)
  OBVIOUS
<1>2. PICK answer : answer = LineResult(result)
  OBVIOUS
<1>3. answer \in Seq(Nat)
  BY <1>2, LineResultType
<1>4. answer \in Seq(Nat) \cup {Invalid} /\ answer # Invalid
  BY <1>3, ProtocolAssumption, Zenon
<1>a. answer \in Encodings
  BY <1>4, Zenon DEF Encodings
<1>5. e.result = result
  BY <1>1 DEF Made
<1>6. Fitting("Line", TRUE, e, answer)
  BY <1>2, <1>4, <1>5, Zenon DEF Replied, Fitting
<1>7. h = Write(Log(f, did, context, result), answer)
  BY <1>2, Zenon DEF WriteLineResult
<1> QED
  BY <1>1, <1>a, <1>6, <1>7, WrittenTold, Zenon

(* A line is passed over, or answered as it was dealt with.                *)
LEMMA LineTold ==
  ASSUME NEW f \in Calls, NEW line \in Seq(Nat), NEW h, h = HandleLine(f, line)
  PROVE  /\ Quiet(f, h) \/ Told("Line", TRUE, f, h)
         /\ h.returned = f.returned
         /\ h.session.line = f.session.line
         /\ h.session.structured = f.session.structured
         /\ h.session.expectedStructuredBytes = f.session.expectedStructuredBytes
<1>1. PICK text : text = Trim(line)
  OBVIOUS
<1>2. text \in Seq(Nat) /\ FirstWord(text) \in Seq(Nat)
  BY <1>1, LineTexts
<1>3. f.session \in Session /\ f.session.requestID \in Nat
  BY CallFields, SessionFields
<1>4. PICK id \in Nat : id = f.session.requestID + 1
  BY <1>3
<1>5. PICK g : g = Set(f, "requestID", id)
  OBVIOUS
<1>6. /\ Quiet(f, g) /\ g.returned = f.returned /\ g.session.line = f.session.line
      /\ g.session.structured = f.session.structured
      /\ g.session.expectedStructuredBytes = f.session.expectedStructuredBytes
  BY <1>5, NumberSet
<1>7. g \in Calls
  BY <1>6, Zenon DEF Quiet, Continues
<1>8. PICK done : done = Execute(g, LineContext(id, text))
  OBVIOUS
<1>9. h =
        IF text = <<>> /\ f.session.config.ignoreEmptyLines THEN [f EXCEPT !.wrote = TRUE]
        ELSE IF ~Tokenizes(text) THEN WriteLineResult(Log(g, "refused", Null, Malformed), Malformed)
        ELSE IF text = <<>> THEN WriteLineResult(Log(g, "refused", Null, Empty), Empty)
        ELSE WriteLineResult(done, Last(done.log).result)
  BY <1>1, <1>4, <1>5, <1>8, Zenon DEF HandleLine
<1>10. ASSUME Done("Line", TRUE, g, h)
       PROVE  /\ Told("Line", TRUE, f, h) /\ h.returned = f.returned
              /\ h.session.line = f.session.line /\ h.session.structured = f.session.structured
              /\ h.session.expectedStructuredBytes = f.session.expectedStructuredBytes
  <2>1. Told("Line", TRUE, g, h) /\ h.session = g.session /\ h.returned = g.returned
    BY <1>10, Zenon DEF Done
  <2>2. Told("Line", TRUE, f, h)
    BY <1>6, <2>1, QuietBefore
  <2> QED
    BY <1>6, <2>1, <2>2, Zenon
<1>11. CASE text = <<>> /\ f.session.config.ignoreEmptyLines
  <2>1. h = [f EXCEPT !.wrote = TRUE]
    BY <1>9, <1>11, Zenon
  <2>2. /\ Quiet(f, [f EXCEPT !.wrote = TRUE]) /\ [f EXCEPT !.wrote = TRUE].session = f.session
        /\ [f EXCEPT !.wrote = TRUE].returned = f.returned
    BY Concluded
  <2> QED
    BY <2>1, <2>2, Zenon
<1>12. ASSUME NEW result \in Result, h = WriteLineResult(Log(g, "refused", Null, result), result)
       PROVE  Done("Line", TRUE, g, h)
  <2>1. "refused" \in Deeds /\ Null \in Contexts /\ Judged(g.session.hooks, "refused", Null)
    BY DEF Judged, Deeds, Contexts
  <2> QED
    BY <1>7, <1>12, <2>1, ResultTold, Zenon
<1>13. CASE ~(text = <<>> /\ f.session.config.ignoreEmptyLines) /\ ~Tokenizes(text)
  <2>1. h = WriteLineResult(Log(g, "refused", Null, Malformed), Malformed)
    BY <1>9, <1>13, Zenon
  <2> QED
    BY <1>10, <1>12, <2>1, Errors, Zenon
<1>14. CASE /\ ~(text = <<>> /\ f.session.config.ignoreEmptyLines) /\ Tokenizes(text)
            /\ text = <<>>
  <2>1. h = WriteLineResult(Log(g, "refused", Null, Empty), Empty)
    BY <1>9, <1>14, Zenon
  <2> QED
    BY <1>10, <1>12, <2>1, Errors, Zenon
<1>15. CASE ~(text = <<>> /\ f.session.config.ignoreEmptyLines) /\ Tokenizes(text) /\ text # <<>>
  <2>1. PICK context : context = LineContext(id, text)
    OBVIOUS
  <2>2. context \in Context
    <3>1. <<FirstWord(text)>> \in Seq(Seq(Nat))
      BY <1>2
    <3> QED
      BY <1>2, <2>1, <3>1 DEF LineContext, Context
  <2>3. PICK did \in {"denied", "executed"}, result \in Result :
          /\ done = Log(g, did, context, result)
          /\ (did = "denied") = (g.session.hooks.policy /\ context.path[1] \in Guarded)
    BY <1>7, <1>8, <2>1, <2>2, Executed, ZenonT(40)
  <2>4. did \in {"refused", "denied", "executed"} /\ context \in Context \cup {Null}
    BY <2>2
  <2>5. Last(done.log).result = result
    <3>1. Last(Log(g, did, context, result).log).result = result
      BY <1>7, <2>4, LoggedLast
    <3> QED
      BY <2>3, <3>1, Zenon
  <2>6. h = WriteLineResult(Log(g, did, context, result), result)
    BY <1>9, <1>15, <2>3, <2>5, Zenon
  <2>7. Done("Line", TRUE, g, h)
    <3>1. Judged(g.session.hooks, did, context)
      BY <2>3, Zenon DEF Judged
    <3> QED
      BY <1>7, <2>4, <2>6, <3>1, ResultTold, Zenon DEF Deeds, Contexts
  <2> QED
    BY <1>10, <2>7, Zenon
<1> QED
  BY <1>11, <1>13, <1>14, <1>15, Zenon

(* A line too long is refused.                                             *)
LEMMA LongLineTold ==
  ASSUME NEW f \in Calls, NEW h, h = RefuseLongLine(f)
  PROVE  /\ Told("Line", TRUE, f, h)
         /\ h.session = f.session
<1>1. PICK g : g = WriteLineResult(Log(f, "refused", Null, TooLong), TooLong)
  OBVIOUS
<1>2. Done("Line", TRUE, f, g)
  <2>1. "refused" \in Deeds /\ Null \in Contexts /\ Judged(f.session.hooks, "refused", Null)
    BY DEF Judged, Deeds, Contexts
  <2>2. TooLong \in Result
    BY Errors, Zenon
  <2> QED
    BY <1>1, <2>1, <2>2, ResultTold, Zenon
<1>3. Told("Line", TRUE, f, g) /\ g.session = f.session /\ g \in Calls
  BY <1>2, Zenon DEF Done, Told, Continues
<1>4. h = Return(g, FALSE) \/ h = And(g)
  BY <1>1, Zenon DEF RefuseLongLine
<1>5. Quiet(g, h) /\ h.session = g.session
  <2>1. g \in Calls /\ FALSE \in BOOLEAN
    BY <1>3
  <2>2. /\ Quiet(g, And(g)) /\ And(g).session = g.session
        /\ Quiet(g, Return(g, FALSE)) /\ Return(g, FALSE).session = g.session
    BY <2>1, Concluded
  <2> QED
    BY <1>4, <2>2, Zenon
<1>6. Told("Line", TRUE, f, h)
  BY <1>3, <1>5, QuietAfter
<1> QED
  BY <1>3, <1>5, <1>6, Zenon

\* What is kept of the session's bytes.
SameFrames(s, t) ==
  t.structured = s.structured /\ t.expectedStructuredBytes = s.expectedStructuredBytes

(* A byte in line mode: at most one request is done away with, and no line *)
(* grows beyond the bound.                                                 *)
LEMMA ByteFed ==
  ASSUME NEW f \in Calls, NEW c \in Nat, MaximumRequestBytes \in Nat, NEW h, h = FeedByte(f, c)
  PROVE  /\ Quiet(f, h) \/ Told("Line", TRUE, f, h)
         /\ SameFrames(f.session, h.session)
         /\ Len(f.session.line) =< MaximumRequestBytes =>
              Len(h.session.line) =< MaximumRequestBytes
<1>1. PICK s : s = f.session
  OBVIOUS
<1>2. f.session \in Session /\ s.line \in Seq(Nat) /\ <<>> \in Seq(Nat) /\ Len(<<>>) = 0
  BY <1>1, CallFields, SessionFields
<1>3. PICK empty : empty = Set(f, "line", <<>>)
  OBVIOUS
<1>4. Quiet(f, empty) /\ empty.session.line = <<>> /\ SameFrames(s, empty.session)
      /\ empty \in Calls
  <2>1. /\ Quiet(f, empty) /\ empty.session.line = <<>>
        /\ empty.session.structured = f.session.structured
        /\ empty.session.expectedStructuredBytes = f.session.expectedStructuredBytes
    BY <1>2, <1>3, LineSet
  <2> QED
    BY <1>1, <2>1, Zenon DEF SameFrames, Quiet, Continues
<1>5. h = IF f.returned \/ c = CR THEN f
          ELSE IF c = LF /\ s.discardUntilNewline
          THEN RefuseLongLine(Set(Set(f, "discardUntilNewline", FALSE), "line", <<>>))
          ELSE IF c = LF THEN And(HandleLine(empty, s.line))
          ELSE IF s.discardUntilNewline THEN f
          ELSE IF Fits(s.line) THEN Set(f, "line", Append(s.line, c))
          ELSE Set(empty, "discardUntilNewline", TRUE)
  BY <1>1, <1>3, Zenon DEF FeedByte
<1>6. CASE h = f
  <2>1. Quiet(f, f)
    BY QuietSelf
  <2> QED
    BY <1>6, <2>1, Zenon DEF SameFrames
<1>7. CASE h = RefuseLongLine(Set(Set(f, "discardUntilNewline", FALSE), "line", <<>>))
  <2>1. PICK g : g = Set(f, "discardUntilNewline", FALSE)
    OBVIOUS
  <2>2. Quiet(f, g) /\ SameFrames(s, g.session) /\ g \in Calls
    <3>1. /\ Quiet(f, g) /\ g.session.structured = f.session.structured
          /\ g.session.expectedStructuredBytes = f.session.expectedStructuredBytes
      BY <2>1, DiscardSet
    <3> QED
      BY <1>1, <3>1, Zenon DEF SameFrames, Quiet, Continues
  <2>3. PICK k : k = Set(g, "line", <<>>)
    OBVIOUS
  <2>4. Quiet(g, k) /\ k.session.line = <<>> /\ SameFrames(s, k.session) /\ k \in Calls
    <3>1. /\ Quiet(g, k) /\ k.session.line = <<>> /\ k.session.structured = g.session.structured
          /\ k.session.expectedStructuredBytes = g.session.expectedStructuredBytes
      BY <1>2, <2>2, <2>3, LineSet
    <3> QED
      BY <2>2, <3>1, Zenon DEF SameFrames, Quiet, Continues
  <2>5. h = RefuseLongLine(k)
    BY <1>7, <2>1, <2>3, Zenon
  <2>6. Told("Line", TRUE, k, h) /\ h.session = k.session
    BY <2>4, <2>5, LongLineTold
  <2>7. Told("Line", TRUE, f, h)
    <3>1. Quiet(f, k)
      BY <2>2, <2>4, QuietTwice
    <3> QED
      BY <2>6, <3>1, QuietBefore
  <2>8. Len(h.session.line) =< MaximumRequestBytes
    BY <1>2, <2>4, <2>6
  <2> QED
    BY <1>1, <2>4, <2>6, <2>7, <2>8, Zenon
<1>8. CASE h = And(HandleLine(empty, s.line))
  <2>1. PICK g : g = HandleLine(empty, s.line)
    OBVIOUS
  <2>2. /\ Quiet(empty, g) \/ Told("Line", TRUE, empty, g)
        /\ g.session.line = empty.session.line
        /\ g.session.structured = empty.session.structured
        /\ g.session.expectedStructuredBytes = empty.session.expectedStructuredBytes
    BY <1>2, <1>4, <2>1, LineTold, ZenonT(40)
  <2>3. g \in Calls
    BY <2>2, Zenon DEF Quiet, Told, Continues
  <2>4. Quiet(g, h) /\ h.session = g.session
    <3>1. TRUE \in BOOLEAN
      OBVIOUS
    <3>2. Quiet(g, And(g)) /\ And(g).session = g.session
      BY <2>3, <3>1, Concluded
    <3> QED
      BY <1>8, <2>1, <3>2, Zenon
  <2>5. Quiet(f, h) \/ Told("Line", TRUE, f, h)
    <3>1. CASE Quiet(empty, g)
      <4>1. Quiet(empty, h)
        BY <2>4, <3>1, QuietTwice
      <4>2. Quiet(f, h)
        BY <1>4, <4>1, QuietTwice
      <4> QED
        BY <4>2
    <3>2. CASE Told("Line", TRUE, empty, g)
      <4>1. Told("Line", TRUE, empty, h)
        BY <2>4, <3>2, QuietAfter
      <4>2. Told("Line", TRUE, f, h)
        BY <1>4, <4>1, QuietBefore
      <4> QED
        BY <4>2
    <3> QED
      BY <2>2, <3>1, <3>2
  <2>6. SameFrames(f.session, h.session) /\ h.session.line = <<>>
    BY <1>1, <1>4, <2>2, <2>4, Zenon DEF SameFrames
  <2>7. Len(h.session.line) =< MaximumRequestBytes
    BY <1>2, <2>6
  <2> QED
    BY <2>5, <2>6, <2>7, Zenon
<1>9. CASE h = Set(f, "line", Append(s.line, c)) /\ Fits(s.line)
  <2>1. PICK line : line = Append(s.line, c)
    OBVIOUS
  <2>2. line \in Seq(Nat) /\ Len(line) = Len(s.line) + 1
    BY <1>2, <2>1, AppendProperties
  <2>3. h = Set(f, "line", line)
    BY <1>9, <2>1, Zenon
  <2>4. /\ Quiet(f, h) /\ h.session.line = line
        /\ h.session.structured = f.session.structured
        /\ h.session.expectedStructuredBytes = f.session.expectedStructuredBytes
    BY <2>2, <2>3, LineSet
  <2>5. Len(line) =< MaximumRequestBytes
    BY <1>2, <1>9, <2>2 DEF Fits
  <2> QED
    BY <2>4, <2>5, Zenon DEF SameFrames
<1>10. CASE h = Set(empty, "discardUntilNewline", TRUE)
  <2>1. TRUE \in BOOLEAN
    OBVIOUS
  <2>2. /\ Quiet(empty, h) /\ h.session.line = empty.session.line
        /\ h.session.structured = empty.session.structured
        /\ h.session.expectedStructuredBytes = empty.session.expectedStructuredBytes
    BY <1>4, <1>10, <2>1, DiscardSet
  <2>3. Quiet(f, h)
    BY <1>4, <2>2, QuietTwice
  <2>4. SameFrames(f.session, h.session) /\ h.session.line = <<>>
    BY <1>1, <1>4, <2>2, Zenon DEF SameFrames
  <2>5. Len(h.session.line) =< MaximumRequestBytes
    BY <1>2, <2>4
  <2> QED
    BY <2>3, <2>4, <2>5, Zenon
<1> QED
  BY <1>5, <1>6, <1>7, <1>8, <1>9, <1>10, Zenon

-----------------------------------------------------------------------------
(* Structured mode.                                                        *)

(* A response is encoded, or is not.                                       *)
LEMMA ResponseEncoded ==
  ASSUME NEW id \in Nat, NEW result \in Result
  PROVE  EncodeResponse(Response(id, result)) \in Encodings
<1>1. result.message \in Seq(Nat) /\ Len(result.message) \in Nat
  BY DEF Result
<1>2. CASE Len(result.message) =< Widest
  <2>1. EncodeResponse(Response(id, result)) \in Seq(Nat)
    BY <1>2, ResponseDecoded DEF Result
  <2> QED
    BY <2>1, Zenon DEF Encodings
<1>3. CASE ~(Len(result.message) =< Widest)
  <2>1. PICK r : r = Response(id, result)
    OBVIOUS
  <2>2. r.message = result.message
    BY <2>1 DEF Response
  <2>3. Len(r.message) > Widest
    BY <1>1, <1>3, <2>2, ProtocolAssumption
  <2>4. AppendString(r.message) = Invalid
    BY <2>3, Zenon DEF AppendString
  <2>5. PICK head : head = <<ResponseMagic, Version, r.id, IF r.success THEN 1 ELSE 0, r.code>>
    OBVIOUS
  <2>6. EncodeResponse(r) = Join(<<head, Invalid>>)
    BY <2>4, <2>5, Zenon DEF EncodeResponse
  <2>7. Invalid \in ToSet(<<head, Invalid>>)
    <3>1. 2 \in DOMAIN <<head, Invalid>> /\ <<head, Invalid>>[2] = Invalid
      OBVIOUS
    <3> QED
      BY <3>1, Zenon DEF ToSet
  <2>8. EncodeResponse(r) = Invalid
    BY <2>6, <2>7, Zenon DEF Join
  <2> QED
    BY <2>1, <2>8, Zenon DEF Encodings
<1> QED
  BY <1>2, <1>3

(* Logging a result and answering with it, under a number.                 *)
LEMMA ResponseTold ==
  ASSUME NEW f \in Calls, NEW did \in Deeds, NEW context \in Contexts, NEW result \in Result,
         Judged(f.session.hooks, did, context), NEW id \in Nat, NEW fits,
         id = IF did = "refused" THEN 0 ELSE context.id, fits => Len(result.message) =< Widest,
         NEW h, h = Write(Log(f, did, context, result), EncodeResponse(Response(id, result)))
  PROVE  Done("StructuredBinary", fits, f, h)
<1>1. PICK e : e = Made(f, did, context, result)
  OBVIOUS
<1>2. e.did = did /\ e.context = context /\ e.result = result
  BY <1>1 DEF Made
<1>3. PICK answer : answer = EncodeResponse(Response(id, result))
  OBVIOUS
<1>4. answer \in Encodings
  BY <1>3, ResponseEncoded
<1>5. Fitting("StructuredBinary", fits, e, answer)
  <2>1. CASE fits
    <3>1. answer # Invalid /\ DecodeResponse[answer] = Response(id, result)
      BY <1>3, <2>1, ResponseDecoded DEF Result
    <3>2. "StructuredBinary" # "Line"
      OBVIOUS
    <3>3. id = IF e.did = "refused" THEN 0 ELSE e.context.id
      BY <1>2, Zenon
    <3>4. DecodeResponse[answer] = Response(IF e.did = "refused" THEN 0 ELSE e.context.id, e.result)
      BY <1>2, <3>1, <3>3, Zenon
    <3> QED
      BY <3>1, <3>2, <3>4, Zenon DEF Fitting, Replied
  <2>2. CASE ~fits
    BY <2>2, Zenon DEF Fitting
  <2> QED
    BY <2>1, <2>2
<1>6. h = Write(Log(f, did, context, result), answer)
  BY <1>3, Zenon
<1> QED
  BY <1>1, <1>4, <1>5, <1>6, WrittenTold, Zenon

(* What is no request is refused under no number.                          *)
LEMMA ErrorTold ==
  ASSUME NEW f \in Calls, NEW result \in Result, Len(result.message) = 0, NEW fits, NEW h,
         h = EmitStructuredError(Log(f, "refused", Null, result), result)
  PROVE  Done("StructuredBinary", fits, f, h)
<1>1. "refused" \in Deeds /\ Null \in Contexts /\ Judged(f.session.hooks, "refused", Null)
  BY DEF Judged, Deeds, Contexts
<1>2. 0 \in Nat /\ 0 = (IF "refused" = "refused" THEN 0 ELSE Null.id)
  OBVIOUS
<1>3. fits => Len(result.message) =< Widest
  BY ProtocolAssumption
<1>4. h = Write(Log(f, "refused", Null, result), EncodeResponse(Response(0, result)))
  BY Zenon DEF EmitStructuredError
<1> QED
  BY <1>1, <1>2, <1>3, <1>4, ResponseTold, Zenon

(* A payload is answered as it was dealt with.                             *)
LEMMA FrameTold ==
  ASSUME NEW f \in Calls, NEW payload \in Seq(Nat), NEW h, h = HandleStructuredFrame(f, payload)
  PROVE  /\ Told("StructuredBinary", Len(payload) =< Widest, f, h)
         /\ h.returned = f.returned
         /\ h.session.line = f.session.line
         /\ SameFrames(f.session, h.session)
<1>1. PICK context : context = DecodeRequest[payload]
  OBVIOUS
<1>2. PICK g : g = Set(f, "requestID", context.id)
  OBVIOUS
<1>3. PICK done : done = Execute(g, context)
  OBVIOUS
<1>4. h = IF context = Invalid THEN EmitStructuredError(Log(f, "refused", Null, Malformed), Malformed)
          ELSE Write(done, EncodeResponse(Response(context.id, Last(done.log).result)))
  BY <1>1, <1>2, <1>3, Zenon DEF HandleStructuredFrame, HandleDecoded
<1>5. PICK fits : fits = (Len(payload) =< Widest)
  OBVIOUS
<1>6. CASE context = Invalid
  <2>1. h = EmitStructuredError(Log(f, "refused", Null, Malformed), Malformed)
    BY <1>4, <1>6, Zenon
  <2>2. Malformed \in Result /\ Len(Malformed.message) = 0
    BY Errors
  <2>3. Done("StructuredBinary", fits, f, h)
    BY <2>1, <2>2, ErrorTold, Zenon
  <2> QED
    BY <1>5, <2>3, Zenon DEF Done, SameFrames
<1>7. CASE context # Invalid
  <2>1. context \in Context /\ Len(context.raw) =< Len(payload)
    BY <1>1, <1>7, RequestDecoded
  <2>2. context.id \in Nat /\ context.raw \in Seq(Nat) /\ context \in Contexts
    BY <2>1 DEF Context, Contexts
  <2>3. PICK id \in Nat : id = context.id
    BY <2>2
  <2>4. g = Set(f, "requestID", id)
    BY <1>2, <2>3, Zenon
  <2>5. /\ Quiet(f, g) /\ g.returned = f.returned /\ g.session.line = f.session.line
        /\ g.session.structured = f.session.structured
        /\ g.session.expectedStructuredBytes = f.session.expectedStructuredBytes
    BY <2>4, NumberSet
  <2>6. g \in Calls
    BY <2>5, Zenon DEF Quiet, Continues
  <2>7. PICK did \in {"denied", "executed"}, result \in Result :
          /\ done = Log(g, did, context, result)
          /\ Len(result.message) =< Len(context.raw)
          /\ (did = "denied") = (g.session.hooks.policy /\ context.path[1] \in Guarded)
    BY <1>3, <2>1, <2>6, Executed, Zenon
  <2>8. did \in Deeds /\ did # "refused" /\ did \in {"refused", "denied", "executed"}
        /\ context \in Context \cup {Null}
    BY <2>1 DEF Deeds
  <2>9. Last(done.log).result = result
    <3>1. Last(Log(g, did, context, result).log).result = result
      BY <2>6, <2>8, LoggedLast
    <3> QED
      BY <2>7, <3>1, Zenon
  <2>10. h = Write(Log(g, did, context, result), EncodeResponse(Response(id, result)))
    BY <1>4, <1>7, <2>3, <2>7, <2>9, Zenon
  <2>11. Judged(g.session.hooks, did, context)
    BY <2>7, Zenon DEF Judged
  <2>12. id = IF did = "refused" THEN 0 ELSE context.id
    BY <2>3, <2>8, Zenon
  <2>13. fits => Len(result.message) =< Widest
    <3>1. Len(result.message) \in Nat /\ Len(context.raw) \in Nat /\ Len(payload) \in Nat
      BY <2>2 DEF Result
    <3>2. Len(payload) =< Widest => Len(result.message) =< Widest
      BY <2>1, <2>7, <3>1, ProtocolAssumption
    <3> QED
      BY <1>5, <3>2, Zenon
  <2>14. Done("StructuredBinary", fits, g, h)
    BY <2>2, <2>6, <2>8, <2>10, <2>11, <2>12, <2>13, ResponseTold, Zenon
  <2>15. Told("StructuredBinary", fits, g, h) /\ h.session = g.session /\ h.returned = g.returned
    BY <2>14, Zenon DEF Done
  <2>16. Told("StructuredBinary", fits, f, h)
    BY <2>5, <2>15, QuietBefore
  <2> QED
    BY <1>5, <2>5, <2>15, <2>16, Zenon DEF SameFrames
<1> QED
  BY <1>6, <1>7, Zenon

(* The first bytes taken off.                                              *)
LEMMA TakenOff ==
  ASSUME NEW f \in Calls, NEW n \in Nat, n =< Len(f.session.structured), NEW h, h = Take(f, n)
  PROVE  /\ Quiet(f, h) /\ h.returned = f.returned /\ h.session.line = f.session.line
         /\ h.session.expectedStructuredBytes = f.session.expectedStructuredBytes
         /\ h.session.structured \in Seq(Nat)
         /\ Len(h.session.structured) = Len(f.session.structured) - n
<1>1. PICK data : data = f.session.structured
  OBVIOUS
<1>2. data \in Seq(Nat)
  BY <1>1, CallFields, SessionFields
<1>3. PICK rest : rest = SubSeq(data, n + 1, Len(data))
  OBVIOUS
<1>4. rest \in Seq(Nat) /\ Len(rest) = Len(data) - n
  BY <1>1, <1>2, <1>3, Pieces
<1>5. h = Set(f, "structured", rest)
  BY <1>1, <1>3, Zenon DEF Take
<1>6. /\ Quiet(f, h) /\ h.returned = f.returned /\ h.session.line = f.session.line
      /\ h.session.structured = rest
      /\ h.session.expectedStructuredBytes = f.session.expectedStructuredBytes
  BY <1>4, <1>5, StructuredSet
<1> QED
  BY <1>1, <1>4, <1>6

(* All of them dropped, and none awaited.                                  *)
LEMMA Dropped ==
  ASSUME NEW f \in Calls, NEW h,
         h = Set(Set(f, "structured", <<>>), "expectedStructuredBytes", 0)
  PROVE  /\ Quiet(f, h) /\ h.returned = f.returned /\ h.session.line = f.session.line
         /\ h.session.structured = <<>> /\ h.session.expectedStructuredBytes = 0
<1>1. PICK g : g = Set(f, "structured", <<>>)
  OBVIOUS
<1>2. <<>> \in Seq(Nat) /\ 0 \in Nat
  OBVIOUS
<1>3. /\ Quiet(f, g) /\ g.returned = f.returned /\ g.session.line = f.session.line
      /\ g.session.structured = <<>>
  BY <1>1, <1>2, StructuredSet
<1>4. g \in Calls
  BY <1>3, Zenon DEF Quiet, Continues
<1>5. h = Set(g, "expectedStructuredBytes", 0)
  BY <1>1, Zenon
<1>6. /\ Quiet(g, h) /\ h.returned = g.returned /\ h.session.line = g.session.line
      /\ h.session.structured = g.session.structured /\ h.session.expectedStructuredBytes = 0
  BY <1>2, <1>4, <1>5, ExpectedSet
<1>7. Quiet(f, h)
  BY <1>3, <1>6, QuietTwice
<1> QED
  BY <1>3, <1>6, <1>7, Zenon

(* A length of no request is refused, and what came with it dropped.       *)
LEMMA LengthTold ==
  ASSUME NEW f \in Calls, NEW fits, NEW h, h = RefuseLength(f)
  PROVE  /\ Told("StructuredBinary", fits, f, h) /\ h.session.line = f.session.line
         /\ h.session.structured = <<>> /\ h.session.expectedStructuredBytes = 0
<1>1. PICK dropped : dropped = Set(Set(f, "structured", <<>>), "expectedStructuredBytes", 0)
  OBVIOUS
<1>2. /\ Quiet(f, dropped) /\ dropped.session.line = f.session.line
      /\ dropped.session.structured = <<>> /\ dropped.session.expectedStructuredBytes = 0
  BY <1>1, Dropped
<1>3. dropped \in Calls
  BY <1>2, Zenon DEF Quiet, Continues
<1>4. PICK refused : refused = EmitStructuredError(Log(dropped, "refused", Null, TooLong), TooLong)
  OBVIOUS
<1>5. Done("StructuredBinary", fits, dropped, refused)
  <2>1. TooLong \in Result /\ Len(TooLong.message) = 0
    BY Errors
  <2> QED
    BY <1>3, <1>4, <2>1, ErrorTold, Zenon
<1>6. Told("StructuredBinary", fits, dropped, refused) /\ refused.session = dropped.session
      /\ refused \in Calls
  BY <1>5, Zenon DEF Done, Told, Continues
<1>7. PICK b \in BOOLEAN : b = (refused.wrote /\ ~f.session.config.disconnectOnProtocolError)
  OBVIOUS
<1>8. h = Return(refused, b)
  BY <1>1, <1>4, <1>7, Zenon DEF RefuseLength
<1>9. Quiet(refused, h) /\ h.session = refused.session
  BY <1>6, <1>8, Concluded
<1>10. Told("StructuredBinary", fits, f, h)
  <2>1. Told("StructuredBinary", fits, dropped, h)
    BY <1>6, <1>9, QuietAfter
  <2> QED
    BY <1>2, <2>1, QuietBefore
<1> QED
  BY <1>2, <1>6, <1>9, <1>10, Zenon

\* Nothing can be done with the bytes there are.
Resting(s) ==
  IF s.expectedStructuredBytes = 0 THEN Len(s.structured) < HeaderBytes
  ELSE Len(s.structured) < s.expectedStructuredBytes

\* The most requests there can be in them: a length that is refused takes all
\* of its bytes along, a payload has a byte.
Room(s) ==
  IF s.expectedStructuredBytes = 0
  THEN IF s.structured = <<>> THEN 0 ELSE Len(s.structured) - 1
  ELSE IF Resting(s) THEN 0 ELSE Len(s.structured) - s.expectedStructuredBytes + 1

\* What returns has dropped all.
Parked(f) ==
  f.returned => f.session.structured = <<>> /\ f.session.expectedStructuredBytes = 0

\* From f to h a request done away with has taken some of the room.
Spent(f, h) ==
  \/ Quiet(f, h) /\ Room(h.session) =< Room(f.session)
  \/ /\ Told("StructuredBinary", f.session.expectedStructuredBytes =< Widest, f, h)
     /\ Room(h.session) + 1 =< Room(f.session)

(* A turn with frames: it takes a byte or more until there is nothing to   *)
(* do, and room for each request.                                          *)
LEMMA FrameFed ==
  ASSUME NEW f \in Calls, MaximumRequestBytes \in Nat, NEW h, h = FeedFrame(f)
  PROVE  /\ Spent(f, h)
         /\ h.session.line = f.session.line
         /\ f.session.expectedStructuredBytes =< MaximumRequestBytes =>
              h.session.expectedStructuredBytes =< MaximumRequestBytes
         /\ f.returned \/ Resting(f.session) => h = f
         /\ \/ f.returned \/ Resting(f.session)
            \/ Len(h.session.structured) < Len(f.session.structured)
         /\ Parked(f) => Parked(h)
<1> DEFINE s == f.session
           length == ReadFrameLength(s.structured)
           L == Len(s.structured)
           E == s.expectedStructuredBytes
<1>1. s \in Session /\ s.structured \in Seq(Nat) /\ L \in Nat /\ E \in Nat /\ <<>> \in Seq(Nat)
      /\ Len(<<>>) = 0
  BY CallFields, SessionFields
<1>2. PICK fits : fits = (E =< Widest)
  OBVIOUS
<1>3. PICK payload : payload = SubSeq(s.structured, 1, E)
  OBVIOUS
<1>4. PICK handled : handled = HandleStructuredFrame(f, payload)
  OBVIOUS
<1>5. h = IF f.returned THEN f
          ELSE IF E = 0
          THEN IF L < HeaderBytes THEN f
               ELSE IF length = 0 \/ length > MaximumRequestBytes THEN RefuseLength(f)
               ELSE Set(Take(f, HeaderBytes), "expectedStructuredBytes", length)
          ELSE IF L < E THEN f
          ELSE Set(Take(And(handled), E), "expectedStructuredBytes", 0)
  BY <1>3, <1>4, Zenon DEF FeedFrame
<1>6. CASE f.returned \/ Resting(s)
  <2>1. h = f
    BY <1>5, <1>6, Zenon DEF Resting
  <2>2. Quiet(f, f)
    BY QuietSelf
  <2>3. Room(s) \in Nat
    BY <1>1, EmptySeq, SMTT(20) DEF Room, Resting
  <2>4. Room(s) =< Room(s)
    BY <2>3
  <2> QED
    BY <1>6, <2>1, <2>2, <2>4, Zenon DEF Spent
<1>7. CASE /\ ~(f.returned \/ Resting(s)) /\ E = 0
           /\ length = 0 \/ length > MaximumRequestBytes
  <2>1. h = RefuseLength(f) /\ L >= 2
    <3>1. ~(L < HeaderBytes)
      BY <1>7, Zenon DEF Resting
    <3> QED
      BY <1>1, <1>5, <1>7, <3>1 DEF HeaderBytes
  <2>2. /\ Told("StructuredBinary", fits, f, h) /\ h.session.line = s.line
        /\ h.session.structured = <<>> /\ h.session.expectedStructuredBytes = 0
    BY <2>1, LengthTold
  <2>3. Room(h.session) = 0
    BY <2>2, Zenon DEF Room
  <2>4. Room(s) = L - 1
    <3>1. s.structured # <<>>
      BY <1>1, <2>1
    <3> QED
      BY <1>7, <3>1, Zenon DEF Room
  <2>5. Room(h.session) + 1 =< Room(s)
    BY <1>1, <2>1, <2>3, <2>4
  <2>6. 0 =< MaximumRequestBytes /\ Len(h.session.structured) < L
    BY <1>1, <2>1, <2>2
  <2>7. Spent(f, h)
    BY <1>2, <2>2, <2>5, Zenon DEF Spent
  <2> QED
    BY <1>7, <2>2, <2>6, <2>7, Zenon DEF Parked
<1>8. CASE /\ ~(f.returned \/ Resting(s)) /\ E = 0
           /\ ~(length = 0 \/ length > MaximumRequestBytes)
  <2>1. h = Set(Take(f, HeaderBytes), "expectedStructuredBytes", length) /\ L >= 2
    <3>1. ~(L < HeaderBytes)
      BY <1>8, Zenon DEF Resting
    <3> QED
      BY <1>1, <1>5, <1>8, <3>1 DEF HeaderBytes
  <2>2. length \in Nat
    <3>1. \A data \in Seq(Nat) : Len(data) >= 2 => data[1] \in Nat /\ data[2] \in Nat
      OBVIOUS
    <3>2. s.structured \in Seq(Nat) /\ L >= 2
      BY <1>1, <2>1
    <3>3. s.structured[1] \in Nat /\ s.structured[2] \in Nat
      BY <3>1, <3>2, Zenon
    <3> QED
      BY <3>3 DEF ReadFrameLength
  <2>3. PICK n \in Nat : n = length
    BY <2>2
  <2>4. n # 0 /\ n =< MaximumRequestBytes
    BY <1>8, <2>3
  <2>5. PICK g : g = Take(f, 2)
    OBVIOUS
  <2>6. /\ Quiet(f, g) /\ g.returned = f.returned /\ g.session.line = s.line
        /\ g.session.structured \in Seq(Nat) /\ Len(g.session.structured) = L - 2
    <3>1. 2 \in Nat /\ 2 =< L
      BY <2>1
    <3> QED
      BY <2>5, <3>1, TakenOff
  <2>7. g \in Calls
    BY <2>6, Zenon DEF Quiet, Continues
  <2>8. h = Set(g, "expectedStructuredBytes", n)
    BY <2>1, <2>3, <2>5, Zenon DEF HeaderBytes
  <2>9. /\ Quiet(g, h) /\ h.returned = g.returned /\ h.session.line = g.session.line
        /\ h.session.structured = g.session.structured /\ h.session.expectedStructuredBytes = n
    BY <2>7, <2>8, ExpectedSet
  <2>10. Quiet(f, h)
    BY <2>6, <2>9, QuietTwice
  <2>11. Room(s) = L - 1
    <3>1. s.structured # <<>>
      BY <1>1, <2>1
    <3> QED
      BY <1>8, <3>1, Zenon DEF Room
  <2>12. Room(h.session) = IF L - 2 < n THEN 0 ELSE L - 2 - n + 1
    BY <2>4, <2>6, <2>9, Zenon DEF Room, Resting
  <2>13. Room(h.session) =< Room(s)
    <3>1. \A l \in Nat : l >= 2 => (IF l - 2 < n THEN 0 ELSE l - 2 - n + 1) =< l - 1
      BY <2>4
    <3>2. L \in Nat /\ L >= 2
      BY <1>1, <2>1
    <3> QED
      BY <2>11, <2>12, <3>1, <3>2, Zenon
  <2>14. Len(h.session.structured) < L /\ h.session.expectedStructuredBytes =< MaximumRequestBytes
    BY <1>1, <2>4, <2>6, <2>9
  <2>15. ~h.returned
    BY <1>8, <2>6, <2>9, Zenon
  <2>16. Spent(f, h)
    BY <2>10, <2>13, Zenon DEF Spent
  <2> QED
    BY <1>8, <2>6, <2>9, <2>14, <2>15, <2>16, Zenon DEF Parked
<1>9. CASE ~(f.returned \/ Resting(s)) /\ E # 0
  <2>1. h = Set(Take(And(handled), E), "expectedStructuredBytes", 0) /\ L >= E /\ E > 0
    <3>1. ~(L < E)
      BY <1>9, Zenon DEF Resting
    <3> QED
      BY <1>1, <1>5, <1>9, <3>1
  <2>2. payload \in Seq(Nat) /\ Len(payload) = E
    BY <1>1, <1>3, <2>1, Pieces
  <2>3. /\ Told("StructuredBinary", fits, f, handled) /\ handled.returned = f.returned
        /\ handled.session.line = s.line /\ SameFrames(s, handled.session)
    <3>1. Told("StructuredBinary", Len(payload) =< Widest, f, handled)
          /\ handled.returned = f.returned
          /\ handled.session.line = s.line /\ SameFrames(s, handled.session)
      BY <1>4, <2>2, FrameTold
    <3> QED
      BY <1>2, <2>2, <3>1, Zenon
  <2>4. handled \in Calls
    BY <2>3, Zenon DEF Told, Continues
  <2>5. PICK k : k = And(handled)
    OBVIOUS
  <2>6. Quiet(handled, k) /\ k.session = handled.session /\ k.returned = handled.returned
    <3>1. TRUE \in BOOLEAN
      OBVIOUS
    <3> QED
      BY <2>4, <2>5, <3>1, Concluded
  <2>7. k \in Calls /\ k.session.structured = s.structured
    BY <2>3, <2>6, Zenon DEF Quiet, Continues, SameFrames
  <2>8. PICK g : g = Take(k, E)
    OBVIOUS
  <2>9. /\ Quiet(k, g) /\ g.returned = k.returned /\ g.session.line = k.session.line
        /\ g.session.structured \in Seq(Nat) /\ Len(g.session.structured) = L - E
    <3>1. E \in Nat /\ E =< L
      BY <1>1, <2>1
    <3>2. E =< Len(k.session.structured)
      BY <2>7, <3>1, Zenon
    <3>3. /\ Quiet(k, g) /\ g.returned = k.returned /\ g.session.line = k.session.line
          /\ g.session.structured \in Seq(Nat)
          /\ Len(g.session.structured) = Len(k.session.structured) - E
      <4>1. PICK n \in Nat : n = E
        BY <3>1
      <4>2. n =< Len(k.session.structured) /\ g = Take(k, n) /\ k \in Calls
        BY <2>7, <2>8, <3>2, <4>1, Zenon
      <4>3. /\ Quiet(k, g) /\ g.returned = k.returned /\ g.session.line = k.session.line
            /\ g.session.structured \in Seq(Nat)
            /\ Len(g.session.structured) = Len(k.session.structured) - n
        BY <4>2, TakenOff, Zenon
      <4> QED
        BY <4>1, <4>3, Zenon
    <3> QED
      BY <2>7, <3>3, Zenon
  <2>10. g \in Calls
    BY <2>9, Zenon DEF Quiet, Continues
  <2>11. h = Set(g, "expectedStructuredBytes", 0)
    BY <2>1, <2>5, <2>8, Zenon
  <2>12. /\ Quiet(g, h) /\ h.returned = g.returned /\ h.session.line = g.session.line
         /\ h.session.structured = g.session.structured /\ h.session.expectedStructuredBytes = 0
    <3>1. 0 \in Nat
      OBVIOUS
    <3> QED
      BY <2>10, <2>11, <3>1, ExpectedSet
  <2>13. Told("StructuredBinary", fits, f, h)
    <3>1. Told("StructuredBinary", fits, f, k)
      BY <2>3, <2>6, QuietAfter
    <3>2. Told("StructuredBinary", fits, f, g)
      BY <2>9, <3>1, QuietAfter
    <3> QED
      BY <2>12, <3>2, QuietAfter
  <2>14. Room(s) = L - E + 1
    <3>1. ~Resting(s)
      BY <1>9
    <3> QED
      BY <1>9, <3>1, Zenon DEF Room
  <2>15. Room(h.session) = IF h.session.structured = <<>> THEN 0 ELSE L - E - 1
    BY <2>9, <2>12, Zenon DEF Room
  <2>16. Room(h.session) + 1 =< Room(s)
    BY <1>1, <2>1, <2>14, <2>15
  <2>17. Len(h.session.structured) < L /\ h.session.expectedStructuredBytes =< MaximumRequestBytes
    <3>1. \A l, n \in Nat : l >= n /\ n > 0 => l - n < l
      OBVIOUS
    <3>2. L - E < L
      <4>1. L \in Nat /\ E \in Nat /\ L >= E /\ E > 0
        BY <1>1, <2>1
      <4> QED
        BY <3>1, <4>1, Zenon
    <3>3. Len(h.session.structured) < L
      BY <2>9, <2>12, <3>2, Zenon
    <3>4. 0 =< MaximumRequestBytes
      OBVIOUS
    <3> QED
      BY <2>12, <3>3, <3>4, Zenon
  <2>18. ~h.returned
    BY <1>9, <2>3, <2>6, <2>9, <2>12, Zenon
  <2>19. Spent(f, h)
    BY <1>2, <2>13, <2>16, Zenon DEF Spent
  <2>20. h.session.line = s.line
    BY <2>3, <2>6, <2>9, <2>12, Zenon
  <2> QED
    BY <1>9, <2>17, <2>18, <2>19, <2>20, Zenon DEF Parked
<1> QED
  BY <1>6, <1>7, <1>8, <1>9, Zenon

-----------------------------------------------------------------------------
(* A call as a whole.                                                      *)

\* The call is of this session, and what it has done is what its hooks decided.
Sound(f, session) ==
  /\ f \in Calls
  /\ f.session.config = session.config /\ f.session.hooks = session.hooks
  /\ \A j \in 1..Len(f.log) : Ruled(f.log[j], session.hooks)

\* Of the answers the writer takes, as many are written as requests are done
\* away with, each to its own.
Matched(mode, f, writable) ==
  /\ f.writable + Len(f.answers) = writable
  /\ Len(f.log) = Len(f.answers)
  /\ \A j \in 1..Len(f.log) : Replied(mode, f.log[j], f.answers[j])

(* So it is when nothing is done.                                          *)
LEMMA QuietKeeps ==
  ASSUME NEW session, NEW f, NEW g, Quiet(f, g), Sound(f, session)
  PROVE  /\ Sound(g, session)
         /\ Len(g.answers) = Len(f.answers)
         /\ \A mode, w : Matched(mode, f, w) => Matched(mode, g, w)
<1>1. /\ g \in Calls /\ g.session.config = f.session.config /\ g.session.hooks = f.session.hooks
      /\ g.log = f.log /\ g.answers = f.answers /\ g.writable = f.writable
  BY Zenon DEF Quiet, Continues
<1>2. Sound(g, session)
  BY <1>1, Zenon DEF Sound
<1>3. ASSUME NEW mode, NEW w, Matched(mode, f, w) PROVE Matched(mode, g, w)
  BY <1>1, <1>3, Zenon DEF Matched
<1> QED
  BY <1>1, <1>2, <1>3, Zenon

(* And when a request is done away with: the answer is written if it can   *)
(* be encoded and the writer takes another.                                *)
LEMMA ToldKeeps ==
  ASSUME NEW mode, NEW fits, NEW session, NEW f, NEW g, Told(mode, fits, f, g), Sound(f, session)
  PROVE  /\ Sound(g, session)
         /\ \A w \in Nat : fits /\ Matched(mode, f, w) /\ Len(f.answers) < w =>
              Matched(mode, g, w) /\ Len(g.answers) = Len(f.answers) + 1
<1>1. PICK e \in Entry, answer \in Seq(Nat) \cup {Invalid} : Wrote(mode, fits, f, g, e, answer)
  BY Zenon DEF Told
<1>2. /\ f \in Calls /\ g \in Calls
      /\ g.session.config = session.config /\ g.session.hooks = session.hooks
      /\ f.session.hooks = session.hooks
      /\ \A j \in 1..Len(f.log) : Ruled(f.log[j], session.hooks)
  BY Zenon DEF Told, Continues, Sound
<1>a. f \in Calls
  BY <1>2
<1>b. f.log \in Seq(Entry) /\ f.answers \in Seq(Seq(Nat)) /\ f.writable \in Nat
  BY <1>a, CallFields, Zenon
<1>c. Len(f.log) \in Nat
  BY <1>b
<1>3. PICK n \in Nat : n = Len(f.log)
  BY <1>c, Zenon
<1>4. PICK log : log = Append(f.log, e)
  OBVIOUS
<1>5. Len(log) = n + 1 /\ log[n + 1] = e /\ \A j \in 1..n : log[j] = f.log[j]
  BY <1>3, <1>4, <1>b, AppendProperties
<1>6. g.log = log
  BY <1>1, <1>4, Zenon DEF Wrote
<1>7. \A j \in 1..(n + 1) : j = n + 1 \/ j \in 1..n
  BY <1>3
<1>8. Sound(g, session)
  <2>1. Ruled(e, session.hooks)
    BY <1>1, <1>2, Zenon DEF Wrote
  <2>2. ASSUME NEW j \in 1..(n + 1) PROVE Ruled(log[j], session.hooks)
    <3>1. CASE j = n + 1
      BY <1>5, <2>1, <3>1, Zenon
    <3>2. CASE j \in 1..n
      BY <1>2, <1>3, <1>5, <3>2, Zenon
    <3> QED
      BY <1>7, <3>1, <3>2
  <2> QED
    BY <1>2, <1>5, <1>6, <2>2, Zenon DEF Sound
<1>9. ASSUME NEW w \in Nat, fits, Matched(mode, f, w), Len(f.answers) < w
      PROVE  Matched(mode, g, w) /\ Len(g.answers) = Len(f.answers) + 1
  <2>1. f.answers \in Seq(Seq(Nat)) /\ f.writable \in Nat
    BY <1>b, Zenon
  <2>2. f.writable + Len(f.answers) = w /\ Len(f.answers) = n
        /\ \A j \in 1..n : Replied(mode, f.log[j], f.answers[j])
    BY <1>3, <1>9, Zenon DEF Matched
  <2>3. f.writable # 0
    BY <1>3, <1>9, <2>1, <2>2
  <2>4. answer # Invalid /\ Replied(mode, e, answer)
    BY <1>1, <1>9, Zenon DEF Wrote
  <2>5. Taken(f, answer)
    BY <2>3, <2>4, Zenon DEF Taken
  <2>6. g.answers = Append(f.answers, answer) /\ g.writable = f.writable - 1
    BY <1>1, <2>5, Zenon DEF Wrote
  <2>7. PICK answers : answers = Append(f.answers, answer)
    OBVIOUS
  <2>8. answer \in Seq(Nat)
    BY <2>4
  <2>9. Len(answers) = n + 1 /\ answers[n + 1] = answer
        /\ \A j \in 1..n : answers[j] = f.answers[j]
    BY <2>1, <2>2, <2>7, <2>8, AppendProperties, SMTT(30)
  <2>10. ASSUME NEW j \in 1..(n + 1) PROVE Replied(mode, log[j], answers[j])
    <3>1. CASE j = n + 1
      BY <1>5, <2>4, <2>9, <3>1, Zenon
    <3>2. CASE j \in 1..n
      BY <1>5, <2>2, <2>9, <3>2, Zenon
    <3> QED
      BY <1>7, <3>1, <3>2
  <2>11. g.writable + Len(g.answers) = w
    <3>1. \A a \in Nat : a + n = w => (a - 1) + (n + 1) = w
      BY <1>3
    <3>2. (f.writable - 1) + (n + 1) = w
      BY <2>1, <2>2, <3>1, Zenon
    <3> QED
      BY <2>6, <2>7, <2>9, <3>2, Zenon
  <2>12. Len(g.log) = Len(g.answers) /\ Len(g.log) = n + 1
    BY <1>5, <1>6, <2>6, <2>7, <2>9, Zenon
  <2>13. \A j \in 1..Len(g.log) : Replied(mode, g.log[j], g.answers[j])
    BY <1>6, <2>6, <2>7, <2>10, <2>12, Zenon
  <2>14. Len(g.answers) = Len(f.answers) + 1
    BY <2>2, <2>12, Zenon
  <2> QED
    BY <2>11, <2>12, <2>13, <2>14, Zenon DEF Matched
<1> QED
  BY <1>8, <1>9, Zenon

\* Nothing has been done.
Begun(f, session, w) ==
  /\ Sound(f, session) /\ f.session = session /\ f.returned = FALSE
  /\ Len(f.answers) = 0 /\ \A mode : Matched(mode, f, w)

(* So a call begins.                                                       *)
LEMMA Beginning ==
  ASSUME NEW session \in Session, NEW w \in Nat, NEW f, f = Begin(session, w)
  PROVE  Begun(f, session, w)
<1>1. f = [session |-> session, log |-> <<>>, answers |-> <<>>, writable |-> w, wrote |-> TRUE,
           success |-> TRUE, returned |-> FALSE]
  BY Zenon DEF Begin
<1>2. <<>> \in Seq(Entry) /\ <<>> \in Seq(Seq(Nat)) /\ Len(<<>>) = 0 /\ 1..0 = {}
  OBVIOUS
<1>3. f \in Calls
  BY <1>1, <1>2 DEF Calls
<1>4. f.session = session /\ f.log = <<>> /\ f.answers = <<>> /\ f.writable = w
      /\ f.returned = FALSE
  BY <1>1
<1>5. Sound(f, session)
  BY <1>2, <1>3, <1>4, Zenon DEF Sound
<1>6. w + 0 = w
  OBVIOUS
<1>7. ASSUME NEW mode PROVE Matched(mode, f, w)
  BY <1>2, <1>4, <1>6, Zenon DEF Matched
<1> QED
  BY <1>2, <1>4, <1>5, <1>7, Zenon DEF Begun

\* A session between calls: its lines and frames within the bound, and
\* nothing that could be done with them.
Settled(s) ==
  /\ Len(s.line) =< MaximumRequestBytes
  /\ Len(s.structured) =< MaximumRequestBytes
  /\ s.expectedStructuredBytes =< MaximumRequestBytes
  /\ Resting(s)

\* After n bytes in line mode.
LineKept(session, w, f, n) ==
  /\ Sound(f, session)
  /\ SameFrames(session, f.session)
  /\ Len(f.session.line) =< MaximumRequestBytes
  /\ n =< w => Matched("Line", f, w) /\ Len(f.answers) =< n

(* A byte more.                                                            *)
LEMMA LineKeeps ==
  ASSUME NEW session \in Session, NEW w \in Nat, NEW n \in Nat \ {0}, NEW f, NEW c \in Nat,
         MaximumRequestBytes \in Nat, LineKept(session, w, f, n - 1), NEW h, h = FeedByte(f, c)
  PROVE  LineKept(session, w, h, n)
<1>1. Sound(f, session) /\ f \in Calls /\ SameFrames(session, f.session)
      /\ Len(f.session.line) =< MaximumRequestBytes
      /\ (n - 1 =< w => Matched("Line", f, w) /\ Len(f.answers) =< n - 1)
  BY Zenon DEF LineKept, Sound
<1>2. /\ Quiet(f, h) \/ Told("Line", TRUE, f, h)
      /\ SameFrames(f.session, h.session)
      /\ Len(h.session.line) =< MaximumRequestBytes
  <2>1. f \in Calls
    BY <1>1
  <2>2. /\ Quiet(f, h) \/ Told("Line", TRUE, f, h)
        /\ SameFrames(f.session, h.session)
        /\ Len(f.session.line) =< MaximumRequestBytes => Len(h.session.line) =< MaximumRequestBytes
    BY <2>1, ByteFed
  <2> QED
    BY <1>1, <2>2, Zenon
<1>3. SameFrames(session, h.session)
  BY <1>1, <1>2, Zenon DEF SameFrames
<1>4. PICK a \in Nat : a = Len(f.answers)
  <2>1. f.answers \in Seq(Seq(Nat))
    BY <1>1, CallFields, Zenon
  <2>2. Len(f.answers) \in Nat
    BY <2>1
  <2> QED
    BY <2>2, Zenon
<1>5. n =< w => n - 1 =< w
  OBVIOUS
<1>6. CASE Quiet(f, h)
  <2>1. /\ Sound(h, session) /\ Len(h.answers) = Len(f.answers)
        /\ Matched("Line", f, w) => Matched("Line", h, w)
    BY <1>1, <1>6, QuietKeeps
  <2>2. a =< n - 1 => a =< n
    OBVIOUS
  <2>3. n =< w => Matched("Line", h, w) /\ Len(h.answers) =< n
    BY <1>1, <1>4, <1>5, <2>1, <2>2, Zenon
  <2> QED
    BY <1>2, <1>3, <2>1, <2>3, Zenon DEF LineKept
<1>7. CASE Told("Line", TRUE, f, h)
  <2>1. Sound(h, session)
    BY <1>1, <1>7, ToldKeeps
  <2>2. ASSUME n =< w PROVE Matched("Line", h, w) /\ Len(h.answers) =< n
    <3>1. Matched("Line", f, w) /\ a =< n - 1
      BY <1>1, <1>4, <1>5, <2>2, Zenon
    <3>2. a < w /\ a + 1 =< n
      BY <2>2, <3>1
    <3>3. Len(f.answers) < w
      BY <1>4, <3>2
    <3>4. Matched("Line", h, w) /\ Len(h.answers) = Len(f.answers) + 1
      BY <1>1, <1>7, <3>1, <3>3, ToldKeeps
    <3> QED
      BY <1>4, <3>2, <3>4, Zenon
  <2> QED
    BY <1>2, <1>3, <2>1, <2>2, Zenon DEF LineKept
<1> QED
  BY <1>2, <1>6, <1>7

\* The turns with the bytes of data, one after another.
LineRun(f, data, after) ==
  /\ after[0] = f
  /\ \A i \in 1..Len(data) : after[i] = FeedByte(after[i - 1], data[i])
  /\ FeedLine(f, data) = after[Len(data)]

(* A read in line mode is a turn with each of its bytes.                   *)
LEMMA LineTurns ==
  ASSUME NEW f \in Calls, NEW data \in Seq(Nat), MaximumRequestBytes \in Nat
  PROVE  \E after : LineRun(f, data, after)
<1>1. PICK N \in Nat : N = Len(data)
  OBVIOUS
<1> DEFINE turn == [n \in 1..N |-> [b \in Calls |-> FeedByte(b, data[n])]]
           Bytes(after) ==
             after = [n \in 0..N |-> IF n = 0 THEN f ELSE FeedByte(after[n - 1], data[n])]
<1>2. \A n \in 1..N : data[n] \in Nat
  BY <1>1
<1>3. ASSUME NEW n \in 1..N, NEW b \in Calls PROVE FeedByte(b, data[n]) \in Calls
  <2>1. PICK c \in Nat : c = data[n]
    BY <1>2
  <2>2. PICK h : h = FeedByte(b, c)
    OBVIOUS
  <2>3. Quiet(b, h) \/ Told("Line", TRUE, b, h)
    BY <2>2, ByteFed
  <2> QED
    BY <2>1, <2>2, <2>3, Zenon DEF Quiet, Told, Continues
<1>4. turn \in [1..N -> [Calls -> Calls]] /\ \A n \in 1..N, b \in Calls : turn[n][b] = FeedByte(b, data[n])
  BY <1>3
<1> HIDE DEF turn
<1>5. PICK g : Course(g, N, Calls, f, turn)
  BY <1>4, Turns
<1>6. /\ g \in [0..N -> Calls] /\ g[0] = f /\ \A i \in 1..N : g[i] = turn[i][g[i - 1]]
  BY <1>5 DEF Course
<1>7. ASSUME NEW i \in 0..N PROVE g[i] = IF i = 0 THEN f ELSE FeedByte(g[i - 1], data[i])
  <2>1. CASE i = 0
    BY <1>6, <2>1
  <2>2. CASE i # 0
    <3>1. i \in 1..N /\ i - 1 \in 0..N
      BY <2>2
    <3>2. g[i - 1] \in Calls
      BY <1>6, <3>1
    <3> QED
      BY <1>4, <1>6, <2>2, <3>1, <3>2, Zenon
  <2> QED
    BY <2>1, <2>2
<1>8. Bytes(g)
  <2>1. g = [i \in 0..N |-> g[i]]
    BY <1>6
  <2> QED
    BY <2>1, <1>7, Zenon
<1> HIDE DEF Bytes
<1>9. PICK after : Bytes(after) /\ FeedLine(f, data) = after[N]
  <2>1. FeedLine(f, data) = (CHOOSE after : Bytes(after))[N]
    BY <1>1, Zenon DEF FeedLine, Bytes
  <2>2. Bytes(CHOOSE after : Bytes(after))
    BY <1>8, Zenon
  <2> QED
    BY <2>1, <2>2
<1>10. \A i \in 0..N : after[i] = IF i = 0 THEN f ELSE FeedByte(after[i - 1], data[i])
  <2>1. after = [i \in 0..N |-> IF i = 0 THEN f ELSE FeedByte(after[i - 1], data[i])]
    BY <1>9 DEF Bytes
  <2> QED
    BY <2>1, Zenon
<1>11. 0 \in 0..N /\ \A i \in 1..N : i \in 0..N /\ i # 0
  OBVIOUS
<1>12. after[0] = f /\ \A i \in 1..N : after[i] = FeedByte(after[i - 1], data[i])
  BY <1>10, <1>11, Zenon
<1> QED
  BY <1>1, <1>9, <1>12, Zenon DEF LineRun

(* All the bytes of a read, in line mode.                                  *)
LEMMA LineFed ==
  ASSUME NEW session \in Session, NEW w \in Nat, NEW data \in Seq(Nat),
         MaximumRequestBytes \in Nat, Len(session.line) =< MaximumRequestBytes, NEW f,
         f = Begin(session, w)
  PROVE  LineKept(session, w, FeedLine(f, data), Len(data))
<1>1. PICK N \in Nat : N = Len(data)
  OBVIOUS
<1>2. \A n \in 1..N : data[n] \in Nat
  BY <1>1
<1>3. f \in Calls /\ LineKept(session, w, f, 0)
  <2>1. /\ Sound(f, session) /\ f.session = session
        /\ Len(f.answers) = 0 /\ Matched("Line", f, w)
    <3>1. Begun(f, session, w)
      BY Beginning
    <3> QED
      BY <3>1, Zenon DEF Begun
  <2>2. 0 =< 0
    OBVIOUS
  <2> QED
    BY <2>1, <2>2, Zenon DEF LineKept, Sound, SameFrames
<1>4. PICK after : LineRun(f, data, after)
  BY <1>3, LineTurns, Zenon
<1>5. /\ after[0] = f /\ \A i \in 1..N : after[i] = FeedByte(after[i - 1], data[i])
      /\ FeedLine(f, data) = after[N]
  BY <1>1, <1>4, Zenon DEF LineRun
<1> DEFINE P == {i \in 0..N : LineKept(session, w, after[i], i)}
<1>6. 0 \in P
  BY <1>3, <1>5
<1>7. ASSUME NEW n \in 1..N, n - 1 \in P PROVE n \in P
  <2>1. n \in 0..N /\ n \in Nat \ {0} /\ LineKept(session, w, after[n - 1], n - 1)
    BY <1>7
  <2>2. PICK c \in Nat : c = data[n]
    BY <1>2
  <2>3. after[n] = FeedByte(after[n - 1], c)
    BY <1>5, <2>2, Zenon
  <2>4. LineKept(session, w, after[n], n)
    BY <2>1, <2>3, LineKeeps
  <2> QED
    BY <2>1, <2>4
<1> HIDE DEF P
<1>8. \A n \in 0..N : n \in P
  BY <1>6, <1>7, TurnInduction
<1>9. N \in P
  BY <1>8
<1> QED
  BY <1>1, <1>5, <1>9 DEF P

\* After n of N turns with frames, from which there was room for so many.
FramesKept(session, w, room, N, f, n) ==
  /\ Sound(f, session)
  /\ f.session.line = session.line
  /\ f.session.expectedStructuredBytes =< MaximumRequestBytes
  /\ Parked(f)
  /\ f.returned \/ Resting(f.session) \/ Len(f.session.structured) + n =< N
  /\ MaximumRequestBytes =< Widest /\ room =< w =>
       Matched("StructuredBinary", f, w) /\ Len(f.answers) + Room(f.session) =< w

(* The room is a number.                                                   *)
LEMMA RoomType ==
  ASSUME NEW s \in Session
  PROVE  Room(s) \in Nat
<1>1. s.structured \in Seq(Nat) /\ Len(s.structured) \in Nat /\ s.expectedStructuredBytes \in Nat
  BY SessionFields
<1>2. PICK L \in Nat, E \in Nat : L = Len(s.structured) /\ E = s.expectedStructuredBytes
  BY <1>1
<1>3. s.structured # <<>> => L # 0
  BY <1>1, <1>2, EmptySeq
<1>4. Room(s) = IF E = 0 THEN IF s.structured = <<>> THEN 0 ELSE L - 1
                ELSE IF L < E THEN 0 ELSE L - E + 1
  BY <1>2, Zenon DEF Room, Resting
<1>5. CASE s.structured = <<>>
  <2>1. Room(s) = IF E = 0 THEN 0 ELSE IF L < E THEN 0 ELSE L - E + 1
    BY <1>4, <1>5, Zenon
  <2> QED
    BY <1>2, <2>1
<1>6. CASE s.structured # <<>>
  <2>1. Room(s) = IF E = 0 THEN L - 1 ELSE IF L < E THEN 0 ELSE L - E + 1
    BY <1>4, <1>6, Zenon
  <2>2. L # 0
    BY <1>3, <1>6
  <2> QED
    BY <1>2, <2>1, <2>2
<1> QED
  BY <1>5, <1>6

(* A turn more.                                                            *)
LEMMA FramesKeep ==
  ASSUME NEW session \in Session, NEW w \in Nat, NEW room, NEW N \in Nat, NEW n \in Nat \ {0},
         NEW f, MaximumRequestBytes \in Nat, FramesKept(session, w, room, N, f, n - 1), NEW h,
         h = FeedFrame(f)
  PROVE  FramesKept(session, w, room, N, h, n)
<1>1. /\ Sound(f, session) /\ f.session.line = session.line
      /\ f.session.expectedStructuredBytes =< MaximumRequestBytes /\ Parked(f)
      /\ f.returned \/ Resting(f.session) \/ Len(f.session.structured) + (n - 1) =< N
      /\ MaximumRequestBytes =< Widest /\ room =< w =>
           Matched("StructuredBinary", f, w) /\ Len(f.answers) + Room(f.session) =< w
  BY Zenon DEF FramesKept
<1>2. f \in Calls
  BY <1>1, Zenon DEF Sound
<1>3. /\ Spent(f, h)
      /\ h.session.line = f.session.line
      /\ f.session.expectedStructuredBytes =< MaximumRequestBytes =>
           h.session.expectedStructuredBytes =< MaximumRequestBytes
      /\ f.returned \/ Resting(f.session) => h = f
      /\ \/ f.returned \/ Resting(f.session)
         \/ Len(h.session.structured) < Len(f.session.structured)
      /\ Parked(f) => Parked(h)
  BY <1>2, FrameFed
<1>4. h \in Calls
  BY <1>3, Zenon DEF Spent, Quiet, Told, Continues
<1>5. /\ Len(f.session.structured) \in Nat /\ Len(h.session.structured) \in Nat
      /\ Len(f.answers) \in Nat /\ Room(f.session) \in Nat /\ Room(h.session) \in Nat
      /\ f.session.expectedStructuredBytes \in Nat
  <2>1. f.session \in Session /\ h.session \in Session /\ f.answers \in Seq(Seq(Nat))
    BY <1>2, <1>4, CallFields, Zenon
  <2>2. f.session.structured \in Seq(Nat) /\ h.session.structured \in Seq(Nat)
        /\ f.session.expectedStructuredBytes \in Nat
    BY <2>1, SessionFields, Zenon
  <2>3. Room(f.session) \in Nat /\ Room(h.session) \in Nat
    BY <2>1, RoomType, Zenon
  <2>4. \A T : \A data \in Seq(T) : Len(data) \in Nat
    OBVIOUS
  <2> QED
    BY <2>1, <2>2, <2>3, <2>4, Zenon
<1>6. h.returned \/ Resting(h.session) \/ Len(h.session.structured) + n =< N
  <2>1. CASE f.returned \/ Resting(f.session)
    BY <1>3, <2>1, Zenon
  <2>2. CASE ~(f.returned \/ Resting(f.session))
    <3>1. \A a, b \in Nat : a < b /\ b + (n - 1) =< N => a + n =< N
      OBVIOUS
    <3> QED
      BY <1>1, <1>3, <1>5, <2>2, <3>1, Zenon
  <2> QED
    BY <2>1, <2>2
<1>7. Sound(h, session) /\
      (MaximumRequestBytes =< Widest /\ room =< w =>
         Matched("StructuredBinary", h, w) /\ Len(h.answers) + Room(h.session) =< w)
  <2>1. CASE Quiet(f, h) /\ Room(h.session) =< Room(f.session)
    <3>1. /\ Sound(h, session) /\ Len(h.answers) = Len(f.answers)
          /\ \A m, x : Matched(m, f, x) => Matched(m, h, x)
      BY <1>1, <2>1, QuietKeeps
    <3>2. \A a, r, q \in Nat : a + r =< w /\ q =< r => a + q =< w
      OBVIOUS
    <3> QED
      BY <1>1, <1>5, <2>1, <3>1, <3>2, Zenon
  <2>2. CASE /\ Told("StructuredBinary", f.session.expectedStructuredBytes =< Widest, f, h)
             /\ Room(h.session) + 1 =< Room(f.session)
    <3>1. /\ Sound(h, session)
          /\ \A x \in Nat :
               /\ f.session.expectedStructuredBytes =< Widest
               /\ Matched("StructuredBinary", f, x) /\ Len(f.answers) < x
               => /\ Matched("StructuredBinary", h, x) /\ Len(h.answers) = Len(f.answers) + 1
      BY <1>1, <2>2, ToldKeeps, Zenon
    <3>2. MaximumRequestBytes =< Widest => f.session.expectedStructuredBytes =< Widest
      <4>1. \A e \in Nat : e =< MaximumRequestBytes /\ MaximumRequestBytes =< Widest => e =< Widest
        BY ProtocolAssumption
      <4> QED
        BY <1>1, <1>5, <4>1, Zenon
    <3>3. \A a, r, q \in Nat : a + r =< w /\ q + 1 =< r => a < w /\ (a + 1) + q =< w
      OBVIOUS
    <3> QED
      BY <1>1, <1>5, <2>2, <3>1, <3>2, <3>3, Zenon
  <2> QED
    BY <1>3, <2>1, <2>2, Zenon DEF Spent
<1> QED
  BY <1>1, <1>3, <1>6, <1>7, Zenon DEF FramesKept

\* The turns with the frames.
FrameRun(f, N, after) ==
  /\ after[0] = f
  /\ \A i \in 1..N : after[i] = FeedFrame(after[i - 1])
  /\ FeedFrames(f) = after[N]

(* There are as many turns with frames as there are bytes.                 *)
LEMMA FrameTurns ==
  ASSUME NEW f \in Calls, NEW N \in Nat, N = Len(f.session.structured),
         MaximumRequestBytes \in Nat
  PROVE  \E after : FrameRun(f, N, after)
<1> DEFINE turn == [n \in 1..N |-> [b \in Calls |-> FeedFrame(b)]]
           Frames(after) == after = [n \in 0..N |-> IF n = 0 THEN f ELSE FeedFrame(after[n - 1])]
<1>1. ASSUME NEW b \in Calls PROVE FeedFrame(b) \in Calls
  <2>1. PICK h : h = FeedFrame(b)
    OBVIOUS
  <2>2. Spent(b, h)
    BY <2>1, FrameFed
  <2> QED
    BY <2>1, <2>2, Zenon DEF Spent, Quiet, Told, Continues
<1>2. turn \in [1..N -> [Calls -> Calls]] /\ \A n \in 1..N, b \in Calls : turn[n][b] = FeedFrame(b)
  BY <1>1
<1> HIDE DEF turn
<1>3. PICK g : Course(g, N, Calls, f, turn)
  BY <1>2, Turns
<1>4. /\ g \in [0..N -> Calls] /\ g[0] = f /\ \A i \in 1..N : g[i] = turn[i][g[i - 1]]
  BY <1>3 DEF Course
<1>5. ASSUME NEW i \in 0..N PROVE g[i] = IF i = 0 THEN f ELSE FeedFrame(g[i - 1])
  <2>1. CASE i = 0
    BY <1>4, <2>1
  <2>2. CASE i # 0
    <3>1. i \in 1..N /\ i - 1 \in 0..N
      BY <2>2
    <3>2. g[i - 1] \in Calls
      BY <1>4, <3>1
    <3> QED
      BY <1>2, <1>4, <2>2, <3>1, <3>2, Zenon
  <2> QED
    BY <2>1, <2>2
<1>6. Frames(g)
  <2>1. g = [i \in 0..N |-> g[i]]
    BY <1>4
  <2> QED
    BY <2>1, <1>5, Zenon
<1> HIDE DEF Frames
<1>7. PICK after : Frames(after) /\ FeedFrames(f) = after[N]
  <2>1. FeedFrames(f) = (CHOOSE after : Frames(after))[N]
    BY Zenon DEF FeedFrames, Frames
  <2>2. Frames(CHOOSE after : Frames(after))
    BY <1>6, Zenon
  <2> QED
    BY <2>1, <2>2
<1>8. \A i \in 0..N : after[i] = IF i = 0 THEN f ELSE FeedFrame(after[i - 1])
  <2>1. after = [i \in 0..N |-> IF i = 0 THEN f ELSE FeedFrame(after[i - 1])]
    BY <1>7 DEF Frames
  <2> QED
    BY <2>1, Zenon
<1>9. 0 \in 0..N /\ \A i \in 1..N : i \in 0..N /\ i # 0
  OBVIOUS
<1>10. after[0] = f /\ \A i \in 1..N : after[i] = FeedFrame(after[i - 1])
  BY <1>8, <1>9, Zenon
<1> QED
  BY <1>7, <1>10, Zenon DEF FrameRun

(* The turns there are with frames: after them, nothing can be done.       *)
LEMMA FramesFed ==
  ASSUME NEW session \in Session, NEW w \in Nat, NEW room, NEW f, MaximumRequestBytes \in Nat,
         NEW N \in Nat, N = Len(f.session.structured), FramesKept(session, w, room, N, f, 0)
  PROVE  FramesKept(session, w, room, N, FeedFrames(f), N)
<1>1. f \in Calls
  BY Zenon DEF FramesKept, Sound
<1>2. PICK after : FrameRun(f, N, after)
  BY <1>1, FrameTurns, Zenon
<1>3. /\ after[0] = f /\ \A i \in 1..N : after[i] = FeedFrame(after[i - 1])
      /\ FeedFrames(f) = after[N]
  BY <1>2, Zenon DEF FrameRun
<1> DEFINE P == {i \in 0..N : FramesKept(session, w, room, N, after[i], i)}
<1>4. 0 \in P
  BY <1>3
<1>5. ASSUME NEW n \in 1..N, n - 1 \in P PROVE n \in P
  <2>1. n \in 0..N /\ n # 0 /\ n \in Nat \ {0}
        /\ FramesKept(session, w, room, N, after[n - 1], n - 1)
    BY <1>5
  <2>2. after[n] = FeedFrame(after[n - 1])
    BY <1>3, <2>1, Zenon
  <2>3. FramesKept(session, w, room, N, after[n], n)
    BY <2>1, <2>2, FramesKeep
  <2> QED
    BY <2>1, <2>3
<1> HIDE DEF P
<1>6. \A n \in 0..N : n \in P
  BY <1>4, <1>5, TurnInduction
<1>7. N \in P
  BY <1>6
<1> QED
  BY <1>3, <1>7 DEF P

\* What a call has done, and what it leaves.
Leaves(session, w, data, f) ==
  /\ Sound(f, session)
  /\ Settled(f.session)
  /\ MaximumRequestBytes =< Widest /\ w = Len(data) => Matched(session.config.mode, f, w)

(* A read in structured mode.                                              *)
LEMMA StructuredFed ==
  ASSUME NEW session \in Session, Settled(session), session.config.mode # "Line",
         NEW w \in Nat, NEW data \in Seq(Nat), MaximumRequestBytes \in Nat, NEW f,
         f = FeedStructured(Begin(session, w), data)
  PROVE  Leaves(session, w, data, f)
<1>0. session.config.mode = "StructuredBinary"
  BY SessionFields DEF Config
<1>1. PICK old : old = session.structured
  OBVIOUS
<1>2. /\ old \in Seq(Nat) /\ session.expectedStructuredBytes \in Nat /\ <<>> \in Seq(Nat)
      /\ session.line \in Seq(Nat)
  BY <1>1, SessionFields
<1>3. PICK all : all = old \o data
  OBVIOUS
<1>4. all \in Seq(Nat) /\ Len(all) = Len(old) + Len(data)
  BY <1>2, <1>3, ConcatProperties
<1>5. PICK b : b = Begin(session, w)
  OBVIOUS
<1>6. Begun(b, session, w) /\ b \in Calls
  <2>1. Begun(b, session, w)
    BY <1>5, Beginning
  <2> QED
    BY <2>1, Zenon DEF Begun, Sound
<1>7. PICK start : start = Set(b, "structured", all)
  OBVIOUS
<1>8. /\ Quiet(b, start) /\ start.returned = b.returned /\ start.session.line = b.session.line
      /\ start.session.structured = all
      /\ start.session.expectedStructuredBytes = b.session.expectedStructuredBytes
  BY <1>4, <1>6, <1>7, StructuredSet
<1>9. PICK fed : fed = FeedFrames(start)
  OBVIOUS
<1>10. PICK dropped : dropped = Set(Set(fed, "structured", <<>>), "expectedStructuredBytes", 0)
  OBVIOUS
<1>11. f = IF Len(data) > MaximumRequestBytes + HeaderBytes /\ old = <<>> THEN Return(b, FALSE)
           ELSE IF ~fed.returned /\ Len(fed.session.structured) > MaximumRequestBytes
           THEN Return(dropped, FALSE)
           ELSE fed
  <2>1. b.session = session
    BY <1>6, Zenon DEF Begun
  <2> QED
    BY <1>1, <1>3, <1>5, <1>7, <1>9, <1>10, <2>1, Zenon DEF FeedStructured
<1>12. PICK L \in Nat, D \in Nat, A \in Nat, E \in Nat :
          /\ L = Len(old) /\ D = Len(data) /\ A = Len(all) /\ E = session.expectedStructuredBytes
  <2>1. Len(old) \in Nat /\ Len(data) \in Nat /\ Len(all) \in Nat
    BY <1>2, <1>4
  <2>2. session.expectedStructuredBytes \in Nat
    BY <1>2, Zenon
  <2> QED
    BY <2>1, <2>2, Zenon
<1>13. Room(start.session) =< D
  <2>1. b.session = session
    BY <1>6, Zenon DEF Begun
  <2>2. start.session.structured = all /\ start.session.expectedStructuredBytes = E
    BY <1>8, <1>12, <2>1, Zenon
  <2>3. Room(start.session) = IF E = 0 THEN IF all = <<>> THEN 0 ELSE A - 1
                              ELSE IF A < E THEN 0 ELSE A - E + 1
    BY <1>12, <2>2, Zenon DEF Room, Resting
  <2>4. A = L + D
    BY <1>4, <1>12
  <2>5. IF E = 0 THEN L < 2 ELSE L < E
    BY <1>1, <1>12, Zenon DEF Settled, Resting, HeaderBytes
  <2>6. CASE E = 0
    <3>1. A - 1 =< D /\ 0 =< D
      BY <2>4, <2>5, <2>6
    <3> QED
      BY <2>3, <2>6, <3>1, Zenon
  <2>7. CASE E # 0
    <3>1. A - E + 1 =< D /\ 0 =< D
      BY <2>4, <2>5, <2>7
    <3> QED
      BY <2>3, <2>7, <3>1, Zenon
  <2> QED
    BY <2>6, <2>7
<1>14. FramesKept(session, w, D, A, start, 0)
  <2>1. /\ Sound(b, session) /\ b.session = session /\ b.returned = FALSE /\ Len(b.answers) = 0
        /\ Matched("StructuredBinary", b, w)
    BY <1>6, Zenon DEF Begun
  <2>2. /\ Sound(start, session) /\ Len(start.answers) = Len(b.answers)
        /\ \A mode, x : Matched(mode, b, x) => Matched(mode, start, x)
    BY <1>8, <2>1, QuietKeeps
  <2>3. session.expectedStructuredBytes =< MaximumRequestBytes
    BY Zenon DEF Settled
  <2>4. A + 0 =< A
    OBVIOUS
  <2>5. D =< w => 0 + Room(start.session) =< w
    <3>1. start.session \in Session
      BY <1>8, CallFields, Zenon DEF Quiet, Continues
    <3>2. Room(start.session) \in Nat
      BY <3>1, RoomType, Zenon
    <3>3. \A r \in Nat : r =< D => (D =< w => 0 + r =< w)
      OBVIOUS
    <3> QED
      BY <1>13, <3>2, <3>3, Zenon
  <2> QED
    BY <1>8, <1>12, <2>1, <2>2, <2>3, <2>4, <2>5, Zenon DEF FramesKept, Parked
<1>15. FramesKept(session, w, D, A, fed, A)
  BY <1>8, <1>9, <1>12, <1>14, FramesFed
<1>16. /\ Sound(fed, session) /\ fed.session.line = session.line /\ fed \in Calls
       /\ fed.session.expectedStructuredBytes =< MaximumRequestBytes
       /\ Parked(fed)
       /\ fed.returned \/ Resting(fed.session) \/ Len(fed.session.structured) + A =< A
       /\ MaximumRequestBytes =< Widest /\ D =< w => Matched("StructuredBinary", fed, w)
  BY <1>15, Zenon DEF FramesKept, Sound
<1>17. /\ fed.session.structured \in Seq(Nat) /\ Len(fed.session.structured) \in Nat
       /\ fed.session.expectedStructuredBytes \in Nat
  <2>1. fed.session \in Session
    BY <1>16, CallFields, Zenon
  <2>2. fed.session.structured \in Seq(Nat) /\ fed.session.expectedStructuredBytes \in Nat
    BY <2>1, SessionFields, Zenon
  <2> QED
    BY <2>2
<1>18. Resting(fed.session)
  <2>1. CASE fed.returned
    <3>1. fed.session.structured = <<>> /\ fed.session.expectedStructuredBytes = 0
      BY <1>16, <2>1, Zenon DEF Parked
    <3>2. Len(<<>>) < HeaderBytes
      BY DEF HeaderBytes
    <3> QED
      BY <3>1, <3>2, Zenon DEF Resting
  <2>2. CASE Len(fed.session.structured) + A =< A
    <3>1. \A a \in Nat : a + A =< A => a = 0
      OBVIOUS
    <3>2. Len(fed.session.structured) = 0
      BY <1>17, <2>2, <3>1, Zenon
    <3>3. 0 < HeaderBytes /\ \A e \in Nat : e # 0 => 0 < e
      BY DEF HeaderBytes
    <3> QED
      BY <1>17, <3>2, <3>3, Zenon DEF Resting
  <2> QED
    BY <1>16, <2>1, <2>2
<1>19. MaximumRequestBytes =< Widest /\ w = Len(data) => MaximumRequestBytes =< Widest /\ D =< w
  <2>1. D =< D
    OBVIOUS
  <2> QED
    BY <1>12, <2>1, Zenon
<1>20. ASSUME NEW s, s.structured = <<>>, s.expectedStructuredBytes = 0,
              Len(s.line) =< MaximumRequestBytes
       PROVE  Settled(s)
  <2>1. Len(<<>>) < HeaderBytes /\ Len(<<>>) =< MaximumRequestBytes /\ 0 =< MaximumRequestBytes
    BY DEF HeaderBytes
  <2> QED
    BY <1>20, <2>1, Zenon DEF Settled, Resting
<1>21. CASE f = Return(b, FALSE)
  <2>1. b.session = session /\ Sound(b, session) /\ Matched("StructuredBinary", b, w)
    BY <1>6, Zenon DEF Begun
  <2>2. FALSE \in BOOLEAN
    OBVIOUS
  <2>3. Quiet(b, f) /\ f.session = b.session
    BY <1>6, <1>21, <2>2, Concluded
  <2>4. Sound(f, session) /\ \A mode, x : Matched(mode, b, x) => Matched(mode, f, x)
    BY <2>1, <2>3, QuietKeeps
  <2> QED
    BY <1>0, <2>1, <2>3, <2>4, Zenon DEF Leaves
<1>22. CASE f = Return(dropped, FALSE)
  <2>1. /\ Quiet(fed, dropped) /\ dropped.session.line = fed.session.line
        /\ dropped.session.structured = <<>> /\ dropped.session.expectedStructuredBytes = 0
    BY <1>10, <1>16, Dropped
  <2>2. FALSE \in BOOLEAN /\ dropped \in Calls
    BY <2>1, Zenon DEF Quiet, Continues
  <2>3. Quiet(dropped, f) /\ f.session = dropped.session
    BY <1>22, <2>2, Concluded
  <2>4. Quiet(fed, f)
    BY <2>1, <2>3, QuietTwice
  <2>5. Sound(f, session) /\ \A mode, x : Matched(mode, fed, x) => Matched(mode, f, x)
    BY <1>16, <2>4, QuietKeeps
  <2>6. Settled(f.session)
    <3>1. Len(session.line) =< MaximumRequestBytes
      BY Zenon DEF Settled
    <3> QED
      BY <1>16, <1>20, <2>1, <2>3, <3>1, Zenon
  <2> QED
    BY <1>0, <1>16, <1>19, <2>5, <2>6, Zenon DEF Leaves
<1>23. CASE /\ f = fed
            /\ ~(~fed.returned /\ Len(fed.session.structured) > MaximumRequestBytes)
  <2>1. Len(session.line) =< MaximumRequestBytes
    BY Zenon DEF Settled
  <2>2. Len(fed.session.structured) =< MaximumRequestBytes
    <3>1. CASE fed.returned
      <4>1. fed.session.structured = <<>>
        BY <1>16, <3>1, Zenon DEF Parked
      <4>2. Len(<<>>) =< MaximumRequestBytes
        OBVIOUS
      <4> QED
        BY <4>1, <4>2, Zenon
    <3>2. CASE ~(Len(fed.session.structured) > MaximumRequestBytes)
      BY <1>17, <3>2
    <3> QED
      BY <1>23, <3>1, <3>2
  <2>3. Settled(f.session)
    BY <1>16, <1>18, <1>23, <2>1, <2>2, Zenon DEF Settled
  <2> QED
    BY <1>0, <1>16, <1>19, <1>23, <2>3, Zenon DEF Leaves
<1> QED
  BY <1>11, <1>21, <1>22, <1>23, Zenon

(* A read, cut anywhere: whatever it holds, each request in it is answered *)
(* as what it was, and the session keeps no more than the bound.           *)
THEOREM Fed ==
  ASSUME NEW session \in Session, Settled(session), NEW w \in Nat, NEW data \in Seq(Nat),
         MaximumRequestBytes \in Nat, NEW f, f = Feed(session, data, w)
  PROVE  Leaves(session, w, data, f)
<1>1. CASE session.config.mode = "Line"
  <2>1. PICK b : b = Begin(session, w)
    OBVIOUS
  <2>2. f = FeedLine(b, data)
    BY <1>1, <2>1, Zenon DEF Feed
  <2>3. Len(session.line) =< MaximumRequestBytes
    BY Zenon DEF Settled
  <2>4. LineKept(session, w, FeedLine(b, data), Len(data))
    BY <2>1, <2>3, LineFed
  <2>5. Len(data) =< Len(data)
    OBVIOUS
  <2> QED
    BY <1>1, <2>2, <2>4, <2>5, Zenon DEF Leaves, LineKept, Settled, Resting, SameFrames
<1>2. CASE session.config.mode # "Line"
  <2>1. f = FeedStructured(Begin(session, w), data)
    BY <1>2, Zenon DEF Feed
  <2> QED
    BY <1>2, <2>1, StructuredFed
<1> QED
  BY <1>1, <1>2

=============================================================================
