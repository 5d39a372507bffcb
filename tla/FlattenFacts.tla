---------------------------- MODULE FlattenFacts ----------------------------
(***************************************************************************)
(* Facts about FlattenSeq of the community modules, which the contents of  *)
(* the device and what one client wrote to the data file are stated with.  *)
(* Each is shown by the least natural number at which it would fail.       *)
(***************************************************************************)
EXTENDS SequencesExt, WellFoundedInduction, SequenceTheorems, TLAPS

(* Every non-empty set of naturals has a least element.                    *)
LEMMA LeastNatural ==
  ASSUME NEW T, T \subseteq Nat, T # {}
  PROVE  \E x \in T : \A y \in T : x <= y
<1>1. \E x \in T : \A y \in T : ~ (<<y, x>> \in OpToRel(<, Nat))
  BY NatLessThanWellFounded, WFMin
<1>2. PICK x \in T : \A y \in T : ~ (<<y, x>> \in OpToRel(<, Nat))
  BY <1>1
<1>3. \A y \in T : ~ (y < x)
  BY <1>2 DEF OpToRel
<1> QED
  BY <1>3

(* f runs through q, combining its elements by an operation op on T.       *)
IsChain(f, q, op, N) ==
  \A i \in 1 .. N : f[i] = IF i = 1 THEN q[i] ELSE op[f[i - 1]][q[i]]

Operation(op, T) == \A x, y \in T : op[x][y] \in T

Elements(q, N, T) == \A i \in 1 .. N : q[i] \in T

LEMMA ChainExists ==
  ASSUME NEW T, NEW N \in Nat \ {0}, NEW q, Elements(q, N, T), NEW op, Operation(op, T)
  PROVE  \E f \in [1 .. N -> T] : IsChain(f, q, op, N)
<1> DEFINE Chains(n) == {g \in [1 .. n -> T] : IsChain(g, q, op, n)}
           Bad == {n \in 1 .. N : Chains(n) = {}}
<1>1. Bad = {}
  <2>1. SUFFICES ASSUME Bad # {} PROVE FALSE
    OBVIOUS
  <2>2. PICK n \in Bad : \A m \in Bad : n <= m
    <3>1. Bad \subseteq Nat
      OBVIOUS
    <3> HIDE DEF Bad
    <3> QED  BY <2>1, <3>1, LeastNatural
  <2>3. n \in 1 .. N /\ Chains(n) = {}
    OBVIOUS
  <2>4. CASE n = 1
    <3> DEFINE g == [i \in 1 .. 1 |-> q[i]]
    <3>1. g \in Chains(1)
      BY DEF Elements, IsChain
    <3> QED  BY <2>3, <2>4, <3>1
  <2>5. CASE n # 1
    <3>1. n \in Nat /\ n - 1 \in 1 .. N /\ ~ (n <= n - 1)
      BY <2>3, <2>5
    <3>2. n - 1 \notin Bad
      <4> HIDE DEF Bad
      <4> QED  BY <2>2, <3>1
    <3>3. PICK g \in Chains(n - 1) : TRUE
      BY <3>1, <3>2
    <3>4. g \in [1 .. n - 1 -> T] /\ op[g[n - 1]][q[n]] \in T
      BY <2>3, <3>1, <3>3 DEF Elements, Operation
    <3> DEFINE h == [i \in 1 .. n |-> IF i = n THEN op[g[n - 1]][q[n]] ELSE g[i]]
    <3>5. h \in [1 .. n -> T]
      BY <3>1, <3>4
    <3>6. IsChain(h, q, op, n)
      BY <2>3, <2>5, <3>1, <3>3 DEF IsChain
    <3> QED  BY <2>3, <3>5, <3>6
  <2> QED  BY <2>4, <2>5
<1>2. N \in 1 .. N
  OBVIOUS
<1> QED  BY <1>1, <1>2

(* It stays in T, and there is one for each q.                             *)
LEMMA ChainUnique ==
  ASSUME NEW T, NEW N \in Nat, NEW q, Elements(q, N, T), NEW op, Operation(op, T),
         NEW f, IsChain(f, q, op, N), NEW g, IsChain(g, q, op, N)
  PROVE  \A i \in 1 .. N : f[i] \in T /\ g[i] = f[i]
<1> DEFINE Odd == {i \in 1 .. N : ~ (f[i] \in T /\ g[i] = f[i])}
<1>1. SUFFICES ASSUME Odd # {} PROVE FALSE
  OBVIOUS
<1>2. PICK n \in Odd : \A m \in Odd : n <= m
  <2> Odd \subseteq Nat
    OBVIOUS
  <2> QED  BY <1>1, LeastNatural
<1>3. n # 1
  BY <1>2 DEF Elements, IsChain
<1>4. n - 1 \in 1 .. N /\ n - 1 < n /\ n \in 1 .. N
  BY <1>2, <1>3
<1>5. f[n - 1] \in T /\ g[n - 1] = f[n - 1]
  BY <1>2, <1>4
<1> QED  BY <1>2, <1>3, <1>4, <1>5 DEF Elements, Operation, IsChain

(* FlattenSeq of a sequence of sequences, and of one with another appended. *)
LEMMA FlattenProperties ==
  ASSUME NEW S
  PROVE  /\ FlattenSeq(<<>>) = <<>>
         /\ \A seqs \in Seq(Seq(S)) : FlattenSeq(seqs) \in Seq(S)
         /\ \A seqs \in Seq(Seq(S)), s \in Seq(S) :
              FlattenSeq(Append(seqs, s)) = FlattenSeq(seqs) \o s
<1> DEFINE T == Seq(S)
           op == [x \in T |-> [y \in T |-> x \o y]]
           Eq(f, q) == f = [i \in 1 .. Len(q) |-> IF i = 1 THEN q[i] ELSE f[i - 1] \o q[i]]
           F(q) == CHOOSE f : Eq(f, q)
<1>1. FlattenSeq(<<>>) = <<>>
  BY DEF FlattenSeq
<1>2. \A q : Len(q) # 0 => FlattenSeq(q) = F(q)[Len(q)]
  BY DEF FlattenSeq
<1>3. /\ \A x, y \in T : op[x][y] = x \o y
      /\ Operation(op, T)
      /\ \A q \in Seq(T) : Len(q) \in Nat /\ Elements(q, Len(q), T)
  BY ConcatProperties, LenProperties, ElementOfSeq DEF Operation, Elements
<1>4. ASSUME NEW q \in Seq(T), Len(q) # 0
      PROVE  FlattenSeq(q) = F(q)[Len(q)] /\ IsChain(F(q), q, op, Len(q)) /\ F(q)[Len(q)] \in T
  <2> DEFINE N == Len(q)
  <2> HIDE DEF T, op, F
  <2>1. N \in Nat \ {0} /\ Elements(q, N, T)
    BY <1>3, <1>4
  <2>2. FlattenSeq(q) = F(q)[N]
    BY <1>2, <1>4
  <2> HIDE DEF N
  <2>3. PICK g \in [1 .. N -> T] : IsChain(g, q, op, N)
    BY <1>3, <2>1, ChainExists
  <2>4. \A i \in 1 .. N : i # 1 => i - 1 \in 1 .. N
    BY <2>1
  <2>5. g = [i \in 1 .. N |-> IF i = 1 THEN q[i] ELSE g[i - 1] \o q[i]]
    <3>1. \A i \in 1 .. N : g[i] = IF i = 1 THEN q[i] ELSE g[i - 1] \o q[i]
      BY <1>3, <2>1, <2>3, <2>4 DEF IsChain, Elements
    <3> QED  BY <3>1
  <2>6. Eq(F(q), q)
    BY <2>5 DEF F, N
  <2>7. F(q) = [i \in 1 .. N |-> IF i = 1 THEN q[i] ELSE F(q)[i - 1] \o q[i]]
    BY <2>6 DEF N
  <2>8. \A i \in 1 .. N : F(q)[i] \in T
    \* least index at which it is not
    <3> DEFINE f == F(q)
               Odd == {i \in 1 .. N : f[i] \notin T}
    <3>1. \A i \in 1 .. N : f[i] = IF i = 1 THEN q[i] ELSE f[i - 1] \o q[i]
      BY <2>7
    <3> HIDE DEF f
    <3>2. SUFFICES ASSUME Odd # {} PROVE FALSE
      BY DEF f
    <3>3. PICK n \in Odd : \A m \in Odd : n <= m
      <4> Odd \subseteq Nat
        BY <2>1
      <4> QED  BY <3>2, LeastNatural
    <3>4. n # 1
      BY <2>1, <3>1, <3>3 DEF Elements
    <3>5. n - 1 \in 1 .. N /\ n - 1 < n /\ n \in 1 .. N
      BY <2>1, <3>3, <3>4
    <3>6. f[n - 1] \in T
      BY <3>3, <3>5
    <3>7. f[n] = op[f[n - 1]][q[n]]
      BY <1>3, <2>1, <3>1, <3>4, <3>5, <3>6 DEF Elements
    <3> QED  BY <1>3, <2>1, <3>3, <3>5, <3>6, <3>7 DEF Elements, Operation
  <2>9. IsChain(F(q), q, op, N)
    <3> SUFFICES ASSUME NEW i \in 1 .. N PROVE F(q)[i] = IF i = 1 THEN q[i] ELSE op[F(q)[i - 1]][q[i]]
      BY DEF IsChain
    <3>1. F(q)[i] = IF i = 1 THEN q[i] ELSE F(q)[i - 1] \o q[i]
      BY <2>7
    <3>2. i # 1 => F(q)[i - 1] \in T /\ q[i] \in T
      BY <2>1, <2>4, <2>8 DEF Elements
    <3> QED  BY <1>3, <3>1, <3>2
  <2> QED  BY <2>1, <2>2, <2>8, <2>9 DEF N
<1>5. ASSUME NEW q \in Seq(Seq(S)) PROVE FlattenSeq(q) \in Seq(S)
  <2>1. CASE Len(q) = 0
    <3>1. q = <<>>
      BY <2>1, EmptySeq
    <3> QED  BY <1>1, <3>1, EmptySeq
  <2>2. CASE Len(q) # 0
    BY <1>4, <2>2
  <2> QED  BY <2>1, <2>2
<1>6. ASSUME NEW q \in Seq(Seq(S)), NEW s \in Seq(S)
      PROVE  FlattenSeq(Append(q, s)) = FlattenSeq(q) \o s
  <2> DEFINE r == Append(q, s)
             N == Len(q)
  <2>1. /\ r \in Seq(T) /\ Len(r) = N + 1 /\ r[N + 1] = s
        /\ \A i \in 1 .. N : r[i] = q[i]
        /\ N \in Nat /\ q \in Seq(T) /\ s \in T
    BY AppendProperties, LenProperties
  <2> DEFINE g == F(r)
  <2> HIDE DEF r, N, T, op, F
  <2>2. FlattenSeq(r) = g[N + 1] /\ IsChain(g, r, op, N + 1)
    <3>1. Len(r) # 0
      BY <2>1
    <3>2. FlattenSeq(r) = F(r)[Len(r)] /\ IsChain(F(r), r, op, Len(r))
      BY <1>4, <2>1, <3>1
    <3> QED  BY <2>1, <3>2
  <2> HIDE DEF g
  <2>3. CASE N = 0
    <3>1. q = <<>> /\ FlattenSeq(q) = <<>>
      <4>1. Len(q) = 0
        BY <2>3 DEF N
      <4> QED  BY <1>1, <4>1, EmptySeq
    <3>2. FlattenSeq(r) = s
      <4>1. N + 1 = 1 /\ 1 \in 1 .. N + 1
        BY <2>3
      <4>2. g[1] = r[1]
        BY <2>2, <4>1 DEF IsChain
      <4> QED  BY <2>1, <2>2, <4>1, <4>2
    <3> QED  BY <3>1, <3>2, ConcatEmptySeq DEF r
  <2>4. CASE N # 0
    <3> DEFINE f == F(q)
    <3>1. FlattenSeq(q) = f[N] /\ IsChain(f, q, op, N) /\ f[N] \in T
      BY <1>4, <2>1, <2>4 DEF N
    <3> HIDE DEF f
    <3>2. IsChain(g, q, op, N)
      BY <2>1, <2>2 DEF IsChain
    <3>3. Elements(q, N, T)
      BY <1>3, <2>1 DEF N
    <3>4. N \in 1 .. N /\ N + 1 \in 1 .. N + 1 /\ N + 1 # 1 /\ (N + 1) - 1 = N
      BY <2>1, <2>4
    <3>5. g[N] = f[N]
      BY <1>3, <2>1, <3>1, <3>2, <3>3, <3>4, ChainUnique
    <3>6. g[N + 1] = op[g[N]][s]
      BY <2>1, <2>2, <3>4 DEF IsChain
    <3>7. op[f[N]][s] = f[N] \o s
      BY <1>3, <2>1, <3>1
    <3> QED  BY <2>2, <3>1, <3>5, <3>6, <3>7 DEF r
  <2> QED  BY <2>3, <2>4
<1> QED  BY <1>1, <1>5, <1>6

(* The first k + 1 elements put end to end, from the first k.              *)
LEMMA FlattenPrefix ==
  ASSUME NEW S, NEW q \in Seq(Seq(S)), NEW k \in Nat, k < Len(q)
  PROVE  /\ SubSeq(q, 1, k) \in Seq(Seq(S)) /\ q[k + 1] \in Seq(S)
         /\ SubSeq(q, 1, k + 1) = Append(SubSeq(q, 1, k), q[k + 1])
         /\ FlattenSeq(SubSeq(q, 1, k + 1)) = FlattenSeq(SubSeq(q, 1, k)) \o q[k + 1]
<1> DEFINE T == Seq(S)
           N == Len(q)
<1>1. N \in Nat /\ \A i \in 1 .. N : q[i] \in T
  BY LenProperties, ElementOfSeq
<1>2. SubSeq(q, 1, k) \in Seq(T) /\ q[k + 1] \in T
  <2>1. 1 \in Int /\ k \in Int /\ (\A i \in 1 .. k : q[i] \in T) /\ k + 1 \in 1 .. N
    BY <1>1
  <2> QED  BY <1>1, <2>1, SubSeqProperties
<1>3. SubSeq(q, 1, k + 1) = SubSeq(q, 1, k) \o <<q[k + 1]>>
  <2>1. 1 \in 1 .. Len(q) /\ k + 1 \in 1 .. Len(q) /\ (k + 1) - 1 = k
    BY <1>1
  <2>2. SubSeq(q, 1, k + 1) = SubSeq(q, 1, (k + 1) - 1) \o <<q[k + 1]>>
    BY <2>1, SubSeqRecursiveSecond
  <2> QED  BY <2>1, <2>2
<1>4. SubSeq(q, 1, k + 1) = Append(SubSeq(q, 1, k), q[k + 1])
  BY <1>2, <1>3, AppendIsConcat
<1>5. FlattenSeq(Append(SubSeq(q, 1, k), q[k + 1])) = FlattenSeq(SubSeq(q, 1, k)) \o q[k + 1]
  BY <1>2, FlattenProperties
<1> QED  BY <1>2, <1>4, <1>5

(* Two sequences of sequences, put end to end.                             *)
LEMMA FlattenConcat ==
  ASSUME NEW S, NEW p \in Seq(Seq(S)), NEW q \in Seq(Seq(S))
  PROVE  FlattenSeq(p \o q) = FlattenSeq(p) \o FlattenSeq(q)
<1> DEFINE N == Len(q)
           L(k) == FlattenSeq(p \o SubSeq(q, 1, k))
           R(k) == FlattenSeq(p) \o FlattenSeq(SubSeq(q, 1, k))
           Odd == {k \in 0 .. N : L(k) # R(k)}
<1>1. N \in Nat /\ FlattenSeq(p) \in Seq(S)
  BY LenProperties, FlattenProperties
<1>2. L(0) = R(0)
  <2>1. SubSeq(q, 1, 0) = <<>>
    BY SubSeqEmpty
  <2>2. p \o <<>> = p
    BY ConcatEmptySeq
  <2>3. FlattenSeq(p) \o <<>> = FlattenSeq(p) /\ FlattenSeq(<<>>) = <<>>
    BY <1>1, ConcatEmptySeq, FlattenProperties
  <2> QED  BY <2>1, <2>2, <2>3
<1>3. ASSUME NEW k \in Nat, k < N, L(k) = R(k) PROVE L(k + 1) = R(k + 1)
  <2> DEFINE s == SubSeq(q, 1, k)
             x == q[k + 1]
  <2>1. /\ s \in Seq(Seq(S)) /\ x \in Seq(S) /\ SubSeq(q, 1, k + 1) = Append(s, x)
        /\ FlattenSeq(SubSeq(q, 1, k + 1)) = FlattenSeq(s) \o x
    BY <1>3, FlattenPrefix
  <2> HIDE DEF s, x
  <2>2. p \o Append(s, x) = Append(p \o s, x) /\ p \o s \in Seq(Seq(S))
    <3>1. p \o s \in Seq(Seq(S)) /\ <<x>> \in Seq(Seq(S))
      BY <2>1, ConcatProperties
    <3>2. Append(s, x) = s \o <<x>> /\ Append(p \o s, x) = (p \o s) \o <<x>>
      BY <2>1, <3>1, AppendIsConcat
    <3>3. (p \o s) \o <<x>> = p \o (s \o <<x>>)
      BY <2>1, <3>1, ConcatAssociative
    <3> QED  BY <3>1, <3>2, <3>3
  <2>3. L(k + 1) = FlattenSeq(p \o s) \o x
    <3>1. FlattenSeq(Append(p \o s, x)) = FlattenSeq(p \o s) \o x
      BY <2>1, <2>2, FlattenProperties
    <3> QED  BY <2>1, <2>2, <3>1
  <2>4. FlattenSeq(p \o s) = FlattenSeq(p) \o FlattenSeq(s)
    BY <1>3 DEF s
  <2>5. FlattenSeq(s) \in Seq(S)
    BY <2>1, FlattenProperties
  <2>6. (FlattenSeq(p) \o FlattenSeq(s)) \o x = FlattenSeq(p) \o (FlattenSeq(s) \o x)
    <3>1. \A u, v, w \in Seq(S) : (u \o v) \o w = u \o (v \o w)
      BY ConcatAssociative
    <3> QED  BY <1>1, <2>1, <2>5, <3>1
  <2> QED  BY <2>1, <2>3, <2>4, <2>6
<1>4. SubSeq(q, 1, N) = q
  BY SubSeqFull
<1> HIDE DEF L, R, N
<1>5. Odd = {}
  <2>1. SUFFICES ASSUME Odd # {} PROVE FALSE
    OBVIOUS
  <2>2. PICK n \in Odd : \A m \in Odd : n <= m
    <3> Odd \subseteq Nat
      BY <1>1
    <3> QED  BY <2>1, LeastNatural
  <2>3. n # 0
    BY <1>2, <2>2
  <2>4. n - 1 \in Nat /\ n - 1 < N /\ (n - 1) + 1 = n /\ n - 1 \in 0 .. N /\ ~ (n <= n - 1)
    BY <1>1, <2>2, <2>3
  <2>5. L(n - 1) = R(n - 1)
    BY <2>2, <2>4
  <2>6. L((n - 1) + 1) = R((n - 1) + 1)
    BY <1>3, <2>4, <2>5
  <2> QED  BY <2>2, <2>4, <2>6
<1>6. L(N) = R(N)
  BY <1>1, <1>5
<1> QED  BY <1>4, <1>6 DEF L, R

(* Nothing, put end to end any number of times, is nothing.                *)
LEMMA FlattenEmpty ==
  ASSUME NEW S, NEW q \in Seq(Seq(S)), \A i \in 1 .. Len(q) : q[i] = <<>>
  PROVE  FlattenSeq(q) = <<>>
<1> DEFINE N == Len(q)
           L(k) == FlattenSeq(SubSeq(q, 1, k))
           Odd == {k \in 0 .. N : L(k) # <<>>}
<1>1. N \in Nat
  BY LenProperties
<1>2. L(0) = <<>>
  <2>1. SubSeq(q, 1, 0) = <<>>
    BY SubSeqEmpty
  <2>2. FlattenSeq(<<>>) = <<>>
    BY FlattenProperties
  <2> QED  BY <2>1, <2>2
<1>3. ASSUME NEW k \in Nat, k < N, L(k) = <<>> PROVE L(k + 1) = <<>>
  <2>1. q[k + 1] = <<>>
    BY <1>1, <1>3
  <2>2. L(k + 1) = L(k) \o q[k + 1]
    BY <1>3, FlattenPrefix
  <2> QED  BY <1>3, <2>1, <2>2, EmptySeq, ConcatEmptySeq
<1>4. SubSeq(q, 1, N) = q
  BY SubSeqFull
<1> HIDE DEF L, N
<1>5. Odd = {}
  <2>1. SUFFICES ASSUME Odd # {} PROVE FALSE
    OBVIOUS
  <2>2. PICK n \in Odd : \A m \in Odd : n <= m
    <3> Odd \subseteq Nat
      BY <1>1
    <3> QED  BY <2>1, LeastNatural
  <2>3. n # 0
    BY <1>2, <2>2
  <2>4. n - 1 \in Nat /\ n - 1 < N /\ (n - 1) + 1 = n /\ n - 1 \in 0 .. N /\ ~ (n <= n - 1)
    BY <1>1, <2>2, <2>3
  <2>5. L(n - 1) = <<>>
    BY <2>2, <2>4
  <2>6. L((n - 1) + 1) = <<>>
    BY <1>3, <2>4, <2>5
  <2> QED  BY <2>2, <2>4, <2>6
<1>6. L(N) = <<>>
  BY <1>1, <1>5
<1> QED  BY <1>4, <1>6 DEF L

(* Each element is found behind the elements before it.                    *)
LEMMA FlattenElement ==
  ASSUME NEW S, NEW q \in Seq(Seq(S)), NEW k \in Nat, k < Len(q)
  PROVE  LET before == Len(FlattenSeq(SubSeq(q, 1, k)))
         IN  /\ before \in Nat /\ Len(q[k + 1]) \in Nat /\ Len(FlattenSeq(q)) \in Nat
             /\ before + Len(q[k + 1]) <= Len(FlattenSeq(q))
             /\ \A j \in 1 .. Len(q[k + 1]) : FlattenSeq(q)[before + j] = q[k + 1][j]
<1> DEFINE P == FlattenSeq(SubSeq(q, 1, k))
           x == q[k + 1]
           rest == SubSeq(q, k + 2, Len(q))
           R == FlattenSeq(rest)
<1>1. Len(q) \in Nat /\ \A i \in 1 .. Len(q) : q[i] \in Seq(S)
  BY LenProperties, ElementOfSeq
<1>2. /\ SubSeq(q, 1, k) \in Seq(Seq(S)) /\ x \in Seq(S)
      /\ SubSeq(q, 1, k + 1) = Append(SubSeq(q, 1, k), x)
      /\ FlattenSeq(SubSeq(q, 1, k + 1)) = P \o x
  BY FlattenPrefix
<1>3. SubSeq(q, 1, k + 1) \in Seq(Seq(S))
  BY <1>2, AppendProperties
<1>4. rest \in Seq(Seq(S))
  <2>1. k + 2 \in Int /\ Len(q) \in Int /\ \A i \in k + 2 .. Len(q) : q[i] \in Seq(S)
    BY <1>1
  <2> QED  BY <2>1, SubSeqProperties
<1>5. q = SubSeq(q, 1, k + 1) \o rest
  <2>1. 1 \in 1 .. Len(q) + 1 /\ k + 1 \in 1 - 1 .. Len(q) /\ Len(q) \in k + 1 .. Len(q) /\ (k + 1) + 1 = k + 2
    BY <1>1
  <2>2. SubSeq(q, 1, k + 1) \o SubSeq(q, (k + 1) + 1, Len(q)) = SubSeq(q, 1, Len(q))
    BY <2>1, ConcatAdjacentSubSeq
  <2> QED  BY <2>1, <2>2, SubSeqFull
<1>6. FlattenSeq(q) = (P \o x) \o R
  <2>1. FlattenSeq(SubSeq(q, 1, k + 1) \o rest) = FlattenSeq(SubSeq(q, 1, k + 1)) \o R
    BY <1>3, <1>4, FlattenConcat
  <2> QED  BY <1>2, <1>5, <2>1
<1>7. P \in Seq(S) /\ R \in Seq(S) /\ x \in Seq(S)
  BY <1>2, <1>4, FlattenProperties
<1> HIDE DEF P, R, x
<1>8. Len(P) \in Nat /\ Len(R) \in Nat /\ Len(x) \in Nat
  BY <1>7, LenProperties
<1>9. /\ P \o x \in Seq(S) /\ Len(P \o x) = Len(P) + Len(x)
      /\ \A i \in 1 .. Len(P) + Len(x) : (P \o x)[i] = IF i <= Len(P) THEN P[i] ELSE x[i - Len(P)]
  BY <1>7, ConcatProperties
<1>10. /\ Len((P \o x) \o R) = Len(P \o x) + Len(R)
       /\ \A i \in 1 .. Len(P \o x) + Len(R) :
            ((P \o x) \o R)[i] = IF i <= Len(P \o x) THEN (P \o x)[i] ELSE R[i - Len(P \o x)]
  BY <1>7, <1>9, ConcatProperties
<1>11. ASSUME NEW j \in 1 .. Len(x) PROVE ((P \o x) \o R)[Len(P) + j] = x[j]
  <2> DEFINE i == Len(P) + j
  <2>1. /\ i \in 1 .. Len(P) + Len(x) /\ i \in 1 .. (Len(P) + Len(x)) + Len(R)
        /\ i <= Len(P) + Len(x) /\ ~ (i <= Len(P)) /\ i - Len(P) = j
    BY <1>8
  <2> HIDE DEF i
  <2>2. ((P \o x) \o R)[i] = (P \o x)[i]
    BY <1>9, <1>10, <2>1
  <2>3. (P \o x)[i] = x[j]
    BY <1>9, <2>1
  <2> QED  BY <2>2, <2>3 DEF i
<1>12. Len(FlattenSeq(q)) = (Len(P) + Len(x)) + Len(R)
  BY <1>6, <1>9, <1>10
<1>13. Len(FlattenSeq(q)) \in Nat /\ Len(P) + Len(x) <= Len(FlattenSeq(q))
  BY <1>8, <1>12
<1> QED  BY <1>6, <1>8, <1>11, <1>13 DEF P, x

(* A sequence cut into its single elements.                                *)
LEMMA FlattenSingles ==
  ASSUME NEW S, NEW w \in Seq(S), NEW q \in Seq(Seq(S)), Len(q) = Len(w),
         \A i \in 1 .. Len(w) : q[i] = <<w[i]>>
  PROVE  FlattenSeq(q) = w
<1> DEFINE N == Len(w)
           L(k) == FlattenSeq(SubSeq(q, 1, k))
           R(k) == SubSeq(w, 1, k)
           Odd == {k \in 0 .. N : L(k) # R(k)}
<1>1. N \in Nat
  BY LenProperties
<1>2. L(0) = R(0)
  <2>1. SubSeq(q, 1, 0) = <<>> /\ SubSeq(w, 1, 0) = <<>>
    BY SubSeqEmpty
  <2>2. FlattenSeq(<<>>) = <<>>
    BY FlattenProperties
  <2> QED  BY <2>1, <2>2
<1>3. ASSUME NEW k \in Nat, k < N, L(k) = R(k) PROVE L(k + 1) = R(k + 1)
  <2>1. q[k + 1] = <<w[k + 1]>>
    BY <1>1, <1>3
  <2>2. L(k + 1) = L(k) \o q[k + 1]
    BY <1>3, FlattenPrefix
  <2>3. R(k + 1) = R(k) \o <<w[k + 1]>>
    <3>1. 1 \in 1 .. Len(w) /\ k + 1 \in 1 .. Len(w) /\ (k + 1) - 1 = k
      BY <1>1, <1>3
    <3>2. SubSeq(w, 1, k + 1) = SubSeq(w, 1, (k + 1) - 1) \o <<w[k + 1]>>
      BY <3>1, SubSeqRecursiveSecond
    <3> QED  BY <3>1, <3>2
  <2> QED  BY <1>3, <2>1, <2>2, <2>3
<1>4. SubSeq(q, 1, N) = q /\ SubSeq(w, 1, N) = w
  BY SubSeqFull
<1> HIDE DEF L, R, N
<1>5. Odd = {}
  <2>1. SUFFICES ASSUME Odd # {} PROVE FALSE
    OBVIOUS
  <2>2. PICK n \in Odd : \A m \in Odd : n <= m
    <3> Odd \subseteq Nat
      BY <1>1
    <3> QED  BY <2>1, LeastNatural
  <2>3. n # 0
    BY <1>2, <2>2
  <2>4. n - 1 \in Nat /\ n - 1 < N /\ (n - 1) + 1 = n /\ n - 1 \in 0 .. N /\ ~ (n <= n - 1)
    BY <1>1, <2>2, <2>3
  <2>5. L(n - 1) = R(n - 1)
    BY <2>2, <2>4
  <2>6. L((n - 1) + 1) = R((n - 1) + 1)
    BY <1>3, <2>4, <2>5
  <2> QED  BY <2>2, <2>4, <2>6
<1>6. L(N) = R(N)
  BY <1>1, <1>5
<1> QED  BY <1>4, <1>6 DEF L, R
=============================================================================
