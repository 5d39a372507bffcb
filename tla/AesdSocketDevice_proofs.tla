----------------------- MODULE AesdSocketDevice_proofs -----------------------
(***************************************************************************)
(* Proofs about the server on the character device, for every set of       *)
(* clients, every packet, every size of the ring and every content the     *)
(* device had before: what the device holds is the end of all that was     *)
(* written, and what the responses made of it are.                         *)
(***************************************************************************)
EXTENDS AesdSocketDevice, AesdSocket_proofs, AesdCircularBuffer_proofs

-----------------------------------------------------------------------------
(* Commands put end to end.                                                *)

Upto(q, k) == Len(FlattenSeq(SubSeq(q, 1, k)))

LEMMA UptoProperties ==
  ASSUME NEW S, NEW q \in Seq(Seq(S))
  PROVE  /\ Len(q) \in Nat /\ FlattenSeq(q) \in Seq(S) /\ Len(FlattenSeq(q)) \in Nat
         /\ Upto(q, 0) = 0 /\ Upto(q, Len(q)) = Len(FlattenSeq(q))
         /\ \A k \in 0 .. Len(q) - 1 :
              /\ Upto(q, k) \in Nat /\ q[k + 1] \in Seq(S) /\ Len(q[k + 1]) \in Nat
              /\ Upto(q, k + 1) = Upto(q, k) + Len(q[k + 1])
              /\ Upto(q, k + 1) <= Len(FlattenSeq(q))
              /\ \A j \in 1 .. Len(q[k + 1]) : FlattenSeq(q)[Upto(q, k) + j] = q[k + 1][j]
<1>1. Len(q) \in Nat /\ FlattenSeq(q) \in Seq(S) /\ Len(FlattenSeq(q)) \in Nat
  BY FlattenProperties, LenProperties
<1>2. Upto(q, 0) = 0
  <2>1. SubSeq(q, 1, 0) = <<>>
    BY SubSeqEmpty
  <2>2. FlattenSeq(<<>>) = <<>> /\ Len(<<>>) = 0
    BY FlattenProperties
  <2> QED  BY <2>1, <2>2 DEF Upto
<1>3. SubSeq(q, 1, Len(q)) = q
  BY SubSeqFull
<1>4. ASSUME NEW k \in 0 .. Len(q) - 1
      PROVE  /\ Upto(q, k) \in Nat /\ q[k + 1] \in Seq(S) /\ Len(q[k + 1]) \in Nat
             /\ Upto(q, k + 1) = Upto(q, k) + Len(q[k + 1])
             /\ Upto(q, k + 1) <= Len(FlattenSeq(q))
             /\ \A j \in 1 .. Len(q[k + 1]) : FlattenSeq(q)[Upto(q, k) + j] = q[k + 1][j]
  <2> DEFINE s == SubSeq(q, 1, k)
             f == FlattenSeq(s)
  <2>1. k \in Nat /\ k < Len(q)
    BY <1>1
  <2>2. /\ s \in Seq(Seq(S)) /\ q[k + 1] \in Seq(S)
        /\ FlattenSeq(SubSeq(q, 1, k + 1)) = f \o q[k + 1]
    BY <2>1, FlattenPrefix
  <2>3. f \in Seq(S)
    BY <2>2, FlattenProperties
  <2>4. Len(f \o q[k + 1]) = Len(f) + Len(q[k + 1])
    BY <2>2, <2>3, ConcatProperties
  <2>5. /\ Len(f) \in Nat /\ Len(q[k + 1]) \in Nat
        /\ Len(f) + Len(q[k + 1]) <= Len(FlattenSeq(q))
        /\ \A j \in 1 .. Len(q[k + 1]) : FlattenSeq(q)[Len(f) + j] = q[k + 1][j]
    BY <2>1, FlattenElement
  <2> QED  BY <2>2, <2>4, <2>5 DEF Upto
<1> QED  BY <1>1, <1>2, <1>3, <1>4 DEF Upto

(* The first element and the others.                                       *)
LEMMA FlattenHead ==
  ASSUME NEW S, NEW q \in Seq(Seq(S)), Len(q) >= 1
  PROVE  /\ q[1] \in Seq(S) /\ Tail(q) \in Seq(Seq(S)) /\ FlattenSeq(Tail(q)) \in Seq(S)
         /\ Len(Tail(q)) = Len(q) - 1 /\ \A k \in 1 .. Len(q) - 1 : Tail(q)[k] = q[k + 1]
         /\ FlattenSeq(q) = q[1] \o FlattenSeq(Tail(q))
<1>1. q # <<>>
  OBVIOUS
<1>2. /\ Head(q) = q[1] /\ Tail(q) \in Seq(Seq(S)) /\ Len(Tail(q)) = Len(q) - 1
      /\ \A k \in 1 .. Len(q) - 1 : Tail(q)[k] = q[k + 1]
  BY <1>1, HeadTailProperties
<1>3. q[1] \in Seq(S) /\ <<q[1]>> \in Seq(Seq(S)) /\ Len(<<q[1]>>) = 1 /\ <<q[1]>>[1] = q[1]
  <2>1. 1 \in 1 .. Len(q)
    OBVIOUS
  <2> QED  BY <2>1, ElementOfSeq
<1>4. q = <<q[1]>> \o Tail(q)
  <2>1. /\ <<q[1]>> \o Tail(q) \in Seq(Seq(S)) /\ Len(<<q[1]>> \o Tail(q)) = 1 + Len(Tail(q))
        /\ \A i \in 1 .. 1 + Len(Tail(q)) :
             (<<q[1]>> \o Tail(q))[i] = IF i <= 1 THEN <<q[1]>>[i] ELSE Tail(q)[i - 1]
    BY <1>2, <1>3, ConcatProperties
  <2>2. Len(q) \in Nat
    BY LenProperties
  <2>3. \A i \in 1 .. Len(q) : q[i] = (<<q[1]>> \o Tail(q))[i]
    BY <1>2, <1>3, <2>1, <2>2
  <2> QED  BY <1>2, <2>1, <2>2, <2>3, SeqEqual
<1>5. FlattenSeq(<<q[1]>>) = q[1]
  <2>1. <<>> \in Seq(Seq(S)) /\ <<>> \in Seq(S)
    BY EmptySeq
  <2>2. FlattenSeq(Append(<<>>, q[1])) = FlattenSeq(<<>>) \o q[1] /\ FlattenSeq(<<>>) = <<>>
    BY <1>3, <2>1, FlattenProperties
  <2>3. Append(<<>>, q[1]) = <<q[1]>>
    OBVIOUS
  <2>4. <<>> \o q[1] = q[1]
    BY <1>3, ConcatEmptySeq
  <2> QED  BY <2>2, <2>3, <2>4
<1>6. FlattenSeq(<<q[1]>> \o Tail(q)) = FlattenSeq(<<q[1]>>) \o FlattenSeq(Tail(q))
  BY <1>2, <1>3, FlattenConcat
<1>7. FlattenSeq(Tail(q)) \in Seq(S)
  BY <1>2, FlattenProperties
<1> QED  BY <1>2, <1>3, <1>4, <1>5, <1>6, <1>7

-----------------------------------------------------------------------------
(* What was written, and commands of it that follow each other.            *)

Consecutive(s, d) == \A i \in 1 .. Len(s) : s[i] = d + i

NewlineAt(w, i) == w[i].byte = NL

(* Each command ends with its only newline.                                *)
Ends(q, w) ==
  \A k \in 1 .. Len(q) :
    q[k] # <<>> /\ \A j \in 1 .. Len(q[k]) : NewlineAt(w, q[k][j]) <=> j = Len(q[k])

(* w is what was written, of which the commands q and the command p being  *)
(* written are what follows the first d bytes.                             *)
Chronicle(q, p, d, w) ==
  /\ q \in Seq(Seq(Nat)) /\ p \in Seq(Nat) /\ d \in Nat
  /\ Len(w) = d + Len(FlattenSeq(q)) + Len(p)
  /\ Consecutive(FlattenSeq(q), d)
  /\ Consecutive(p, d + Len(FlattenSeq(q)))
  /\ d = 0 \/ NewlineAt(w, d)
  /\ Ends(q, w)
  /\ \A j \in 1 .. Len(p) : ~ NewlineAt(w, p[j])

(* Where the newlines of the commands are.                                 *)
CommandLies(w, d, q, k) ==
  /\ Len(q[k + 1]) >= 1 /\ Upto(q, k + 1) >= 1
  /\ \A j \in 1 .. Len(q[k + 1]) :
       /\ q[k + 1][j] = d + Upto(q, k) + j
       /\ NewlineAt(w, d + Upto(q, k) + j) <=> j = Len(q[k + 1])

LEMMA CommandAt ==
  ASSUME NEW w, NEW d \in Nat, NEW q \in Seq(Seq(Nat)), Consecutive(FlattenSeq(q), d), Ends(q, w),
         NEW k \in 0 .. Len(q) - 1
  PROVE  CommandLies(w, d, q, k)
<1>1. /\ Len(q) \in Nat /\ Upto(q, k) \in Nat /\ Len(q[k + 1]) \in Nat /\ Len(FlattenSeq(q)) \in Nat
      /\ Upto(q, k + 1) = Upto(q, k) + Len(q[k + 1])
      /\ Upto(q, k + 1) <= Len(FlattenSeq(q))
      /\ \A j \in 1 .. Len(q[k + 1]) : FlattenSeq(q)[Upto(q, k) + j] = q[k + 1][j]
      /\ q[k + 1] \in Seq(Nat)
  BY UptoProperties
<1>2. k + 1 \in 1 .. Len(q)
  BY <1>1
<1>3. /\ q[k + 1] # <<>>
      /\ \A j \in 1 .. Len(q[k + 1]) : NewlineAt(w, q[k + 1][j]) <=> j = Len(q[k + 1])
  BY <1>2 DEF Ends
<1>4. Len(q[k + 1]) >= 1
  BY <1>1, <1>3, EmptySeq
<1>5. ASSUME NEW j \in 1 .. Len(q[k + 1]) PROVE q[k + 1][j] = d + Upto(q, k) + j
  <2>1. Upto(q, k) + j \in 1 .. Len(FlattenSeq(q))
    BY <1>1
  <2>2. FlattenSeq(q)[Upto(q, k) + j] = d + (Upto(q, k) + j)
    BY <2>1 DEF Consecutive
  <2> QED  BY <1>1, <2>2
<1>6. Upto(q, k + 1) >= 1
  <2>1. /\ Upto(q, k) \in Nat /\ Len(q[k + 1]) \in Nat /\ Upto(q, k + 1) = Upto(q, k) + Len(q[k + 1])
        /\ Len(q[k + 1]) >= 1
    BY <1>1, <1>4
  <2> HIDE DEF Upto
  <2> QED  BY ONLY <2>1
<1>7. ASSUME NEW j \in 1 .. Len(q[k + 1]) PROVE NewlineAt(w, d + Upto(q, k) + j) <=> j = Len(q[k + 1])
  BY <1>3, <1>5
<1> QED  BY ONLY <1>4, <1>5, <1>6, <1>7 DEF CommandLies

NewlinesIn(w, from, to) == {i \in from + 1 .. to : NewlineAt(w, i)}

(* There are as many newlines as commands.                                 *)
LEMMA NewlinesCounted ==
  ASSUME NEW w, NEW d \in Nat, NEW q \in Seq(Seq(Nat)), Consecutive(FlattenSeq(q), d), Ends(q, w),
         NEW n \in 0 .. Len(q)
  PROVE  /\ IsFiniteSet(NewlinesIn(w, d, d + Upto(q, n))) /\ Cardinality(NewlinesIn(w, d, d + Upto(q, n))) = n
         /\ n > 0 => NewlineAt(w, d + Upto(q, n))
<1> DEFINE C(k) == NewlinesIn(w, d, d + Upto(q, k))
           Good(k) == IsFiniteSet(C(k)) /\ Cardinality(C(k)) = k
           Odd == {k \in 0 .. Len(q) : ~ Good(k)}
<1>1. Len(q) \in Nat /\ Upto(q, 0) = 0
  BY UptoProperties
<1>2. Good(0)
  <2>1. C(0) = {}
    BY <1>1 DEF NewlinesIn
  <2> QED  BY <2>1, FS_EmptySet
<1>3. ASSUME NEW k \in 0 .. Len(q) - 1
      PROVE  /\ C(k + 1) = C(k) \cup {d + Upto(q, k + 1)} /\ d + Upto(q, k + 1) \notin C(k)
             /\ NewlineAt(w, d + Upto(q, k + 1))
  <2>0. /\ Len(q[k + 1]) >= 1 /\ Upto(q, k + 1) >= 1
        /\ \A j \in 1 .. Len(q[k + 1]) :
             /\ q[k + 1][j] = d + Upto(q, k) + j
             /\ NewlineAt(w, d + Upto(q, k) + j) <=> j = Len(q[k + 1])
    <3>1. CommandLies(w, d, q, k)
      BY CommandAt
    <3> QED  BY ONLY <3>1 DEF CommandLies
  <2> DEFINE u == Upto(q, k)
             v == Upto(q, k + 1)
             l == Len(q[k + 1])
  <2>1. /\ l >= 1
        /\ \A j \in 1 .. l : NewlineAt(w, d + u + j) <=> j = l
    BY <2>0
  <2>2. u \in Nat /\ l \in Nat /\ v = u + l
    BY UptoProperties
  <2> HIDE DEF u, v, l
  <2>3. ASSUME NEW i \in d + u + 1 .. d + v PROVE NewlineAt(w, i) <=> i = d + v
    <3>1. i - (d + u) \in 1 .. l /\ d + u + (i - (d + u)) = i
      BY <2>2
    <3>2. NewlineAt(w, d + u + (i - (d + u))) <=> i - (d + u) = l
      BY <2>1, <3>1
    <3> QED  BY <2>2, <3>1, <3>2
  <2>4. NewlinesIn(w, d, d + v) = NewlinesIn(w, d, d + u) \cup {d + v} /\ d + v \notin NewlinesIn(w, d, d + u)
    <3>1. d + v \in d + u + 1 .. d + v /\ NewlineAt(w, d + v)
      BY <2>1, <2>2, <2>3
    <3>2. \A i \in d + 1 .. d + v : i \in d + 1 .. d + u \/ i \in d + u + 1 .. d + v
      BY <2>2
    <3>3. \A i \in d + 1 .. d + u : i \in d + 1 .. d + v /\ i # d + v
      BY <2>1, <2>2
    <3>4. d + v \notin NewlinesIn(w, d, d + u)
      BY <3>3 DEF NewlinesIn
    <3>5. ASSUME NEW i \in NewlinesIn(w, d, d + v) PROVE i \in NewlinesIn(w, d, d + u) \cup {d + v}
      <4>1. i \in d + 1 .. d + v /\ NewlineAt(w, i)
        BY <3>5 DEF NewlinesIn
      <4> QED  BY <2>3, <3>2, <4>1 DEF NewlinesIn
    <3>6. ASSUME NEW i \in NewlinesIn(w, d, d + u) PROVE i \in NewlinesIn(w, d, d + v)
      BY <3>3, <3>6 DEF NewlinesIn
    <3>7. d + v \in NewlinesIn(w, d, d + v)
      <4>1. d + v \in d + 1 .. d + v
        BY <2>1, <2>2
      <4> QED  BY <3>1, <4>1 DEF NewlinesIn
    <3> QED  BY <3>4, <3>5, <3>6, <3>7
  <2>5. NewlineAt(w, d + v)
    BY <2>1, <2>2, <2>3
  <2> QED  BY <2>4, <2>5 DEF u, v
<1>4. Odd = {}
  <2>1. SUFFICES ASSUME Odd # {} PROVE FALSE
    OBVIOUS
  <2>2. PICK m \in Odd : \A j \in Odd : m <= j
    <3>1. Odd \subseteq Nat
      BY <1>1
    <3> HIDE DEF Odd
    <3> QED  BY <2>1, <3>1, LeastNatural
  <2>3. m \in 0 .. Len(q) /\ ~ Good(m)
    OBVIOUS
  <2>4. m # 0
    BY <1>2, <2>3
  <2>5. m - 1 \in 0 .. Len(q) - 1 /\ m - 1 \in 0 .. Len(q) /\ m - 1 < m /\ (m - 1) + 1 = m
    BY <1>1, <2>3, <2>4
  <2> HIDE DEF Good
  <2>6. Good(m - 1)
    BY <2>2, <2>5
  <2>7. C(m) = C(m - 1) \cup {d + Upto(q, m)} /\ d + Upto(q, m) \notin C(m - 1)
    BY <1>3, <2>5
  <2> HIDE DEF C
  <2>8. IsFiniteSet(C(m - 1)) /\ Cardinality(C(m - 1)) = m - 1
    BY <2>6 DEF Good
  <2>9. IsFiniteSet(C(m)) /\ Cardinality(C(m)) = (m - 1) + 1
    <3> DEFINE T == C(m - 1)
               x == d + Upto(q, m)
    <3>1. IsFiniteSet(T) /\ Cardinality(T) = m - 1 /\ x \notin T
      BY <2>7, <2>8
    <3> HIDE DEF T, x
    <3>2. IsFiniteSet(T \cup {x}) /\ Cardinality(T \cup {x}) = Cardinality(T) + 1
      BY <3>1, FS_AddElement
    <3> QED  BY <2>7, <3>1, <3>2 DEF T, x
  <2> QED  BY <2>3, <2>5, <2>9 DEF Good
<1>5. n > 0 => NewlineAt(w, d + Upto(q, n))
  <2>1. n > 0 => n - 1 \in 0 .. Len(q) - 1 /\ (n - 1) + 1 = n
    BY <1>1
  <2> QED  BY <1>3, <2>1
<1>6. Good(n)
  BY <1>4
<1> QED  BY <1>5, <1>6

(* All the commands, the one being written included.                       *)
LEMMA ConsecutiveConcat ==
  ASSUME NEW u \in Seq(Nat), NEW v \in Seq(Nat), NEW d \in Nat,
         Consecutive(u, d), Consecutive(v, d + Len(u))
  PROVE  /\ u \o v \in Seq(Nat) /\ Len(u \o v) = Len(u) + Len(v) /\ Consecutive(u \o v, d)
         /\ Len(u) \in Nat /\ Len(v) \in Nat
<1>1. Len(u) \in Nat /\ Len(v) \in Nat
  BY LenProperties
<1>2. /\ u \o v \in Seq(Nat) /\ Len(u \o v) = Len(u) + Len(v)
      /\ \A i \in 1 .. Len(u) + Len(v) : (u \o v)[i] = IF i <= Len(u) THEN u[i] ELSE v[i - Len(u)]
  BY ConcatProperties
<1>3. \A i \in 1 .. Len(u) + Len(v) : ~ (i <= Len(u)) => i - Len(u) \in 1 .. Len(v)
  BY <1>1
<1>4. \A i \in 1 .. Len(u) + Len(v) : i <= Len(u) => i \in 1 .. Len(u)
  BY <1>1
<1>5. ASSUME NEW i \in 1 .. Len(u) + Len(v) PROVE (u \o v)[i] = d + i
  <2>1. CASE i <= Len(u)
    BY <1>2, <1>4, <2>1 DEF Consecutive
  <2>2. CASE ~ (i <= Len(u))
    <3>1. (u \o v)[i] = v[i - Len(u)] /\ i - Len(u) \in 1 .. Len(v)
      BY <1>2, <1>3, <2>2
    <3>2. v[i - Len(u)] = (d + Len(u)) + (i - Len(u))
      BY <3>1 DEF Consecutive
    <3> QED  BY <1>1, <3>1, <3>2
  <2> QED  BY <2>1, <2>2
<1> QED  BY <1>1, <1>2, <1>5 DEF Consecutive

LEMMA ChronicleWhole ==
  ASSUME NEW w, NEW d, NEW q, NEW p, Chronicle(q, p, d, w)
  PROVE  /\ FlattenSeq(q) \o p \in Seq(Nat) /\ Len(FlattenSeq(q)) \in Nat /\ Len(p) \in Nat
         /\ Len(FlattenSeq(q) \o p) = Len(FlattenSeq(q)) + Len(p)
         /\ Len(w) = d + Len(FlattenSeq(q) \o p)
         /\ Consecutive(FlattenSeq(q) \o p, d)
<1>1. /\ FlattenSeq(q) \in Seq(Nat) /\ p \in Seq(Nat) /\ d \in Nat
      /\ Consecutive(FlattenSeq(q), d) /\ Consecutive(p, d + Len(FlattenSeq(q)))
  BY UptoProperties DEF Chronicle
<1>2. /\ FlattenSeq(q) \o p \in Seq(Nat) /\ Len(FlattenSeq(q)) \in Nat /\ Len(p) \in Nat
      /\ Len(FlattenSeq(q) \o p) = Len(FlattenSeq(q)) + Len(p)
      /\ Consecutive(FlattenSeq(q) \o p, d)
  BY <1>1, ConsecutiveConcat
<1>3. Len(w) = d + Len(FlattenSeq(q)) + Len(p)
  BY DEF Chronicle
<1> QED  BY <1>1, <1>2, <1>3

(* What the elements of the commands are.                                  *)
LEMMA ChronicleElements ==
  ASSUME NEW w, NEW d, NEW q, NEW p, Chronicle(q, p, d, w), NEW k \in 1 .. Len(q), NEW j \in 1 .. Len(q[k])
  PROVE  q[k][j] \in d + 1 .. d + Len(FlattenSeq(q))
<1>1. /\ q \in Seq(Seq(Nat)) /\ d \in Nat /\ Consecutive(FlattenSeq(q), d) /\ Ends(q, w)
  BY DEF Chronicle
<1>2. Len(q) \in Nat
  BY <1>1, LenProperties
<1>3. k - 1 \in 0 .. Len(q) - 1 /\ (k - 1) + 1 = k
  BY <1>2
<1>4. /\ Upto(q, k - 1) \in Nat /\ Len(q[k]) \in Nat /\ Len(FlattenSeq(q)) \in Nat
      /\ Upto(q, k) = Upto(q, k - 1) + Len(q[k])
      /\ Upto(q, k) <= Len(FlattenSeq(q))
  <2>1. /\ Len(FlattenSeq(q)) \in Nat
        /\ \A n \in 0 .. Len(q) - 1 :
              /\ Upto(q, n) \in Nat /\ Len(q[n + 1]) \in Nat
              /\ Upto(q, n + 1) = Upto(q, n) + Len(q[n + 1])
              /\ Upto(q, n + 1) <= Len(FlattenSeq(q))
    BY <1>1, UptoProperties
  <2> QED  BY <1>3, <2>1
<1>5. ASSUME NEW n \in 0 .. Len(q) - 1
      PROVE  /\ Len(q[n + 1]) >= 1 /\ Upto(q, n + 1) >= 1
             /\ \A i \in 1 .. Len(q[n + 1]) :
                  /\ q[n + 1][i] = d + Upto(q, n) + i
                  /\ NewlineAt(w, d + Upto(q, n) + i) <=> i = Len(q[n + 1])
  <2>1. CommandLies(w, d, q, n)
    BY <1>1, CommandAt
  <2> QED  BY ONLY <2>1 DEF CommandLies
<1>6. q[k][j] = d + Upto(q, k - 1) + j
  <2>1. \A n \in 0 .. Len(q) - 1 : \A i \in 1 .. Len(q[n + 1]) : q[n + 1][i] = d + Upto(q, n) + i
    BY <1>5
  <2>2. \A i \in 1 .. Len(q[(k - 1) + 1]) : q[(k - 1) + 1][i] = d + Upto(q, k - 1) + i
    BY <1>3, <2>1
  <2> QED  BY <1>3, <2>2
<1> DEFINE u == Upto(q, k - 1)
           l == Len(q[k])
           n == Len(FlattenSeq(q))
<1>7. u \in Nat /\ l \in Nat /\ n \in Nat /\ u + l <= n /\ j \in 1 .. l /\ q[k][j] = d + u + j /\ d \in Nat
  BY <1>1, <1>4, <1>6
<1> HIDE DEF u, l, n
<1>8. d + u + j \in d + 1 .. d + n
  BY <1>7
<1> QED  BY <1>7, <1>8 DEF n

(* The oldest command is dropped.                                          *)
LEMMA ChronicleDrop ==
  ASSUME NEW w, NEW d, NEW q, NEW p, Chronicle(q, p, d, w), Len(q) >= 1
  PROVE  /\ Chronicle(Tail(q), p, d + Len(q[1]), w)
         /\ Len(q[1]) \in Nat
<1>1. /\ q \in Seq(Seq(Nat)) /\ d \in Nat /\ p \in Seq(Nat) /\ Consecutive(FlattenSeq(q), d) /\ Ends(q, w)
  BY DEF Chronicle
<1> DEFINE t == Tail(q)
           f == FlattenSeq(t)
           a == q[1]
<1>2. /\ a \in Seq(Nat) /\ t \in Seq(Seq(Nat)) /\ f \in Seq(Nat)
      /\ Len(t) = Len(q) - 1 /\ \A k \in 1 .. Len(q) - 1 : t[k] = q[k + 1]
      /\ FlattenSeq(q) = a \o f
  BY <1>1, FlattenHead
<1>3. Len(q) \in Nat /\ 1 \in 1 .. Len(q)
  BY <1>1, LenProperties
<1>4. a # <<>> /\ \A j \in 1 .. Len(a) : NewlineAt(w, a[j]) <=> j = Len(a)
  BY <1>1, <1>3 DEF Ends
<1> HIDE DEF t, f, a
<1>5. /\ Len(a) \in Nat /\ Len(f) \in Nat /\ Len(a \o f) = Len(a) + Len(f)
      /\ \A i \in 1 .. Len(a) + Len(f) : (a \o f)[i] = IF i <= Len(a) THEN a[i] ELSE f[i - Len(a)]
  BY <1>2, ConcatProperties, LenProperties
<1>6. \A i \in 1 .. Len(a) + Len(f) : (a \o f)[i] = d + i
  BY <1>1, <1>2, <1>5 DEF Consecutive
<1>7. Len(a) >= 1
  BY <1>2, <1>4, <1>5, EmptySeq
<1>8. Consecutive(f, d + Len(a))
  <2>1. SUFFICES ASSUME NEW i \in 1 .. Len(f) PROVE f[i] = (d + Len(a)) + i
    BY DEF Consecutive
  <2>2. Len(a) + i \in 1 .. Len(a) + Len(f) /\ ~ (Len(a) + i <= Len(a)) /\ (Len(a) + i) - Len(a) = i
    BY <1>5
  <2>3. (a \o f)[Len(a) + i] = f[i] /\ (a \o f)[Len(a) + i] = d + (Len(a) + i)
    BY <1>5, <1>6, <2>2
  <2> QED  BY <1>1, <1>5, <2>3
<1>9. NewlineAt(w, d + Len(a))
  <2>1. Len(a) \in 1 .. Len(a) + Len(f) /\ Len(a) \in 1 .. Len(a) /\ Len(a) <= Len(a)
    BY <1>5, <1>7
  <2>2. a[Len(a)] = d + Len(a)
    BY <1>5, <1>6, <2>1
  <2> QED  BY <1>4, <2>1, <2>2
<1>10. Ends(t, w)
  <2>1. SUFFICES ASSUME NEW k \in 1 .. Len(t)
                 PROVE  t[k] # <<>> /\ \A j \in 1 .. Len(t[k]) : NewlineAt(w, t[k][j]) <=> j = Len(t[k])
    BY DEF Ends
  <2>2. k + 1 \in 1 .. Len(q) /\ t[k] = q[k + 1]
    BY <1>2, <1>3
  <2> QED  BY <1>1, <2>2 DEF Ends
<1>11. /\ Len(w) = (d + Len(a)) + Len(f) + Len(p) /\ Consecutive(p, (d + Len(a)) + Len(f))
       /\ \A j \in 1 .. Len(p) : ~ NewlineAt(w, p[j])
  <2>1. Len(FlattenSeq(q)) = Len(a) + Len(f) /\ Len(p) \in Nat
    BY <1>1, <1>2, <1>5, LenProperties
  <2>2. d + Len(FlattenSeq(q)) = (d + Len(a)) + Len(f)
    BY <1>1, <1>5, <2>1
  <2>3. Len(w) = d + Len(FlattenSeq(q)) + Len(p) /\ Consecutive(p, d + Len(FlattenSeq(q)))
        /\ \A j \in 1 .. Len(p) : ~ NewlineAt(w, p[j])
    BY DEF Chronicle
  <2> QED  BY <2>2, <2>3
<1>12. Chronicle(t, p, d + Len(a), w)
  <2>1. d + Len(a) \in Nat
    BY <1>1, <1>5
  <2> QED  BY <1>1, <1>2, <1>8, <1>9, <1>10, <1>11, <2>1 DEF f, Chronicle
<1> QED  BY <1>5, <1>12 DEF t, a

(* The last command is complete.                                           *)
LEMMA ChronicleComplete ==
  ASSUME NEW w, NEW d, NEW q, NEW p \in Seq(Nat), p # <<>>,
         q \in Seq(Seq(Nat)), d \in Nat, Len(w) = d + Len(FlattenSeq(q)) + Len(p),
         Consecutive(FlattenSeq(q), d), Consecutive(p, d + Len(FlattenSeq(q))),
         d = 0 \/ NewlineAt(w, d), Ends(q, w),
         \A j \in 1 .. Len(p) : NewlineAt(w, p[j]) <=> j = Len(p)
  PROVE  Chronicle(Append(q, p), <<>>, d, w)
<1> DEFINE r == Append(q, p)
<1>1. /\ r \in Seq(Seq(Nat)) /\ Len(r) = Len(q) + 1 /\ Len(q) \in Nat /\ r[Len(q) + 1] = p
      /\ \A k \in 1 .. Len(q) : r[k] = q[k]
  BY AppendProperties, LenProperties
<1>2. FlattenSeq(r) = FlattenSeq(q) \o p /\ FlattenSeq(q) \in Seq(Nat)
  BY FlattenProperties
<1>3. /\ Len(FlattenSeq(q) \o p) = Len(FlattenSeq(q)) + Len(p) /\ Consecutive(FlattenSeq(q) \o p, d)
      /\ Len(FlattenSeq(q)) \in Nat /\ Len(p) \in Nat
  BY <1>2, ConsecutiveConcat
<1> HIDE DEF r
<1>4. Ends(r, w)
  <2>1. SUFFICES ASSUME NEW k \in 1 .. Len(r)
                 PROVE  r[k] # <<>> /\ \A j \in 1 .. Len(r[k]) : NewlineAt(w, r[k][j]) <=> j = Len(r[k])
    BY DEF Ends
  <2>2. CASE k = Len(q) + 1
    BY <1>1, <2>2
  <2>3. CASE k # Len(q) + 1
    <3>1. k \in 1 .. Len(q)
      BY <1>1, <2>3
    <3>2. r[k] = q[k]
      BY <1>1, <3>1
    <3> QED  BY <3>1, <3>2 DEF Ends
  <2> QED  BY <2>2, <2>3
<1>5. Len(<<>>) = 0 /\ <<>> \in Seq(Nat)
  BY EmptySeq
<1>6. Len(w) = d + Len(FlattenSeq(r)) + Len(<<>>) /\ Consecutive(FlattenSeq(r), d)
  BY <1>2, <1>3, <1>5
<1>7. Consecutive(<<>>, d + Len(FlattenSeq(r))) /\ \A j \in 1 .. Len(<<>>) : ~ NewlineAt(w, <<>>[j])
  BY <1>5 DEF Consecutive
<1> QED  BY <1>1, <1>4, <1>5, <1>6, <1>7 DEF r, Chronicle

(* A newline of a block is its last byte.                                  *)
OneLine(block) == block # <<>> /\ \A i \in 1 .. Len(block) : block[i] = NL => i = Len(block)

EndsLine(block) == block[Len(block)] = NL

NextBytes(w, block) == [i \in 1 .. Len(block) |-> Len(w) + i]

LEMMA NextBytesType ==
  ASSUME NEW w \in Seq(Written), NEW block \in Seq(Bytes)
  PROVE  /\ NextBytes(w, block) \in Seq(Nat) /\ Len(NextBytes(w, block)) = Len(block)
         /\ Len(w) \in Nat /\ Len(block) \in Nat
         /\ Consecutive(NextBytes(w, block), Len(w))
<1>1. Len(w) \in Nat /\ Len(block) \in Nat
  BY LenProperties
<1>2. NextBytes(w, block) \in [1 .. Len(block) -> Nat]
  BY <1>1 DEF NextBytes
<1>3. NextBytes(w, block) \in Seq(Nat)
  BY <1>1, <1>2, SeqDef
<1>4. Len(NextBytes(w, block)) = Len(block)
  BY <1>1, <1>2, <1>3, LenProperties
<1> QED  BY <1>1, <1>3, <1>4 DEF Consecutive, NextBytes

(* A block is appended to what was written and to the last command.        *)
LEMMA ChronicleWrite ==
  ASSUME NEW w \in Seq(Written), NEW d, NEW q, NEW p, Chronicle(q, p, d, w),
         NEW who \in Who, NEW block \in Seq(Bytes), OneLine(block)
  PROVE  LET whole == p \o NextBytes(w, block)
             v     == w \o By(who, block)
         IN  IF EndsLine(block) THEN Chronicle(Append(q, whole), <<>>, d, v)
                                ELSE Chronicle(q, whole, d, v)
<1> DEFINE bytes == NextBytes(w, block)
           whole == p \o bytes
           v == w \o By(who, block)
           f == Len(FlattenSeq(q))
           n == Len(block)
<1>1. /\ q \in Seq(Seq(Nat)) /\ p \in Seq(Nat) /\ d \in Nat
      /\ Len(w) = d + f + Len(p)
      /\ Consecutive(FlattenSeq(q), d) /\ Consecutive(p, d + f)
      /\ d = 0 \/ NewlineAt(w, d)
      /\ Ends(q, w)
      /\ \A j \in 1 .. Len(p) : ~ NewlineAt(w, p[j])
  BY DEF Chronicle
<1>2. f \in Nat /\ Len(p) \in Nat
  BY ChronicleWhole
<1>3. /\ bytes \in Seq(Nat) /\ Len(bytes) = n /\ Len(w) \in Nat /\ n \in Nat
      /\ Consecutive(bytes, Len(w))
  BY NextBytesType
<1>4. n >= 1
  BY <1>3, EmptySeq DEF OneLine
<1>5. /\ Len(v) = Len(w) + n
      /\ \A i \in 1 .. Len(v) :
           IF i <= Len(w) THEN v[i] = w[i]
           ELSE /\ i - Len(w) \in 1 .. n
                /\ v[i].by = who /\ v[i].byte = block[i - Len(w)]
  BY FileGrows
<1>6. \A k \in 1 .. Len(q) : \A j \in 1 .. Len(q[k]) : q[k][j] \in d + 1 .. d + f
  BY ChronicleElements
<1> HIDE DEF bytes, v, f, n
<1>7. \A i \in 1 .. Len(w) : NewlineAt(v, i) <=> NewlineAt(w, i)
  BY <1>3, <1>5 DEF NewlineAt
<1>8. Ends(q, v)
  <2>1. SUFFICES ASSUME NEW k \in 1 .. Len(q)
                 PROVE  q[k] # <<>> /\ \A j \in 1 .. Len(q[k]) : NewlineAt(v, q[k][j]) <=> j = Len(q[k])
    BY DEF Ends
  <2>2. q[k] # <<>> /\ \A j \in 1 .. Len(q[k]) : NewlineAt(w, q[k][j]) <=> j = Len(q[k])
    BY <1>1 DEF Ends
  <2>3. ASSUME NEW j \in 1 .. Len(q[k]) PROVE NewlineAt(v, q[k][j]) <=> j = Len(q[k])
    <3>1. q[k][j] \in 1 .. Len(w)
      <4>1. q[k][j] \in d + 1 .. d + f
        BY <1>6
      <4>2. d \in Nat /\ Len(w) = d + f + Len(p)
        BY <1>1
      <4> HIDE DEF Consecutive, Ends, NewlineAt
      <4> QED  BY ONLY <1>2, <4>1, <4>2
    <3>2. NewlineAt(v, q[k][j]) <=> NewlineAt(w, q[k][j])
      BY <1>7, <3>1
    <3> QED  BY <2>2, <3>2
  <2> QED  BY <2>2, <2>3
<1>9. d = 0 \/ NewlineAt(v, d)
  <2>1. d # 0 => d \in 1 .. Len(w)
    BY <1>1, <1>2
  <2> QED  BY <1>1, <1>7, <2>1
<1>10. /\ whole \in Seq(Nat) /\ Len(whole) = Len(p) + n /\ Consecutive(whole, d + f)
  <2>1. d + f \in Nat /\ (d + f) + Len(p) = Len(w)
    BY <1>1, <1>2
  <2>2. Consecutive(bytes, (d + f) + Len(p))
    BY <1>3, <2>1
  <2> QED  BY <1>1, <1>3, <2>1, <2>2, ConsecutiveConcat
<1> HIDE DEF whole
<1>11. whole # <<>>
  BY <1>2, <1>3, <1>4, <1>10, EmptySeq
<1>12. Len(v) = d + f + Len(whole)
  BY <1>1, <1>2, <1>3, <1>5, <1>10
<1>13. ASSUME NEW j \in 1 .. Len(whole)
       PROVE  NewlineAt(v, whole[j]) <=> j = Len(whole) /\ block[n] = NL
  <2>1. whole[j] = (d + f) + j
    BY <1>10 DEF Consecutive
  <2>2. CASE j <= Len(p)
    <3>1. j \in 1 .. Len(p) /\ j # Len(whole) /\ (d + f) + j \in 1 .. Len(w)
      BY <1>1, <1>2, <1>3, <1>4, <1>10, <2>2
    <3>2. p[j] = (d + f) + j /\ ~ NewlineAt(w, p[j])
      BY <1>1, <3>1 DEF Consecutive
    <3> QED  BY <1>7, <2>1, <3>1, <3>2
  <2>3. CASE ~ (j <= Len(p))
    <3>0. /\ Len(v) = Len(w) + n /\ Len(w) = d + f + Len(p) /\ Len(whole) = Len(p) + n
          /\ d \in Nat /\ f \in Nat /\ n \in Nat /\ Len(p) \in Nat
      BY <1>1, <1>2, <1>3, <1>5, <1>10
    <3>1. /\ (d + f) + j \in 1 .. Len(v) /\ ~ ((d + f) + j <= Len(w))
          /\ ((d + f) + j) - Len(w) = j - Len(p) /\ j - Len(p) \in 1 .. n
          /\ j = Len(whole) <=> j - Len(p) = n
      BY <2>3, <3>0
    <3>2. v[(d + f) + j].byte = block[j - Len(p)]
      BY <1>5, <3>1
    <3>3. block[j - Len(p)] = NL => j - Len(p) = n
      BY <3>1 DEF OneLine, n
    <3> QED  BY <2>1, <3>1, <3>2, <3>3 DEF NewlineAt
  <2> QED  BY <2>2, <2>3, <1>2, <1>10
<1>14. CASE block[n] = NL
  <2>1. \A j \in 1 .. Len(whole) : NewlineAt(v, whole[j]) <=> j = Len(whole)
    BY <1>13, <1>14
  <2>2. Len(v) = d + Len(FlattenSeq(q)) + Len(whole) /\ Consecutive(whole, d + Len(FlattenSeq(q)))
    BY <1>10, <1>12 DEF f
  <2>3. Chronicle(Append(q, whole), <<>>, d, v)
    BY <1>1, <1>8, <1>9, <1>10, <1>11, <2>1, <2>2, ChronicleComplete
  <2> QED  BY <1>14, <2>3 DEF whole, v, bytes, n, EndsLine
<1>15. CASE block[n] # NL
  <2>1. \A j \in 1 .. Len(whole) : ~ NewlineAt(v, whole[j])
    BY <1>13, <1>15
  <2>2. Len(v) = d + Len(FlattenSeq(q)) + Len(whole) /\ Consecutive(whole, d + Len(FlattenSeq(q)))
    BY <1>10, <1>12 DEF f
  <2>3. Chronicle(q, whole, d, v)
    BY <1>1, <1>8, <1>9, <1>10, <2>1, <2>2 DEF Chronicle
  <2> QED  BY <1>15, <2>3 DEF whole, v, bytes, n, EndsLine
<1> QED  BY <1>14, <1>15

-----------------------------------------------------------------------------
(* The ring, as the server fills it.                                       *)

(* The slots in use hold commands.                                         *)
Filled(b, new) ==
  \A s \in Slots : b.full \/ s < b.in_offs \/ (s = b.in_offs /\ ~ new) => b.entry[s].buffptr # <<>>

RingOK(b, new) == Shaped(b, new) /\ RestEmpty(b, new) /\ Whole(b) /\ Filled(b, new)

Stores(b, new, bytes, complete) ==
  LET whole == PartialIn(b, new) \o bytes
  IN  AddEntry(b, [buffptr |-> whole, size |-> Len(whole)], complete, new)

RingKept(b, new, bytes, complete, c) ==
  LET whole == PartialIn(b, new) \o bytes
  IN  /\ c \in CircularBuffer /\ RingOK(c, complete)
      /\ whole \in Seq(Byte) /\ whole # <<>>
      /\ [buffptr |-> whole, size |-> Len(whole)] \in BufferEntry
      /\ b.full => c.full
      /\ c.out_offs = IF b.full /\ new THEN Advance(b.out_offs) ELSE b.out_offs

LEMMA RingWriteOK ==
  ASSUME NEW b \in CircularBuffer, NEW new \in BOOLEAN, RingOK(b, new),
         NEW bytes \in Seq(Byte), bytes # <<>>, NEW complete \in BOOLEAN,
         NEW c, c = Stores(b, new, bytes, complete)
  PROVE  RingKept(b, new, bytes, complete, c)
<1> DEFINE whole == PartialIn(b, new) \o bytes
           e == [buffptr |-> whole, size |-> Len(whole)]
<1>1. /\ MaxWriteOps \in Nat /\ MaxWriteOps >= 1
      /\ b.entry \in [Slots -> BufferEntry] /\ b.in_offs \in Slots /\ b.out_offs \in Slots /\ b.full \in BOOLEAN
  BY MaxWriteOpsAssumption DEF CircularBuffer
<1>2. whole \in Seq(Byte) /\ whole # <<>> /\ Len(whole) \in Nat
  <2>1. PartialIn(b, new) \in Seq(Byte)
    BY CommandsProperties DEF RingOK
  <2>2. /\ whole \in Seq(Byte) /\ Len(whole) = Len(PartialIn(b, new)) + Len(bytes)
        /\ Len(PartialIn(b, new)) \in Nat /\ Len(bytes) \in Nat
    BY <2>1, ConcatProperties, LenProperties
  <2>3. Len(bytes) # 0
    BY EmptySeq
  <2> QED  BY <2>2, <2>3, EmptySeq
<1> HIDE DEF whole
<1>3. e \in BufferEntry /\ e.buffptr = whole /\ e.size = Len(whole)
  BY <1>2 DEF BufferEntry
<1> HIDE DEF e
<1>4. /\ c.entry = [b.entry EXCEPT ![b.in_offs] = e]
      /\ c.in_offs = IF complete THEN Advance(b.in_offs) ELSE b.in_offs
      /\ c.out_offs = IF new /\ b.full THEN Advance(b.out_offs) ELSE b.out_offs
      /\ c.full = IF complete THEN c.in_offs = c.out_offs ELSE b.full
      /\ c = [entry |-> c.entry, in_offs |-> c.in_offs, out_offs |-> c.out_offs, full |-> c.full]
  BY DEF Stores, AddEntry, e, whole
<1>5. /\ Advance(b.in_offs) \in Slots /\ Advance(b.out_offs) \in Slots
      /\ Advance(b.in_offs) = IF b.in_offs = MaxWriteOps - 1 THEN 0 ELSE b.in_offs + 1
      /\ Advance(b.out_offs) = IF b.out_offs = MaxWriteOps - 1 THEN 0 ELSE b.out_offs + 1
  BY <1>1, AdvanceType DEF Advance, Slots
<1>6. c \in CircularBuffer
  <2>1. c.entry \in [Slots -> BufferEntry] /\ c.in_offs \in Slots /\ c.out_offs \in Slots /\ c.full \in BOOLEAN
    BY <1>1, <1>3, <1>4, <1>5
  <2> QED  BY <1>4, <2>1 DEF CircularBuffer
<1>7. /\ Shaped(b, new) /\ RestEmpty(b, new) /\ Whole(b) /\ Filled(b, new)
  BY DEF RingOK
<1>8. \A s \in Slots : c.entry[s] = IF s = b.in_offs THEN e ELSE b.entry[s]
  BY <1>1, <1>4
<1>9. Whole(c)
  BY <1>3, <1>7, <1>8 DEF Whole
<1>10. CASE b.full
  <2>1. c.out_offs = Advance(b.in_offs)
    BY <1>4, <1>7, <1>10 DEF Shaped
  <2>2. c.full
    BY <1>4, <1>10, <2>1
  <2>3. Shaped(c, complete)
    BY <1>4, <2>1, <2>2 DEF Shaped
  <2>4. Filled(c, complete)
    BY <1>2, <1>3, <1>7, <1>8, <1>10 DEF Filled
  <2>5. RestEmpty(c, complete)
    BY <2>2 DEF RestEmpty
  <2> QED  BY <1>2, <1>3, <1>4, <1>6, <1>9, <2>2, <2>3, <2>4, <2>5 DEF RingOK, RingKept, e, whole
<1>11. CASE ~ b.full
  <2>1. b.out_offs = 0 /\ c.out_offs = 0
    BY <1>4, <1>7, <1>11 DEF Shaped
  <2>2. CASE ~ complete
    <3>1. ~ c.full /\ c.in_offs = b.in_offs
      BY <1>4, <1>11, <2>2
    <3>2. Shaped(c, complete)
      BY <2>1, <3>1 DEF Shaped
    <3>3. Filled(c, complete)
      BY <1>2, <1>3, <1>7, <1>8, <3>1 DEF Filled
    <3>4. RestEmpty(c, complete)
      <4>1. SUFFICES ASSUME NEW s \in Slots, s > c.in_offs PROVE c.entry[s].buffptr = <<>>
        BY <2>2 DEF RestEmpty
      <4>2. s # b.in_offs /\ s > b.in_offs
        BY <1>1, <3>1, <4>1 DEF Slots
      <4> QED  BY <1>7, <1>8, <1>11, <4>2 DEF RestEmpty
    <3> QED  BY <1>2, <1>3, <1>4, <1>6, <1>9, <1>11, <3>2, <3>3, <3>4 DEF RingOK, RingKept, e, whole
  <2>3. CASE complete
    <3>1. c.in_offs = Advance(b.in_offs) /\ (c.full <=> c.in_offs = 0)
      BY <1>4, <2>1, <2>3
    <3>2. Shaped(c, complete)
      BY <2>1, <2>3, <3>1 DEF Shaped
    <3>3. c.full => b.in_offs = MaxWriteOps - 1
      BY <1>1, <1>5, <3>1 DEF Slots
    <3>4. ~ c.full => c.in_offs = b.in_offs + 1
      BY <1>5, <3>1
    <3>5. Filled(c, complete)
      <4>1. SUFFICES ASSUME NEW s \in Slots, c.full \/ s < c.in_offs PROVE c.entry[s].buffptr # <<>>
        BY <2>3 DEF Filled
      <4>2. s = b.in_offs \/ s < b.in_offs
        <5>1. CASE c.full
          BY <1>1, <3>3, <5>1 DEF Slots
        <5>2. CASE ~ c.full
          BY <1>1, <3>4, <4>1, <5>2 DEF Slots
        <5> QED  BY <5>1, <5>2
      <4> QED  BY <1>2, <1>3, <1>7, <1>8, <4>2 DEF Filled
    <3>6. RestEmpty(c, complete)
      <4>1. SUFFICES ASSUME ~ c.full, NEW s \in Slots, s >= c.in_offs PROVE c.entry[s].buffptr = <<>>
        <5>1. ASSUME ~ c.full, NEW s \in Slots, s > c.in_offs PROVE s >= c.in_offs
          BY <1>1, <3>4, <5>1 DEF Slots
        <5>2. c.in_offs \in Slots /\ c.in_offs >= c.in_offs
          BY <1>5, <3>1 DEF Slots
        <5> QED  BY <4>1, <5>1, <5>2 DEF RestEmpty
      <4>2. s # b.in_offs /\ s > b.in_offs
        BY <1>1, <3>4, <4>1 DEF Slots
      <4> QED  BY <1>7, <1>8, <1>11, <4>2 DEF RestEmpty
    <3> QED  BY <1>2, <1>3, <1>4, <1>6, <1>9, <1>11, <3>2, <3>5, <3>6 DEF RingOK, RingKept, e, whole
  <2> QED  BY <2>2, <2>3
<1> QED  BY <1>10, <1>11

(* What a write makes of the commands: a new one in a full ring takes the  *)
(* place of the oldest.                                                    *)
RingCommands(b, new, bytes, complete, c) ==
  LET q     == CommandsIn(b, new)
      kept  == IF b.full /\ new THEN Tail(q) ELSE q
      whole == PartialIn(b, new) \o bytes
  IN  /\ b.full /\ new => Len(q) >= 1 /\ PartialIn(b, new) = <<>>
      /\ CommandsIn(c, complete) = IF complete THEN Append(kept, whole) ELSE kept
      /\ PartialIn(c, complete) = IF complete THEN <<>> ELSE whole

LEMMA RingWriteCommands ==
  ASSUME NEW b \in CircularBuffer, NEW new \in BOOLEAN, RingOK(b, new),
         NEW bytes \in Seq(Byte), bytes # <<>>, NEW complete \in BOOLEAN,
         NEW c, c = Stores(b, new, bytes, complete)
  PROVE  RingCommands(b, new, bytes, complete, c)
<1> DEFINE q == CommandsIn(b, new)
           whole == PartialIn(b, new) \o bytes
           e == [buffptr |-> whole, size |-> Len(whole)]
<1>1. /\ MaxWriteOps \in Nat /\ MaxWriteOps >= 1
      /\ b.entry \in [Slots -> BufferEntry] /\ b.in_offs \in Slots /\ b.out_offs \in Slots /\ b.full \in BOOLEAN
      /\ b = [entry |-> b.entry, in_offs |-> b.in_offs, out_offs |-> b.out_offs, full |-> b.full]
  BY MaxWriteOpsAssumption DEF CircularBuffer
<1>2. Shaped(b, new) /\ RestEmpty(b, new) /\ Whole(b) /\ Filled(b, new)
  BY DEF RingOK
<1>3. q \in Seq(Seq(Byte)) /\ PartialIn(b, new) \in Seq(Byte)
  BY <1>2, CommandsProperties
<1>4. c \in CircularBuffer /\ whole \in Seq(Byte) /\ whole # <<>> /\ e \in BufferEntry
  <2>1. RingKept(b, new, bytes, complete, c)
    BY RingWriteOK
  <2> QED  BY <2>1 DEF RingKept
<1>5. c = AddEntry(b, e, complete, new) /\ e.buffptr = whole
  BY DEF Stores
<1> HIDE DEF q, whole, e
<1>6. CASE b.full /\ new
  <2> DEFINE g == [b EXCEPT !.entry = [b.entry EXCEPT ![b.in_offs] = NoEntry]]
  <2>1. /\ g.entry = [b.entry EXCEPT ![b.in_offs] = NoEntry]
        /\ g.in_offs = b.in_offs /\ g.out_offs = b.out_offs /\ g.full = b.full
        /\ g = [entry |-> g.entry, in_offs |-> g.in_offs, out_offs |-> g.out_offs, full |-> g.full]
    BY <1>1
  <2> HIDE DEF g
  <2>2. /\ g.entry[b.in_offs] = NoEntry /\ g.entry \in [Slots -> BufferEntry]
        /\ \A r \in Slots \ {b.in_offs} : g.entry[r] = b.entry[r]
    BY <1>1, <2>1, NoEntryType
  <2>3. g \in CircularBuffer
    BY <1>1, <2>1, <2>2 DEF CircularBuffer
  <2>4. new = TRUE
    BY <1>6
  <2>5. Len(q) = MaxWriteOps /\ CommandsIn(g, new) = Tail(q)
    <3>1. b.entry[b.in_offs].buffptr # NULL
      BY <1>1, <1>2, <1>6 DEF Filled, NULL
    <3>2. Shaped(b, TRUE)
      BY <1>2, <2>4
    <3>3. Len(CommandsIn(b, TRUE)) = MaxWriteOps /\ CommandsIn(g, TRUE) = Tail(CommandsIn(b, TRUE))
      BY <1>6, <2>1, <2>2, <2>3, <3>1, <3>2, EvictCommands
    <3> QED  BY <2>4, <3>3 DEF q
  <2>6. CanStore(g, new)
    <3>1. Shaped(g, new)
      BY <1>2, <2>1 DEF Shaped
    <3>2. g.entry[g.in_offs].buffptr = NULL
      BY <2>1, <2>2, NoEntryType
    <3>3. \A s \in Slots \ {g.in_offs} : g.entry[s].buffptr # NULL
      BY <1>2, <1>6, <2>1, <2>2 DEF Filled, NULL
    <3> QED  BY <3>1, <3>2, <3>3 DEF CanStore
  <2>7. AddEntry(g, e, complete, new) = c
    <3>1. [g.entry EXCEPT ![g.in_offs] = e] = [b.entry EXCEPT ![b.in_offs] = e]
      BY <1>1, <1>4, <2>1, <2>2
    <3> QED  BY <1>5, <2>1, <3>1 DEF AddEntry
  <2>8. /\ CommandsIn(c, complete) = IF complete THEN Append(CommandsIn(g, new), e.buffptr)
                                     ELSE CommandsIn(g, new)
        /\ PartialIn(c, complete) = IF complete THEN <<>> ELSE e.buffptr
    <3>1. e.buffptr # NULL
      BY <1>4, <1>5 DEF NULL
    <3> QED  BY <1>4, <2>3, <2>6, <2>7, <3>1, StoreCommands
  <2>9. PartialIn(b, new) = <<>>
    BY <2>4 DEF PartialIn
  <2> QED  BY <1>1, <1>3, <1>5, <1>6, <2>5, <2>8, <2>9 DEF q, whole, RingCommands
<1>7. CASE ~ (b.full /\ new)
  <2>1. CanStore(b, new)
    <3>1. new => b.entry[b.in_offs].buffptr = NULL
      BY <1>1, <1>2, <1>7 DEF RestEmpty, NULL
    <3>2. \A s \in Slots \ {b.in_offs} : b.full \/ s < b.in_offs => b.entry[s].buffptr # NULL
      BY <1>2 DEF Filled, NULL
    <3> QED  BY <1>2, <3>1, <3>2 DEF CanStore
  <2>2. /\ CommandsIn(c, complete) = IF complete THEN Append(CommandsIn(b, new), e.buffptr)
                                     ELSE CommandsIn(b, new)
        /\ PartialIn(c, complete) = IF complete THEN <<>> ELSE e.buffptr
    <3>1. e.buffptr # NULL
      BY <1>4, <1>5 DEF NULL
    <3> QED  BY <1>4, <1>5, <2>1, <3>1, StoreCommands
  <2> QED  BY <1>3, <1>5, <1>7, <2>2 DEF q, whole, RingCommands
<1> QED  BY <1>6, <1>7

-----------------------------------------------------------------------------
(* The ring against what was written.                                      *)

Dropped(b, w) == Len(w) - Len(FlattenSeq(Pieces(b)))

History(b, new, w) ==
  /\ b \in CircularBuffer /\ new \in BOOLEAN /\ RingOK(b, new)
  /\ Chronicle(CommandsIn(b, new), PartialIn(b, new), Dropped(b, w), w)
  /\ Dropped(b, w) > 0 => b.full
  /\ Dropped(b, w) = 0 => b.out_offs = 0

LEMMA ByteIsNat == Byte = Nat /\ UseCharDevice = TRUE /\ Reply = Nat
BY DeviceAssumption, ConstantsAssumption DEF Reply

LEMMA DroppedIs ==
  ASSUME NEW b \in CircularBuffer, NEW new \in BOOLEAN, RingOK(b, new), NEW w,
         NEW d, Chronicle(CommandsIn(b, new), PartialIn(b, new), d, w)
  PROVE  Dropped(b, w) = d /\ d \in Nat
<1> DEFINE s == FlattenSeq(CommandsIn(b, new)) \o PartialIn(b, new)
<1>1. FlattenSeq(Pieces(b)) = s
  BY ContentsOfRing DEF RingOK
<1>2. s \in Seq(Nat) /\ Len(w) = d + Len(s)
  BY ChronicleWhole
<1>3. d \in Nat
  BY DEF Chronicle
<1>4. Len(s) \in Nat
  BY <1>2, LenProperties
<1> HIDE DEF s
<1> QED  BY <1>1, <1>2, <1>3, <1>4 DEF Dropped

(* What is written is added to the last command, and may complete it.      *)
Extension(w, v, bytes, complete) ==
  \A q, p, d : Chronicle(q, p, d, w) =>
    IF complete THEN Chronicle(Append(q, p \o bytes), <<>>, d, v) ELSE Chronicle(q, p \o bytes, d, v)

(* The ring never holds an older byte again.                               *)
LEMMA HistoryStores ==
  ASSUME NEW w, NEW b \in CircularBuffer, NEW new \in BOOLEAN, History(b, new, w),
         NEW bytes \in Seq(Byte), bytes # <<>>, NEW complete \in BOOLEAN,
         NEW c, c = Stores(b, new, bytes, complete),
         NEW v, Extension(w, v, bytes, complete)
  PROVE  History(c, complete, v) /\ Dropped(b, w) <= Dropped(c, v)
<1> DEFINE q == CommandsIn(b, new)
           p == PartialIn(b, new)
           kept == IF b.full /\ new THEN Tail(q) ELSE q
           d == Dropped(b, w)
           low == IF b.full /\ new THEN d + Len(q[1]) ELSE d
<1>2. RingOK(b, new)
  BY DEF History
<1>20. RingKept(b, new, bytes, complete, c) /\ RingCommands(b, new, bytes, complete, c)
  BY <1>2, RingWriteOK, RingWriteCommands
<1>1. /\ Chronicle(q, p, d, w)
      /\ d > 0 => b.full
      /\ d = 0 => b.out_offs = 0
      /\ d \in Nat
  BY DEF History, Chronicle
<1> HIDE DEF d
<1>3. /\ c \in CircularBuffer /\ RingOK(c, complete)
      /\ b.full => c.full
      /\ c.out_offs = IF b.full /\ new THEN Advance(b.out_offs) ELSE b.out_offs
  BY <1>20 DEF RingKept
<1>4. /\ b.full /\ new => Len(q) >= 1 /\ p = <<>>
      /\ CommandsIn(c, complete) = IF complete THEN Append(kept, p \o bytes) ELSE kept
      /\ PartialIn(c, complete) = IF complete THEN <<>> ELSE p \o bytes
  BY <1>20 DEF RingCommands
<1> HIDE DEF q, p
<1>5. Chronicle(kept, p, low, w) /\ low \in Nat /\ d <= low /\ (low = 0 => d = 0)
      /\ (b.full /\ new => low > 0) /\ (low > 0 => b.full)
  <2>1. CASE b.full /\ new
    <3>1. Chronicle(Tail(q), p, d + Len(q[1]), w) /\ Len(q[1]) \in Nat
      BY <1>1, <1>4, <2>1, ChronicleDrop
    <3>2. Len(q[1]) # 0
      <4>1. 1 \in 1 .. Len(q) /\ q \in Seq(Seq(Nat)) /\ Ends(q, w)
        <5>1. q \in Seq(Seq(Nat)) /\ Ends(q, w)
          BY <1>1 DEF Chronicle
        <5>2. Len(q) \in Nat
          BY <5>1, LenProperties
        <5> QED  BY <1>4, <2>1, <5>1, <5>2
      <4>2. q[1] # <<>> /\ q[1] \in Seq(Nat)
        BY <4>1, ElementOfSeq DEF Ends
      <4> QED  BY <4>2, EmptySeq
    <3> QED  BY <1>1, <2>1, <3>1, <3>2
  <2>2. CASE ~ (b.full /\ new)
    BY <1>1, <2>2
  <2> QED  BY <2>1, <2>2
<1> HIDE DEF kept, low
<1>6. Chronicle(CommandsIn(c, complete), PartialIn(c, complete), low, v)
  BY <1>4, <1>5 DEF Extension
<1>7. Dropped(c, v) = low
  BY <1>1, <1>3, <1>6, DroppedIs
<1>8. low = 0 => c.out_offs = 0
  BY <1>1, <1>3, <1>5
<1>9. History(c, complete, v)
  BY <1>3, <1>5, <1>6, <1>7, <1>8 DEF History
<1> QED  BY <1>5, <1>7, <1>9 DEF d

(* A block is written.                                                     *)
LEMMA HistoryWrite ==
  ASSUME NEW w \in Seq(Written), NEW b \in CircularBuffer, NEW new \in BOOLEAN, History(b, new, w),
         NEW who \in Who, NEW block \in Seq(Bytes), OneLine(block)
  PROVE  LET v == w \o By(who, block)
             c == Stores(b, new, NextBytes(w, block), EndsLine(block))
         IN  History(c, EndsLine(block), v) /\ Dropped(b, w) <= Dropped(c, v)
<1> DEFINE v == w \o By(who, block)
           bytes == NextBytes(w, block)
<1>1. bytes \in Seq(Byte) /\ bytes # <<>>
  <2>1. bytes \in Seq(Nat) /\ Len(bytes) = Len(block)
    BY NextBytesType
  <2> QED  BY <2>1, ByteIsNat, EmptySeq DEF OneLine
<1>2. ASSUME NEW q, NEW p, NEW d, Chronicle(q, p, d, w)
      PROVE  IF EndsLine(block) THEN Chronicle(Append(q, p \o bytes), <<>>, d, v)
                                ELSE Chronicle(q, p \o bytes, d, v)
  BY <1>2, ChronicleWrite
<1> HIDE DEF v, bytes
<1>3. Extension(w, v, bytes, TRUE) \/ ~ EndsLine(block)
  BY <1>2 DEF Extension
<1>4. Extension(w, v, bytes, FALSE) \/ EndsLine(block)
  BY <1>2 DEF Extension
<1>5. \A complete \in BOOLEAN :
        Extension(w, v, bytes, complete) =>
          /\ History(Stores(b, new, bytes, complete), complete, v)
          /\ Dropped(b, w) <= Dropped(Stores(b, new, bytes, complete), v)
  BY <1>1, HistoryStores
<1>6. EndsLine(block) \in BOOLEAN
  BY DEF EndsLine
<1>7. CASE EndsLine(block)
  <2>1. EndsLine(block) = TRUE
    BY <1>7, <1>6
  <2>2. /\ History(Stores(b, new, bytes, TRUE), TRUE, v)
        /\ Dropped(b, w) <= Dropped(Stores(b, new, bytes, TRUE), v)
    BY <1>3, <1>5, <1>7
  <2> QED  BY <2>1, <2>2 DEF v, bytes
<1>8. CASE ~ EndsLine(block)
  <2>1. EndsLine(block) = FALSE
    BY <1>8, <1>6
  <2>2. /\ History(Stores(b, new, bytes, FALSE), FALSE, v)
        /\ Dropped(b, w) <= Dropped(Stores(b, new, bytes, FALSE), v)
    BY <1>4, <1>5, <1>8
  <2> QED  BY <2>1, <2>2 DEF v, bytes
<1> QED  BY <1>7, <1>8

-----------------------------------------------------------------------------
(* What the device holds when the server starts.                           *)

Numbered(e, k) == [i \in 1 .. Len(e[k]) |-> Upto(e, k - 1) + i]

Lines(e) ==
  \A k \in 1 .. Len(e) : e[k] # <<>> /\ \A i \in 1 .. Len(e[k]) : e[k][i] = NL <=> i = Len(e[k])

LEMMA NumberedType ==
  ASSUME NEW e \in Seq(Seq(Bytes)), NEW k \in 1 .. Len(e)
  PROVE  /\ Numbered(e, k) \in Seq(Nat) /\ Len(Numbered(e, k)) = Len(e[k])
         /\ e[k] \in Seq(Bytes) /\ Len(e[k]) \in Nat /\ Upto(e, k - 1) \in Nat
         /\ Consecutive(Numbered(e, k), Upto(e, k - 1))
<1>1. Len(e) \in Nat
  BY LenProperties
<1>2. k - 1 \in 0 .. Len(e) - 1 /\ (k - 1) + 1 = k
  BY <1>1
<1>3. Upto(e, k - 1) \in Nat /\ e[k] \in Seq(Bytes)
  <2>1. \A n \in 0 .. Len(e) - 1 : Upto(e, n) \in Nat /\ e[n + 1] \in Seq(Bytes)
    BY UptoProperties
  <2> QED  BY <1>2, <2>1
<1>4. Len(e[k]) \in Nat
  BY <1>3, LenProperties
<1>5. Numbered(e, k) \in [1 .. Len(e[k]) -> Nat]
  <2> DEFINE u == Upto(e, k - 1)
             l == Len(e[k])
  <2>1. Numbered(e, k) = [i \in 1 .. l |-> u + i] /\ u \in Nat /\ l \in Nat
    BY <1>3, <1>4 DEF Numbered
  <2> HIDE DEF u, l
  <2>2. Numbered(e, k) \in [1 .. l -> Nat]
    BY <2>1
  <2> QED  BY <2>2 DEF l
<1>6. Numbered(e, k) \in Seq(Nat) /\ Len(Numbered(e, k)) = Len(e[k])
  <2> DEFINE s == Numbered(e, k)
             l == Len(e[k])
  <2>1. s \in [1 .. l -> Nat] /\ l \in Nat
    BY <1>4, <1>5
  <2> HIDE DEF s, l
  <2>2. s \in Seq(Nat)
    BY <2>1, SeqDef
  <2>3. Len(s) = l
    BY <2>1, <2>2, LenProperties
  <2> QED  BY <2>2, <2>3 DEF s, l
<1> QED  BY <1>3, <1>4, <1>6 DEF Consecutive, Numbered

LEMMA ChronicleInit ==
  ASSUME NEW e \in Seq(Seq(Bytes)), Lines(e), NEW who \in Who,
         NEW q \in Seq(Seq(Nat)), Len(q) = Len(e), \A k \in 1 .. Len(e) : q[k] = Numbered(e, k)
  PROVE  Chronicle(q, <<>>, 0, By(who, FlattenSeq(e)))
<1> DEFINE w == By(who, FlattenSeq(e))
           F(k) == FlattenSeq(SubSeq(q, 1, k))
           Good(k) == Len(F(k)) = Upto(e, k) /\ Consecutive(F(k), 0)
           Odd == {k \in 0 .. Len(e) : ~ Good(k)}
<1>1. /\ Len(e) \in Nat /\ FlattenSeq(e) \in Seq(Bytes) /\ Upto(e, 0) = 0 /\ Upto(q, 0) = 0
      /\ Upto(e, Len(e)) = Len(FlattenSeq(e))
  BY UptoProperties
<1>2. Good(0)
  <2>1. Len(F(0)) = 0
    BY <1>1 DEF Upto
  <2> QED  BY <1>1, <2>1 DEF Consecutive
<1>3. ASSUME NEW k \in 0 .. Len(e) - 1, Good(k) PROVE Good(k + 1)
  <2>1. k + 1 \in 1 .. Len(e) /\ (k + 1) - 1 = k /\ k \in Nat /\ k < Len(q)
    BY <1>1
  <2>2. F(k) \in Seq(Nat) /\ q[k + 1] \in Seq(Nat) /\ F(k + 1) = F(k) \o q[k + 1]
    <3>1. /\ SubSeq(q, 1, k) \in Seq(Seq(Nat)) /\ q[k + 1] \in Seq(Nat)
          /\ SubSeq(q, 1, k + 1) = Append(SubSeq(q, 1, k), q[k + 1])
          /\ FlattenSeq(SubSeq(q, 1, k + 1)) = FlattenSeq(SubSeq(q, 1, k)) \o q[k + 1]
      BY <2>1, FlattenPrefix
    <3> QED  BY <3>1, FlattenProperties
  <2>3. /\ q[k + 1] = Numbered(e, k + 1) /\ Len(Numbered(e, k + 1)) = Len(e[k + 1])
        /\ Consecutive(Numbered(e, k + 1), Upto(e, k)) /\ Upto(e, k) \in Nat
    <3>1. /\ Numbered(e, k + 1) \in Seq(Nat) /\ Len(Numbered(e, k + 1)) = Len(e[k + 1])
          /\ e[k + 1] \in Seq(Bytes) /\ Len(e[k + 1]) \in Nat /\ Upto(e, (k + 1) - 1) \in Nat
          /\ Consecutive(Numbered(e, k + 1), Upto(e, (k + 1) - 1))
      BY <2>1, NumberedType
    <3> QED  BY <2>1, <3>1
  <2>4. Upto(e, k + 1) = Upto(e, k) + Len(e[k + 1])
    BY UptoProperties
  <2> HIDE DEF F
  <2>5. Consecutive(q[k + 1], 0 + Len(F(k)))
    BY <1>3, <2>3
  <2>6. Consecutive(F(k) \o q[k + 1], 0) /\ Len(F(k) \o q[k + 1]) = Len(F(k)) + Len(q[k + 1])
    <3>1. 0 \in Nat /\ Consecutive(F(k), 0)
      BY <1>3
    <3> QED  BY <2>2, <2>5, <3>1, ConsecutiveConcat
  <2> QED  BY <1>3, <2>2, <2>3, <2>4, <2>6
<1>4. Odd = {}
  <2>1. SUFFICES ASSUME Odd # {} PROVE FALSE
    OBVIOUS
  <2>2. PICK m \in Odd : \A j \in Odd : m <= j
    <3>1. Odd \subseteq Nat
      BY <1>1
    <3> HIDE DEF Odd
    <3> QED  BY <2>1, <3>1, LeastNatural
  <2>3. m \in 0 .. Len(e) /\ ~ Good(m)
    OBVIOUS
  <2>4. m # 0
    BY <1>2, <2>3
  <2>5. m - 1 \in 0 .. Len(e) - 1 /\ m - 1 \in 0 .. Len(e) /\ m - 1 < m /\ (m - 1) + 1 = m
    BY <1>1, <2>3, <2>4
  <2> HIDE DEF Good
  <2>6. Good(m - 1)
    BY <2>2, <2>5
  <2>7. Good((m - 1) + 1)
    BY <1>3, <2>5, <2>6
  <2> QED  BY <2>3, <2>5, <2>7
<1>5. F(Len(e)) = FlattenSeq(q)
  <2>1. SubSeq(q, 1, Len(q)) = q
    BY SubSeqFull
  <2> QED  BY <2>1
<1>6. Len(FlattenSeq(q)) = Len(FlattenSeq(e)) /\ Consecutive(FlattenSeq(q), 0)
  <2>1. Good(Len(e))
    BY <1>1, <1>4
  <2> QED  BY <1>1, <1>5, <2>1
<1>7. Len(w) = Len(FlattenSeq(e)) /\ Len(w) \in Nat
  BY <1>1, ByType, LenProperties
<1>8. Ends(q, w)
  <2>1. SUFFICES ASSUME NEW k \in 1 .. Len(q)
                 PROVE  q[k] # <<>> /\ \A j \in 1 .. Len(q[k]) : NewlineAt(w, q[k][j]) <=> j = Len(q[k])
    BY DEF Ends
  <2>2. k \in 1 .. Len(e) /\ k - 1 \in 0 .. Len(e) - 1 /\ (k - 1) + 1 = k
    BY <1>1
  <2>3. /\ q[k] = Numbered(e, k) /\ Len(Numbered(e, k)) = Len(e[k]) /\ Numbered(e, k) \in Seq(Nat)
        /\ Len(e[k]) \in Nat /\ e[k] \in Seq(Bytes)
    BY <2>2, NumberedType
  <2>4. e[k] # <<>> /\ \A i \in 1 .. Len(e[k]) : e[k][i] = NL <=> i = Len(e[k])
    BY <2>2 DEF Lines
  <2>5. q[k] # <<>>
    <3>1. Len(e[k]) # 0
      BY <2>3, <2>4, EmptySeq
    <3> QED  BY <2>3, <3>1, EmptySeq
  <2>6. ASSUME NEW j \in 1 .. Len(q[k]) PROVE NewlineAt(w, q[k][j]) <=> j = Len(q[k])
    <3> DEFINE u == Upto(e, k - 1)
    <3>1. j \in 1 .. Len(e[k]) /\ q[k][j] = u + j
      BY <2>3 DEF Numbered
    <3>2. /\ u \in Nat /\ u + Len(e[k]) <= Len(FlattenSeq(e))
          /\ \A i \in 1 .. Len(e[k]) : FlattenSeq(e)[u + i] = e[k][i]
      <4>1. \A n \in 0 .. Len(e) - 1 :
              /\ Upto(e, n) \in Nat
              /\ Upto(e, n + 1) = Upto(e, n) + Len(e[n + 1])
              /\ Upto(e, n + 1) <= Len(FlattenSeq(e))
              /\ \A i \in 1 .. Len(e[n + 1]) : FlattenSeq(e)[Upto(e, n) + i] = e[n + 1][i]
        BY UptoProperties
      <4> QED  BY <2>2, <4>1
    <3> HIDE DEF u
    <3>3. u + j \in 1 .. Len(FlattenSeq(e))
      <4>1. Len(FlattenSeq(e)) \in Nat /\ Len(e[k]) \in Nat
        BY <1>7, <2>3
      <4>2. j \in 1 .. Len(e[k]) /\ u \in Nat /\ u + Len(e[k]) <= Len(FlattenSeq(e))
        BY <3>1, <3>2
      <4> DEFINE l == Len(e[k])
                 f == Len(FlattenSeq(e))
      <4>3. f \in Nat /\ l \in Nat /\ j \in 1 .. l /\ u \in Nat /\ u + l <= f
        BY ONLY <4>1, <4>2
      <4> HIDE DEF l, f
      <4>4. u + j \in 1 .. f
        BY ONLY <4>3
      <4> QED  BY ONLY <4>4 DEF f
    <3>4. w[u + j].byte = e[k][j]
      BY <3>1, <3>2, <3>3 DEF By
    <3> QED  BY <2>3, <2>4, <3>1, <3>4 DEF NewlineAt
  <2> QED  BY <2>5, <2>6
<1>9. Len(<<>>) = 0 /\ <<>> \in Seq(Nat)
  BY EmptySeq
<1>10. Len(FlattenSeq(q)) \in Nat
  BY <1>6, <1>7
<1>11. Len(w) = 0 + Len(FlattenSeq(q)) + Len(<<>>)
  BY <1>6, <1>7, <1>9, <1>10
<1>12. Consecutive(<<>>, 0 + Len(FlattenSeq(q))) /\ \A j \in 1 .. Len(<<>>) : ~ NewlineAt(w, <<>>[j])
  BY <1>9 DEF Consecutive
<1> HIDE DEF w
<1>13. Chronicle(q, <<>>, 0, w)
  BY <1>6, <1>8, <1>9, <1>11, <1>12 DEF Chronicle
<1> QED  BY <1>13 DEF w

LEMMA EarlierType ==
  /\ Earlier \in Seq(Seq(Bytes)) /\ Lines(Earlier) /\ Len(Earlier) \in Nat /\ Len(Earlier) <= MaxWriteOps
  /\ FlattenSeq(Earlier) \in Seq(Bytes)
<1>1. Earlier \in Seq(Seq(Bytes) \ {<<>>}) /\ Len(Earlier) <= MaxWriteOps
  BY DeviceAssumption
<1>2. Len(Earlier) \in Nat
  BY <1>1, LenProperties
<1>3. \A k \in 1 .. Len(Earlier) : Earlier[k] \in Seq(Bytes) /\ Earlier[k] # <<>>
  BY <1>1, ElementOfSeq
<1>4. Earlier \in Seq(Seq(Bytes))
  <2>1. Earlier \in [1 .. Len(Earlier) -> Seq(Bytes)]
    BY <1>1, <1>3, LenProperties
  <2> QED  BY <1>2, <2>1, SeqDef
<1>5. Lines(Earlier)
  BY <1>3, DeviceAssumption DEF Lines
<1> QED  BY <1>1, <1>2, <1>4, <1>5, FlattenProperties

LEMMA ModProperties ==
  ASSUME NEW n \in Nat, n <= MaxWriteOps
  PROVE  /\ n = MaxWriteOps => n % MaxWriteOps = 0
         /\ n < MaxWriteOps => n % MaxWriteOps = n
BY MaxWriteOpsAssumption

LEMMA HistoryInit == DInit => History(circ_buffer, write_entry_new_flag, file)
<1> SUFFICES ASSUME DInit PROVE History(circ_buffer, write_entry_new_flag, file)
  OBVIOUS
<1> DEFINE e == Earlier
           N == Len(Earlier)
           b == circ_buffer
           M == MaxWriteOps
<1>1. /\ e \in Seq(Seq(Bytes)) /\ Lines(e) /\ N \in Nat /\ N <= M /\ FlattenSeq(e) \in Seq(Bytes)
      /\ M \in Nat /\ M >= 1 /\ Len(e) = N
  BY EarlierType, MaxWriteOpsAssumption
<1>2. \A k \in 1 .. N : [i \in 1 .. Len(Earlier[k]) |-> Len(FlattenSeq(SubSeq(Earlier, 1, k - 1))) + i] = Numbered(e, k)
  BY DEF Numbered, Upto
<1>3. /\ file = By(Stamper, FlattenSeq(e)) /\ write_entry_new_flag = TRUE
      /\ b.entry = [s \in Slots |-> IF s < N THEN [buffptr |-> Numbered(e, s + 1), size |-> Len(e[s + 1])] ELSE NoEntry]
      /\ b.in_offs = N % M /\ b.out_offs = 0 /\ b.full = (N = M)
      /\ b = [entry |-> b.entry, in_offs |-> b.in_offs, out_offs |-> b.out_offs, full |-> b.full]
  BY DEF DInit, Start, Numbered, Upto
<1>4. \A k \in 1 .. N : /\ Numbered(e, k) \in Seq(Nat) /\ Len(Numbered(e, k)) = Len(e[k]) /\ Len(e[k]) \in Nat
                        /\ Numbered(e, k) # <<>>
  <2> SUFFICES ASSUME NEW k \in 1 .. N
               PROVE  /\ Numbered(e, k) \in Seq(Nat) /\ Len(Numbered(e, k)) = Len(e[k]) /\ Len(e[k]) \in Nat
                      /\ Numbered(e, k) # <<>>
    OBVIOUS
  <2>1. /\ Numbered(e, k) \in Seq(Nat) /\ Len(Numbered(e, k)) = Len(e[k])
        /\ e[k] \in Seq(Bytes) /\ Len(e[k]) \in Nat
    BY <1>1, NumberedType
  <2>2. Len(e[k]) # 0
    BY <1>1, <2>1, EmptySeq DEF Lines
  <2> QED  BY <2>1, <2>2, EmptySeq
<1> HIDE DEF e, N, b, M
<1>5. /\ N = M => b.in_offs = 0 /\ b.full
      /\ N < M => b.in_offs = N /\ ~ b.full
      /\ b.in_offs \in Slots /\ b.out_offs \in Slots /\ b.full \in BOOLEAN /\ 0 \in Slots
  <2>1. (N = M => N % M = 0) /\ (N < M => N % M = N)
    BY <1>1, ModProperties DEF M
  <2>2. Slots = 0 .. M - 1
    BY DEF Slots, M
  <2>3. b.in_offs = N % M /\ b.out_offs = 0
    BY <1>3
  <2>4. b.full = (N = M)
    BY <1>3
  <2>5. b.full \in BOOLEAN
    BY ONLY <2>4
  <2>6. N = M => b.full
    BY ONLY <2>4
  <2>7. N # M => ~ b.full
    BY ONLY <2>4
  <2>8. /\ N = M => b.in_offs = 0
        /\ N < M => b.in_offs = N /\ N # M
        /\ b.in_offs \in Slots /\ b.out_offs \in Slots /\ 0 \in Slots
    BY <1>1, <2>1, <2>2, <2>3
  <2> QED  BY <2>5, <2>6, <2>7, <2>8
<1>6. \A s \in Slots : /\ s < N => /\ s + 1 \in 1 .. N /\ b.entry[s].buffptr = Numbered(e, s + 1)
                                   /\ b.entry[s].size = Len(e[s + 1])
                       /\ ~ (s < N) => b.entry[s] = NoEntry
                       /\ s \in 0 .. M - 1
  BY <1>1, <1>3 DEF Slots, M
<1>7. b \in CircularBuffer
  <2>1. \A s \in Slots : b.entry[s] \in BufferEntry
    <3> SUFFICES ASSUME NEW s \in Slots PROVE b.entry[s] \in BufferEntry
      OBVIOUS
    <3>1. CASE s < N
      <4>1. s + 1 \in 1 .. N
        BY <1>6, <3>1
      <4>2. Numbered(e, s + 1) \in Seq(Byte) /\ Len(e[s + 1]) \in Nat
        BY <1>4, <4>1, ByteIsNat
      <4>3. b.entry[s] = [buffptr |-> Numbered(e, s + 1), size |-> Len(e[s + 1])]
        BY <1>3, <3>1
      <4> QED  BY <4>2, <4>3 DEF BufferEntry
    <3>2. CASE ~ (s < N)
      BY <1>6, <3>2, NoEntryType
    <3> QED  BY <3>1, <3>2
  <2>2. b.entry \in [Slots -> BufferEntry]
    BY <1>3, <2>1
  <2> QED  BY <1>3, <1>5, <2>2 DEF CircularBuffer
<1>8. RingOK(b, TRUE)
  <2>1. Shaped(b, TRUE)
    BY <1>1, <1>3, <1>5 DEF Shaped
  <2>2. Whole(b)
    BY <1>4, <1>6, NoEntryType, EmptySeq DEF Whole, NULL
  <2>3. RestEmpty(b, TRUE)
    <3>1. SUFFICES ASSUME ~ b.full, NEW s \in Slots, s >= b.in_offs PROVE b.entry[s].buffptr = <<>>
      <4>1. b.in_offs \in Slots /\ b.in_offs >= b.in_offs
        BY <1>1, <1>5 DEF Slots
      <4>2. \A s \in Slots : s > b.in_offs => s >= b.in_offs
        BY <1>1, <1>5 DEF Slots
      <4> QED  BY <3>1, <4>1, <4>2 DEF RestEmpty
    <3>2. ~ (s < N)
      BY <1>1, <1>5, <1>6, <3>1
    <3> QED  BY <1>6, <3>2, NoEntryType DEF NULL
  <2>4. Filled(b, TRUE)
    <3>1. SUFFICES ASSUME NEW s \in Slots, b.full \/ s < b.in_offs PROVE b.entry[s].buffptr # <<>>
      BY DEF Filled
    <3>2. s < N
      <4>1. s \in 0 .. M - 1
        BY <1>6
      <4>2. CASE N = M
        BY <1>1, <4>1, <4>2
      <4>3. CASE N < M
        BY <1>5, <3>1, <4>3
      <4> QED  BY <1>1, <4>2, <4>3
    <3> QED  BY <1>4, <1>6, <3>2
  <2> QED  BY <2>1, <2>2, <2>3, <2>4 DEF RingOK
<1> DEFINE q == CommandsIn(b, TRUE)
<1>9. OldestIn(b, TRUE) = 0 /\ CompleteIn(b, TRUE) = N
  <2>1. b.full => b.entry[b.out_offs].buffptr # NULL
    <3>1. b.full => 0 < N
      BY <1>1, <1>5
    <3> QED  BY <1>3, <1>4, <1>5, <1>6, <3>1 DEF NULL
  <2>2. OldestIn(b, TRUE) = 0
    BY <2>1 DEF OldestIn
  <2>3. CompleteIn(b, TRUE) = IF ~ b.full THEN b.in_offs ELSE M - 0
    BY <2>2 DEF CompleteIn, M
  <2>4. ASSUME N = M PROVE CompleteIn(b, TRUE) = N
    <3>1. b.full
      BY <1>5, <2>4
    <3>2. CompleteIn(b, TRUE) = M - 0
      BY <2>3, <3>1
    <3>3. M - 0 = N
      BY <1>1, <2>4
    <3> QED  BY ONLY <3>2, <3>3
  <2>5. ASSUME N < M PROVE CompleteIn(b, TRUE) = N
    <3>1. ~ b.full /\ b.in_offs = N
      BY <1>5, <2>5
    <3> QED  BY <2>3, <3>1
  <2>6. N = M \/ N < M
    BY <1>1
  <2> QED  BY <2>2, <2>4, <2>5, <2>6
<1>10. /\ q \in Seq(Seq(Nat)) /\ Len(q) = N /\ \A k \in 1 .. N : q[k] = Numbered(e, k)
  <2>1. /\ CompleteIn(b, TRUE) \in 0 .. MaxWriteOps /\ OldestIn(b, TRUE) \in {0, 1}
        /\ CommandsIn(b, TRUE) \in Seq(Seq(Byte))
        /\ Len(CommandsIn(b, TRUE)) = CompleteIn(b, TRUE)
        /\ \A k \in 1 .. CompleteIn(b, TRUE) :
             /\ OldestIn(b, TRUE) + k - 1 \in Iterations
             /\ SlotAt(b, OldestIn(b, TRUE) + k - 1) \in Slots
             /\ CommandsIn(b, TRUE)[k] = b.entry[SlotAt(b, OldestIn(b, TRUE) + k - 1)].buffptr
             /\ SlotAt(b, OldestIn(b, TRUE) + k - 1) = b.in_offs => b.full /\ TRUE /\ k = 1 /\ OldestIn(b, TRUE) = 0
        /\ PartialIn(b, TRUE) \in Seq(Byte)
    BY <1>7, <1>8, CommandsProperties DEF RingOK
  <2>2. ASSUME NEW k \in 1 .. N PROVE q[k] = Numbered(e, k)
    <3>1. SlotAt(b, 0 + k - 1) = k - 1 /\ k - 1 \in Slots /\ k - 1 < N /\ (k - 1) + 1 = k
      BY <1>1, <1>3 DEF SlotAt, Slots, M
    <3>2. q[k] = b.entry[SlotAt(b, 0 + k - 1)].buffptr
      BY <1>9, <2>1
    <3>3. b.entry[k - 1].buffptr = Numbered(e, (k - 1) + 1)
      BY <1>6, <3>1
    <3> QED  BY <3>1, <3>2, <3>3
  <2> QED  BY <1>9, <2>1, <2>2, ByteIsNat
<1>11. PartialIn(b, TRUE) = <<>>
  BY DEF PartialIn
<1> HIDE DEF q
<1>12. Chronicle(q, <<>>, 0, file)
  BY <1>1, <1>3, <1>10, ChronicleInit, SpecialBytes
<1>13. Dropped(b, file) = 0
  BY <1>7, <1>8, <1>11, <1>12, DroppedIs DEF q
<1>14. History(b, TRUE, file)
  <2>1. Chronicle(CommandsIn(b, TRUE), PartialIn(b, TRUE), Dropped(b, file), file)
    BY <1>11, <1>12, <1>13 DEF q
  <2>2. b.out_offs = 0 /\ ~ (Dropped(b, file) > 0)
    BY <1>3, <1>13
  <2> QED  BY <1>7, <1>8, <2>1, <2>2 DEF History
<1> QED  BY <1>3, <1>14 DEF b

-----------------------------------------------------------------------------
(* aesd_read's loop returns the bytes held from a position on, and fewer   *)
(* than asked for only at the end.                                         *)
LEMMA DeviceBytesProperties ==
  ASSUME NEW pos \in Nat, NEW n \in Nat, circ_buffer \in CircularBuffer, Whole(circ_buffer)
  PROVE  LET r   == DeviceBytes(pos, n)
             all == FlattenSeq(Pieces(circ_buffer))
         IN  /\ r \in Seq(Byte) /\ Len(r) \in Nat /\ Len(r) <= n
             /\ all \in Seq(Byte) /\ Len(all) \in Nat
             /\ \A i \in 1 .. Len(r) : pos + i <= Len(all) /\ r[i] = all[pos + i]
             /\ Len(r) < n => Len(all) <= pos + Len(r)
<1> DEFINE r   == DeviceBytes(pos, n)
           all == FlattenSeq(Pieces(circ_buffer))
           there == {i \in 1 .. n : FindEntryOffsetForFpos(circ_buffer, pos + i - 1).found}
           m == IF pos + n <= Len(all) THEN n ELSE IF pos >= Len(all) THEN 0 ELSE Len(all) - pos
<1>1. /\ all \in Seq(Byte) /\ Len(all) \in Nat
  <2>1. all \in Seq(Byte)
    BY FindEntryReads
  <2> QED  BY <2>1, LenProperties
<1>2. \A i \in 1 .. n : /\ FindEntryOffsetForFpos(circ_buffer, pos + i - 1).found <=> pos + i - 1 < Len(all)
                        /\ pos + i - 1 < Len(all) => ByteAt(pos + i - 1) = all[pos + i]
  <2> SUFFICES ASSUME NEW i \in 1 .. n
               PROVE  /\ FindEntryOffsetForFpos(circ_buffer, pos + i - 1).found <=> pos + i - 1 < Len(all)
                      /\ pos + i - 1 < Len(all) => ByteAt(pos + i - 1) = all[pos + i]
    OBVIOUS
  <2> DEFINE p == pos + i - 1
             hit == FindEntryOffsetForFpos(circ_buffer, p)
  <2>1. p \in Nat /\ p + 1 = pos + i
    OBVIOUS
  <2>2. /\ hit.entry \in BufferEntry /\ hit.byte \in Nat
        /\ hit.found <=> p < Len(all)
        /\ hit.found =>
             /\ hit.byte < hit.entry.size /\ hit.entry.size = Len(hit.entry.buffptr)
             /\ p + (hit.entry.size - hit.byte) <= Len(all)
             /\ \A j \in 1 .. hit.entry.size - hit.byte :
                  hit.entry.buffptr[hit.byte + j] = all[p + j]
    BY <2>1, FindEntryReads
  <2>3. ByteAt(p) = hit.entry.buffptr[hit.byte + 1]
    BY DEF ByteAt
  <2>4. hit.entry.size \in Nat
    BY <2>2 DEF BufferEntry
  <2> HIDE DEF hit, p, all
  <2>5. hit.found => 1 \in 1 .. hit.entry.size - hit.byte
    BY <2>2, <2>4
  <2>6. hit.found => hit.entry.buffptr[hit.byte + 1] = all[p + 1]
    BY <2>2, <2>5
  <2>7. p < Len(all) => ByteAt(p) = all[pos + i]
    BY <2>1, <2>2, <2>3, <2>6
  <2>8. hit.found <=> p < Len(all)
    BY <2>2
  <2> QED  BY <2>7, <2>8 DEF hit, p
<1> HIDE DEF all
<1>3. m \in Nat /\ m <= n /\ (m < n => Len(all) <= pos + m) /\ \A i \in 1 .. n : i <= m <=> pos + i - 1 < Len(all)
  BY <1>1
<1> HIDE DEF m
<1>4. there = 1 .. m
  <2>1. \A i \in 1 .. n : FindEntryOffsetForFpos(circ_buffer, pos + i - 1).found <=> i <= m
    <3> SUFFICES ASSUME NEW i \in 1 .. n
                 PROVE  FindEntryOffsetForFpos(circ_buffer, pos + i - 1).found <=> i <= m
      OBVIOUS
    <3>1. i <= m <=> pos + i - 1 < Len(all)
      BY <1>3
    <3>2. FindEntryOffsetForFpos(circ_buffer, pos + i - 1).found <=> pos + i - 1 < Len(all)
      BY <1>2
    <3> QED  BY ONLY <3>1, <3>2
  <2>2. \A i \in 1 .. n : i \in there <=> i <= m
    BY <2>1
  <2>3. \A i \in there : i \in 1 .. n
    OBVIOUS
  <2> HIDE DEF there
  <2>4. \A i \in 1 .. m : i \in 1 .. n /\ i <= m
    BY <1>3
  <2>5. \A i \in 1 .. n : i <= m => i \in 1 .. m
    BY <1>3
  <2> QED  BY <2>2, <2>3, <2>4, <2>5
<1>5. Cardinality(there) = m
  <2> HIDE DEF there
  <2> QED  BY <1>3, <1>4, FS_Interval
<1>6. r = [i \in 1 .. m |-> ByteAt(pos + i - 1)]
  BY <1>5 DEF DeviceBytes
<1>7. \A i \in 1 .. m : /\ pos + i <= Len(all) /\ pos + i \in 1 .. Len(all)
                        /\ ByteAt(pos + i - 1) = all[pos + i]
  <2> SUFFICES ASSUME NEW i \in 1 .. m
               PROVE  /\ pos + i <= Len(all) /\ pos + i \in 1 .. Len(all)
                      /\ ByteAt(pos + i - 1) = all[pos + i]
    OBVIOUS
  <2>1. i \in 1 .. n /\ pos + i - 1 < Len(all)
    BY <1>3
  <2>2. ByteAt(pos + i - 1) = all[pos + i]
    BY <1>2, <2>1
  <2> QED  BY <1>1, <2>1, <2>2
<1>8. \A i \in 1 .. m : ByteAt(pos + i - 1) \in Byte
  BY <1>1, <1>7, ElementOfSeq
<1> HIDE DEF there, r
<1>9. r \in Seq(Byte) /\ Len(r) = m
  <2>1. r \in [1 .. m -> Byte]
    BY <1>6, <1>8
  <2> QED  BY <1>3, <2>1, SeqDef, LenProperties
<1>10. \A i \in 1 .. Len(r) : pos + i <= Len(all) /\ r[i] = all[pos + i]
  BY <1>6, <1>7, <1>9
<1> QED  BY <1>1, <1>3, <1>9, <1>10 DEF r, all

-----------------------------------------------------------------------------
(* The threads and the main thread keep AesdSocket's invariant.            *)

Device == /\ circ_buffer \in CircularBuffer /\ Whole(circ_buffer)
          /\ offset \in [Clients -> Nat]

LEMMA PositionType ==
  ASSUME Device, NEW c \in Clients
  PROVE  DeviceSeek(SeekRequest[c]) \in Int
<1>1. SeekRequest[c].cmd \in Nat /\ SeekRequest[c].offset \in Nat
  BY DeviceAssumption
<1>2. BufferFindOffset(circ_buffer, SeekRequest[c].cmd, SeekRequest[c].offset) \in Int
  BY <1>1, BufferFindOffsetType DEF Device
<1> QED  BY <1>2 DEF DeviceSeek

LEMMA ReplyBlock ==
  ASSUME Inv, Device, NEW c \in Clients
  PROVE  LET block == DeviceBytes(task[c].counter + offset[c], BlockSize)
         IN  /\ block \in Seq(Reply) /\ Len(block) <= BlockSize
             /\ task[c].counter \in Nat /\ offset[c] \in Nat
<1>1. task[c].counter \in Nat /\ offset[c] \in Nat /\ task[c].counter + offset[c] \in Nat /\ BlockSize \in Nat
  BY BlockSizes DEF Inv, Typed, TaskType, Device
<1>2. LET block == DeviceBytes(task[c].counter + offset[c], BlockSize)
      IN  block \in Seq(Byte) /\ Len(block) <= BlockSize
  BY <1>1, DeviceBytesProperties DEF Device
<1> QED  BY <1>1, <1>2, ByteIsNat

LEMMA WriteTyped ==
  ASSUME Inv, NEW c \in Clients, task[c].pc = "write"
  PROVE  task[c].buf \in Seq(Bytes) /\ task[c].ended \in BOOLEAN
BY DEF Inv, Typed, WellFormed, TaskType

LEMMA DTaskUsesFile ==
  ASSUME Inv, Device, NEW c \in Clients, DTask(c)
  PROVE  UsesFile(c)
<1>1. CASE DWriteBlock(c)
  <2>1. BlockDone(c, task[c].buf, task[c].ended) /\ task[c].pc = "write"
    BY <1>1 DEF DWriteBlock, BlockDone
  <2>2. task[c].buf \in Seq(Bytes) /\ task[c].ended \in BOOLEAN
    BY <2>1, WriteTyped
  <2> QED  BY <2>1, <2>2 DEF UsesFile
<1>2. CASE DSeek(c)
  <2>1. BlockDone(c, <<>>, task[c].ended \/ DeviceSeek(SeekRequest[c]) < 0)
    BY <1>2 DEF DSeek
  <2>2. (task[c].ended \/ DeviceSeek(SeekRequest[c]) < 0) \in BOOLEAN
    OBVIOUS
  <2>3. <<>> \in Seq(Bytes)
    BY EmptyBuf
  <2> QED  BY <2>1, <2>2, <2>3 DEF UsesFile
<1>3. CASE DReadBlock(c)
  <2>1. LockAndRead(c, DeviceBytes(task[c].counter + offset[c], BlockSize))
    BY <1>3 DEF DReadBlock
  <2>2. DeviceBytes(task[c].counter + offset[c], BlockSize) \in Seq(Reply)
    BY ReplyBlock
  <2> QED  BY <2>1, <2>2 DEF UsesFile
<1>4. CASE Connection(c)
  BY <1>4 DEF UsesFile
<1> QED  BY <1>1, <1>2, <1>3, <1>4 DEF DTask

LEMMA DTaskInv ==
  ASSUME Inv, Device, NEW c \in Clients, DTask(c)
  PROVE  Inv' /\ offset' \in [Clients -> Nat]
<1>1. CASE DWriteBlock(c)
  <2>1. BlockDone(c, task[c].buf, task[c].ended) /\ task[c].pc = "write" /\ offset' = offset
    BY <1>1 DEF DWriteBlock, BlockDone
  <2>2. task[c].buf \in Seq(Bytes) /\ task[c].ended \in BOOLEAN
    BY <2>1, WriteTyped
  <2>3. Inv'
    BY <2>1, <2>2, BlockDoneInv
  <2> QED  BY <2>1, <2>3 DEF Device
<1>2. CASE DSeek(c)
  <2> DEFINE position == DeviceSeek(SeekRequest[c])
  <2>1. /\ BlockDone(c, <<>>, task[c].ended \/ position < 0)
        /\ offset' = IF position < 0 THEN offset ELSE [offset EXCEPT ![c] = position]
    BY <1>2 DEF DSeek
  <2>2. position \in Int
    BY PositionType
  <2>3. <<>> \in Seq(Bytes) /\ (task[c].ended \/ position < 0) \in BOOLEAN
    BY EmptyBuf
  <2>4. Inv'
    BY <2>1, <2>3, BlockDoneInv
  <2> HIDE DEF position
  <2>5. offset' \in [Clients -> Nat]
    BY <2>1, <2>2 DEF Device
  <2> QED  BY <2>4, <2>5
<1>3. CASE DReadBlock(c)
  <2>1. LockAndRead(c, DeviceBytes(task[c].counter + offset[c], BlockSize)) /\ offset' = offset
    BY <1>3 DEF DReadBlock, devicevars
  <2>2. /\ DeviceBytes(task[c].counter + offset[c], BlockSize) \in Seq(Reply)
        /\ Len(DeviceBytes(task[c].counter + offset[c], BlockSize)) <= BlockSize
    BY ReplyBlock
  <2>3. Inv'
    BY <2>1, <2>2, LockAndReadInv
  <2> QED  BY <2>1, <2>3 DEF Device
<1>4. CASE Connection(c) /\ UNCHANGED devicevars
  BY <1>4, ConnectionInv DEF Device, devicevars
<1> QED  BY <1>1, <1>2, <1>3, <1>4 DEF DTask

(* The steps of the system, one by one. *)
LEMMA DNextCases ==
  ASSUME [DNext]_allvars
  PROVE  \/ status = "running" /\ \E c \in Clients : DTask(c)
         \/ status = "running" /\ Others /\ UNCHANGED devicevars
         \/ UNCHANGED vars /\ UNCHANGED devicevars
BY DEF DNext, allvars

LEMMA DNextInv ==
  ASSUME Inv, Device, [DNext]_allvars
  PROVE  Inv' /\ offset' \in [Clients -> Nat]
<1>1. CASE \E c \in Clients : DTask(c)
  BY <1>1, DTaskInv
<1>2. CASE status = "running" /\ Others /\ UNCHANGED devicevars
  BY <1>2, OthersInv DEF Device, devicevars
<1>3. CASE UNCHANGED vars /\ UNCHANGED devicevars
  BY <1>3, StutterInv DEF Device, devicevars
<1> QED  BY <1>1, <1>2, <1>3, DNextCases

LEMMA DTaskStepOf ==
  ASSUME Inv, Device, NEW c \in Clients, NEW d \in Clients, DTask(d)
  PROVE  StepOf(c)
<1>1. CASE d # c
  BY <1>1, DTaskUsesFile, UsesFileStepOf
<1>2. CASE d = c /\ DWriteBlock(c)
  <2>1. BlockDone(c, task[c].buf, task[c].ended) /\ task[c].pc = "write" /\ ~ IsSeek(task[c].buf)
    BY <1>2 DEF DWriteBlock, BlockDone
  <2>2. task[c].ended \in BOOLEAN /\ (task[c].ended => task[c].ended)
    BY <2>1, WriteTyped
  <2>3. BlockDone(c, IF IsSeek(task[c].buf) THEN <<>> ELSE task[c].buf, task[c].ended)
    BY <2>1
  <2> QED  BY <2>2, <2>3, BlockStepOf
<1>3. CASE d = c /\ DSeek(c)
  <2> DEFINE ended == task[c].ended \/ DeviceSeek(SeekRequest[c]) < 0
  <2>1. BlockDone(c, <<>>, ended) /\ IsSeek(task[c].buf)
    BY <1>3 DEF DSeek
  <2>2. ended \in BOOLEAN /\ (task[c].ended => ended)
    OBVIOUS
  <2>3. BlockDone(c, IF IsSeek(task[c].buf) THEN <<>> ELSE task[c].buf, ended)
    BY <2>1
  <2> HIDE DEF ended
  <2> QED  BY <2>2, <2>3, BlockStepOf
<1>4. CASE d = c /\ DReadBlock(c)
  BY <1>4, ReadStepOf DEF DReadBlock
<1>5. CASE d = c /\ Connection(c)
  BY <1>5, ConnectionStepOf
<1> QED  BY <1>1, <1>2, <1>3, <1>4, <1>5 DEF DTask

LEMMA DNextStepOf ==
  ASSUME Inv, Device, [DNext]_allvars, NEW c \in Clients
  PROVE  StepOf(c)
<1>1. CASE \E d \in Clients : DTask(d)
  BY <1>1, DTaskStepOf
<1>2. CASE Others
  BY <1>2, ClientStepOf, MainStepOf DEF Others
<1>3. CASE UNCHANGED vars
  <2>1. /\ task'[c] = task[c] /\ net'[c] = net[c] /\ file' = file
        /\ interrupted # "nothing" => interrupted' # "nothing"
    BY <1>3 DEF vars, mainvars, filevars
  <2> QED  BY <2>1, OthersStepOf
<1> QED  BY <1>1, <1>2, <1>3, DNextCases

(* A block ends at a newline: it has none before its last byte. *)
Line(c) ==
  /\ task[c].pc = "recv" => \A i \in 1 .. Len(task[c].buf) : task[c].buf[i] # NL
  /\ task[c].pc = "write" => OneLine(task[c].buf)

LEMMA LineTakes ==
  ASSUME Inv, NEW c \in Clients, Line(c), NEW b, Takes(c, b)
  PROVE  Line(c)'
<1>1. /\ task[c].pc = "recv" /\ task'[c].pc \in {"recv", "write"}
      /\ task'[c].buf = Append(task[c].buf, b)
      /\ task'[c].pc = "recv" => b # NL
  BY DEF Takes
<1>2. task[c].buf \in Seq(Bytes) /\ Len(task[c].buf) \in Nat
  <2>1. task[c].buf \in Seq(Bytes)
    BY <1>1 DEF Inv, Typed, WellFormed
  <2> QED  BY <2>1, LenProperties
<1> DEFINE v == Append(task[c].buf, b)
           n == Len(task[c].buf)
<1>3. /\ Len(v) = n + 1 /\ v[n + 1] = b /\ \A i \in 1 .. n : v[i] = task[c].buf[i]
  <2>1. task[c].buf \in Seq(Bytes \cup {b}) /\ b \in Bytes \cup {b}
    <3>1. task[c].buf \in [1 .. Len(task[c].buf) -> Bytes]
      BY <1>2, LenProperties
    <3>2. task[c].buf \in [1 .. Len(task[c].buf) -> Bytes \cup {b}]
      BY <3>1
    <3> QED  BY <1>2, <3>2, SeqDef
  <2> QED  BY <2>1, AppendProperties
<1>4. \A i \in 1 .. n : task[c].buf[i] # NL
  BY <1>1 DEF Line
<1> HIDE DEF v, n
<1>5. n \in Nat
  BY <1>2 DEF n
<1>6. \A i \in 1 .. Len(v) : i # Len(v) => v[i] # NL
  BY <1>3, <1>4, <1>5
<1>7. ASSUME task'[c].pc = "recv" PROVE \A i \in 1 .. Len(v) : v[i] # NL
  BY <1>1, <1>3, <1>5, <1>6, <1>7
<1>8. v # <<>>
  BY <1>3, <1>5, EmptySeq
<1>9. task'[c].buf = v
  BY <1>1 DEF v
<1> QED  BY <1>6, <1>7, <1>8, <1>9 DEF Line, OneLine

LEMMA LineStep ==
  ASSUME Inv, NEW c \in Clients, Line(c), StepOf(c)
  PROVE  Line(c)'
<1>1. CASE TakesByte(c)
  BY <1>1, LineTakes DEF TakesByte
<1>2. CASE TakesNothing(c)
  BY <1>2, LineTakes DEF TakesNothing
<1>3. CASE Puts(c)
  <2>1. task'[c].buf = <<>> /\ task'[c].pc # "write"
    BY <1>3 DEF Puts
  <2> QED  BY <2>1, EmptyBuf DEF Line
<1>4. CASE Starts(c)
  <2>1. task'[c].buf = <<>> /\ task'[c].pc # "write"
    BY <1>4 DEF Starts, Inv, Typed, WellFormed
  <2> QED  BY <2>1, EmptyBuf DEF Line
<1>5. CASE Responds(c)
  BY <1>5 DEF Responds, Line
<1>6. CASE Waits(c)
  BY <1>6 DEF Waits, Line
<1> QED  BY <1>1, <1>2, <1>3, <1>4, <1>5, <1>6 DEF StepOf

-----------------------------------------------------------------------------
(* What a step does to the device.                                         *)

Past == History(circ_buffer, write_entry_new_flag, file)

DeviceSame == file' = file /\ circ_buffer' = circ_buffer /\ write_entry_new_flag' = write_entry_new_flag

LEMMA PastDevice ==
  ASSUME Past, offset \in [Clients -> Nat]
  PROVE  Device
BY DEF Past, History, RingOK, Device

LEMMA WriteStores ==
  ASSUME Inv, Past, NEW c \in Clients, DWriteBlock(c)
  PROVE  LET block == task[c].buf
         IN  /\ block \in Seq(Bytes) /\ file' = file \o By(c, block)
             /\ circ_buffer' = Stores(circ_buffer, write_entry_new_flag, NextBytes(file, block), EndsLine(block))
             /\ write_entry_new_flag' = EndsLine(block)
<1> DEFINE block == task[c].buf
           bytes == NextBytes(file, block)
           b     == circ_buffer
           new   == write_entry_new_flag
<1>1. /\ task[c].pc = "write" /\ file' = file \o By(c, block)
      /\ DeviceWrite([i \in 1 .. Len(block) |-> Len(file) + i], Last(block) = NL)
  BY DEF DWriteBlock, BlockDone
<1>2. block \in Seq(Bytes)
  BY <1>1, WriteTyped
<1>3. bytes \in Seq(Nat) /\ b \in CircularBuffer /\ new \in BOOLEAN
  BY <1>2, NextBytesType DEF Inv, FileTyped, Past, History
<1>4. (IF new THEN bytes ELSE b.entry[b.in_offs].buffptr \o bytes) = PartialIn(b, new) \o bytes
  BY <1>3, ConcatEmptySeq DEF PartialIn
<1>5. (Last(block) = NL) = EndsLine(block)
  BY DEF Last, EndsLine
<1>6. DeviceWrite(bytes, EndsLine(block))
  BY <1>1, <1>5 DEF NextBytes
<1>7. /\ circ_buffer' = Stores(b, new, bytes, EndsLine(block))
      /\ write_entry_new_flag' = EndsLine(block)
  BY <1>4, <1>6 DEF DeviceWrite, Stores
<1> QED  BY <1>1, <1>2, <1>7

LEMMA WritePast ==
  ASSUME Inv, Past, NEW c \in Clients, Line(c), DWriteBlock(c)
  PROVE  Past' /\ Dropped(circ_buffer, file) <= Dropped(circ_buffer, file)'
<1> DEFINE block == task[c].buf
           v     == file \o By(c, block)
           r     == Stores(circ_buffer, write_entry_new_flag, NextBytes(file, block), EndsLine(block))
<1>1. /\ block \in Seq(Bytes) /\ file' = v /\ circ_buffer' = r /\ write_entry_new_flag' = EndsLine(block)
  BY WriteStores
<1>2. OneLine(block)
  BY DEF Line, DWriteBlock, BlockDone
<1>3. /\ file \in Seq(Written) /\ circ_buffer \in CircularBuffer /\ write_entry_new_flag \in BOOLEAN
      /\ History(circ_buffer, write_entry_new_flag, file) /\ c \in Who
  BY SpecialBytes DEF Inv, FileTyped, Past, History
<1>4. History(r, EndsLine(block), v) /\ Dropped(circ_buffer, file) <= Dropped(r, v)
  BY <1>1, <1>2, <1>3, HistoryWrite
<1> HIDE DEF v, r
<1>5. History(circ_buffer', write_entry_new_flag', file')
  BY <1>1, <1>4
<1>6. Dropped(circ_buffer, file) <= Dropped(circ_buffer', file')
  BY <1>1, <1>4
<1> QED  BY <1>5, <1>6 DEF Past

LEMMA NothingWritten ==
  ASSUME Inv, NEW c \in Clients
  PROVE  file \o By(c, <<>>) = file
<1>1. By(c, <<>>) \in Seq(Written) /\ Len(By(c, <<>>)) = 0 /\ file \in Seq(Written)
  BY ByType, EmptyBuf, SpecialBytes DEF Inv, FileTyped
<1>2. By(c, <<>>) = <<>>
  BY <1>1, EmptySeq
<1> QED  BY <1>1, <1>2, ConcatEmptySeq

LEMMA ConnectionFile ==
  ASSUME NEW c \in Clients, Connection(c)
  PROVE  file' = file
BY DEF Connection, RecvByte, RecvNothing, RecvFail, Receive, SendBlock, SendLost, Sent, EndBlock,
       SendKills, CloseConnection, filevars

LEMMA OthersFile ==
  ASSUME Others
  PROVE  file' = file
<1>1. CASE \E c \in Clients : ClientStep(c)
  BY <1>1 DEF ClientStep, Connect, ClientSend, ClientRead, ClientClose, Client, filevars
<1>2. CASE Main \/ Signal
  BY <1>2 DEF Main, Accept, Spawn, Signal, filevars
<1>3. CASE Teardown
  BY <1>3, ByteIsNat DEF Teardown, TeardownClose, TeardownJoin, TeardownEnd, filevars
<1> QED  BY <1>1, <1>2, <1>3 DEF Others

(* Only a block written changes the device. *)
LEMMA DeviceSteps ==
  ASSUME Inv, [DNext]_allvars
  PROVE  (\E c \in Clients : DWriteBlock(c)) \/ DeviceSame
<1>1. CASE \E c \in Clients : DSeek(c)
  <2>1. PICK c \in Clients : DSeek(c)
    BY <1>1
  <2>2. file' = file \o By(c, <<>>) /\ UNCHANGED <<circ_buffer, write_entry_new_flag>>
    BY <2>1 DEF DSeek, BlockDone
  <2> QED  BY <2>2, NothingWritten DEF DeviceSame
<1>2. CASE \E c \in Clients : DReadBlock(c)
  BY <1>2 DEF DReadBlock, LockAndRead, filevars, devicevars, DeviceSame
<1>3. CASE \E c \in Clients : Connection(c) /\ UNCHANGED devicevars
  BY <1>3, ConnectionFile DEF devicevars, DeviceSame
<1>4. CASE Others /\ UNCHANGED devicevars
  BY <1>4, OthersFile DEF devicevars, DeviceSame
<1>5. CASE UNCHANGED vars /\ UNCHANGED devicevars
  BY <1>5 DEF vars, filevars, devicevars, DeviceSame
<1> QED  BY <1>1, <1>2, <1>3, <1>4, <1>5, DNextCases DEF DTask

LEMMA PastNext ==
  ASSUME Inv, Past, \A c \in Clients : Line(c), [DNext]_allvars
  PROVE  Past' /\ Dropped(circ_buffer, file) <= Dropped(circ_buffer, file)'
<1>1. CASE \E c \in Clients : DWriteBlock(c)
  BY <1>1, WritePast
<1>2. CASE DeviceSame
  <2>1. Past'
    BY <1>2 DEF DeviceSame, Past
  <2>2. Dropped(circ_buffer, file)' = Dropped(circ_buffer, file)
    BY <1>2 DEF DeviceSame
  <2>3. Dropped(circ_buffer, file) \in Nat
    BY DEF Past, History, Chronicle
  <2> QED  BY <2>1, <2>2, <2>3
<1> QED  BY <1>1, <1>2, DeviceSteps

(* The core of the invariant. *)
DCore ==
  /\ Inv /\ offset \in [Clients -> Nat] /\ Past
  /\ \A c \in Clients : Line(c) /\ Sound(c)

LEMMA DCoreInit == DInit => DCore
<1> SUFFICES ASSUME DInit PROVE DCore
  OBVIOUS
<1>1. Past
  BY HistoryInit DEF Past
<1> DEFINE w == By(Stamper, FlattenSeq(Earlier))
<1>2. Start(w) /\ offset = [c \in Clients |-> 0]
  BY DEF DInit
<1>3. w \in Seq(Written) /\ Len(w) = Len(FlattenSeq(Earlier))
  BY EarlierType, SpecialBytes, ByType
<1>4. NotOurs(w)
  BY <1>3, ConstantsAssumption DEF NotOurs, By
<1> HIDE DEF w
<1>5. Inv
  BY <1>2, <1>3, InvInit
<1>6. Sounds
  BY <1>2, <1>3, <1>4, SoundInit
<1>7. \A c \in Clients : task[c].pc = "none"
  BY <1>2 DEF Start, NoTask
<1>8. \A c \in Clients : Line(c)
  BY <1>7 DEF Line
<1> QED  BY <1>1, <1>2, <1>5, <1>6, <1>8 DEF DCore, Sounds

LEMMA DCoreNext ==
  ASSUME DCore, [DNext]_allvars
  PROVE  DCore' /\ Dropped(circ_buffer, file) <= Dropped(circ_buffer, file)'
<1>1. Inv /\ Past /\ Device /\ \A c \in Clients : Line(c) /\ Sound(c)
  BY PastDevice DEF DCore
<1>2. Inv' /\ offset' \in [Clients -> Nat]
  BY <1>1, DNextInv
<1>3. Past' /\ Dropped(circ_buffer, file) <= Dropped(circ_buffer, file)'
  BY <1>1, PastNext
<1>4. ASSUME NEW c \in Clients PROVE Line(c)' /\ Sound(c)'
  <2>1. StepOf(c)
    BY <1>1, DNextStepOf
  <2> QED  BY <1>1, <2>1, LineStep, SoundStep
<1> QED  BY <1>2, <1>3, <1>4 DEF DCore

LEMMA CoreInvariance == DSpec => []DCore
<1>1. DInit => DCore
  BY DCoreInit
<1>2. DCore /\ [DNext]_allvars => DCore'
  BY DCoreNext
<1> QED  BY <1>1, <1>2, PTL DEF DSpec

-----------------------------------------------------------------------------
(* What is held.                                                           *)

LEMMA HeldIs ==
  ASSUME Past
  PROVE  LET d == Dropped(circ_buffer, file)
         IN  /\ Held = FlattenSeq(Pieces(circ_buffer))
             /\ Held \in Seq(Nat) /\ Len(Held) \in Nat /\ d \in Nat /\ Len(file) = d + Len(Held)
             /\ Len(file) - Len(Held) = d
             /\ \A i \in 1 .. Len(Held) : Held[i] = d + i
             /\ d = 0 \/ NewlineAt(file, d)
             /\ circ_buffer \in CircularBuffer /\ Whole(circ_buffer)
<1> DEFINE b   == circ_buffer
           new == write_entry_new_flag
           d   == Dropped(b, file)
           q   == CommandsIn(b, new)
           p   == PartialIn(b, new)
<1>1. b \in CircularBuffer /\ new \in BOOLEAN /\ RingOK(b, new) /\ Chronicle(q, p, d, file)
  BY DEF Past, History
<1>2. FlattenSeq(Pieces(b)) = FlattenSeq(q) \o p
  BY <1>1, ContentsOfRing DEF RingOK
<1>3. Held = FlattenSeq(q) \o p
  BY <1>2 DEF Held, Pieces
<1>4. d \in Nat /\ (d = 0 \/ NewlineAt(file, d))
  BY <1>1 DEF Chronicle
<1> HIDE DEF b, new, d, q, p
<1>5. /\ FlattenSeq(q) \o p \in Seq(Nat)
      /\ Len(file) = d + Len(FlattenSeq(q) \o p)
      /\ Consecutive(FlattenSeq(q) \o p, d)
  BY <1>1, ChronicleWhole
<1>6. Len(Held) \in Nat
  BY <1>3, <1>5, LenProperties
<1>7. Held = FlattenSeq(Pieces(circ_buffer))
  BY <1>2, <1>3 DEF b
<1>8. Len(file) - Len(Held) = d
  BY <1>3, <1>4, <1>5, <1>6
<1>9. \A i \in 1 .. Len(Held) : Held[i] = d + i
  BY <1>3, <1>5 DEF Consecutive
<1>10. circ_buffer \in CircularBuffer /\ Whole(circ_buffer)
  BY <1>1 DEF b, RingOK
<1>11. Held \in Seq(Nat) /\ Len(file) = d + Len(Held)
  BY <1>3, <1>5
<1> QED  BY <1>4, <1>6, <1>7, <1>8, <1>9, <1>10, <1>11 DEF d, b

(* A full ring holds as many commands as it can, less the one being written. *)
LEMMA FullHolds ==
  ASSUME Past, Dropped(circ_buffer, file) > 0
  PROVE  Len(CommandsIn(circ_buffer, write_entry_new_flag)) >= MaxWriteOps - 1
<1> DEFINE b   == circ_buffer
           new == write_entry_new_flag
<1>1. b \in CircularBuffer /\ new \in BOOLEAN /\ RingOK(b, new) /\ b.full
  BY DEF Past, History
<1>2. Len(CommandsIn(b, new)) = CompleteIn(b, new)
  BY <1>1, CommandsProperties DEF RingOK
<1>3. OldestIn(b, new) = 0
  <2>1. b.out_offs \in Slots
    BY <1>1 DEF CircularBuffer
  <2>2. b.entry[b.out_offs].buffptr # NULL
    BY <1>1, <2>1 DEF RingOK, Filled, NULL
  <2> QED  BY <2>2 DEF OldestIn
<1>4. MaxWriteOps \in Nat
  BY MaxWriteOpsAssumption
<1>5. CASE new
  <2>1. CompleteIn(b, new) = MaxWriteOps - 0
    BY <1>1, <1>3, <1>5 DEF CompleteIn
  <2> QED  BY <1>2, <1>4, <2>1
<1>6. CASE ~ new
  <2>1. CompleteIn(b, new) = MaxWriteOps - 1
    BY <1>1, <1>6 DEF CompleteIn
  <2> QED  BY <1>2, <1>4, <2>1
<1> QED  BY <1>5, <1>6

LEMMA NewestHeld == Past => DeviceKeepsNewest
<1> SUFFICES ASSUME Past PROVE DeviceKeepsNewest
  OBVIOUS
<1> DEFINE b   == circ_buffer
           new == write_entry_new_flag
           d   == Dropped(b, file)
           q   == CommandsIn(b, new)
           p   == PartialIn(b, new)
           N   == Len(q)
           ends == {i \in d + 1 .. Len(file) : EndsCommand(i)}
           some == NewlinesIn(file, d, d + Upto(q, N))
<1>1. /\ d \in Nat /\ Len(Held) \in Nat /\ Len(file) = d + Len(Held) /\ Len(file) - Len(Held) = d
      /\ \A i \in 1 .. Len(Held) : Held[i] = d + i
      /\ d = 0 \/ NewlineAt(file, d)
  BY HeldIs
<1>2. EndsCommand(d)
  BY <1>1 DEF EndsCommand, NewlineAt
<1>3. ASSUME d > 0 PROVE Cardinality(ends) >= MaxWriteOps - 1
  <2>1. Chronicle(q, p, d, file)
    BY DEF Past, History
  <2>2. /\ q \in Seq(Seq(Nat)) /\ p \in Seq(Nat) /\ Len(file) = d + Len(FlattenSeq(q)) + Len(p)
        /\ Consecutive(FlattenSeq(q), d) /\ Ends(q, file)
    BY <2>1 DEF Chronicle
  <2>3. /\ N \in Nat /\ Upto(q, N) = Len(FlattenSeq(q)) /\ Len(FlattenSeq(q)) \in Nat
    BY <2>2, UptoProperties
  <2>4. Len(p) \in Nat
    BY <2>2, LenProperties
  <2>5. N >= MaxWriteOps - 1 /\ MaxWriteOps \in Nat
    BY <1>3, FullHolds, MaxWriteOpsAssumption
  <2> HIDE DEF d, q, p, N
  <2>6. N \in 0 .. Len(q)
    BY <2>3 DEF N
  <2>7. Cardinality(some) = N
    BY <1>1, <2>2, <2>6, NewlinesCounted
  <2>8. some \subseteq ends
    <3> SUFFICES ASSUME NEW i \in some PROVE i \in ends
      OBVIOUS
    <3>1. i \in d + 1 .. d + Upto(q, N) /\ NewlineAt(file, i)
      BY DEF NewlinesIn
    <3>2. i \in d + 1 .. Len(file)
      BY <1>1, <2>2, <2>3, <2>4, <3>1
    <3> QED  BY <3>1, <3>2 DEF EndsCommand, NewlineAt
  <2>9. IsFiniteSet(ends)
    <3>1. IsFiniteSet(d + 1 .. Len(file))
      BY <1>1, FS_Interval
    <3> QED  BY <3>1, FS_Subset
  <2> HIDE DEF some, ends
  <2>10. Cardinality(some) <= Cardinality(ends) /\ Cardinality(ends) \in Nat
    BY <2>8, <2>9, FS_Subset, FS_CardinalityType
  <2> QED  BY <2>3, <2>5, <2>7, <2>10
<1> HIDE DEF d
<1>4. d > 0 => Cardinality({i \in d + 1 .. Len(file) : EndsCommand(i)}) >= MaxWriteOps - 1
  BY <1>3
<1>5. \A i \in 1 .. Len(Held) : Held[i] = d + i
  BY <1>1
<1> QED  BY <1>1, <1>2, <1>4, <1>5 DEF DeviceKeepsNewest

(* The device holds the end of what was ever written, with no byte lost or *)
(* moved when the blocks of several connections join into one command; it  *)
(* drops whole commands, and only when it holds all it can.                *)
THEOREM KeepsNewest == DSpec => []DeviceKeepsNewest
<1>1. DCore => DeviceKeepsNewest
  BY NewestHeld DEF DCore
<1> QED  BY <1>1, CoreInvariance, PTL

-----------------------------------------------------------------------------
(* A step as the response of one connection sees it.                       *)

Early == {"none", "recv", "write"}

Keeps(c) ==
  /\ task'[c].counter = task[c].counter /\ Response(c)' = Response(c)
  /\ \/ task'[c].pc = task[c].pc /\ task'[c].buf = task[c].buf /\ offset'[c] = offset[c]
     \/ task[c].pc \in Early /\ task'[c].pc \in Early \cup {"send"}
     \/ task[c].pc = "close" /\ task'[c].pc = "done" /\ offset'[c] = offset[c]

Reads(c) ==
  /\ task[c].pc = "send" /\ task'[c].pc = "sending" /\ task'[c].counter = task[c].counter
  /\ task'[c].buf = DeviceBytes(task[c].counter + offset[c], BlockSize)
  /\ Response(c)' = Response(c) /\ offset'[c] = offset[c] /\ DeviceSame

Sends(c) ==
  /\ task[c].pc = "sending" /\ net[c].state = "open"
  /\ task'[c].pc = IF ShortBlock(c) THEN "close" ELSE "send"
  /\ task'[c].counter = NewCounter(c)
  /\ Response(c)' = Response(c) \o task[c].buf
  /\ offset'[c] = offset[c]

Loses(c) ==
  /\ task[c].pc = "sending" /\ task'[c].pc \in {"send", "close"}
  /\ task'[c].counter = NewCounter(c) /\ Response(c)' = Response(c) /\ offset'[c] = offset[c]
  /\ net[c].state = "closed" \/ (task'[c].pc = "close" /\ task[c].conf_fd = "closed")

Leaves(c) ==
  /\ net'[c].state = "closed" /\ Response(c)' = net[c].got
  /\ task'[c] = task[c] /\ offset'[c] = offset[c]

Replies(c) == Keeps(c) \/ Reads(c) \/ Sends(c) \/ Loses(c) \/ Leaves(c)

LEMMA RepliesSame ==
  ASSUME NEW c \in Clients, task'[c] = task[c], net'[c] = net[c], offset'[c] = offset[c]
  PROVE  Replies(c)
BY DEF Replies, Keeps, Response

(* A client's response, when the client reads or leaves. *)
LEMMA ClientResponse ==
  ASSUME Typed, NEW c \in Clients, ClientStep(c)
  PROVE  Response(c)' = Response(c) \/ (net'[c].state = "closed" /\ Response(c)' = net[c].got)
<1>1. net[c] \in NetType /\ net[c].got \in Seq(Reply) /\ net[c].out \in Seq(Reply)
      /\ Response(c) \in Seq(Reply)
  BY ResponseType DEF Typed
<1>2. CASE Connect(c) \/ ClientSend(c)
  <2>1. net'[c].got = net[c].got /\ net'[c].out = net[c].out
    BY <1>1, <1>2, ConnectMoves, SendMoves DEF NetMoves, NetType
  <2> QED  BY <2>1 DEF Response
<1>3. CASE ClientRead(c)
  <2> DEFINE got == net[c].got \o net[c].out
  <2>1. NetMoves(c, [[net[c] EXCEPT !.got = got] EXCEPT !.out = <<>>])
    BY <1>3, ReadMoves
  <2> HIDE DEF got
  <2>2. net'[c] = [[net[c] EXCEPT !.got = got] EXCEPT !.out = <<>>]
    BY <2>1 DEF NetMoves
  <2>3. net'[c].got = got /\ net'[c].out = <<>>
    BY <1>1, <2>2 DEF NetType
  <2>4. Response(c)' = Response(c) \o <<>>
    BY <2>3 DEF Response, got
  <2> QED  BY <1>1, <2>4, ConcatEmptySeq
<1>4. CASE ClientClose(c)
  <2>1. net'[c].got = net[c].got /\ net'[c].out = <<>> /\ net'[c].state = "closed"
    BY <1>1, <1>4, LeaveMoves DEF NetMoves, NetType
  <2> QED  BY <1>1, <2>1, ConcatEmptySeq DEF Response
<1> QED  BY <1>2, <1>3, <1>4 DEF ClientStep

LEMMA ReceiveReplies ==
  ASSUME Inv, NEW c \in Clients, RecvByte(c) \/ RecvNothing(c) \/ RecvFail(c)
  PROVE  Replies(c)
<1>1. Response(c)' = Response(c)
  <2>1. CASE RecvByte(c)
    <3>1. net[c] \in NetType /\ NetMoves(c, [net[c] EXCEPT !.rcvd = net[c].rcvd + 1])
      BY <2>1, RecvMoves DEF Inv, Typed
    <3>2. net'[c].got = net[c].got /\ net'[c].out = net[c].out
      BY <3>1 DEF NetMoves, NetType
    <3> QED  BY <3>2 DEF Response
  <2>2. CASE net' = net
    BY <2>2, SameNet
  <2> QED  BY <2>1, <2>2 DEF RecvNothing, RecvFail
<1>2. task[c].pc = "recv" /\ \E b \in Bytes, failed \in BOOLEAN : Receive(c, b, failed)
  <2>1. CASE RecvByte(c)
    <3>1. net[c].rcvd + 1 \in 1 .. Len(Packet[c])
      BY <2>1, PacketLength DEF NetType, NetFormed, Inv, Typed, RecvByte
    <3> QED  BY <2>1, <3>1, PacketBytes DEF RecvByte
  <2>2. CASE RecvNothing(c) \/ RecvFail(c)
    BY <2>2, SpecialBytes DEF RecvNothing, RecvFail
  <2> QED  BY <2>1, <2>2
<1>3. Moves(c, {"recv", "write"}, task[c].counter)
  BY <1>2, ReceiveMoves DEF Inv
<1>4. task'[c].pc \in {"recv", "write"} /\ task'[c].counter = task[c].counter
  BY <1>3 DEF Moves
<1> QED  BY <1>1, <1>2, <1>4 DEF Replies, Keeps, Early

LEMMA BlockReplies ==
  ASSUME Inv, NEW c \in Clients, NEW bytes, NEW ended \in BOOLEAN, BlockDone(c, bytes, ended)
  PROVE  Replies(c)
<1>1. task[c].pc = "write" /\ Moves(c, {"recv", "send"}, task[c].counter)
  BY BlockDoneMoves DEF Inv
<1>2. Response(c)' = Response(c)
  BY SameNet DEF BlockDone
<1> QED  BY <1>1, <1>2 DEF Moves, Replies, Keeps, Early

LEMMA ReadReplies ==
  ASSUME Inv, Device, NEW c \in Clients, DReadBlock(c)
  PROVE  Replies(c)
<1> DEFINE block == DeviceBytes(task[c].counter + offset[c], BlockSize)
<1>1. LockAndRead(c, block) /\ offset' = offset /\ DeviceSame /\ Response(c)' = Response(c) /\ net' = net
  BY SameNet DEF DReadBlock, LockAndRead, devicevars, filevars, DeviceSame
<1>2. block \in Seq(Reply) /\ Len(block) <= BlockSize
  BY ReplyBlock
<1> HIDE DEF block
<1>3. CASE file_exists
  <2>1. task[c].pc = "send" /\ Moves(c, {"sending"}, task[c].counter) /\ task'[c].buf = block
    BY <1>1, <1>2, <1>3, LockAndReadMoves DEF Inv
  <2>2. task'[c].pc = "sending" /\ task'[c].counter = task[c].counter
    BY <2>1 DEF Moves
  <2>3. Reads(c)
    BY <1>1, <2>1, <2>2 DEF Reads, block
  <2> QED  BY <2>3 DEF Replies
<1>4. CASE ~ file_exists
  <2>1. task' = task
    BY <1>1, <1>4 DEF LockAndRead
  <2> QED  BY <1>1, <2>1, RepliesSame
<1> QED  BY <1>3, <1>4

LEMMA SendReplies ==
  ASSUME Inv, NEW c \in Clients, SendBlock(c) \/ SendLost(c), offset' = offset
  PROVE  Replies(c)
<1>1. task[c].pc = "sending" /\ net[c] \in NetType
  BY DEF Inv, Typed, SendBlock, SendLost
<1>2. PICK failed \in BOOLEAN :
        /\ Sent(c, failed)
        /\ \/ failed = FALSE /\ SendBlock(c)
           \/ net' = net /\ (net[c].state = "closed" \/ (task[c].conf_fd = "closed" /\ failed = TRUE))
  BY DEF SendBlock, SendLost
<1>3. NewCounter(c) \in Nat
  BY <1>1, LenProperties DEF NewCounter, Inv, Typed, TaskType, WellFormed
<1>4. /\ task'[c].counter = NewCounter(c)
      /\ task'[c].pc = IF failed \/ ShortBlock(c) THEN "close" ELSE "send"
  <2>1. (failed \/ ShortBlock(c)) \in BOOLEAN
    BY DEF ShortBlock
  <2>2. Moves(c, {"close", "send"}, NewCounter(c))
    BY <1>2, <1>3, <2>1, EndBlockMoves DEF Inv, Sent
  <2>3. task'[c].pc = IF failed \/ ShortBlock(c) THEN "close" ELSE "send"
    BY <1>2, <2>1, EndBlockFields DEF Inv, Sent
  <2> QED  BY <2>2, <2>3 DEF Moves
<1>5. CASE failed = FALSE /\ SendBlock(c)
  <2>1. /\ net[c].state = "open" /\ task[c].buf \in Seq(Reply)
        /\ NetMoves(c, [net[c] EXCEPT !.out = net[c].out \o task[c].buf])
    BY <1>5, SendBlockNet DEF Inv
  <2>2. net'[c].got = net[c].got /\ net'[c].out = net[c].out \o task[c].buf
    BY <1>1, <2>1 DEF NetMoves, NetType
  <2>3. net[c].got \in Seq(Reply) /\ net[c].out \in Seq(Reply)
    BY ResponseType DEF Inv
  <2>4. net[c].got \o (net[c].out \o task[c].buf) = (net[c].got \o net[c].out) \o task[c].buf
    <3>1. \A g, o, b \in Seq(Reply) : g \o (o \o b) = (g \o o) \o b
      BY ConcatAssociative
    <3> QED  BY <2>1, <2>3, <3>1
  <2>5. Response(c)' = Response(c) \o task[c].buf
    <3>1. Response(c)' = net'[c].got \o net'[c].out /\ Response(c) = net[c].got \o net[c].out
      BY DEF Response
    <3> QED  BY <2>2, <2>4, <3>1
  <2>6. task'[c].pc = IF ShortBlock(c) THEN "close" ELSE "send"
    BY <1>4, <1>5
  <2>7. Sends(c)
    BY <1>1, <1>4, <2>1, <2>5, <2>6 DEF Sends
  <2> QED  BY <2>7 DEF Replies
<1>6. CASE net' = net /\ (net[c].state = "closed" \/ (task[c].conf_fd = "closed" /\ failed = TRUE))
  <2>1. Response(c)' = Response(c)
    BY <1>6, SameNet
  <2>2. task'[c].pc \in {"send", "close"}
    BY <1>4
  <2>3. net[c].state = "closed" \/ (task'[c].pc = "close" /\ task[c].conf_fd = "closed")
    BY <1>4, <1>6
  <2>4. Loses(c)
    BY <1>1, <1>4, <2>1, <2>2, <2>3 DEF Loses
  <2> QED  BY <2>4 DEF Replies
<1> QED  BY <1>2, <1>5, <1>6

LEMMA ConnectionReplies ==
  ASSUME Inv, NEW c \in Clients, Connection(c), offset' = offset
  PROVE  Replies(c)
<1>1. CASE SendKills(c)
  BY <1>1, RepliesSame DEF SendKills
<1>2. CASE CloseConnection(c)
  <2>1. task[c].pc = "close" /\ Moves(c, {"done"}, task[c].counter) /\ net' = net
    BY <1>2, CloseMoves DEF Inv, CloseConnection
  <2>2. Response(c)' = Response(c)
    BY <2>1, SameNet
  <2> QED  BY <2>1, <2>2 DEF Moves, Replies, Keeps
<1> QED  BY <1>1, <1>2, ReceiveReplies, SendReplies DEF Connection

(* Another thread moves. *)
LEMMA UsesFileLeaves ==
  ASSUME Inv, NEW c \in Clients, NEW d \in Clients, d # c, UsesFile(d)
  PROVE  task'[c] = task[c] /\ net'[c] = net[c]
<1>1. task \in [Clients -> TaskType] /\ net \in [Clients -> NetType]
  BY DEF Inv, Typed
<1>2. CASE Connection(d)
  <2>1. task'[c] = task[c]
    BY <1>1, <1>2 DEF Connection, RecvByte, RecvNothing, RecvFail, Receive, SendBlock, SendLost, SendKills,
           Sent, EndBlock, CloseConnection
  <2>2. net'[c] = net[c]
    BY <1>1, <1>2 DEF Connection, RecvByte, RecvNothing, RecvFail, SendBlock, SendLost, SendKills, CloseConnection
  <2> QED  BY <2>1, <2>2
<1>3. CASE \E bytes \in Seq(Bytes), ended \in BOOLEAN : BlockDone(d, bytes, ended)
  BY <1>1, <1>3 DEF BlockDone
<1>4. CASE \E block \in Seq(Reply) : LockAndRead(d, block)
  BY <1>1, <1>4 DEF LockAndRead
<1> QED  BY <1>2, <1>3, <1>4 DEF UsesFile

LEMMA DTaskReplies ==
  ASSUME Inv, Device, NEW c \in Clients, NEW d \in Clients, DTask(d)
  PROVE  Replies(c)
<1>1. CASE d # c
  <2>1. task'[c] = task[c] /\ net'[c] = net[c]
    BY <1>1, DTaskUsesFile, UsesFileLeaves
  <2>2. offset'[c] = offset[c]
    BY <1>1 DEF DTask, DWriteBlock, DSeek, DReadBlock, devicevars, Device
  <2> QED  BY <2>1, <2>2, RepliesSame
<1>2. CASE d = c /\ DWriteBlock(c)
  <2>1. BlockDone(c, task[c].buf, task[c].ended) /\ task[c].pc = "write"
    BY <1>2 DEF DWriteBlock, BlockDone
  <2> QED  BY <2>1, WriteTyped, BlockReplies
<1>3. CASE d = c /\ DSeek(c)
  <2> DEFINE ended == task[c].ended \/ DeviceSeek(SeekRequest[c]) < 0
  <2>1. BlockDone(c, <<>>, ended)
    BY <1>3 DEF DSeek
  <2>2. ended \in BOOLEAN
    OBVIOUS
  <2> HIDE DEF ended
  <2> QED  BY <2>1, <2>2, BlockReplies
<1>4. CASE d = c /\ DReadBlock(c)
  BY <1>4, ReadReplies
<1>5. CASE d = c /\ Connection(c) /\ UNCHANGED devicevars
  BY <1>5, ConnectionReplies DEF devicevars
<1> QED  BY <1>1, <1>2, <1>3, <1>4, <1>5 DEF DTask

LEMMA MainReplies ==
  ASSUME Inv, NEW c \in Clients, Main \/ Signal \/ Teardown, offset' = offset
  PROVE  Replies(c)
<1>1. net' = net
  BY DEF Main, Accept, Spawn, Signal, Teardown, TeardownClose, TeardownJoin, TeardownEnd
<1>2. CASE task'[c] = task[c]
  BY <1>1, <1>2, RepliesSame
<1>3. ASSUME NEW d \in Clients, NEW pcs, Moves(d, pcs, task[d].counter), task'[c] # task[c],
             \/ task[d].pc = "none" /\ pcs = {"recv"}
             \/ pcs = {task[d].pc} /\ task'[d].buf = task[d].buf
      PROVE  Replies(c)
  <2>1. d = c
    BY <1>3 DEF Moves
  <2>2. task'[c].counter = task[c].counter /\ task'[c].pc \in pcs
    BY <1>3, <2>1 DEF Moves
  <2>3. Response(c)' = Response(c)
    BY <1>1, SameNet
  <2> QED  BY <1>3, <2>1, <2>2, <2>3 DEF Replies, Keeps, Early
<1>4. CASE Spawn /\ task' # task
  <2> DEFINE d == tasks[Len(tasks)]
  <2>1. main = "spawn" /\ task' = [task EXCEPT ![d].pc = "recv"]
    BY <1>4 DEF Spawn, Last
  <2>2. d \in Clients /\ task[d].pc = "none"
    BY <2>1, LenProperties, ElementOfSeq DEF Inv, MainTyped, Queue
  <2> HIDE DEF d
  <2>3. Moves(d, {"recv"}, task[d].counter)
    BY <2>1, <2>2, SpawnMoves DEF Inv
  <2> QED  BY <1>2, <1>3, <2>2, <2>3
<1>5. CASE TeardownClose /\ task' # task
  <2>1. slot \in 1 .. Len(tasks)
    BY <1>5 DEF TeardownClose
  <2>2. PICK d \in Clients : \E fd \in {"closing", "closed"} : task' = [task EXCEPT ![d].conf_fd = fd]
    <3>1. tasks[slot] \in Clients
      BY <2>1, LenProperties, ElementOfSeq DEF Inv, MainTyped
    <3> QED  BY <1>5, <2>1, <3>1 DEF TeardownClose
  <2>3. Moves(d, {task[d].pc}, task[d].counter) /\ task'[d].buf = task[d].buf
    BY <2>2, FdMoves DEF Inv
  <2> QED  BY <1>2, <1>3, <2>3
<1>6. task' = task \/ Spawn \/ TeardownClose
  BY DEF Main, Accept, Signal, Teardown, TeardownJoin, TeardownEnd
<1> QED  BY <1>2, <1>4, <1>5, <1>6

LEMMA ClientReplies ==
  ASSUME Inv, NEW c \in Clients, NEW d \in Clients, ClientStep(d), offset' = offset
  PROVE  Replies(c)
<1>1. task' = task
  BY DEF ClientStep, Connect, ClientSend, ClientRead, ClientClose, Client
<1>2. CASE d # c
  <2>1. PICK n : NetMoves(d, n)
    BY ConnectMoves, SendMoves, ReadMoves, LeaveMoves DEF Inv, ClientStep
  <2>2. net'[c] = net[c]
    BY <1>2, <2>1 DEF NetMoves
  <2> QED  BY <1>1, <2>2, RepliesSame
<1>3. CASE d = c
  <2>1. Response(c)' = Response(c) \/ (net'[c].state = "closed" /\ Response(c)' = net[c].got)
    BY <1>3, ClientResponse DEF Inv
  <2> QED  BY <1>1, <2>1 DEF Replies, Keeps, Leaves
<1> QED  BY <1>2, <1>3

LEMMA DNextReplies ==
  ASSUME Inv, Device, [DNext]_allvars, NEW c \in Clients
  PROVE  Replies(c)
<1>1. CASE \E d \in Clients : DTask(d)
  BY <1>1, DTaskReplies
<1>2. CASE Others /\ UNCHANGED devicevars
  <2>1. offset' = offset
    BY <1>2 DEF devicevars
  <2> QED  BY <1>2, <2>1, ClientReplies, MainReplies DEF Others
<1>3. CASE UNCHANGED vars /\ UNCHANGED devicevars
  <2>1. task' = task /\ net' = net /\ offset' = offset
    BY <1>3 DEF vars, devicevars
  <2> QED  BY <2>1, RepliesSame
<1> QED  BY <1>1, <1>2, <1>3, DNextCases

-----------------------------------------------------------------------------
(* Responses: where the device's bytes are sent from, and what was sent.   *)

Below(r, n) == \A i \in 1 .. Len(r) : r[i] <= n

Rising(r) == \A i, j \in 1 .. Len(r) : i < j => r[i] < r[j]

(* A connection at pc, in a block buf of a response R, of which k bytes    *)
(* are counted, from offset o on; d bytes of the L ever written have been  *)
(* dropped.  When the block was read it was D; the bytes sent before it    *)
(* are older.                                                              *)
Follows(pc, buf, k, R, o, D) ==
  Below(R, D + o + k) /\ (pc = "sending" => Consecutive(buf, D + o + k))

Traced(pc, buf, k, R, state, o, d, L) ==
  /\ \E D \in 0 .. d : Follows(pc, buf, k, R, o, D)
  /\ Rising(R) /\ Below(R, L)
  /\ pc = "sending" => Below(buf, L)
  /\ pc \in Early => R = <<>> /\ k = 0
  /\ d = 0 => /\ Consecutive(R, o)
              /\ state # "closed" /\ pc \notin {"close", "done"} => k = Len(R)

LEMMA EmptyResponse ==
  /\ Rising(<<>>) /\ \A n : Below(<<>>, n) /\ Consecutive(<<>>, n)
BY EmptyBuf DEF Rising, Below, Consecutive

LEMMA BelowMore ==
  ASSUME NEW r \in Seq(Nat), NEW m \in Nat, NEW n \in Nat, m <= n, Below(r, m)
  PROVE  Below(r, n)
<1> SUFFICES ASSUME NEW i \in 1 .. Len(r) PROVE r[i] <= n
  BY DEF Below
<1>1. r[i] \in Nat /\ r[i] <= m
  BY ElementOfSeq DEF Below
<1> QED  BY <1>1

LEMMA ConcatElements ==
  ASSUME NEW r \in Seq(Nat), NEW b \in Seq(Nat)
  PROVE  /\ r \o b \in Seq(Nat) /\ Len(r) \in Nat /\ Len(b) \in Nat /\ Len(r \o b) = Len(r) + Len(b)
         /\ \A i \in 1 .. Len(r) : r[i] \in Nat /\ (r \o b)[i] = r[i] /\ i \in 1 .. Len(r \o b)
         /\ \A i \in 1 .. Len(r \o b) :
              i > Len(r) => i - Len(r) \in 1 .. Len(b) /\ (r \o b)[i] = b[i - Len(r)]
<1>1. Len(r) \in Nat /\ Len(b) \in Nat
  BY LenProperties
<1>2. /\ r \o b \in Seq(Nat) /\ Len(r \o b) = Len(r) + Len(b)
      /\ \A i \in 1 .. Len(r) + Len(b) : (r \o b)[i] = IF i <= Len(r) THEN r[i] ELSE b[i - Len(r)]
  BY ConcatProperties
<1>3. \A i \in 1 .. Len(r) : r[i] \in Nat
  BY ElementOfSeq
<1> QED  BY <1>1, <1>2, <1>3

LEMMA BelowConcat ==
  ASSUME NEW r \in Seq(Nat), NEW b \in Seq(Nat), NEW n \in Nat, Below(r, n), Below(b, n)
  PROVE  Below(r \o b, n)
<1> SUFFICES ASSUME NEW i \in 1 .. Len(r \o b) PROVE (r \o b)[i] <= n
  BY DEF Below
<1>1. CASE i \in 1 .. Len(r)
  <2>1. (r \o b)[i] = r[i]
    BY <1>1, ConcatElements
  <2> QED  BY <1>1, <2>1 DEF Below
<1>2. CASE i > Len(r)
  <2>1. i - Len(r) \in 1 .. Len(b) /\ (r \o b)[i] = b[i - Len(r)]
    BY <1>2, ConcatElements
  <2> QED  BY <2>1 DEF Below
<1>3. i \in 1 .. Len(r) \/ i > Len(r)
  BY ConcatElements
<1> QED  BY <1>1, <1>2, <1>3

LEMMA RisingConcat ==
  ASSUME NEW r \in Seq(Nat), NEW b \in Seq(Nat), NEW n \in Nat, Rising(r), Below(r, n), Consecutive(b, n)
  PROVE  Rising(r \o b) /\ Below(r \o b, n + Len(b))
<1> DEFINE v == r \o b
<1>1. /\ Len(r) \in Nat /\ Len(b) \in Nat /\ Len(v) = Len(r) + Len(b)
      /\ \A i \in 1 .. Len(r) : r[i] \in Nat /\ v[i] = r[i] /\ i \in 1 .. Len(v)
      /\ \A i \in 1 .. Len(v) : i > Len(r) => i - Len(r) \in 1 .. Len(b) /\ v[i] = b[i - Len(r)]
  BY ConcatElements
<1> HIDE DEF v
<1>2. \A i \in 1 .. Len(v) : i <= Len(r) => i \in 1 .. Len(r) /\ v[i] = r[i] /\ r[i] \in Nat /\ v[i] <= n
  BY <1>1 DEF Below
<1>3. \A i \in 1 .. Len(v) : i > Len(r) => v[i] = n + (i - Len(r))
  BY <1>1 DEF Consecutive
<1>4. Rising(v)
  <2> SUFFICES ASSUME NEW i \in 1 .. Len(v), NEW j \in 1 .. Len(v), i < j PROVE v[i] < v[j]
    BY DEF Rising
  <2>1. CASE j <= Len(r)
    <3>1. i \in 1 .. Len(r) /\ j \in 1 .. Len(r) /\ v[i] = r[i] /\ v[j] = r[j]
      BY <1>1, <1>2, <2>1
    <3> QED  BY <3>1 DEF Rising
  <2>2. CASE i > Len(r)
    <3>1. j > Len(r)
      BY <1>1, <2>2
    <3> QED  BY <1>1, <1>3, <2>2, <3>1
  <2>3. CASE i <= Len(r) /\ j > Len(r)
    <3>1. v[i] \in Nat /\ v[i] <= n /\ v[j] = n + (j - Len(r))
      BY <1>2, <1>3, <2>3
    <3> QED  BY <1>1, <2>3, <3>1
  <2> QED  BY <1>1, <2>1, <2>2, <2>3
<1>5. Below(v, n + Len(b))
  <2> SUFFICES ASSUME NEW i \in 1 .. Len(v) PROVE v[i] <= n + Len(b)
    BY DEF Below
  <2>1. CASE i <= Len(r)
    <3>1. v[i] \in Nat /\ v[i] <= n
      BY <1>2, <2>1
    <3> QED  BY <1>1, <3>1
  <2>2. CASE i > Len(r)
    BY <1>1, <1>3, <2>2
  <2> QED  BY <1>1, <2>1, <2>2
<1> QED  BY <1>4, <1>5 DEF v

(* What a client had read of a response when it left. *)
LEMMA BeginningOf ==
  ASSUME NEW g \in Seq(Nat), NEW o \in Seq(Nat)
  PROVE  /\ Rising(g \o o) => Rising(g)
         /\ \A n : Below(g \o o, n) => Below(g, n)
         /\ \A n : Consecutive(g \o o, n) => Consecutive(g, n)
<1> DEFINE v == g \o o
<1>1. \A i \in 1 .. Len(g) : v[i] = g[i] /\ i \in 1 .. Len(v)
  BY ConcatElements
<1> HIDE DEF v
<1>2. Rising(v) => Rising(g)
  BY <1>1 DEF Rising
<1>3. \A n : Below(v, n) => Below(g, n)
  BY <1>1 DEF Below
<1>4. \A n : Consecutive(v, n) => Consecutive(g, n)
  BY <1>1 DEF Consecutive
<1> QED  BY <1>2, <1>3, <1>4 DEF v

LEMMA TracedLater ==
  ASSUME NEW pc, NEW to, NEW buf, pc = "sending" => buf \in Seq(Nat),
         NEW k \in Nat, NEW R \in Seq(Nat), NEW state, NEW later, NEW o \in Nat,
         NEW d \in Nat, NEW e \in Nat, d <= e, NEW L \in Nat, NEW M \in Nat, L <= M,
         Traced(pc, buf, k, R, state, o, d, L),
         to = pc \/ (pc = "close" /\ to = "done"),
         state = "closed" => later = "closed"
  PROVE  Traced(to, buf, k, R, later, o, e, M)
<1>1. \E D \in 0 .. e : Follows(to, buf, k, R, o, D)
  <2>1. PICK D \in 0 .. d : Follows(pc, buf, k, R, o, D)
    BY DEF Traced
  <2>2. D \in 0 .. e
    OBVIOUS
  <2>3. Follows(to, buf, k, R, o, D)
    BY <2>1 DEF Follows
  <2> QED  BY <2>2, <2>3
<1>2. Rising(R) /\ Below(R, M)
  BY BelowMore DEF Traced
<1>3. to = "sending" => Below(buf, M)
  BY BelowMore DEF Traced
<1>4. to \in Early => R = <<>> /\ k = 0
  BY DEF Traced, Early
<1>5. ASSUME e = 0
      PROVE  /\ Consecutive(R, o)
             /\ later # "closed" /\ to \notin {"close", "done"} => k = Len(R)
  <2>1. d = 0
    BY <1>5
  <2> QED  BY <2>1 DEF Traced
<1> QED  BY <1>1, <1>2, <1>3, <1>4, <1>5 DEF Traced

LEMMA TracedEarly ==
  ASSUME NEW pc \in Early \cup {"send"}, NEW buf, NEW state, NEW o \in Nat, NEW d \in Nat, NEW L \in Nat
  PROVE  Traced(pc, buf, 0, <<>>, state, o, d, L)
<1>1. Follows(pc, buf, 0, <<>>, o, 0)
  BY EmptyResponse DEF Follows, Early
<1> QED  BY <1>1, EmptyResponse, EmptyBuf DEF Traced, Early

(* A block is read. *)
LEMMA TracedReads ==
  ASSUME NEW buf, NEW k \in Nat, NEW R \in Seq(Nat), NEW state, NEW later, NEW o \in Nat,
         NEW d \in Nat, NEW L \in Nat, Traced("send", buf, k, R, state, o, d, L),
         NEW block \in Seq(Nat), Consecutive(block, d + o + k), Below(block, L),
         state = "closed" => later = "closed"
  PROVE  Traced("sending", block, k, R, later, o, d, L)
<1>1. Follows("sending", block, k, R, o, d)
  <2>1. PICK D \in 0 .. d : Below(R, D + o + k)
    BY DEF Traced, Follows
  <2>2. D + o + k \in Nat /\ d + o + k \in Nat /\ D + o + k <= d + o + k
    OBVIOUS
  <2>3. Below(R, d + o + k)
    BY <2>1, <2>2, BelowMore
  <2> QED  BY <2>3 DEF Follows
<1> QED  BY <1>1 DEF Traced, Early

(* A block is sent, or lost. *)
LEMMA TracedSends ==
  ASSUME NEW buf \in Seq(Nat), NEW k \in Nat, NEW R \in Seq(Nat), NEW o \in Nat,
         NEW d \in Nat, NEW L \in Nat, Traced("sending", buf, k, R, "open", o, d, L),
         NEW to \in {"send", "close"}
  PROVE  \A next, later : Traced(to, next, k + Len(buf), R \o buf, later, o, d, L)
<1> SUFFICES ASSUME NEW next, NEW later
             PROVE  Traced(to, next, k + Len(buf), R \o buf, later, o, d, L)
  OBVIOUS
<1>0. Len(buf) \in Nat /\ Len(R) \in Nat
  BY LenProperties
<1>1. PICK D \in 0 .. d : Below(R, D + o + k) /\ Consecutive(buf, D + o + k)
  BY DEF Traced, Follows
<1>2. D + o + k \in Nat
  OBVIOUS
<1>3. Rising(R \o buf) /\ Below(R \o buf, (D + o + k) + Len(buf))
  BY <1>1, <1>2, RisingConcat DEF Traced
<1>4. (D + o + k) + Len(buf) = D + o + (k + Len(buf))
  BY <1>0
<1>5. \E E \in 0 .. d : Follows(to, next, k + Len(buf), R \o buf, o, E)
  <2>1. Follows(to, next, k + Len(buf), R \o buf, o, D)
    BY <1>3, <1>4 DEF Follows
  <2> QED  BY <2>1
<1>6. Below(R \o buf, L)
  BY BelowConcat DEF Traced
<1>7. ASSUME d = 0
      PROVE  Consecutive(R \o buf, o) /\ k + Len(buf) = Len(R \o buf)
  <2>1. D = 0
    BY <1>7
  <2>2. Consecutive(R, o) /\ k = Len(R)
    BY <1>7 DEF Traced
  <2>3. Consecutive(buf, o + Len(R))
    <3>1. D + o + k = o + Len(R)
      BY <1>0, <2>1, <2>2
    <3> QED  BY <1>1, <3>1
  <2>4. Consecutive(R \o buf, o) /\ Len(R \o buf) = Len(R) + Len(buf)
    BY <2>2, <2>3, ConsecutiveConcat
  <2> QED  BY <2>2, <2>4
<1>8. to \notin Early /\ to # "sending"
  BY DEF Early
<1> QED  BY <1>3, <1>5, <1>6, <1>7, <1>8 DEF Traced

LEMMA TracedLoses ==
  ASSUME NEW buf \in Seq(Nat), NEW k \in Nat, NEW R \in Seq(Nat), NEW o \in Nat,
         NEW d \in Nat, NEW L \in Nat, Traced("sending", buf, k, R, "closed", o, d, L),
         NEW to \in {"send", "close"}
  PROVE  \A next, later :
           later = "closed" \/ to = "close" => Traced(to, next, k + Len(buf), R, later, o, d, L)
<1> SUFFICES ASSUME NEW next, NEW later, later = "closed" \/ to = "close"
             PROVE  Traced(to, next, k + Len(buf), R, later, o, d, L)
  OBVIOUS
<1>0. Len(buf) \in Nat
  BY LenProperties
<1>1. PICK D \in 0 .. d : Below(R, D + o + k)
  BY DEF Traced, Follows
<1>2. /\ D + o + k \in Nat /\ D + o + (k + Len(buf)) \in Nat
      /\ D + o + k <= D + o + (k + Len(buf))
  BY <1>0
<1>3. Below(R, D + o + (k + Len(buf)))
  BY <1>1, <1>2, BelowMore
<1>4. \E E \in 0 .. d : Follows(to, next, k + Len(buf), R, o, E)
  <2>1. Follows(to, next, k + Len(buf), R, o, D)
    BY <1>3 DEF Follows
  <2> QED  BY <2>1
<1>5. Rising(R) /\ Below(R, L)
  BY DEF Traced
<1>6. d = 0 => Consecutive(R, o)
  BY DEF Traced
<1>7. to \notin Early /\ to # "sending"
  BY DEF Early
<1> QED  BY <1>4, <1>5, <1>6, <1>7 DEF Traced

(* The client leaves. *)
LEMMA TracedLeaves ==
  ASSUME NEW pc, NEW buf, pc = "sending" => buf \in Seq(Nat),
         NEW k \in Nat, NEW g \in Seq(Nat), NEW out \in Seq(Nat), NEW state, NEW o \in Nat,
         NEW d \in Nat, NEW e \in Nat, d <= e, NEW L \in Nat, NEW M \in Nat, L <= M,
         Traced(pc, buf, k, g \o out, state, o, d, L)
  PROVE  Traced(pc, buf, k, g, "closed", o, e, M)
<1>1. PICK D \in 0 .. d : Follows(pc, buf, k, g \o out, o, D)
  BY DEF Traced
<1>2. Follows(pc, buf, k, g, o, D) /\ D \in 0 .. e
  BY <1>1, BeginningOf DEF Follows
<1>3. Rising(g) /\ Below(g, L)
  BY BeginningOf DEF Traced
<1>4. Below(g, M)
  BY <1>3, BelowMore
<1>5. pc = "sending" => Below(buf, M)
  BY BelowMore DEF Traced
<1>6. pc \in Early => g = <<>> /\ k = 0
  <2> SUFFICES ASSUME pc \in Early PROVE g = <<>> /\ k = 0
    OBVIOUS
  <2>1. g \o out = <<>> /\ k = 0
    BY DEF Traced
  <2>2. Len(g) = 0
    BY <2>1, ConcatElements, EmptyBuf
  <2> QED  BY <2>1, <2>2, EmptySeq
<1>7. e = 0 => Consecutive(g, o)
  BY BeginningOf DEF Traced
<1> QED  BY <1>2, <1>3, <1>4, <1>5, <1>6, <1>7 DEF Traced

-----------------------------------------------------------------------------
(* The same of every connection.                                           *)

Answer(c) ==
  Traced(task[c].pc, task[c].buf, task[c].counter, Response(c), net[c].state, offset[c],
         Dropped(circ_buffer, file), Len(file))

FileKept == /\ Len(file) \in Nat /\ Len(file') \in Nat /\ Len(file) <= Len(file')
            /\ \A i \in 1 .. Len(file) : file'[i] = file[i]

LEMMA FileOnlyGrows ==
  ASSUME Inv, [DNext]_allvars
  PROVE  FileKept
<1>1. file \in Seq(Written) /\ Len(file) \in Nat
  BY LenProperties DEF Inv, FileTyped
<1>2. ASSUME NEW c \in Clients, DWriteBlock(c) PROVE FileKept
  <2> DEFINE v == file \o By(c, task[c].buf)
  <2>1. task[c].pc = "write" /\ file' = v
    BY <1>2 DEF DWriteBlock, BlockDone
  <2>2. task[c].buf \in Seq(Bytes) /\ c \in Who
    BY <2>1, WriteTyped, SpecialBytes
  <2>3. /\ Len(v) = Len(file) + Len(task[c].buf) /\ Len(task[c].buf) \in Nat
        /\ \A i \in 1 .. Len(v) : i <= Len(file) => v[i] = file[i]
    BY <1>1, <2>2, FileGrows
  <2> HIDE DEF v
  <2> QED  BY <1>1, <2>1, <2>3 DEF FileKept
<1>3. CASE DeviceSame
  BY <1>1, <1>3 DEF DeviceSame, FileKept
<1> QED  BY <1>2, <1>3, DeviceSteps

(* What is needed of a state to follow a response. *)
LEMMA ConnectionTyped ==
  ASSUME DCore, NEW c \in Clients
  PROVE  /\ task[c].counter \in Nat /\ offset[c] \in Nat /\ Response(c) \in Seq(Nat)
         /\ net[c].got \in Seq(Nat) /\ net[c].out \in Seq(Nat)
         /\ task[c].pc = "sending" => task[c].buf \in Seq(Nat)
         /\ Dropped(circ_buffer, file) \in Nat /\ Len(file) \in Nat
<1>1. Typed /\ file \in Seq(Written) /\ Past /\ offset \in [Clients -> Nat]
  BY DEF DCore, Inv, FileTyped
<1>2. /\ net[c].got \in Seq(Nat) /\ net[c].out \in Seq(Nat) /\ Response(c) \in Seq(Nat)
  BY <1>1, ResponseType, ByteIsNat
<1>3. task[c].counter \in Nat /\ (task[c].pc = "sending" => task[c].buf \in Seq(Nat))
  BY <1>1, ByteIsNat DEF Typed, TaskType, WellFormed
<1>4. Dropped(circ_buffer, file) \in Nat
  BY <1>1, HeldIs
<1>5. Len(file) \in Nat /\ offset[c] \in Nat
  BY <1>1, LenProperties
<1> QED  BY <1>2, <1>3, <1>4, <1>5

(* The block that is read is what the device holds there. *)
LEMMA BlockHeld ==
  ASSUME DCore, NEW pos \in Nat
  PROVE  LET block == DeviceBytes(pos, BlockSize)
             d     == Dropped(circ_buffer, file)
         IN  /\ block \in Seq(Nat) /\ Consecutive(block, d + pos) /\ Below(block, Len(file))
             /\ Len(block) < BlockSize => Len(file) <= d + pos + Len(block)
<1> DEFINE block == DeviceBytes(pos, BlockSize)
           d     == Dropped(circ_buffer, file)
<1>1. /\ Held = FlattenSeq(Pieces(circ_buffer)) /\ Held \in Seq(Nat) /\ Len(Held) \in Nat /\ d \in Nat
      /\ Len(file) = d + Len(Held) /\ \A i \in 1 .. Len(Held) : Held[i] = d + i
      /\ circ_buffer \in CircularBuffer /\ Whole(circ_buffer)
  BY HeldIs DEF DCore
<1>2. /\ block \in Seq(Byte) /\ Len(block) \in Nat /\ Len(block) <= BlockSize
      /\ \A i \in 1 .. Len(block) : pos + i <= Len(Held) /\ block[i] = Held[pos + i]
      /\ Len(block) < BlockSize => Len(Held) <= pos + Len(block)
  BY <1>1, BlockSizes, DeviceBytesProperties
<1> HIDE DEF block, d
<1>3. \A i \in 1 .. Len(block) : block[i] = d + pos + i /\ block[i] <= Len(file)
  <2> SUFFICES ASSUME NEW i \in 1 .. Len(block) PROVE block[i] = d + pos + i /\ block[i] <= Len(file)
    OBVIOUS
  <2>1. pos + i \in 1 .. Len(Held) /\ block[i] = Held[pos + i]
    BY <1>1, <1>2
  <2>2. block[i] = d + (pos + i)
    BY <1>1, <2>1
  <2> QED  BY <1>1, <2>1, <2>2
<1>4. Consecutive(block, d + pos) /\ Below(block, Len(file))
  BY <1>3 DEF Consecutive, Below
<1>5. Len(block) < BlockSize => Len(file) <= d + pos + Len(block)
  BY <1>1, <1>2
<1>6. block \in Seq(Nat)
  BY <1>2, ByteIsNat
<1> QED  BY <1>4, <1>5, <1>6 DEF block, d

LEMMA AnswerStep ==
  ASSUME DCore, NEW c \in Clients, Answer(c), [DNext]_allvars
  PROVE  Answer(c)'
<1> DEFINE d == Dropped(circ_buffer, file)
           e == Dropped(circ_buffer, file)'
           k == task[c].counter
           R == Response(c)
           o == offset[c]
           L == Len(file)
           M == Len(file')
           buf == task[c].buf
           state == net[c].state
           later == net'[c].state
<1>1. Inv /\ Past /\ Device
  BY PastDevice DEF DCore
<1>2. StepOf(c) /\ Replies(c) /\ FileKept
  BY <1>1, DNextStepOf, DNextReplies, FileOnlyGrows
<1>3. DCore' /\ d <= e
  BY DCoreNext
<1>4. /\ k \in Nat /\ o \in Nat /\ R \in Seq(Nat) /\ net[c].got \in Seq(Nat) /\ net[c].out \in Seq(Nat)
      /\ task[c].pc = "sending" => buf \in Seq(Nat)
      /\ d \in Nat /\ L \in Nat
  BY ConnectionTyped
<1>5. Dropped(circ_buffer', file') \in Nat
  BY <1>3 DEF DCore, Past, History, Chronicle
<1>6. e \in Nat /\ M \in Nat /\ L <= M
  BY <1>2, <1>5 DEF FileKept
<1>7. state = "closed" => later = "closed"
  BY <1>2 DEF StepOf, KeepsEnd
<1>8. Traced(task[c].pc, buf, k, R, state, o, d, L)
  BY DEF Answer
<1> SUFFICES Traced(task'[c].pc, task'[c].buf, task'[c].counter, Response(c)', later, offset'[c], e, M)
  BY DEF Answer
<1>9. Response(c)' \in Seq(Nat) /\ offset'[c] \in Nat
  <2>1. Typed' /\ offset' \in [Clients -> Nat]
    BY <1>3 DEF DCore, Inv
  <2>2. net'[c].got \in Seq(Nat) /\ net'[c].out \in Seq(Nat)
    BY <2>1, ByteIsNat DEF Typed, NetType
  <2>3. Response(c)' \in Seq(Nat)
    BY <2>2, ConcatProperties DEF Response
  <2> QED  BY <2>1, <2>3
<1> HIDE DEF d, e, k, R, o, L, M, buf, state, later
<1>10. CASE Keeps(c)
  <2>1. task'[c].counter = k /\ Response(c)' = R
    BY <1>10 DEF Keeps, k, R
  <2>2. CASE task'[c].pc = task[c].pc /\ task'[c].buf = buf /\ offset'[c] = o
    <3>1. Traced(task[c].pc, buf, k, R, later, o, e, M)
      BY <1>3, <1>4, <1>6, <1>7, <1>8, TracedLater
    <3> QED  BY <2>1, <2>2, <3>1
  <2>3. CASE task[c].pc \in Early /\ task'[c].pc \in Early \cup {"send"}
    <3>1. R = <<>> /\ k = 0
      BY <1>8, <2>3 DEF Traced
    <3>2. Traced(task'[c].pc, task'[c].buf, 0, <<>>, later, offset'[c], e, M)
      BY <1>6, <1>9, <2>3, TracedEarly
    <3> QED  BY <2>1, <3>1, <3>2
  <2>4. CASE task[c].pc = "close" /\ task'[c].pc = "done" /\ offset'[c] = o
    <3>1. Traced("done", task'[c].buf, k, R, later, o, e, M)
      <4>1. Traced("close", buf, k, R, state, o, d, L)
        BY <1>8, <2>4
      <4>2. Traced("close", task'[c].buf, k, R, state, o, d, L)
        BY <4>1 DEF Traced, Follows
      <4> QED  BY <1>3, <1>4, <1>6, <1>7, <4>2, TracedLater
    <3> QED  BY <2>1, <2>4, <3>1
  <2> QED  BY <1>10, <2>2, <2>3, <2>4 DEF Keeps, buf, o
<1>11. CASE Reads(c)
  <2> DEFINE block == DeviceBytes(k + o, BlockSize)
  <2>1. /\ task[c].pc = "send" /\ task'[c].pc = "sending" /\ task'[c].counter = k /\ task'[c].buf = block
        /\ Response(c)' = R /\ offset'[c] = o /\ DeviceSame
    BY <1>11 DEF Reads, k, o, R
  <2>2. k + o \in Nat
    BY <1>4
  <2>3. block \in Seq(Nat) /\ Consecutive(block, d + (k + o)) /\ Below(block, L)
    BY <2>2, BlockHeld DEF d, L
  <2>4. e = d /\ M = L
    BY <2>1 DEF DeviceSame, d, e, L, M
  <2> HIDE DEF block
  <2>5. d + (k + o) = d + o + k
    BY <1>4
  <2>6. Consecutive(block, d + o + k)
    BY <2>3, <2>5
  <2>7. Traced("send", buf, k, R, state, o, d, L)
    BY <1>8, <2>1
  <2>8. Traced("sending", block, k, R, later, o, d, L)
    BY <1>4, <1>7, <2>3, <2>6, <2>7, TracedReads
  <2> QED  BY <2>1, <2>4, <2>8
<1>12. CASE Sends(c)
  <2> DEFINE to   == task'[c].pc
             n    == task'[c].counter
             sent == Response(c)'
  <2>1. /\ task[c].pc = "sending" /\ state = "open" /\ to \in {"send", "close"}
        /\ n = k + Len(buf) /\ sent = R \o buf /\ offset'[c] = o
    BY <1>12 DEF Sends, NewCounter, k, o, R, buf, state
  <2>2. Traced("sending", buf, k, R, "open", o, d, L) /\ buf \in Seq(Nat)
    BY <1>4, <1>8, <2>1
  <2> HIDE DEF to, n, sent
  <2>3. \A next, then : Traced(to, next, k + Len(buf), R \o buf, then, o, d, L)
    BY <1>4, <2>1, <2>2, TracedSends
  <2>4. Traced(to, task'[c].buf, n, sent, later, o, d, L)
    BY <2>1, <2>3
  <2>5. n \in Nat /\ sent \in Seq(Nat) /\ to # "sending"
    <3>1. Len(buf) \in Nat
      BY <2>2, LenProperties
    <3> QED  BY <1>4, <1>9, <2>1, <3>1 DEF sent
  <2>6. Traced(to, task'[c].buf, n, sent, later, o, e, M)
    BY <1>3, <1>4, <1>6, <2>4, <2>5, TracedLater
  <2> QED  BY <2>1, <2>6 DEF to, n, sent
<1>13. CASE Loses(c)
  <2> DEFINE to == task'[c].pc
             n  == task'[c].counter
  <2>1. /\ task[c].pc = "sending" /\ to \in {"send", "close"}
        /\ n = k + Len(buf) /\ Response(c)' = R /\ offset'[c] = o
        /\ state = "closed" \/ to = "close"
    BY <1>13 DEF Loses, NewCounter, k, o, R, buf, state
  <2>2. Traced("sending", buf, k, R, "closed", o, d, L) /\ buf \in Seq(Nat)
    BY <1>4, <1>8, <2>1 DEF Traced
  <2>3. later = "closed" \/ to = "close"
    BY <1>7, <2>1
  <2> HIDE DEF to, n
  <2>4. \A next, then :
          then = "closed" \/ to = "close" => Traced(to, next, k + Len(buf), R, then, o, d, L)
    BY <1>4, <2>1, <2>2, TracedLoses
  <2>5. Traced(to, task'[c].buf, n, R, later, o, d, L)
    BY <2>1, <2>3, <2>4
  <2>6. n \in Nat /\ to # "sending"
    <3>1. Len(buf) \in Nat
      BY <2>2, LenProperties
    <3> QED  BY <1>4, <2>1, <3>1
  <2>7. Traced(to, task'[c].buf, n, R, later, o, e, M)
    BY <1>3, <1>4, <1>6, <2>5, <2>6, TracedLater
  <2> QED  BY <2>1, <2>7 DEF to, n
<1>14. CASE Leaves(c)
  <2>1. later = "closed" /\ Response(c)' = net[c].got /\ task'[c] = task[c] /\ offset'[c] = o
    BY <1>14 DEF Leaves, later, o
  <2>2. task'[c].pc = task[c].pc /\ task'[c].buf = buf /\ task'[c].counter = k
    BY <2>1 DEF buf, k
  <2>3. Traced(task[c].pc, buf, k, net[c].got \o net[c].out, state, o, d, L)
    BY <1>8 DEF R, Response
  <2>4. Traced(task[c].pc, buf, k, net[c].got, "closed", o, e, M)
    BY <1>3, <1>4, <1>6, <2>3, TracedLeaves
  <2> QED  BY <2>1, <2>2, <2>4
<1> QED  BY <1>2, <1>10, <1>11, <1>12, <1>13, <1>14 DEF Replies

LEMMA AnswerInit == ASSUME DInit, NEW c \in Clients PROVE Answer(c)
<1>1. /\ Response(c) = <<>> /\ task[c].pc = "none" /\ task[c].counter = 0
  BY EmptyBuf, ConcatEmptySeq DEF DInit, Start, NewClient, NoTask, Response
<1>2. DCore
  BY DCoreInit
<1>3. Dropped(circ_buffer, file) \in Nat /\ Len(file) \in Nat /\ offset[c] \in Nat
  BY <1>2, ConnectionTyped
<1>4. "none" \in Early \cup {"send"}
  BY DEF Early
<1> QED  BY <1>1, <1>3, <1>4, TracedEarly DEF Answer

LEMMA AnswerInvariance == DSpec => [](DCore /\ \A c \in Clients : Answer(c))
<1>1. DInit => DCore /\ \A c \in Clients : Answer(c)
  BY DCoreInit, AnswerInit
<1>2. ASSUME DCore, \A c \in Clients : Answer(c), [DNext]_allvars
      PROVE  DCore' /\ \A c \in Clients : Answer(c)'
  BY <1>2, DCoreNext, AnswerStep
<1>3. (DCore /\ \A c \in Clients : Answer(c)) /\ [DNext]_allvars
        => (DCore /\ \A c \in Clients : Answer(c))'
  BY <1>2
<1> QED  BY <1>1, <1>3, PTL DEF DSpec

(* However often the device drops its oldest command between the blocks of *)
(* a response, which moves every later byte, no byte is sent twice and     *)
(* none after a later one: what is dropped only moves bytes towards the    *)
(* start, so that the next block begins further on.                        *)
THEOREM ResponsesRise == DSpec => []ResponseInOrder
<1>1. DCore /\ (\A c \in Clients : Answer(c)) => ResponseInOrder
  <2> SUFFICES ASSUME \A c \in Clients : Answer(c) PROVE ResponseInOrder
    OBVIOUS
  <2>1. \A c \in Clients : Rising(Response(c))
    BY DEF Answer, Traced
  <2> QED  BY <2>1 DEF ResponseInOrder, Rising
<1> QED  BY <1>1, AnswerInvariance, PTL

(* While nothing has been dropped, a response has no gaps and begins at    *)
(* the position the seek command asked for.                                *)
THEOREM ResponsesFollow == DSpec => []ResponseFromOffset
<1>1. DCore /\ (\A c \in Clients : Answer(c)) => ResponseFromOffset
  <2> SUFFICES ASSUME DCore, \A c \in Clients : Answer(c), NothingDropped, NEW c \in Clients
               PROVE  \A i \in 1 .. Len(Response(c)) : Response(c)[i] = offset[c] + i
    BY DEF ResponseFromOffset
  <2>1. Dropped(circ_buffer, file) = 0
    BY HeldIs DEF DCore, NothingDropped
  <2>2. Consecutive(Response(c), offset[c])
    BY <2>1 DEF Answer, Traced
  <2> QED  BY <2>2 DEF Consecutive
<1> QED  BY <1>1, AnswerInvariance, PTL

-----------------------------------------------------------------------------
(* Position p of what was written is byte k of command n.                  *)
CommandByte(w, p, n, k) ==
  /\ p - k \in Nat /\ p <= Len(w)
  /\ p - k = 0 \/ NewlineAt(w, p - k)
  /\ Cardinality(NewlinesIn(w, 0, p - k)) = n
  /\ \A i \in p - k + 1 .. p : ~ NewlineAt(w, i)

(* Until something is dropped, slot numbers are command numbers. *)
LEMMA SlotsAreCommands ==
  ASSUME NEW b \in CircularBuffer, NEW new \in BOOLEAN, RingOK(b, new), b.out_offs = 0,
         NEW cmd \in Iterations
  PROVE  /\ b.entry[cmd].buffptr # <<>> => cmd <= CompleteIn(b, new)
         /\ \A k \in 1 .. CompleteIn(b, new) :
              k \in 1 .. MaxWriteOps /\ Pieces(b)[k] = CommandsIn(b, new)[k]
         /\ cmd < CompleteIn(b, new) => CommandsIn(b, new)[cmd + 1] = b.entry[cmd].buffptr
         /\ cmd = CompleteIn(b, new) => PartialIn(b, new) = b.entry[cmd].buffptr
<1> DEFINE n == CompleteIn(b, new)
<1>1. Shaped(b, new) /\ RestEmpty(b, new) /\ Filled(b, new)
  BY DEF RingOK
<1>2. MaxWriteOps \in Nat \ {0} /\ Iterations = Slots /\ b.in_offs \in Slots
  BY MaxWriteOpsAssumption DEF Iterations, Slots, CircularBuffer
<1>3. OldestIn(b, new) = 0
  <2>1. 0 \in Slots
    BY <1>2 DEF Slots
  <2>2. b.full => b.entry[0].buffptr # <<>>
    BY <1>1, <2>1 DEF Filled
  <2> QED  BY <2>2 DEF OldestIn, NULL
<1>4. \A k \in 1 .. n : k \in 1 .. MaxWriteOps /\ CommandsIn(b, new)[k] = b.entry[SlotAt(b, k - 1)].buffptr
  <2>1. n \in 0 .. MaxWriteOps
    BY <1>1, CommandsProperties
  <2>2. CommandsIn(b, new) = [k \in 1 .. n |-> b.entry[SlotAt(b, 0 + k - 1)].buffptr]
    BY <1>3 DEF CommandsIn
  <2> HIDE DEF n
  <2> SUFFICES ASSUME NEW k \in 1 .. n
               PROVE  k \in 1 .. MaxWriteOps /\ CommandsIn(b, new)[k] = b.entry[SlotAt(b, k - 1)].buffptr
    OBVIOUS
  <2>3. 0 + k - 1 = k - 1 /\ k \in 1 .. MaxWriteOps
    BY <1>2, <2>1
  <2> QED  BY <2>2, <2>3
<1>5. \A k \in 1 .. n : k \in 1 .. MaxWriteOps /\ Pieces(b)[k] = CommandsIn(b, new)[k]
  BY <1>4 DEF Pieces
<1>6. \A s \in Slots : SlotAt(b, s) = s
  BY <1>2 DEF SlotAt, Slots
<1>7. /\ n \in Nat
      /\ b.entry[cmd].buffptr # <<>> => cmd <= n
      /\ cmd = n => cmd = b.in_offs /\ (new => b.entry[cmd].buffptr = <<>>)
  <2>1. CASE ~ b.full
    <3>1. n = b.in_offs
      BY <2>1 DEF CompleteIn
    <3>2. /\ b.entry[cmd].buffptr # <<>> => cmd <= b.in_offs
          /\ cmd = b.in_offs /\ new => b.entry[cmd].buffptr = <<>>
      BY <1>1, <1>2, <2>1 DEF RestEmpty, Slots
    <3> QED  BY <1>2, <3>1, <3>2 DEF Slots
  <2>2. CASE b.full /\ new
    <3>1. n = MaxWriteOps
      BY <1>2, <1>3, <2>2 DEF CompleteIn
    <3> QED  BY <1>2, <3>1 DEF Slots
  <2>3. CASE b.full /\ ~ new
    <3>1. n = MaxWriteOps - 1
      BY <2>3 DEF CompleteIn
    <3>2. Advance(b.in_offs) = 0
      BY <1>1, <2>3 DEF Shaped
    <3>3. b.in_offs = MaxWriteOps - 1
      BY <1>2, <3>2 DEF Advance, Slots
    <3> QED  BY <1>2, <2>3, <3>1, <3>3 DEF Slots
  <2> QED  BY <2>1, <2>2, <2>3
<1> HIDE DEF n
<1>8. cmd < n => CommandsIn(b, new)[cmd + 1] = b.entry[cmd].buffptr
  <2> SUFFICES ASSUME cmd < n PROVE CommandsIn(b, new)[cmd + 1] = b.entry[cmd].buffptr
    OBVIOUS
  <2>1. cmd \in Slots /\ cmd + 1 \in 1 .. n /\ (cmd + 1) - 1 = cmd
    BY <1>2, <1>7 DEF Slots
  <2> QED  BY <1>4, <1>6, <2>1
<1>9. cmd = n => PartialIn(b, new) = b.entry[cmd].buffptr
  BY <1>7 DEF PartialIn
<1> QED  BY <1>5, <1>7, <1>8, <1>9 DEF n

(* The bytes before a command. *)
LEMMA BytesBeforeCommand ==
  ASSUME NEW b \in CircularBuffer, NEW new \in BOOLEAN, RingOK(b, new),
         NEW cmd \in Iterations, cmd <= CompleteIn(b, new),
         \A k \in 1 .. CompleteIn(b, new) : k \in 1 .. MaxWriteOps /\ Pieces(b)[k] = CommandsIn(b, new)[k]
  PROVE  /\ BytesBefore(b)[cmd] = Upto(CommandsIn(b, new), cmd)
         /\ CommandsIn(b, new) \in Seq(Seq(Byte)) /\ Len(CommandsIn(b, new)) = CompleteIn(b, new)
<1> DEFINE q == CommandsIn(b, new)
           r == Pieces(b)
           n == CompleteIn(b, new)
<1>1. q \in Seq(Seq(Byte)) /\ Len(q) = n /\ n \in 0 .. MaxWriteOps
  BY CommandsProperties DEF RingOK
<1>2. cmd \in 0 .. MaxWriteOps /\ MaxWriteOps \in Nat
  BY MaxWriteOpsAssumption DEF Iterations
<1>3. r \in Seq(Seq(Byte)) /\ Len(r) = MaxWriteOps /\ Len(FlattenSeq(SubSeq(r, 1, cmd))) = BytesBefore(b)[cmd]
  BY <1>2, PiecesProperties DEF RingOK
<1>4. \A k \in 1 .. n : r[k] = q[k]
  OBVIOUS
<1>5. cmd <= n
  OBVIOUS
<1> HIDE DEF q, r, n
<1>6. \A k \in 1 .. cmd : r[k] = q[k] /\ r[k] \in Seq(Byte) /\ q[k] \in Seq(Byte)
  <2> SUFFICES ASSUME NEW k \in 1 .. cmd PROVE r[k] = q[k] /\ r[k] \in Seq(Byte)
    OBVIOUS
  <2>1. k \in 1 .. n /\ k \in 1 .. MaxWriteOps
    BY <1>1, <1>2, <1>5
  <2> QED  BY <1>3, <1>4, <2>1, ElementOfSeq
<1>7. SubSeq(r, 1, cmd) = SubSeq(q, 1, cmd)
  <2> DEFINE x == SubSeq(r, 1, cmd)
             y == SubSeq(q, 1, cmd)
  <2>1. x \in Seq(Seq(Byte)) /\ Len(x) = (IF 1 <= cmd THEN cmd - 1 + 1 ELSE 0)
        /\ \A i \in 1 .. cmd - 1 + 1 : x[i] = r[1 + i - 1]
    BY <1>2, <1>6, SubSeqProperties
  <2>2. y \in Seq(Seq(Byte)) /\ Len(y) = (IF 1 <= cmd THEN cmd - 1 + 1 ELSE 0)
        /\ \A i \in 1 .. cmd - 1 + 1 : y[i] = q[1 + i - 1]
    BY <1>2, <1>6, SubSeqProperties
  <2> HIDE DEF x, y
  <2>3. Len(x) = Len(y) /\ Len(x) = cmd
    BY <1>2, <2>1, <2>2
  <2>4. \A i \in 1 .. Len(x) : x[i] = y[i]
    <3> SUFFICES ASSUME NEW i \in 1 .. cmd PROVE x[i] = y[i]
      BY <2>3
    <3>1. i \in 1 .. cmd - 1 + 1 /\ 1 + i - 1 = i
      BY <1>2
    <3> QED  BY <1>6, <2>1, <2>2, <3>1
  <2>5. x = y
    BY <2>1, <2>2, <2>3, <2>4, SeqEqual
  <2> QED  BY <2>5 DEF x, y
<1>8. BytesBefore(b)[cmd] = Upto(q, cmd)
  BY <1>3, <1>7 DEF Upto
<1> QED  BY <1>1, <1>8 DEF q, n

(* A seek that succeeds finds the byte that was asked for. *)
LEMMA PositionSought ==
  ASSUME NEW b \in CircularBuffer, NEW new \in BOOLEAN, NEW w, History(b, new, w), Dropped(b, w) = 0,
         NEW cmd \in Iterations, NEW k \in Nat, BufferFindOffset(b, cmd, k) >= 0
  PROVE  CommandByte(w, BufferFindOffset(b, cmd, k), cmd, k) /\ BufferFindOffset(b, cmd, k) < Len(w)
<1> DEFINE p == BufferFindOffset(b, cmd, k)
           q == CommandsIn(b, new)
           part == PartialIn(b, new)
           n == CompleteIn(b, new)
           piece == b.entry[cmd].buffptr
           u == Upto(q, cmd)
<1>1. RingOK(b, new) /\ Chronicle(q, part, 0, w) /\ b.out_offs = 0 /\ Whole(b) /\ cmd \in Slots
  BY DEF History, RingOK, Iterations, Slots
<1>2. p = (IF k >= b.entry[cmd].size THEN -1 ELSE BytesBefore(b)[cmd] + k)
  BY <1>1, FindOffsetExactAtZero
<1>3. b.entry[cmd].size = Len(piece) /\ piece \in Seq(Byte) /\ Len(piece) \in Nat
  <2>1. piece \in Seq(Byte)
    BY <1>1 DEF CircularBuffer, BufferEntry
  <2> QED  BY <1>1, <2>1, LenProperties DEF Whole
<1>4. k < Len(piece) /\ p = BytesBefore(b)[cmd] + k
  <2> HIDE DEF p, piece
  <2>1. p >= 0
    BY DEF p
  <2>2. k >= Len(piece) => p = -1
    BY <1>2, <1>3
  <2>3. ~ (k >= Len(piece)) => p = BytesBefore(b)[cmd] + k
    BY <1>2, <1>3
  <2> QED  BY <1>3, <2>1, <2>2, <2>3
<1>5. piece # <<>>
  BY <1>4, EmptyBuf
<1>6. /\ cmd <= n
      /\ \A i \in 1 .. n : i \in 1 .. MaxWriteOps /\ Pieces(b)[i] = q[i]
      /\ cmd < n => q[cmd + 1] = piece
      /\ cmd = n => part = piece
  BY <1>1, <1>5, SlotsAreCommands
<1>7. BytesBefore(b)[cmd] = u /\ q \in Seq(Seq(Byte)) /\ Len(q) = n
  BY <1>1, <1>6, BytesBeforeCommand
<1>8. /\ q \in Seq(Seq(Nat)) /\ part \in Seq(Nat) /\ Len(w) = 0 + Len(FlattenSeq(q)) + Len(part)
      /\ Consecutive(FlattenSeq(q), 0) /\ Consecutive(part, 0 + Len(FlattenSeq(q)))
      /\ Ends(q, w) /\ \A j \in 1 .. Len(part) : ~ NewlineAt(w, part[j])
  BY <1>1 DEF Chronicle
<1>9. cmd \in Nat /\ n \in Nat /\ cmd \in 0 .. n /\ Len(part) \in Nat
  <2>1. n \in Nat
    BY <1>7, LenProperties
  <2>2. Len(part) \in Nat
    BY <1>8, LenProperties
  <2> QED  BY <1>6, <2>1, <2>2 DEF Iterations
<1>10. /\ Len(FlattenSeq(q)) \in Nat /\ Upto(q, 0) = 0 /\ Upto(q, n) = Len(FlattenSeq(q))
       /\ \A i \in 0 .. n - 1 :
            /\ Upto(q, i) \in Nat /\ Upto(q, i + 1) = Upto(q, i) + Len(q[i + 1])
            /\ Upto(q, i + 1) <= Len(FlattenSeq(q))
  BY <1>7, <1>8, UptoProperties
<1>11. /\ Cardinality(NewlinesIn(w, 0, 0 + u)) = cmd
       /\ cmd > 0 => NewlineAt(w, 0 + u)
  BY <1>7, <1>8, <1>9, NewlinesCounted
<1>12. ASSUME cmd < n
       PROVE  /\ \A j \in 1 .. Len(piece) : NewlineAt(w, 0 + u + j) <=> j = Len(piece)
              /\ u \in Nat /\ u + Len(piece) <= Len(w)
  <2>1. cmd \in 0 .. n - 1
    BY <1>9, <1>12
  <2>2. \A j \in 1 .. Len(q[cmd + 1]) :
          /\ q[cmd + 1][j] = 0 + Upto(q, cmd) + j
          /\ NewlineAt(w, 0 + Upto(q, cmd) + j) <=> j = Len(q[cmd + 1])
    <3>1. cmd \in 0 .. Len(q) - 1 /\ 0 \in Nat
      BY <1>7, <2>1
    <3>2. q \in Seq(Seq(Nat)) /\ Consecutive(FlattenSeq(q), 0) /\ Ends(q, w)
      BY <1>8
    <3> HIDE DEF q
    <3>3. CommandLies(w, 0, q, cmd)
      BY <3>1, <3>2, CommandAt
    <3> QED  BY ONLY <3>3 DEF CommandLies
  <2>3. \A j \in 1 .. Len(piece) : NewlineAt(w, 0 + u + j) <=> j = Len(piece)
    BY <1>6, <1>12, <2>2
  <2>4. u \in Nat /\ u + Len(piece) <= Len(FlattenSeq(q))
    BY <1>6, <1>10, <1>12, <2>1
  <2>5. Len(w) = 0 + Len(FlattenSeq(q)) + Len(part) /\ Len(FlattenSeq(q)) \in Nat /\ Len(part) \in Nat
    BY <1>8, <1>9, <1>10
  <2>6. Len(piece) \in Nat
    BY <1>3
  <2> HIDE DEF q, part, piece, u
  <2>7. u \in Nat /\ u + Len(piece) <= Len(w)
    BY ONLY <2>4, <2>5, <2>6
  <2> QED  BY ONLY <2>3, <2>7
<1>13. ASSUME cmd = n
       PROVE  /\ \A j \in 1 .. Len(piece) : ~ NewlineAt(w, 0 + u + j)
              /\ u \in Nat /\ u + Len(piece) <= Len(w)
  <2>1. u = Len(FlattenSeq(q)) /\ part = piece
    BY <1>6, <1>10, <1>13
  <2>2. \A j \in 1 .. Len(part) : part[j] = 0 + u + j
    BY <1>8, <2>1 DEF Consecutive
  <2>3. \A j \in 1 .. Len(piece) : ~ NewlineAt(w, 0 + u + j)
    BY <1>8, <2>1, <2>2
  <2>4. Len(w) = 0 + Len(FlattenSeq(q)) + Len(part) /\ Len(FlattenSeq(q)) \in Nat /\ Len(part) \in Nat
    BY <1>8, <1>9, <1>10
  <2> HIDE DEF q, part, piece, u
  <2>5. u \in Nat /\ u + Len(piece) <= Len(w)
    BY ONLY <2>1, <2>4
  <2> QED  BY ONLY <2>3, <2>5
<1> HIDE DEF p, q, part, n, piece, u
<1>14. /\ \A j \in 1 .. k : ~ NewlineAt(w, u + j)
       /\ u \in Nat /\ u + Len(piece) <= Len(w)
  <2>1. \A j \in 1 .. k : j \in 1 .. Len(piece) /\ j # Len(piece) /\ 0 + j = j
    BY <1>3, <1>4
  <2>2. u \in Nat /\ u + Len(piece) <= Len(w)
    BY <1>6, <1>9, <1>12, <1>13
  <2>3. \A j \in 1 .. Len(piece) : NewlineAt(w, 0 + u + j) => j = Len(piece)
    BY <1>6, <1>9, <1>12, <1>13
  <2>4. \A j \in 1 .. k : 0 + u + j = u + j
    BY <2>2
  <2> QED  BY <2>1, <2>2, <2>3, <2>4
<1>15. p - k = u /\ p = u + k /\ 0 + u = u
  BY <1>4, <1>7, <1>14
<1>16. u = 0 \/ NewlineAt(w, u)
  <2>1. cmd = 0 => u = 0
    BY <1>10 DEF u
  <2> QED  BY <1>9, <1>11, <1>15, <2>1
<1>17. \A i \in u + 1 .. u + k : ~ NewlineAt(w, i)
  <2> SUFFICES ASSUME NEW i \in u + 1 .. u + k PROVE ~ NewlineAt(w, i)
    OBVIOUS
  <2>1. i - u \in 1 .. k /\ u + (i - u) = i
    BY <1>14
  <2>2. ~ NewlineAt(w, u + (i - u))
    BY <1>14, <2>1
  <2> QED  BY <2>1, <2>2
<1>18. u + k <= Len(w) /\ u + k < Len(w)
  <2>1. Len(w) \in Int
    BY <1>8, <1>9, <1>10
  <2> QED  BY <1>3, <1>4, <1>14, <2>1
<1>19. Cardinality(NewlinesIn(w, 0, u)) = cmd
  BY <1>11, <1>15
<1>20. CommandByte(w, p, cmd, k) /\ p < Len(w)
  BY <1>14, <1>15, <1>16, <1>17, <1>18, <1>19 DEF CommandByte
<1> QED  BY <1>20 DEF p

(* There is one byte with given numbers, and a seek for it succeeds. *)
LEMMA PositionFound ==
  ASSUME NEW b \in CircularBuffer, NEW new \in BOOLEAN, NEW w, History(b, new, w), Dropped(b, w) = 0,
         NEW cmd \in Iterations, NEW k \in Nat, NEW p \in Nat, CommandByte(w, p, cmd, k), p < Len(w)
  PROVE  BufferFindOffset(b, cmd, k) = p
<1> DEFINE q == CommandsIn(b, new)
           part == PartialIn(b, new)
           n == CompleteIn(b, new)
           piece == b.entry[cmd].buffptr
           u == Upto(q, cmd)
           from == p - k
           total == Len(FlattenSeq(q))
           count(to) == Cardinality(NewlinesIn(w, 0, to))
<1>1. /\ RingOK(b, new) /\ Chronicle(q, part, 0, w) /\ b.out_offs = 0 /\ Whole(b) /\ cmd \in Slots
      /\ cmd \in Nat
  BY DEF History, RingOK, Iterations, Slots
<1>2. BufferFindOffset(b, cmd, k) = (IF k >= b.entry[cmd].size THEN -1 ELSE BytesBefore(b)[cmd] + k)
  BY <1>1, FindOffsetExactAtZero
<1>3. b.entry[cmd].size = Len(piece) /\ piece \in Seq(Byte) /\ Len(piece) \in Nat
  <2>1. piece \in Seq(Byte)
    BY <1>1 DEF CircularBuffer, BufferEntry
  <2> QED  BY <1>1, <2>1, LenProperties DEF Whole
<1>4. /\ q \in Seq(Seq(Nat)) /\ part \in Seq(Nat) /\ Len(w) = 0 + total + Len(part)
      /\ Consecutive(FlattenSeq(q), 0) /\ Consecutive(part, 0 + total)
      /\ Ends(q, w) /\ \A j \in 1 .. Len(part) : ~ NewlineAt(w, part[j])
  BY <1>1 DEF Chronicle
<1>5. Len(q) = n /\ n \in Nat /\ Len(part) \in Nat
  <2>1. Len(q) = n
    BY <1>1, CommandsProperties DEF RingOK
  <2> QED  BY <1>4, <2>1, LenProperties
<1>6. /\ total \in Nat /\ Upto(q, 0) = 0 /\ Upto(q, n) = total
      /\ \A i \in 0 .. n - 1 :
           /\ Upto(q, i) \in Nat /\ Upto(q, i + 1) = Upto(q, i) + Len(q[i + 1])
           /\ Upto(q, i + 1) <= total
  BY <1>4, <1>5, UptoProperties
<1>7. /\ from \in Nat /\ p <= Len(w)
      /\ from = 0 \/ NewlineAt(w, from)
      /\ count(from) = cmd
      /\ \A i \in from + 1 .. p : ~ NewlineAt(w, i)
  BY DEF CommandByte
<1>8. \A i \in 0 .. n :
        /\ IsFiniteSet(NewlinesIn(w, 0, 0 + Upto(q, i))) /\ count(0 + Upto(q, i)) = i
        /\ i > 0 => NewlineAt(w, 0 + Upto(q, i))
  BY <1>4, <1>5, NewlinesCounted
<1> HIDE DEF q, part, n, piece, u, from, total
<1>9. p = from + k /\ from <= p /\ from < Len(w)
  BY <1>7 DEF from
<1>10. \A i \in total + 1 .. Len(w) : ~ NewlineAt(w, i)
  <2> SUFFICES ASSUME NEW i \in total + 1 .. Len(w) PROVE ~ NewlineAt(w, i)
    OBVIOUS
  <2>1. i - total \in 1 .. Len(part) /\ 0 + total + (i - total) = i
    BY <1>4, <1>5, <1>6
  <2>2. part[i - total] = i
    BY <1>4, <2>1 DEF Consecutive
  <2> QED  BY <1>4, <2>1, <2>2
<1>11. ASSUME NEW i \in Nat, NEW j \in Nat, i < j, NewlineAt(w, j), IsFiniteSet(NewlinesIn(w, 0, j))
       PROVE  count(i) < count(j)
  <2> DEFINE A == NewlinesIn(w, 0, i)
             B == NewlinesIn(w, 0, j)
  <2>1. A \subseteq B /\ j \in B /\ j \notin A
    BY <1>11 DEF NewlinesIn
  <2>2. IsFiniteSet(B)
    BY <1>11
  <2> HIDE DEF A, B
  <2>3. A \subseteq B /\ A # B
    BY <2>1
  <2>4. IsFiniteSet(A) /\ Cardinality(A) <= Cardinality(B) /\ (Cardinality(A) = Cardinality(B) => A = B)
    BY <2>2, <2>3, FS_Subset
  <2>5. Cardinality(A) \in Nat /\ Cardinality(B) \in Nat
    BY <2>2, <2>4, FS_CardinalityType
  <2>6. Cardinality(A) < Cardinality(B)
    BY <2>3, <2>4, <2>5
  <2> QED  BY <2>6 DEF A, B
<1>12. IsFiniteSet(NewlinesIn(w, 0, from))
  <2>1. NewlinesIn(w, 0, from) \subseteq 1 .. from
    BY <1>7 DEF NewlinesIn
  <2>2. IsFiniteSet(1 .. from)
    BY <1>7, FS_Interval
  <2> QED  BY <2>1, <2>2, FS_Subset
<1>13. 0 + total = total /\ IsFiniteSet(NewlinesIn(w, 0, total)) /\ count(total) = n
  <2>1. n \in 0 .. n /\ 0 + total = total
    BY <1>5, <1>6
  <2> QED  BY <1>6, <1>8, <2>1
<1>14. cmd <= n
  <2>1. CASE from <= total
    <3>1. NewlinesIn(w, 0, from) \subseteq NewlinesIn(w, 0, total)
      BY <1>6, <1>7, <2>1 DEF NewlinesIn
    <3>2. count(from) <= count(total)
      BY <1>13, <3>1, FS_Subset
    <3> QED  BY <1>7, <1>13, <3>2
  <2>2. CASE from > total
    <3>1. from \in total + 1 .. Len(w) /\ from # 0
      BY <1>4, <1>5, <1>6, <1>7, <1>9, <2>2
    <3> QED  BY <1>7, <1>10, <3>1
  <2> QED  BY <1>6, <1>7, <2>1, <2>2
<1>15. /\ u \in Nat /\ 0 + u = u /\ IsFiniteSet(NewlinesIn(w, 0, u)) /\ count(u) = cmd
       /\ cmd > 0 => NewlineAt(w, u)
       /\ cmd = 0 => u = 0
  <2>1. cmd \in 0 .. n
    BY <1>1, <1>5, <1>14
  <2>2. Upto(q, cmd) \in Nat
    <3>1. cmd \in 0 .. n - 1 \/ cmd = n
      BY <1>5, <2>1
    <3> QED  BY <1>6, <3>1
  <2> QED  BY <1>6, <1>8, <2>1, <2>2 DEF u
<1>16. from = u
  <2>1. ~ (from < u)
    <3> SUFFICES ASSUME from < u PROVE FALSE
      OBVIOUS
    <3>1. cmd > 0
      BY <1>1, <1>7, <1>15
    <3>2. count(from) < count(u)
      BY <1>7, <1>11, <1>15, <3>1
    <3> QED  BY <1>1, <1>7, <1>15, <3>2
  <2>2. ~ (u < from)
    <3> SUFFICES ASSUME u < from PROVE FALSE
      OBVIOUS
    <3>1. NewlineAt(w, from)
      BY <1>7, <1>15
    <3>2. count(u) < count(from)
      BY <1>7, <1>11, <1>12, <1>15, <3>1
    <3> QED  BY <1>1, <1>7, <1>15, <3>2
  <2> QED  BY <1>7, <1>15, <2>1, <2>2
<1>17. /\ \A i \in 1 .. n : i \in 1 .. MaxWriteOps /\ Pieces(b)[i] = q[i]
       /\ cmd < n => q[cmd + 1] = piece
       /\ cmd = n => part = piece
  BY <1>1, SlotsAreCommands DEF q, part, n, piece
<1>18. BytesBefore(b)[cmd] = u
  BY <1>1, <1>14, <1>17, BytesBeforeCommand DEF q, n, u
<1>19. k < Len(piece)
  <2>1. CASE cmd < n
    <3>1. cmd \in 0 .. Len(q) - 1 /\ cmd \in 0 .. n - 1 /\ cmd + 1 \in 1 .. Len(q) /\ 0 \in Nat
      BY <1>1, <1>5, <2>1
    <3>2. CommandLies(w, 0, q, cmd)
      BY <1>4, <3>1, CommandAt
    <3>3. \A j \in 1 .. Len(q[cmd + 1]) : NewlineAt(w, 0 + Upto(q, cmd) + j) <=> j = Len(q[cmd + 1])
      BY ONLY <3>2 DEF CommandLies
    <3>4. Len(piece) >= 1
      <4>1. q[cmd + 1] # <<>>
        BY <1>4, <3>1 DEF Ends
      <4>2. piece # <<>>
        BY <1>17, <2>1, <4>1
      <4> QED  BY <1>3, <4>2, EmptySeq
    <3>5. NewlineAt(w, u + Len(piece))
      <4>1. Len(piece) \in 1 .. Len(piece)
        BY <1>3, <3>4
      <4>2. NewlineAt(w, 0 + u + Len(piece))
        BY <1>17, <2>1, <3>3, <4>1 DEF u
      <4> QED  BY <1>15, <4>2
    <3>6. ~ (u + Len(piece) \in from + 1 .. p)
      BY <1>7, <3>5
    <3> QED  BY <1>3, <1>9, <1>15, <1>16, <3>4, <3>6
  <2>2. CASE cmd = n
    <3>1. u = total /\ part = piece
      BY <1>6, <1>17, <2>2 DEF u
    <3> QED  BY <1>3, <1>4, <1>9, <1>15, <1>16, <3>1
  <2> QED  BY <1>1, <1>5, <1>14, <2>1, <2>2
<1>20. ~ (k >= b.entry[cmd].size)
  BY <1>3, <1>19
<1> QED  BY <1>2, <1>9, <1>16, <1>18, <1>20

(* ... which stays where it is. *)
LEMMA CommandByteStays ==
  ASSUME FileKept, NEW p \in Nat, NEW n, NEW k \in Nat, CommandByte(file, p, n, k)
  PROVE  CommandByte(file', p, n, k)
<1>1. Len(file) \in Nat /\ Len(file') \in Nat /\ Len(file) <= Len(file') /\ p - k \in Nat /\ p <= Len(file)
  BY DEF FileKept, CommandByte
<1>2. \A i \in 1 .. p : NewlineAt(file', i) <=> NewlineAt(file, i)
  BY <1>1 DEF FileKept, NewlineAt
<1>3. NewlinesIn(file', 0, p - k) = NewlinesIn(file, 0, p - k)
  <2>1. \A i \in 0 + 1 .. p - k : i \in 1 .. p
    BY <1>1
  <2> QED  BY <1>2, <2>1 DEF NewlinesIn
<1>4. \A i \in p - k + 1 .. p : ~ NewlineAt(file', i)
  <2>1. \A i \in p - k + 1 .. p : i \in 1 .. p
    BY <1>1
  <2> QED  BY <1>2, <2>1 DEF CommandByte
<1>5. p - k = 0 \/ NewlineAt(file', p - k)
  <2>1. p - k = 0 \/ p - k \in 1 .. p
    BY <1>1
  <2> QED  BY <1>2, <2>1 DEF CommandByte
<1>6. Cardinality(NewlinesIn(file', 0, p - k)) = n
  BY <1>3 DEF CommandByte
<1> QED  BY <1>1, <1>4, <1>5, <1>6 DEF CommandByte

-----------------------------------------------------------------------------
(* Where the responses of all connections begin.                           *)
Sought(c) ==
  Dropped(circ_buffer, file) = 0 /\ offset[c] > 0
    => CommandByte(file, offset[c], SeekRequest[c].cmd, SeekRequest[c].offset)

OffsetMoves(c) ==
  LET position == DeviceSeek(SeekRequest[c])
  IN  \/ offset'[c] = offset[c]
      \/ /\ position >= 0 /\ offset'[c] = position /\ DeviceSame
         /\ task[c].pc = "write" /\ IsSeek(task[c].buf)

LEMMA DNextOffset ==
  ASSUME Inv, Device, [DNext]_allvars, NEW c \in Clients
  PROVE  OffsetMoves(c)
<1>1. CASE offset' = offset
  BY <1>1 DEF OffsetMoves
<1>2. ASSUME NEW d \in Clients, DSeek(d) PROVE OffsetMoves(c)
  <2> DEFINE position == DeviceSeek(SeekRequest[d])
  <2>1. offset' = (IF position < 0 THEN offset ELSE [offset EXCEPT ![d] = position])
    BY <1>2 DEF DSeek
  <2>2. file' = file \o By(d, <<>>) /\ circ_buffer' = circ_buffer /\ write_entry_new_flag' = write_entry_new_flag
    BY <1>2 DEF DSeek, BlockDone
  <2>3. DeviceSame
    BY <2>2, NothingWritten DEF DeviceSame
  <2>4. position \in Int /\ offset \in [Clients -> Nat]
    BY PositionType DEF Device
  <2>5. CASE d # c
    <3>1. offset'[c] = offset[c]
      BY <2>1, <2>4, <2>5
    <3> QED  BY <3>1 DEF OffsetMoves
  <2>6. CASE d = c /\ position < 0
    <3>1. offset' = offset
      BY <2>1, <2>6
    <3> QED  BY <3>1, <1>1
  <2>7. CASE d = c /\ ~ (position < 0)
    <3>1. offset'[c] = position
      BY <2>1, <2>4, <2>7
    <3>2. position >= 0
      BY <2>4, <2>7
    <3>3. task[c].pc = "write" /\ IsSeek(task[c].buf)
      BY <1>2, <2>7 DEF DSeek, BlockDone
    <3> QED  BY <2>3, <2>7, <3>1, <3>2, <3>3 DEF OffsetMoves
  <2> QED  BY <2>5, <2>6, <2>7
<1>3. CASE \E d \in Clients : DTask(d)
  <2>1. PICK d \in Clients : DTask(d)
    BY <1>3
  <2>2. DSeek(d) \/ offset' = offset
    BY <2>1 DEF DTask, DWriteBlock, DReadBlock, devicevars
  <2> QED  BY <1>1, <1>2, <2>2
<1>4. CASE UNCHANGED devicevars
  BY <1>1, <1>4 DEF devicevars
<1> QED  BY <1>3, <1>4, DNextCases

LEMMA SoughtStep ==
  ASSUME DCore, NEW c \in Clients, Sought(c), [DNext]_allvars
  PROVE  Sought(c)'
<1> DEFINE request == SeekRequest[c]
<1>1. Inv /\ Past /\ Device
  BY PastDevice DEF DCore
<1>2. FileKept /\ OffsetMoves(c)
  BY <1>1, FileOnlyGrows, DNextOffset
<1>3. request \in [cmd : Nat, offset : Nat] /\ offset[c] \in Nat
  BY DeviceAssumption DEF DCore
<1>4. Dropped(circ_buffer, file) \in Nat /\ Dropped(circ_buffer, file) <= Dropped(circ_buffer, file)'
  BY DCoreNext, ConnectionTyped
<1>5. Dropped(circ_buffer, file)' = 0 => Dropped(circ_buffer, file) = 0
  BY <1>4
<1>6. SUFFICES ASSUME Dropped(circ_buffer, file)' = 0, offset'[c] > 0
               PROVE  CommandByte(file', offset'[c], request.cmd, request.offset)
  BY DEF Sought
<1>7. CASE offset'[c] = offset[c]
  <2>1. CommandByte(file, offset[c], request.cmd, request.offset)
    BY <1>5, <1>6, <1>7 DEF Sought
  <2> QED  BY <1>2, <1>3, <1>7, <2>1, CommandByteStays
<1>8. CASE DeviceSeek(request) >= 0 /\ offset'[c] = DeviceSeek(request) /\ DeviceSame
  <2>1. request.cmd \in Iterations /\ DeviceSeek(request) = BufferFindOffset(circ_buffer, request.cmd, request.offset)
    <3>1. ~ (request.cmd >= MaxWriteOps - 1)
      BY <1>8 DEF DeviceSeek
    <3>2. request.cmd \in Iterations
      BY <1>3, <3>1, MaxWriteOpsAssumption DEF Iterations
    <3> QED  BY <3>1, <3>2 DEF DeviceSeek
  <2>2. /\ History(circ_buffer, write_entry_new_flag, file)
        /\ circ_buffer \in CircularBuffer /\ write_entry_new_flag \in BOOLEAN
    BY <1>1 DEF Past, History
  <2>3. CommandByte(file, BufferFindOffset(circ_buffer, request.cmd, request.offset), request.cmd, request.offset)
    BY <1>3, <1>5, <1>6, <1>8, <2>1, <2>2, PositionSought
  <2>4. file' = file
    BY <1>8 DEF DeviceSame
  <2> QED  BY <1>8, <2>1, <2>3, <2>4
<1> QED  BY <1>2, <1>7, <1>8 DEF OffsetMoves

LEMMA SoughtInvariance == DSpec => [](DCore /\ \A c \in Clients : Sought(c))
<1>1. DInit => DCore /\ \A c \in Clients : Sought(c)
  <2> SUFFICES ASSUME DInit PROVE DCore /\ \A c \in Clients : Sought(c)
    OBVIOUS
  <2>1. \A c \in Clients : offset[c] = 0
    BY DEF DInit
  <2> QED  BY <2>1, DCoreInit DEF Sought
<1>2. ASSUME DCore, \A c \in Clients : Sought(c), [DNext]_allvars
      PROVE  DCore' /\ \A c \in Clients : Sought(c)'
  BY <1>2, DCoreNext, SoughtStep
<1>3. (DCore /\ \A c \in Clients : Sought(c)) /\ [DNext]_allvars
        => (DCore /\ \A c \in Clients : Sought(c))'
  BY <1>2
<1> QED  BY <1>1, <1>3, PTL DEF DSpec

(* While nothing has been dropped, the position a client sought is the     *)
(* requested byte of the requested command, counting every newline written *)
(* to the device, by whichever connection, as the end of a command.        *)
THEOREM SeeksFind == DSpec => []SeekFindsCommand
<1>1. DCore /\ (\A c \in Clients : Sought(c)) => SeekFindsCommand
  <2> SUFFICES ASSUME DCore, \A c \in Clients : Sought(c), NothingDropped,
                      NEW c \in Clients, offset[c] > 0
               PROVE  LET from == offset[c] - SeekRequest[c].offset
                      IN  /\ EndsCommand(from)
                          /\ Cardinality({i \in 1 .. from : file[i].byte = NL}) = SeekRequest[c].cmd
                          /\ \A i \in from + 1 .. offset[c] : file[i].byte # NL
    BY DEF SeekFindsCommand
  <2> DEFINE from == offset[c] - SeekRequest[c].offset
  <2>1. Dropped(circ_buffer, file) = 0
    BY HeldIs DEF DCore, NothingDropped
  <2>2. CommandByte(file, offset[c], SeekRequest[c].cmd, SeekRequest[c].offset)
    BY <2>1 DEF Sought
  <2>3. EndsCommand(from) /\ \A i \in from + 1 .. offset[c] : file[i].byte # NL
    BY <2>2 DEF CommandByte, EndsCommand, NewlineAt
  <2>4. NewlinesIn(file, 0, from) = {i \in 1 .. from : file[i].byte = NL}
    BY DEF NewlinesIn, NewlineAt
  <2>5. Cardinality({i \in 1 .. from : file[i].byte = NL}) = SeekRequest[c].cmd
    BY <2>2, <2>4 DEF CommandByte
  <2> QED  BY <2>3, <2>5
<1> QED  BY <1>1, SoughtInvariance, PTL

(* The step in which a connection's seek command is taken. *)
LEMMA SeekStep ==
  ASSUME Inv, Device, [DNext]_allvars, NEW c \in Clients,
         task[c].pc = "write", IsSeek(task[c].buf), task'[c].pc # "write"
  PROVE  DSeek(c)
<1>1. ASSUME NEW d \in Clients, DTask(d) PROVE DSeek(c)
  <2>1. CASE d # c
    <3>1. task'[c] = task[c]
      BY <1>1, <2>1, DTaskUsesFile, UsesFileLeaves
    <3> QED  BY <3>1
  <2>2. CASE d = c
    <3>1. ~ DWriteBlock(c)
      BY DEF DWriteBlock
    <3>2. ~ DReadBlock(c)
      BY DEF DReadBlock, LockAndRead
    <3>3. ~ Connection(c)
      BY DEF Connection, RecvByte, RecvNothing, RecvFail, SendBlock, SendLost, SendKills, CloseConnection
    <3> QED  BY <1>1, <2>2, <3>1, <3>2, <3>3 DEF DTask
  <2> QED  BY <2>1, <2>2
<1>2. ASSUME Others PROVE FALSE
  <2>1. CASE task' = task
    BY <2>1
  <2>2. CASE Spawn /\ task' # task
    <3> DEFINE d == tasks[Len(tasks)]
    <3>1. main = "spawn" /\ task' = [task EXCEPT ![d].pc = "recv"]
      BY <2>2 DEF Spawn, Last
    <3>2. d \in Clients /\ task[d].pc = "none"
      BY <3>1, LenProperties, ElementOfSeq DEF Inv, MainTyped, Queue
    <3> HIDE DEF d
    <3>3. task'[c] = task[c]
      BY <3>1, <3>2 DEF Inv, Typed
    <3> QED  BY <3>3
  <2>3. CASE TeardownClose /\ task' # task
    <3>1. PICK d \in Clients, fd \in {"closing", "closed"} : task' = [task EXCEPT ![d].conf_fd = fd]
      <4>1. slot \in 1 .. Len(tasks)
        BY <2>3 DEF TeardownClose
      <4>2. tasks[slot] \in Clients
        BY <4>1, LenProperties, ElementOfSeq DEF Inv, MainTyped
      <4> QED  BY <2>3, <4>1, <4>2 DEF TeardownClose
    <3>2. task'[c].pc = task[c].pc
      BY <3>1 DEF Inv, Typed, TaskType
    <3> QED  BY <3>2
  <2>4. task' = task \/ Spawn \/ TeardownClose
    BY <1>2 DEF Others, ClientStep, Connect, ClientSend, ClientRead, ClientClose, Client,
                Main, Accept, Signal, Teardown, TeardownJoin, TeardownEnd
  <2> QED  BY <2>1, <2>2, <2>3, <2>4
<1>3. CASE UNCHANGED vars
  BY <1>3 DEF vars
<1> QED  BY <1>1, <1>2, <1>3, DNextCases

(* PositionsOf is what CommandByte says. *)
LEMMA PositionsAre ==
  ASSUME Len(file) \in Nat, NEW cmd \in Nat, NEW k \in Nat, NEW p \in Int
  PROVE  p \in PositionsOf([cmd |-> cmd, offset |-> k]) <=> CommandByte(file, p, cmd, k) /\ p < Len(file)
<1> DEFINE request == [cmd |-> cmd, offset |-> k]
<1>1. /\ NewlinesIn(file, 0, p - k) = {i \in 1 .. p - k : file[i].byte = NL}
      /\ EndsCommand(p - k) <=> p - k = 0 \/ NewlineAt(file, p - k)
      /\ \A i : NewlineAt(file, i) <=> file[i].byte = NL
  BY DEF NewlinesIn, NewlineAt, EndsCommand
<1>2. p \in k .. Len(file) - 1 <=> p - k \in Nat /\ p < Len(file)
  OBVIOUS
<1>3. p \in PositionsOf(request) <=>
        /\ p \in k .. Len(file) - 1
        /\ EndsCommand(p - k)
        /\ Cardinality({i \in 1 .. p - k : file[i].byte = NL}) = cmd
        /\ \A i \in p - k + 1 .. p : file[i].byte # NL
  BY DEF PositionsOf
<1>4. p < Len(file) => p <= Len(file)
  OBVIOUS
<1> QED  BY <1>1, <1>2, <1>3, <1>4 DEF CommandByte

(* While nothing has been dropped, a seek command finds the requested      *)
(* byte, and is refused only where there is none or in the last slot.      *)
THEOREM SeeksExact == DSpec => SeekExactOnDevice
<1> DEFINE Exact ==
      \A c \in Clients :
        LET request == SeekRequest[c]
        IN  /\ task[c].pc = "write" /\ IsSeek(task[c].buf) /\ task'[c].pc # "write"
            /\ NothingDropped
            => IF request.cmd < MaxWriteOps - 1 /\ PositionsOf(request) # {}
               THEN offset'[c] \in PositionsOf(request)
               ELSE offset'[c] = offset[c] /\ task'[c].pc = "send"
<1>1. DCore /\ [DNext]_allvars => [Exact]_allvars
  <2> SUFFICES ASSUME DCore, [DNext]_allvars, NEW c \in Clients,
                      task[c].pc = "write", IsSeek(task[c].buf), task'[c].pc # "write", NothingDropped
               PROVE  LET request == SeekRequest[c]
                      IN  IF request.cmd < MaxWriteOps - 1 /\ PositionsOf(request) # {}
                          THEN offset'[c] \in PositionsOf(request)
                          ELSE offset'[c] = offset[c] /\ task'[c].pc = "send"
    OBVIOUS
  <2> DEFINE cmd == SeekRequest[c].cmd
             k == SeekRequest[c].offset
             position == DeviceSeek(SeekRequest[c])
  <2>1. Inv /\ Past /\ Device /\ offset \in [Clients -> Nat] /\ task \in [Clients -> TaskType]
    BY PastDevice DEF DCore, Inv, Typed
  <2>2. DSeek(c)
    BY <2>1, SeekStep
  <2>3. /\ cmd \in Nat /\ k \in Nat /\ SeekRequest[c] = [cmd |-> cmd, offset |-> k]
    BY DeviceAssumption
  <2>4. position \in Int
    BY <2>1, PositionType
  <2>5. /\ offset' = IF position < 0 THEN offset ELSE [offset EXCEPT ![c] = position]
        /\ position < 0 => task'[c].pc = "send"
    <3>1. BlockDone(c, <<>>, task[c].ended \/ position < 0)
      BY <2>2 DEF DSeek
    <3>2. task' = [task EXCEPT ![c].buf = <<>>,
                               ![c].ended = FALSE,
                               ![c].pc = IF task[c].ended \/ position < 0 THEN "send" ELSE "recv"]
      BY <3>1 DEF BlockDone
    <3> HIDE DEF position
    <3>3. position < 0 => task'[c].pc = "send"
      BY <2>1, <3>2 DEF TaskType
    <3> QED  BY <2>2, <3>3 DEF DSeek, position
  <2>6. /\ History(circ_buffer, write_entry_new_flag, file) /\ Dropped(circ_buffer, file) = 0
        /\ circ_buffer \in CircularBuffer /\ write_entry_new_flag \in BOOLEAN
        /\ Len(file) \in Nat
    <3>1. Len(file) \in Nat
      BY <2>1, HeldIs
    <3> QED  BY <2>1, <3>1, HeldIs DEF Past, History, NothingDropped
  <2>7. \A p \in Int : p \in PositionsOf(SeekRequest[c]) <=> CommandByte(file, p, cmd, k) /\ p < Len(file)
    BY <2>3, <2>6, PositionsAre
  <2>8. PositionsOf(SeekRequest[c]) \subseteq Nat
    BY <2>3, <2>6 DEF PositionsOf
  <2>9. ASSUME cmd < MaxWriteOps - 1
        PROVE  cmd \in Iterations /\ position = BufferFindOffset(circ_buffer, cmd, k)
    BY <2>3, <2>9, MaxWriteOpsAssumption DEF DeviceSeek, Iterations
  <2> HIDE DEF cmd, k, position
  <2>10. CASE cmd < MaxWriteOps - 1 /\ PositionsOf(SeekRequest[c]) # {}
    <3>1. PICK p \in PositionsOf(SeekRequest[c]) : TRUE
      BY <2>10
    <3>2. p \in Nat /\ CommandByte(file, p, cmd, k) /\ p < Len(file)
      BY <2>7, <2>8, <3>1
    <3>3. position = p
      BY <2>3, <2>6, <2>9, <2>10, <3>2, PositionFound
    <3>4. offset'[c] = p
      BY <2>1, <2>5, <3>2, <3>3
    <3> QED  BY <2>10, <3>1, <3>4 DEF cmd
  <2>11. CASE ~ (cmd < MaxWriteOps - 1)
    <3>1. position = -1
      BY <2>3, <2>11, MaxWriteOpsAssumption DEF DeviceSeek, position, cmd
    <3> QED  BY <2>5, <2>11, <3>1 DEF cmd
  <2>12. CASE cmd < MaxWriteOps - 1 /\ PositionsOf(SeekRequest[c]) = {}
    <3>1. ~ (position >= 0)
      <4> SUFFICES ASSUME position >= 0 PROVE FALSE
        OBVIOUS
      <4>1. CommandByte(file, position, cmd, k) /\ position < Len(file)
        BY <2>3, <2>6, <2>9, <2>12, PositionSought
      <4> QED  BY <2>4, <2>7, <2>12, <4>1
    <3>2. position < 0
      BY <2>4, <3>1
    <3> QED  BY <2>5, <2>12, <3>2
  <2> QED  BY <2>10, <2>11, <2>12
<1>2. SeekExactOnDevice <=> [][Exact]_allvars
  BY PTL DEF SeekExactOnDevice
<1> QED  BY <1>1, <1>2, CoreInvariance, PTL DEF DSpec

-----------------------------------------------------------------------------
(* What a connection that is served to its end has been sent.              *)

(* c has written nothing past the first n bytes. *)
NoMore(c, w, n) == \A i \in 1 .. Len(w) : i > n => w[i].by # c

(* Until the last block of the response is read, the file holds what was   *)
(* received; after it, others alone write.                                 *)
Own(c) ==
  Served(c) =>
    /\ offset[c] = 0 /\ Put(c) = Received(c)
    /\ Dropped(circ_buffer, file) = 0 =>
         /\ task[c].pc = "sending" /\ ShortBlock(c) => NoMore(c, file, NewCounter(c))
         /\ task[c].pc \in {"close", "done"} => NoMore(c, file, Len(Response(c)))

LEMMA NoMoreStays ==
  ASSUME Inv, NEW c \in Clients, StepOf(c), ~ TeardownEnd, task[c].pc \in {"sending", "close", "done"},
         NEW n, NoMore(c, file, n)
  PROVE  NoMore(c, file', n)
<1>1. CASE file' = file
  BY <1>1
<1>2. CASE Waits(c)
  <2>1. /\ Len(file) \in Nat
        /\ \A i \in 1 .. Len(file') : IF i <= Len(file) THEN file'[i] = file[i] ELSE file'[i].by # c
    BY <1>2, OthersLeaveMine
  <2> SUFFICES ASSUME NEW i \in 1 .. Len(file'), i > n PROVE file'[i].by # c
    BY DEF NoMore
  <2>2. CASE i <= Len(file)
    <3>1. i \in 1 .. Len(file) /\ file'[i] = file[i]
      BY <2>1, <2>2
    <3> QED  BY <3>1 DEF NoMore
  <2>3. CASE ~ (i <= Len(file))
    BY <2>1, <2>3
  <2> QED  BY <2>2, <2>3
<1>3. Waits(c) \/ Responds(c)
  BY DEF StepOf, TakesByte, TakesNothing, Takes, Puts, Starts
<1> QED  BY <1>1, <1>2, <1>3 DEF Responds

(* All that is received is put in the file, until the client leaves. *)
LEMMA ServedStep ==
  ASSUME DCore, NEW c \in Clients, StepOf(c), Own(c), Served(c)'
  PROVE  /\ Served(c) /\ Put(c)' = Received(c)' /\ ~ TeardownEnd
         /\ task[c].pc # "done" => task[c].conf_fd = "open"
         /\ net[c].state # "closed" /\ net'[c].state # "closed" /\ ~ Seeks(c)
<1>1. Inv /\ Sound(c)
  BY DEF DCore
<1>2. /\ Served(c) /\ net'[c].state # "closed" /\ net[c].state # "closed"
      /\ interrupted = "nothing" /\ ~ Seeks(c)
  BY DEF Served, StepOf, KeepsEnd, Seeks
<1>3. ~ TeardownEnd
  BY <1>1, <1>2 DEF TeardownEnd, Inv, Down, TearingDown
<1>4. Put(c) = Received(c)
  BY <1>2 DEF Own
<1>5. task[c].pc # "done" => task[c].conf_fd = "open"
  BY <1>1, <1>2 DEF Sound
<1>6. ~ PeerGone(c)
  BY <1>2 DEF PeerGone
<1>7. Put(c)' = Received(c)'
  <2>1. CASE Put(c)' = Put(c) /\ net'[c].rcvd = net[c].rcvd
    BY <1>4, <2>1 DEF Received
  <2>2. CASE /\ Put(c)' = Put(c) \o <<Packet[c][net[c].rcvd + 1]>>
             /\ net'[c].rcvd = net[c].rcvd + 1 /\ net[c].rcvd < Len(Packet[c])
    BY <1>1, <1>4, <2>2, ReceivedMore
  <2>3. ~ (task[c].pc = "recv" /\ (task[c].conf_fd = "closed" \/ PeerGone(c)))
    BY <1>5, <1>6
  <2> QED  BY <1>1, <1>2, <1>3, <2>1, <2>2, <2>3, PutStep
<1> QED  BY <1>2, <1>3, <1>5, <1>7

LEMMA OwnStep ==
  ASSUME DCore, NEW c \in Clients, Answer(c), Own(c), [DNext]_allvars
  PROVE  Own(c)'
<1> SUFFICES ASSUME Served(c)'
             PROVE  /\ offset'[c] = 0 /\ Put(c)' = Received(c)'
                    /\ Dropped(circ_buffer, file)' = 0 =>
                         /\ task'[c].pc = "sending" /\ ShortBlock(c)' => NoMore(c, file', NewCounter(c)')
                         /\ task'[c].pc \in {"close", "done"} => NoMore(c, file', Len(Response(c)'))
  BY DEF Own
<1>1. Inv /\ Past /\ Device /\ Sound(c)
  BY PastDevice DEF DCore
<1>2. StepOf(c) /\ Replies(c) /\ OffsetMoves(c)
  BY <1>1, DNextStepOf, DNextReplies, DNextOffset
<1>3. /\ Served(c) /\ Put(c)' = Received(c)' /\ ~ TeardownEnd
      /\ task[c].pc # "done" => task[c].conf_fd = "open"
      /\ net[c].state # "closed" /\ net'[c].state # "closed" /\ ~ Seeks(c)
  BY <1>2, ServedStep
<1>4. offset[c] = 0
  BY <1>3 DEF Own
<1>5. offset'[c] = 0
  <2>1. ~ (task[c].pc = "write" /\ IsSeek(task[c].buf))
    BY <1>1, <1>3, SeekBlock
  <2> QED  BY <1>2, <1>4, <2>1 DEF OffsetMoves
<1>6. ASSUME Dropped(circ_buffer, file)' = 0
      PROVE  /\ task'[c].pc = "sending" /\ ShortBlock(c)' => NoMore(c, file', NewCounter(c)')
             /\ task'[c].pc \in {"close", "done"} => NoMore(c, file', Len(Response(c)'))
  <2>1. Dropped(circ_buffer, file) = 0
    <3>1. Dropped(circ_buffer, file) \in Nat /\ Dropped(circ_buffer, file) <= Dropped(circ_buffer, file)'
      BY DCoreNext, ConnectionTyped
    <3> QED  BY <1>6, <3>1
  <2>2. /\ task[c].pc = "sending" /\ ShortBlock(c) => NoMore(c, file, NewCounter(c))
        /\ task[c].pc \in {"close", "done"} => NoMore(c, file, Len(Response(c)))
    BY <1>3, <2>1 DEF Own
  <2>3. \A n : task[c].pc \in {"sending", "close", "done"} /\ NoMore(c, file, n) => NoMore(c, file', n)
    BY <1>1, <1>2, <1>3, NoMoreStays
  <2>4. CASE Keeps(c)
    <3>1. CASE task'[c].pc = task[c].pc /\ task'[c].buf = task[c].buf
      <4>1. NewCounter(c)' = NewCounter(c) /\ ShortBlock(c)' = ShortBlock(c) /\ Response(c)' = Response(c)
        BY <2>4, <3>1 DEF Keeps, NewCounter, ShortBlock
      <4> QED  BY <2>2, <2>3, <3>1, <4>1
    <3>2. CASE task[c].pc \in Early /\ task'[c].pc \in Early \cup {"send"}
      BY <3>2 DEF Early
    <3>3. CASE task[c].pc = "close" /\ task'[c].pc = "done"
      BY <2>2, <2>3, <2>4, <3>3 DEF Keeps
    <3> QED  BY <2>4, <3>1, <3>2, <3>3 DEF Keeps
  <2>5. CASE Reads(c)
    <3> DEFINE k == task[c].counter
               block == DeviceBytes(k + offset[c], BlockSize)
    <3>1. task'[c].pc = "sending" /\ task'[c].counter = k /\ task'[c].buf = block /\ file' = file
      BY <2>5 DEF Reads, DeviceSame
    <3>2. k \in Nat /\ k + offset[c] \in Nat /\ k + offset[c] = k
      BY <1>4, ConnectionTyped
    <3>3. block \in Seq(Nat) /\ (Len(block) < BlockSize => Len(file) <= 0 + (k + offset[c]) + Len(block))
      BY <2>1, <3>2, BlockHeld
    <3>4. ShortBlock(c)' = (Len(block) < BlockSize) /\ NewCounter(c)' = k + Len(block)
      BY <3>1 DEF ShortBlock, NewCounter
    <3> HIDE DEF block, k
    <3>5. Len(block) \in Nat /\ Len(file) \in Nat
      BY <3>3, LenProperties, ConnectionTyped
    <3>6. ASSUME Len(block) < BlockSize PROVE NoMore(c, file, k + Len(block))
      <4>1. Len(file) <= k + Len(block)
        BY <3>2, <3>3, <3>5, <3>6
      <4> QED  BY <3>2, <3>5, <4>1 DEF NoMore
    <3> QED  BY <3>1, <3>4, <3>6
  <2>6. CASE Sends(c)
    <3>1. /\ task[c].pc = "sending" /\ Response(c)' = Response(c) \o task[c].buf
          /\ task'[c].pc = IF ShortBlock(c) THEN "close" ELSE "send"
      BY <2>6 DEF Sends
    <3>2. Response(c) \in Seq(Nat) /\ task[c].buf \in Seq(Nat)
      BY <3>1, ConnectionTyped
    <3>3. task[c].counter = Len(Response(c))
      BY <1>3, <2>1, <3>1 DEF Answer, Traced
    <3>4. Len(Response(c)') = NewCounter(c)
      <4>1. Len(Response(c) \o task[c].buf) = Len(Response(c)) + Len(task[c].buf)
        BY <3>2, ConcatProperties
      <4> QED  BY <3>1, <3>3, <4>1 DEF NewCounter
    <3> QED  BY <2>2, <2>3, <3>1, <3>4
  <2>7. CASE Loses(c)
    BY <1>3, <2>7 DEF Loses
  <2>8. CASE Leaves(c)
    BY <1>3, <2>8 DEF Leaves
  <2> QED  BY <1>2, <2>4, <2>5, <2>6, <2>7, <2>8 DEF Replies
<1> QED  BY <1>3, <1>5, <1>6

LEMMA OwnInit == ASSUME DInit, NEW c \in Clients PROVE Own(c)
<1> DEFINE w == By(Stamper, FlattenSeq(Earlier))
<1>1. Start(w) /\ offset[c] = 0
  BY DEF DInit
<1>2. w \in Seq(Written) /\ Len(w) = Len(FlattenSeq(Earlier))
  BY EarlierType, SpecialBytes, ByType
<1>3. NotOurs(w)
  BY <1>2, ConstantsAssumption DEF NotOurs, By
<1> HIDE DEF w
<1>4. Put(c) = Received(c)
  BY <1>1, <1>2, <1>3, NothingYet
<1>5. task[c].pc = "none"
  BY <1>1 DEF Start, NoTask
<1> QED  BY <1>1, <1>4, <1>5 DEF Own

(* The response is the part of the file that holds all c has written. *)
LEMMA OwnSent ==
  ASSUME NEW c \in Clients, NEW w \in Seq(Written), NEW R \in Seq(Nat),
         Consecutive(R, 0), Below(R, Len(w)), NoMore(c, w, Len(R))
  PROVE  Wrote(c, [i \in 1 .. Len(R) |-> w[R[i]]]) = Wrote(c, w)
<1> DEFINE n    == Len(R)
           m    == Len(w)
           sent == [i \in 1 .. n |-> w[R[i]]]
           rest == [i \in 1 .. m - n |-> w[n + i]]
           S    == [by : {c}, byte : Bytes]
<1>1. n \in Nat /\ m \in Nat
  BY LenProperties
<1>2. n <= m
  <2>1. n > 0 => n \in 1 .. n /\ R[n] = 0 + n /\ R[n] <= m
    BY <1>1 DEF Consecutive, Below
  <2> QED  BY <1>1, <2>1
<1>3. \A i \in 1 .. n : w[R[i]] = w[i] /\ w[i] \in Written
  <2> SUFFICES ASSUME NEW i \in 1 .. n PROVE w[R[i]] = w[i] /\ w[i] \in Written
    OBVIOUS
  <2>1. R[i] = 0 + i /\ 0 + i = i /\ i \in 1 .. m
    BY <1>1, <1>2 DEF Consecutive
  <2> QED  BY <2>1, ElementOfSeq
<1>4. \A i \in 1 .. m - n : w[n + i] \in Written /\ w[n + i].by # c
  <2> SUFFICES ASSUME NEW i \in 1 .. m - n PROVE w[n + i] \in Written /\ w[n + i].by # c
    OBVIOUS
  <2>1. n + i \in 1 .. m /\ n + i > n
    BY <1>1, <1>2
  <2>2. w[n + i] \in Written
    BY <2>1, ElementOfSeq
  <2> QED  BY <2>1, <2>2 DEF NoMore
<1>5. sent \in Seq(Written) /\ Len(sent) = n /\ \A i \in 1 .. n : sent[i] = w[i]
  <2>1. sent \in [1 .. n -> Written]
    BY <1>3
  <2>2. sent \in Seq(Written)
    BY <1>1, <2>1, SeqDef
  <2>3. Len(sent) = n
    BY <1>1, <2>1, <2>2, LenProperties
  <2> QED  BY <1>3, <2>2, <2>3
<1>6. rest \in Seq(Written) /\ Len(rest) = m - n /\ \A i \in 1 .. m - n : rest[i] = w[n + i]
  <2>1. rest \in [1 .. m - n -> Written] /\ m - n \in Nat
    BY <1>1, <1>2, <1>4
  <2>2. rest \in Seq(Written)
    BY <2>1, SeqDef
  <2>3. Len(rest) = m - n
    BY <2>1, <2>2, LenProperties
  <2> QED  BY <2>2, <2>3
<1> HIDE DEF sent, rest, n, m
<1>7. w = sent \o rest
  <2> DEFINE v == sent \o rest
  <2>1. /\ v \in Seq(Written) /\ Len(v) = Len(sent) + Len(rest)
        /\ \A i \in 1 .. Len(sent) + Len(rest) : v[i] = IF i <= Len(sent) THEN sent[i] ELSE rest[i - Len(sent)]
    BY <1>5, <1>6, ConcatProperties
  <2> HIDE DEF v
  <2>2. Len(v) = m
    BY <1>1, <1>2, <1>5, <1>6, <2>1
  <2>3. \A i \in 1 .. m : v[i] = w[i]
    <3> SUFFICES ASSUME NEW i \in 1 .. m PROVE v[i] = w[i]
      OBVIOUS
    <3>1. v[i] = IF i <= n THEN sent[i] ELSE rest[i - n]
      BY <1>1, <1>2, <1>5, <1>6, <2>1
    <3>2. CASE i <= n
      <4>1. i \in 1 .. n
        BY <1>1, <3>2
      <4> QED  BY <1>5, <3>1, <3>2, <4>1
    <3>3. CASE ~ (i <= n)
      <4>1. i - n \in 1 .. m - n /\ n + (i - n) = i
        BY <1>1, <3>3
      <4> QED  BY <1>6, <3>1, <3>3, <4>1
    <3> QED  BY <3>2, <3>3
  <2>4. v = w
    BY <2>1, <2>2, <2>3, SeqEqual DEF m
  <2> QED  BY <2>4 DEF v
<1>8. Select(rest, S) = <<>>
  <2>1. \A i \in 1 .. Len(rest) : rest[i] \notin S
    BY <1>4, <1>6
  <2> HIDE DEF S
  <2> QED  BY <1>6, <2>1, SelectNone
<1>9. Select(w, S) = Select(sent, S)
  <2> HIDE DEF S
  <2>0. sent \in Seq(Written) /\ rest \in Seq(Written)
    BY <1>5, <1>6
  <2>1. Select(sent \o rest, S) = Select(sent, S) \o Select(rest, S) /\ Select(sent, S) \in Seq(Written)
    BY ONLY <2>0, SelectConcat
  <2>2. Select(sent, S) \o <<>> = Select(sent, S)
    BY <2>1, ConcatEmptySeq
  <2> QED  BY <1>7, <1>8, <2>1, <2>2
<1>10. Wrote(c, sent) = Wrote(c, w)
  BY <1>9 DEF Wrote, WrittenBy
<1> QED  BY <1>10 DEF sent, n

LEMMA OwnInvariance == DSpec => [](DCore /\ (\A c \in Clients : Answer(c)) /\ \A c \in Clients : Own(c))
<1>1. DInit => \A c \in Clients : Own(c)
  BY OwnInit
<1>2. ASSUME DCore, \A c \in Clients : Answer(c), \A c \in Clients : Own(c), [DNext]_allvars
      PROVE  \A c \in Clients : Own(c)'
  BY <1>2, OwnStep
<1>3. (DCore /\ \A c \in Clients : Answer(c)) /\ (\A c \in Clients : Own(c)) /\ [DNext]_allvars
        => (\A c \in Clients : Own(c))'
  BY <1>2
<1> QED  BY <1>1, <1>3, AnswerInvariance, PTL DEF DSpec

(* While nothing has been dropped, a client whose connection the server    *)
(* has closed without a signal has got back every byte the server received *)
(* from it, in order.                                                      *)
THEOREM OwnPacketsReturn == DSpec => []OwnPacketFromDevice
<1>1. DCore /\ (\A c \in Clients : Answer(c)) /\ (\A c \in Clients : Own(c)) => OwnPacketFromDevice
  <2> SUFFICES ASSUME DCore, NEW c \in Clients, Answer(c), Own(c), NothingDropped, interrupted = "nothing",
                      ~ Seeks(c), task[c].pc = "done", net[c].state = "open"
               PROVE  Wrote(c, [i \in 1 .. Len(Response(c)) |-> file[Response(c)[i]]]) = Received(c)
    BY DEF OwnPacketFromDevice, Wrote
  <2>1. Dropped(circ_buffer, file) = 0
    BY HeldIs DEF DCore, NothingDropped
  <2>2. Served(c)
    BY DEF Served
  <2>3. offset[c] = 0 /\ Put(c) = Received(c) /\ NoMore(c, file, Len(Response(c)))
    BY <2>1, <2>2 DEF Own
  <2>4. Consecutive(Response(c), 0) /\ Below(Response(c), Len(file))
    BY <2>1, <2>3 DEF Answer, Traced
  <2>5. Response(c) \in Seq(Nat) /\ file \in Seq(Written)
    BY ConnectionTyped DEF DCore, Inv, FileTyped
  <2>6. Wrote(c, [i \in 1 .. Len(Response(c)) |-> file[Response(c)[i]]]) = Wrote(c, file)
    BY <2>3, <2>4, <2>5, OwnSent
  <2>7. Put(c) = Wrote(c, file)
    <3>1. Wrote(c, file) \in Seq(Bytes)
      BY PutType DEF DCore
    <3> QED  BY <3>1, ConcatEmptySeq DEF Put, OnItsWay
  <2> QED  BY <2>3, <2>6, <2>7
<1> QED  BY <1>1, OwnInvariance, PTL

==============================================================================
