----------------------------- MODULE SequenceLemmas -----------------------------
(***************************************************************************)
(* Induction, in a form that names no operator, and what it shows of the   *)
(* sequences the generators build: concatenations of one block per         *)
(* interface, per function and per line.                                   *)
(***************************************************************************)
EXTENDS SequencesExt, WellFoundedInduction, TLAPS

\* A set of numbers that holds 0, and with every number below n the next, holds
\* all numbers up to n.
LEMMA NatInduct ==
    ASSUME NEW n \in Nat, NEW S, 0 \in S, \A k \in 1 .. n : k - 1 \in S => k \in S
    PROVE  \A k \in 0 .. n : k \in S
<1> DEFINE Missing == (0 .. n) \ S
           Less == OpToRel(<, Nat)
<1>1. SUFFICES ASSUME Missing # {} PROVE FALSE
  OBVIOUS
<1>2. Missing \subseteq Nat
  OBVIOUS
<1>3. PICK k \in Missing : \A j \in Missing : <<j, k>> \notin Less
  <2> HIDE DEF Missing
  <2> QED  BY <1>1, <1>2, NatLessThanWellFounded, WFMin
<1>4. k \in 1 .. n /\ k \notin S /\ k - 1 \in 0 .. n
  OBVIOUS
<1>5. \A j, i \in Nat : j < i => <<j, i>> \in Less
  BY ZenonT(30) DEF OpToRel
<1>6. <<k - 1, k>> \in Less
  <2> HIDE DEF Less
  <2> QED  BY <1>4, <1>5
<1>7. k - 1 \in S
  <2> HIDE DEF Less
  <2> QED  BY <1>3, <1>4, <1>6
<1> QED  BY <1>4, <1>7

\* f[k] is what k steps make of base.
Steps(f, n, T, base, step) ==
    f \in [0 .. n -> T] /\ f[0] = base /\ \A k \in 1 .. n : f[k] = step[k][f[k - 1]]

\* Stepping n times, each time from what the step before gave, gives something.
LEMMA Recursion ==
    ASSUME NEW n \in Nat, NEW T, NEW base \in T, NEW step \in [1 .. n -> [T -> T]]
    PROVE  \E f : Steps(f, n, T, base, step)
<1> DEFINE Stepped(f, k) == f[0] = base /\ \A i \in 1 .. k : f[i] = step[i][f[i - 1]]
           S == {k \in 0 .. n : \E f \in [0 .. n -> T] : Stepped(f, k)}
<1>1. 0 \in S
  <2>1. [i \in 0 .. n |-> base] \in [0 .. n -> T]
    OBVIOUS
  <2>2. Stepped([i \in 0 .. n |-> base], 0)
    OBVIOUS
  <2> HIDE DEF Stepped
  <2> QED  BY <2>1, <2>2
<1>2. ASSUME NEW k \in 1 .. n, k - 1 \in S PROVE k \in S
  <2>1. PICK f \in [0 .. n -> T] : Stepped(f, k - 1)
    BY <1>2
  <2> DEFINE g == [f EXCEPT ![k] = step[k][f[k - 1]]]
  <2>2. f[k - 1] \in T /\ step[k][f[k - 1]] \in T
    OBVIOUS
  <2>3. g \in [0 .. n -> T] /\ g[0] = f[0]
    BY <2>2
  <2>4. ASSUME NEW i \in 1 .. k PROVE g[i] = step[i][g[i - 1]]
    <3>1. g[i - 1] = f[i - 1]
      OBVIOUS
    <3>2. CASE i = k
      BY <3>1, <3>2
    <3>3. CASE i # k
      <4>1. i \in 1 .. k - 1 /\ i - 1 \in 0 .. n
        BY <3>3
      <4>2. g[i] = f[i]
        BY <4>1, <3>3
      <4> QED  BY <2>1, <4>1, <4>2, <3>1
    <3> QED  BY <3>2, <3>3
  <2>5. Stepped(g, k)
    BY <2>1, <2>3, <2>4
  <2> HIDE DEF g, Stepped
  <2> QED  BY <2>3, <2>5
<1>3. n \in S
  <2> HIDE DEF S
  <2>1. \A k \in 0 .. n : k \in S
    BY <1>1, <1>2, NatInduct
  <2> QED  BY <2>1
<1>4. PICK f \in [0 .. n -> T] : Stepped(f, n)
  BY <1>3
<1>5. Steps(f, n, T, base, step)
  BY <1>4 DEF Steps
<1> QED  BY <1>5
--------------------------------------------------------------------------------
\* A sequence, of whatever elements
IsSeq(s) == s \in Seq(ToSet(s))

\* Whatever set it is a sequence of, it is one of its own elements.
LEMMA SeqIsSeq ==
    ASSUME NEW T, NEW s \in Seq(T)
    PROVE  IsSeq(s) /\ ToSet(s) \subseteq T
  BY DEF IsSeq, ToSet

\* ... and of any set that holds these.
LEMMA IsSeqOf ==
    ASSUME NEW s, IsSeq(s), NEW T, ToSet(s) \subseteq T
    PROVE  s \in Seq(T)
  BY DEF IsSeq, ToSet

\* Length, domain, places and elements of a sequence
LEMMA SeqFacts ==
    ASSUME NEW s, IsSeq(s)
    PROVE  /\ Len(s) \in Nat /\ DOMAIN s = 1 .. Len(s)
           /\ s = <<>> <=> Len(s) = 0
           /\ \A i \in 1 .. Len(s) : s[i] \in ToSet(s)
           /\ \A x \in ToSet(s) : \E i \in 1 .. Len(s) : x = s[i]
           /\ <<>> \o s = s
<1>1. s \in Seq(ToSet(s)) /\ DOMAIN s = 1 .. Len(s) /\ Len(s) \in Nat
  BY DEF IsSeq
<1>2. <<>> \o s = s /\ (s = <<>> <=> Len(s) = 0)
  BY <1>1
<1> QED  BY <1>1, <1>2 DEF ToSet

\* A function on 1 .. n is a sequence, whatever its values are.
LEMMA FunctionIsSeq ==
    ASSUME NEW n \in Nat, NEW s, s = [i \in 1 .. n |-> s[i]]
    PROVE  IsSeq(s) /\ Len(s) = n
<1>1. s \in [1 .. n -> ToSet(s)]
  BY DEF ToSet
<1> QED  BY <1>1 DEF IsSeq

\* The empty sequence
LEMMA EmptyIsSeq == IsSeq(<<>>) /\ ToSet(<<>>) = {}
  BY DEF IsSeq, ToSet

\* Sequences of one, two and three elements
LEMMA OneIsSeq ==
    ASSUME NEW x
    PROVE  IsSeq(<<x>>) /\ Len(<<x>>) = 1 /\ ToSet(<<x>>) = {x}
<1>1. ToSet(<<x>>) = {x}
  BY DEF ToSet
<1> QED  BY <1>1 DEF IsSeq

LEMMA TwoIsSeq ==
    ASSUME NEW x, NEW y
    PROVE  /\ IsSeq(<<x, y>>) /\ Len(<<x, y>>) = 2 /\ ToSet(<<x, y>>) = {x, y}
           /\ <<x, y>>[1] = x /\ <<x, y>>[2] = y
<1>1. ToSet(<<x, y>>) = {x, y}
  BY DEF ToSet
<1>2. <<x, y>> \in Seq({x, y})
  OBVIOUS
<1> QED  BY <1>1, <1>2, SeqIsSeq

\* Elements of a sequence, and sequences of an element, of a given set
LEMMA ElementInSeq ==
    ASSUME NEW T, NEW s \in Seq(T), NEW i \in 1 .. Len(s)
    PROVE  s[i] \in T
  OBVIOUS

LEMMA OneInSeq ==
    ASSUME NEW T, NEW x \in T
    PROVE  <<x>> \in Seq(T) /\ <<x>> # <<>> /\ Len(<<x>>) = 1 /\ <<x>>[1] = x
  OBVIOUS

\* Where the elements of a concatenation are
LEMMA ConcatFacts ==
    ASSUME NEW s, NEW t, IsSeq(s), IsSeq(t)
    PROVE  /\ IsSeq(s \o t)
           /\ Len(s \o t) = Len(s) + Len(t)
           /\ ToSet(s \o t) = ToSet(s) \cup ToSet(t)
           /\ \A i \in 1 .. Len(s) : (s \o t)[i] = s[i]
           /\ \A i \in 1 .. Len(t) : (s \o t)[Len(s) + i] = t[i]
           /\ \A i \in Len(s) + 1 .. Len(s \o t) : i - Len(s) \in 1 .. Len(t) /\ (s \o t)[i] = t[i - Len(s)]
<1> DEFINE T == ToSet(s) \cup ToSet(t)
<1>1. s \in Seq(T) /\ t \in Seq(T)
  BY IsSeqOf
<1> HIDE DEF T
<1>2. s \o t \in Seq(T) /\ Len(s \o t) = Len(s) + Len(t) /\ Len(s) \in Nat /\ Len(t) \in Nat
  BY <1>1
<1>3. /\ \A i \in 1 .. Len(s) : (s \o t)[i] = s[i]
      /\ \A i \in Len(s) + 1 .. Len(s \o t) : i - Len(s) \in 1 .. Len(t) /\ (s \o t)[i] = t[i - Len(s)]
  BY <1>1, <1>2
<1>4. \A i \in 1 .. Len(t) : (s \o t)[Len(s) + i] = t[i]
  BY <1>1, <1>2
<1>5. IsSeq(s \o t) /\ ToSet(s \o t) \subseteq T
  BY <1>2, SeqIsSeq
<1>6. T \subseteq ToSet(s \o t)
  <2>1. ASSUME NEW i \in 1 .. Len(s) PROVE s[i] \in ToSet(s \o t)
    <3>1. i \in 1 .. Len(s \o t)
      BY <1>2
    <3> QED  BY <3>1, <1>3, <1>5, SeqFacts
  <2>2. ASSUME NEW i \in 1 .. Len(t) PROVE t[i] \in ToSet(s \o t)
    <3>1. Len(s) + i \in 1 .. Len(s \o t)
      BY <1>2
    <3> QED  BY <3>1, <1>4, <1>5, SeqFacts
  <2> QED  BY <2>1, <2>2, SeqFacts DEF T
<1> QED  BY <1>2, <1>3, <1>4, <1>5, <1>6 DEF T

\* FlattenSeq puts its blocks together one after the other.
LEMMA FlattenSteps ==
    ASSUME NEW ss, IsSeq(ss), \A i \in 1 .. Len(ss) : IsSeq(ss[i])
    PROVE  \E f \in [0 .. Len(ss) -> Seq(UNION {ToSet(ss[i]) : i \in 1 .. Len(ss)})] :
              /\ f[0] = <<>>
              /\ \A k \in 1 .. Len(ss) : f[k] = f[k - 1] \o ss[k]
              /\ f[Len(ss)] = FlattenSeq(ss)
<1> DEFINE N == Len(ss)
           T == UNION {ToSet(ss[i]) : i \in 1 .. N}
           step == [i \in 1 .. N |-> [s \in Seq(T) |-> s \o ss[i]]]
<1>1. N \in Nat /\ DOMAIN ss = 1 .. N /\ \A i \in 1 .. N : ss[i] \in Seq(T)
  <2>1. N \in Nat /\ DOMAIN ss = 1 .. N
    BY DEF IsSeq
  <2>2. ASSUME NEW i \in 1 .. N PROVE ss[i] \in Seq(T)
    <3>1. ToSet(ss[i]) \subseteq T
      OBVIOUS
    <3> HIDE DEF T
    <3> QED  BY <3>1, IsSeqOf
  <2> QED  BY <2>1, <2>2
<1>2. PICK f \in [0 .. N -> Seq(T)] : f[0] = <<>> /\ \A k \in 1 .. N : f[k] = step[k][f[k - 1]]
  <2>1. step \in [1 .. N -> [Seq(T) -> Seq(T)]] /\ <<>> \in Seq(T)
    <3> HIDE DEF T, N
    <3> QED  BY <1>1
  <2> DEFINE Q == Seq(T)
             nothing == <<>>
  <2>2. step \in [1 .. N -> [Q -> Q]] /\ nothing \in Q /\ N \in Nat
    BY <1>1, <2>1
  <2> HIDE DEF step, T, N, Q, nothing
  <2>3. PICK f : Steps(f, N, Q, nothing, step)
    BY <2>2, Recursion
  <2> QED  BY <2>3 DEF Q, nothing, Steps
<1>3. ASSUME NEW k \in 1 .. N PROVE f[k] = f[k - 1] \o ss[k]
  <2> HIDE DEF T, N
  <2>1. k - 1 \in 0 .. N /\ f[k - 1] \in Seq(T)
    BY <1>1
  <2>2. \A s \in Seq(T) : step[k][s] = s \o ss[k]
    OBVIOUS
  <2> HIDE DEF step
  <2> QED  BY <1>2, <2>1, <2>2
<1>4. f[N] = FlattenSeq(ss)
  <2>1. CASE N = 0
    <3>1. ss = <<>>
      BY <2>1 DEF IsSeq
    <3>2. FlattenSeq(ss) = <<>>
      BY <2>1, <3>1 DEF FlattenSeq
    <3> QED  BY <1>2, <2>1, <3>2
  <2>2. CASE N # 0
    <3> DEFINE Eq(g) == g = [i \in 1 .. N |-> IF i = 1 THEN ss[i] ELSE g[i - 1] \o ss[i]]
               c == CHOOSE g : Eq(g)
               h == [i \in 1 .. N |-> f[i]]
    <3>1. FlattenSeq(ss) = c[N]
      BY <2>2 DEF FlattenSeq
    <3>2. Eq(h)
      <4>1. ASSUME NEW i \in 1 .. N PROVE h[i] = IF i = 1 THEN ss[i] ELSE h[i - 1] \o ss[i]
        <5>1. h[i] = f[i] /\ (i # 1 => h[i - 1] = f[i - 1])
          <6> HIDE DEF N, T, c, Eq
          <6> QED  BY <1>1
        <5>2. i = 1 => f[i - 1] = <<>> /\ <<>> \o ss[i] = ss[i]
          <6> HIDE DEF N, T, c, Eq, h
          <6>1. ss[i] \in Seq(T)
            BY <1>1
          <6> QED  BY <1>2, <6>1
        <5> HIDE DEF N, T, c, Eq, h
        <5> QED  BY <1>3, <5>1, <5>2
      <4> QED  BY <4>1
    <3>3. Eq(c)
      <4> HIDE DEF Eq, h
      <4> QED  BY <3>2
    <3>4. \A k \in 1 .. N : c[k] = IF k = 1 THEN ss[k] ELSE c[k - 1] \o ss[k]
      <4> HIDE DEF c, N
      <4> QED  BY <3>3
    <3>5. \A k \in 1 .. N : h[k] = IF k = 1 THEN ss[k] ELSE h[k - 1] \o ss[k]
      <4> HIDE DEF h, N
      <4> QED  BY <3>2
    <3> DEFINE S == {k \in 0 .. N : k = 0 \/ c[k] = h[k]}
    <3>6. \A k \in 1 .. N : k - 1 \in S => k \in S
      <4> HIDE DEF h, c, N
      <4> QED  BY <1>1, <3>4, <3>5
    <3>7. \A k \in 0 .. N : k \in S
      <4>1. 0 \in S
        BY <1>1
      <4> HIDE DEF S, N
      <4> QED  BY <1>1, <3>6, <4>1, NatInduct
    <3>8. c[N] = h[N] /\ h[N] = f[N]
      <4>1. N \in 1 .. N
        BY <1>1, <2>2
      <4> HIDE DEF c, N, T, Eq
      <4>2. N \in S
        <5> HIDE DEF S
        <5> QED  BY <1>1, <3>7
      <4> QED  BY <2>2, <4>1, <4>2
    <3> QED  BY <3>1, <3>8
  <2> QED  BY <2>1, <2>2
<1> QED  BY <1>2, <1>3, <1>4

(* What holds of nothing, and still holds when block number i is put behind    *)
(* both, holds of two sequences flattened side by side.                        *)
LEMMA FlattenTwo ==
    ASSUME NEW a, NEW b, IsSeq(a), IsSeq(b), Len(a) = Len(b),
           \A i \in 1 .. Len(a) : IsSeq(a[i]) /\ IsSeq(b[i]),
           NEW P, <<<<>>, <<>>>> \in P[0],
           \A i \in 1 .. Len(a) : \A s, t :
              <<s, t>> \in P[i - 1] => <<s \o a[i], t \o b[i]>> \in P[i]
    PROVE  <<FlattenSeq(a), FlattenSeq(b)>> \in P[Len(a)]
<1> DEFINE A == Seq(UNION {ToSet(a[i]) : i \in 1 .. Len(a)})
           B == Seq(UNION {ToSet(b[i]) : i \in 1 .. Len(b)})
<1>1. PICK f \in [0 .. Len(a) -> A] :
         f[0] = <<>> /\ (\A k \in 1 .. Len(a) : f[k] = f[k - 1] \o a[k]) /\ f[Len(a)] = FlattenSeq(a)
  BY FlattenSteps
<1>2. PICK g \in [0 .. Len(b) -> B] :
         g[0] = <<>> /\ (\A k \in 1 .. Len(b) : g[k] = g[k - 1] \o b[k]) /\ g[Len(b)] = FlattenSeq(b)
  BY FlattenSteps
<1> DEFINE S == {k \in 0 .. Len(a) : <<f[k], g[k]>> \in P[k]}
<1> HIDE DEF A, B
<1>3. Len(a) \in Nat
  BY DEF IsSeq
<1>4. 0 \in S
  <2>1. <<f[0], g[0]>> \in P[0]
    BY <1>1, <1>2, Zenon
  <2>2. 0 \in 0 .. Len(a)
    BY <1>3
  <2> QED  BY <2>1, <2>2, Zenon
<1>5. ASSUME NEW k \in 1 .. Len(a), k - 1 \in S PROVE k \in S
  <2>1. f[k] = f[k - 1] \o a[k] /\ g[k] = g[k - 1] \o b[k] /\ <<f[k - 1], g[k - 1]>> \in P[k - 1]
    BY <1>1, <1>2, <1>5
  <2>2. <<f[k], g[k]>> \in P[k]
    BY <2>1
  <2> QED  BY <1>3, <2>2
<1>6. \A k \in 0 .. Len(a) : k \in S
  <2> HIDE DEF S
  <2> QED  BY <1>3, <1>4, <1>5, NatInduct
<1> QED  BY <1>1, <1>2, <1>3, <1>6

\* The same for one sequence
LEMMA FlattenInduct ==
    ASSUME NEW ss, IsSeq(ss), \A i \in 1 .. Len(ss) : IsSeq(ss[i]),
           NEW P, <<>> \in P[0],
           \A i \in 1 .. Len(ss) : \A s \in P[i - 1] : s \o ss[i] \in P[i]
    PROVE  FlattenSeq(ss) \in P[Len(ss)]
<1> DEFINE A == Seq(UNION {ToSet(ss[i]) : i \in 1 .. Len(ss)})
<1>1. PICK f \in [0 .. Len(ss) -> A] :
         f[0] = <<>> /\ (\A k \in 1 .. Len(ss) : f[k] = f[k - 1] \o ss[k]) /\ f[Len(ss)] = FlattenSeq(ss)
  BY FlattenSteps
<1> DEFINE S == {k \in 0 .. Len(ss) : f[k] \in P[k]}
<1> HIDE DEF A
<1>3. Len(ss) \in Nat
  BY DEF IsSeq
<1>4. 0 \in S
  BY <1>1, <1>3
<1>5. ASSUME NEW k \in 1 .. Len(ss), k - 1 \in S PROVE k \in S
  <2>1. f[k] = f[k - 1] \o ss[k] /\ f[k - 1] \in P[k - 1]
    BY <1>1, <1>5
  <2>2. f[k] \in P[k]
    BY <2>1
  <2> QED  BY <1>3, <2>2
<1>6. \A k \in 0 .. Len(ss) : k \in S
  <2> HIDE DEF S
  <2> QED  BY <1>3, <1>4, <1>5, NatInduct
<1> QED  BY <1>1, <1>3, <1>6

\* Nothing is lost, and nothing added.
LEMMA FlattenFacts ==
    ASSUME NEW ss, IsSeq(ss), \A i \in 1 .. Len(ss) : IsSeq(ss[i])
    PROVE  /\ IsSeq(FlattenSeq(ss))
           /\ ToSet(FlattenSeq(ss)) = UNION {ToSet(ss[i]) : i \in 1 .. Len(ss)}
<1> DEFINE Upto(k) == UNION {ToSet(ss[i]) : i \in 1 .. k}
           P == [k \in 0 .. Len(ss) |-> {s \in Seq(Upto(Len(ss))) : ToSet(s) = Upto(k)}]
<1>1. Len(ss) \in Nat
  BY SeqFacts
<1>2. <<>> \in P[0]
  BY <1>1, EmptyIsSeq
<1>3. ASSUME NEW k \in 1 .. Len(ss), NEW s \in P[k - 1] PROVE s \o ss[k] \in P[k]
  <2>1. IsSeq(s) /\ ToSet(s) = Upto(k - 1) /\ IsSeq(ss[k])
    BY <1>1, <1>3, SeqIsSeq
  <2>2. IsSeq(s \o ss[k]) /\ ToSet(s \o ss[k]) = Upto(k - 1) \cup ToSet(ss[k])
    BY <2>1, ConcatFacts
  <2>3. Upto(k - 1) \cup ToSet(ss[k]) = Upto(k) /\ Upto(k) \subseteq Upto(Len(ss))
    <3>1. 1 .. k = (1 .. k - 1) \cup {k} /\ 1 .. k \subseteq 1 .. Len(ss)
      BY <1>1
    <3> QED  BY <3>1
  <2>4. s \o ss[k] \in Seq(Upto(Len(ss)))
    <3> HIDE DEF Upto
    <3> QED  BY <2>2, <2>3, IsSeqOf
  <2>5. k \in 0 .. Len(ss) /\ ToSet(s \o ss[k]) = Upto(k)
    <3> HIDE DEF Upto, P
    <3> QED  BY <1>1, <2>2, <2>3
  <2> HIDE DEF Upto
  <2> QED  BY <2>4, <2>5
<1>4. FlattenSeq(ss) \in P[Len(ss)]
  <2> HIDE DEF P
  <2> QED  BY <1>2, <1>3, FlattenInduct
<1>5. FlattenSeq(ss) \in Seq(Upto(Len(ss))) /\ ToSet(FlattenSeq(ss)) = Upto(Len(ss))
  <2> HIDE DEF Upto
  <2> QED  BY <1>1, <1>4
<1> QED  BY <1>5, SeqIsSeq

\* Blocks of two
LEMMA FlattenPairs ==
    ASSUME NEW ss, IsSeq(ss), \A i \in 1 .. Len(ss) : IsSeq(ss[i]) /\ Len(ss[i]) = 2
    PROVE  /\ Len(FlattenSeq(ss)) = 2 * Len(ss)
           /\ \A i \in 1 .. Len(ss) : /\ FlattenSeq(ss)[2 * i - 1] = ss[i][1]
                                      /\ FlattenSeq(ss)[2 * i] = ss[i][2]
<1> DEFINE T == UNION {ToSet(ss[i]) : i \in 1 .. Len(ss)}
           Is(s, k) == Len(s) = 2 * k /\ \A i \in 1 .. k : s[2 * i - 1] = ss[i][1] /\ s[2 * i] = ss[i][2]
           P == [k \in 0 .. Len(ss) |-> {s \in Seq(T) : Is(s, k)}]
<1>1. Len(ss) \in Nat /\ \A i \in 1 .. Len(ss) : ToSet(ss[i]) \subseteq T
  BY SeqFacts
<1> HIDE DEF T
<1>2. <<>> \in P[0]
  BY <1>1
<1>3. ASSUME NEW k \in 1 .. Len(ss), NEW s \in P[k - 1] PROVE s \o ss[k] \in P[k]
  <2>1. s \in Seq(T) /\ Is(s, k - 1)
    BY <1>1, <1>3
  <2> HIDE DEF P
  <2>2. ss[k] \in Seq(T) /\ IsSeq(s) /\ IsSeq(ss[k]) /\ Len(ss[k]) = 2
    BY <1>1, <2>1, IsSeqOf, SeqIsSeq
  <2>3. s \o ss[k] \in Seq(T)
    BY <2>1, <2>2
  <2>4. /\ Len(s \o ss[k]) = Len(s) + 2
        /\ \A i \in 1 .. Len(s) : (s \o ss[k])[i] = s[i]
        /\ (s \o ss[k])[Len(s) + 1] = ss[k][1] /\ (s \o ss[k])[Len(s) + 2] = ss[k][2]
    <3>1. /\ Len(s \o ss[k]) = Len(s) + Len(ss[k])
          /\ \A i \in 1 .. Len(s) : (s \o ss[k])[i] = s[i]
          /\ \A i \in 1 .. Len(ss[k]) : (s \o ss[k])[Len(s) + i] = ss[k][i]
      <4>1. ASSUME NEW b, b = ss[k], IsSeq(b)
            PROVE  /\ Len(s \o b) = Len(s) + Len(b)
                   /\ \A i \in 1 .. Len(s) : (s \o b)[i] = s[i]
                   /\ \A i \in 1 .. Len(b) : (s \o b)[Len(s) + i] = b[i]
        BY <2>2, <4>1, ConcatFacts
      <4> QED  BY <2>2, <4>1
    <3>2. 1 \in 1 .. Len(ss[k]) /\ 2 \in 1 .. Len(ss[k])
      BY <2>2
    <3> QED  BY <2>2, <3>1, <3>2
  <2> DEFINE t == s \o ss[k]
  <2> HIDE DEF t
  <2>5. ASSUME NEW i \in 1 .. k PROVE t[2 * i - 1] = ss[i][1] /\ t[2 * i] = ss[i][2]
    <3>1. CASE i = k
      <4>1. 2 * i - 1 = Len(s) + 1 /\ 2 * i = Len(s) + 2
        BY <1>1, <2>1, <3>1
      <4> QED  BY <2>4, <3>1, <4>1 DEF t
    <3>2. CASE i # k
      <4>1. i \in 1 .. k - 1 /\ 2 * i - 1 \in 1 .. Len(s) /\ 2 * i \in 1 .. Len(s)
        BY <1>1, <2>1, <3>2
      <4> QED  BY <2>1, <2>4, <4>1 DEF t
    <3> QED  BY <3>1, <3>2
  <2>6. Is(t, k)
    <3>1. Len(t) = 2 * k
      BY <1>1, <2>1, <2>4 DEF t
    <3> QED  BY <2>5, <3>1
  <2>7. t \in Seq(T) /\ k \in 0 .. Len(ss)
    BY <1>1, <2>3 DEF t
  <2> HIDE DEF Is
  <2>8. t \in P[k]
    BY <2>6, <2>7 DEF P
  <2> QED  BY <2>8 DEF t
<1>4. FlattenSeq(ss) \in P[Len(ss)]
  <2> HIDE DEF P
  <2>1. \A i \in 1 .. Len(ss) : IsSeq(ss[i])
    OBVIOUS
  <2> QED  BY <1>2, <1>3, <2>1, FlattenInduct
<1>5. Is(FlattenSeq(ss), Len(ss))
  <2> HIDE DEF Is
  <2> QED  BY <1>1, <1>4
<1> QED  BY <1>5

\* Of two sequences that begin the same one, one begins the other.
LEMMA PrefixesMeet ==
    ASSUME NEW p, NEW q, NEW s, NEW t, IsSeq(p), IsSeq(q), IsSeq(s), IsSeq(t), p \o s = q \o t
    PROVE  /\ IsPrefix(p, q) \/ IsPrefix(q, p)
           /\ p = q => s = t
<1> DEFINE Same(a, b) == Len(a) <= Len(b) /\ \A i \in 1 .. Len(a) : a[i] = b[i]
<1>1. Len(p) \in Nat /\ Len(q) \in Nat /\ Len(s) \in Nat /\ Len(t) \in Nat
  BY SeqFacts
<1>2. ASSUME NEW a, NEW b, IsSeq(a), IsSeq(b), Same(a, b)
      PROVE  IsPrefix(a, b)
  <2>1. a \in Seq(ToSet(a) \cup ToSet(b)) /\ b \in Seq(ToSet(a) \cup ToSet(b))
    BY <1>2, IsSeqOf
  <2> QED  BY <1>2, <2>1 DEF IsPrefix
<1>3. /\ \A i \in 1 .. Len(p) : (p \o s)[i] = p[i]
      /\ \A i \in 1 .. Len(q) : (q \o t)[i] = q[i]
  BY ConcatFacts
<1>4. Same(p, q) \/ Same(q, p)
  BY <1>1, <1>3
<1>5. ASSUME p = q PROVE s = t
  <2>1. Len(s) = Len(t)
    BY <1>1, <1>5, ConcatFacts
  <2>2. ASSUME NEW i \in 1 .. Len(s) PROVE s[i] = t[i]
    <3>1. (p \o s)[Len(p) + i] = s[i] /\ (q \o t)[Len(q) + i] = t[i]
      BY <2>1, ConcatFacts
    <3> QED  BY <1>5, <3>1
  <2>3. s \in Seq(ToSet(s) \cup ToSet(t)) /\ t \in Seq(ToSet(s) \cup ToSet(t))
    BY IsSeqOf
  <2> QED  BY <2>1, <2>2, <2>3
<1> HIDE DEF Same
<1> QED  BY <1>2, <1>4, <1>5

LEMMA ThreeIsSeq ==
    ASSUME NEW x, NEW y, NEW z
    PROVE  /\ IsSeq(<<x, y, z>>) /\ Len(<<x, y, z>>) = 3
           /\ <<x, y, z>>[1] = x /\ <<x, y, z>>[2] = y /\ <<x, y, z>>[3] = z
<1>1. <<x, y, z>> \in Seq({x, y, z})
  OBVIOUS
<1> QED  BY <1>1, SeqIsSeq

\* t is s and then x.
Appended(s, x, t) ==
    /\ IsSeq(t) /\ Len(t) = Len(s) + 1 /\ t[Len(s) + 1] = x
    /\ \A i \in 1 .. Len(s) : t[i] = s[i]

\* Append does so.
LEMMA AppendFacts == ASSUME NEW s, IsSeq(s), NEW x PROVE Appended(s, x, Append(s, x))
<1> DEFINE T == ToSet(s) \cup {x}
           t == Append(s, x)
<1>1. s \in Seq(T) /\ x \in T
  BY IsSeqOf
<1> HIDE DEF T
<1>2. t \in Seq(T) /\ Len(t) = Len(s) + 1 /\ t[Len(s) + 1] = x /\ \A i \in 1 .. Len(s) : t[i] = s[i]
  BY <1>1
<1> HIDE DEF t
<1>3. IsSeq(t)
  BY <1>2, SeqIsSeq
<1>4. Appended(s, x, t)
  BY <1>2, <1>3 DEF Appended
<1> QED  BY <1>4 DEF t
================================================================================
