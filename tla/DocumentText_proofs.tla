------------------------- MODULE DocumentText_proofs -------------------------
(***************************************************************************)
(* Theorems about DocumentText, for any documents, texts and likeness.     *)
(***************************************************************************)
EXTENDS DocumentText, SequenceTheorems, WellFoundedInduction, TLAPS

(***************************************************************************)
(* Induction. A set of numbers with 0 and all successors has no least      *)
(* number left out; a set of sequences with the empty one that is closed   *)
(* under Append has none left out.                                         *)
(***************************************************************************)
LEMMA Induct ==
    ASSUME NEW S, 0 \in S, \A n \in Nat : n \in S => n + 1 \in S
    PROVE  Nat \subseteq S
<1> SUFFICES ASSUME NEW k \in Nat, k \notin S
             PROVE  FALSE
    OBVIOUS
<1> DEFINE Rest == {n \in Nat : n \notin S}
<1>1. PICK m \in Rest : \A n \in Rest : <<n, m>> \notin OpToRel(<, Nat)
    <2>1. Rest \subseteq Nat /\ Rest # {}
        OBVIOUS
    <2> QED BY <2>1, NatLessThanWellFounded, WFMin
<1>2. \A n \in Rest : ~(n < m)
    BY <1>1 DEF OpToRel
<1>3. m \in Nat /\ m # 0 /\ m \notin S
    OBVIOUS
<1>4. m - 1 \in Nat /\ m - 1 < m /\ (m - 1) + 1 = m
    BY <1>3
<1>5. m - 1 \in S
    BY <1>2, <1>4
<1> QED BY <1>3, <1>4, <1>5

LEMMA InductSeq ==
    ASSUME NEW T, NEW P, <<>> \in P,
           \A s \in Seq(T), e \in T : s \in P => Append(s, e) \in P
    PROVE  Seq(T) \subseteq P
<1> DEFINE S == {n \in Nat : \A s \in Seq(T) : Len(s) = n => s \in P}
<1>1. 0 \in S
    BY EmptySeq
<1>2. ASSUME NEW n \in Nat, n \in S
      PROVE  n + 1 \in S
    <2> SUFFICES ASSUME NEW s \in Seq(T), Len(s) = n + 1
                 PROVE  s \in P
        OBVIOUS
    <2>1. PICK t \in Seq(T), e \in T : s = Append(t, e)
        <3>1. s # <<>>
            BY EmptySeq
        <3> QED BY <3>1, SequenceEmptyOrAppend
    <2>2. Len(t) \in Nat /\ Len(s) = Len(t) + 1
        BY <2>1, AppendProperties, LenProperties
    <2>3. Len(t) = n
        BY <2>2
    <2>4. t \in P
        BY <1>2, <2>3
    <2> QED BY <2>1, <2>4
<1>3. Nat \subseteq S
    <2> HIDE DEF S
    <2> QED BY <1>1, <1>2, Induct
<1>4. ASSUME NEW s \in Seq(T)
      PROVE  s \in P
    <2>1. Len(s) \in S
        BY <1>3, LenProperties
    <2> QED BY <2>1
<1> QED BY <1>4

(* A function on 0..n can be given by its first value and by steps.        *)
Follows(f, b, g, n, T) ==
    f \in [0..n -> T] /\ f[0] = b /\ \A k \in 1..n : f[k] = g[k][f[k - 1]]
LEMMA Recursion ==
    ASSUME NEW T, NEW b \in T, NEW n \in Nat, NEW g \in [1..n -> [T -> T]]
    PROVE  \E f : Follows(f, b, g, n, T)
<1> DEFINE Good(f, m) == Follows(f, b, g, m, T)
           S == {m \in Nat : m <= n => \E f : Good(f, m)}
<1>1. 0 \in S
    <2> DEFINE f == [k \in 0..0 |-> b]
    <2>1. Good(f, 0)
        BY DEF Follows
    <2> QED BY <2>1
<1>2. ASSUME NEW m \in Nat, m \in S
      PROVE  m + 1 \in S
    <2> SUFFICES ASSUME m + 1 <= n
                 PROVE  \E h : Good(h, m + 1)
        OBVIOUS
    <2>1. PICK f : Good(f, m)
        BY <1>2
    <2> DEFINE h == [k \in 0..(m + 1) |-> IF k <= m THEN f[k] ELSE g[m + 1][f[m]]]
    <2>2. f[m] \in T /\ m + 1 \in 1..n
        BY <2>1 DEF Follows
    <2>3. g[m + 1][f[m]] \in T
        BY <2>2
    <2>4. h \in [0..(m + 1) -> T] /\ h[0] = b
        BY <2>1, <2>3 DEF Follows
    <2>5. ASSUME NEW k \in 1..(m + 1)
          PROVE  h[k] = g[k][h[k - 1]]
        <3>1. k - 1 \in 0..(m + 1) /\ k - 1 <= m /\ k \in 0..(m + 1)
            OBVIOUS
        <3>2. h[k - 1] = f[k - 1]
            BY <3>1
        <3>3. CASE k <= m
            <4>1. k \in 1..m /\ h[k] = f[k]
                BY <3>1, <3>3
            <4> QED BY <2>1, <3>2, <4>1 DEF Follows
        <3>4. CASE ~(k <= m)
            <4>1. k = m + 1 /\ h[k] = g[m + 1][f[m]] /\ k - 1 = m
                BY <3>1, <3>4
            <4> QED BY <3>2, <4>1
        <3> QED BY <3>3, <3>4
    <2> HIDE DEF h
    <2>6. Good(h, m + 1)
        BY <2>4, <2>5 DEF Follows
    <2> QED BY <2>6
<1> HIDE DEF S
<1>3. Nat \subseteq S
    BY <1>1, <1>2, Induct
<1>4. n \in S
    BY <1>3
<1> QED BY <1>4 DEF S

(***************************************************************************)
(* Keep.                                                                   *)
(***************************************************************************)
IsKept(f, s, K) ==
    f = [n \in 0..Len(s) |->
            IF n = 0 THEN <<>>
            ELSE IF s[n] \in K THEN Append(f[n - 1], s[n]) ELSE f[n - 1]]

KeptBy(f, s, K, T) ==
    /\ f \in [0..Len(s) -> Seq(T)] /\ f[0] = <<>> /\ Keep(s, K) = f[Len(s)]
    /\ \A k \in 1..Len(s) : s[k] \in K => f[k] = Append(f[k - 1], s[k])
    /\ \A k \in 1..Len(s) : s[k] \notin K => f[k] = f[k - 1]

(* Keep is what its recursive function says.                               *)
LEMMA KeepIs ==
    ASSUME NEW T, NEW s \in Seq(T), NEW K
    PROVE  \E f : KeptBy(f, s, K, T)
<1> DEFINE n == Len(s)
           g == [k \in 1..n |-> [t \in Seq(T) |-> IF s[k] \in K THEN Append(t, s[k]) ELSE t]]
<1>1. n \in Nat /\ \A k \in 1..n : s[k] \in T
    BY LenProperties, ElementOfSeq
<1>2. g \in [1..n -> [Seq(T) -> Seq(T)]] /\ <<>> \in Seq(T)
    BY <1>1, AppendProperties, EmptySeq
<1>3. \A k \in 1..n, t \in Seq(T) :
         /\ s[k] \in K => g[k][t] = Append(t, s[k])
         /\ s[k] \notin K => g[k][t] = t
    OBVIOUS
<1> HIDE DEF g, n
<1> PICK f : Follows(f, <<>>, g, n, Seq(T))
    BY <1>1, <1>2, Recursion
<1>4. f \in [0..n -> Seq(T)] /\ f[0] = <<>> /\ \A k \in 1..n : f[k] = g[k][f[k - 1]]
    BY DEF Follows
<1>5. ASSUME NEW k \in 1..n
      PROVE  /\ s[k] \in K => f[k] = Append(f[k - 1], s[k])
             /\ s[k] \notin K => f[k] = f[k - 1]
    <2>1. k - 1 \in 0..n
        BY <1>1
    <2> QED BY <1>3, <1>4, <2>1
<1>6. f = [k \in 0..n |-> IF k = 0 THEN <<>>
                          ELSE IF s[k] \in K THEN Append(f[k - 1], s[k]) ELSE f[k - 1]]
    <2>1. ASSUME NEW k \in 0..n, k # 0
          PROVE  k \in 1..n
        BY <1>1, <2>1
    <2> QED BY <1>4, <1>5, <2>1
<1>7. IsKept(f, s, K)
    BY <1>6 DEF IsKept, n
<1> DEFINE h == CHOOSE v : IsKept(v, s, K)
<1>8. Keep(s, K) = h[n]
    BY DEF Keep, IsKept, n
<1>9. IsKept(h, s, K)
    BY <1>7
<1> HIDE DEF h
<1>10. h[0] = <<>>
    BY <1>1, <1>9 DEF IsKept, n
<1>11. ASSUME NEW k \in 1..n
       PROVE  h[k] = IF s[k] \in K THEN Append(h[k - 1], s[k]) ELSE h[k - 1]
    <2>1. k \in 0..n /\ k # 0
        BY <1>1
    <2> QED BY <1>9, <2>1 DEF IsKept, n
<1> DEFINE S == {k \in Nat : k <= n => h[k] = f[k]}
<1>12. 0 \in S
    BY <1>4, <1>10
<1>13. ASSUME NEW k \in Nat, k \in S
       PROVE  k + 1 \in S
    <2> SUFFICES ASSUME k + 1 <= n
                 PROVE  h[k + 1] = f[k + 1]
        OBVIOUS
    <2>1. k + 1 \in 1..n /\ (k + 1) - 1 = k /\ h[k] = f[k]
        BY <1>1, <1>13
    <2> QED BY <1>5, <1>11, <2>1
<1>14. Nat \subseteq S
    <2> HIDE DEF S
    <2> QED BY <1>12, <1>13, Induct
<1>15. h[n] = f[n]
    BY <1>1, <1>14
<1> QED BY <1>4, <1>5, <1>8, <1>15 DEF KeptBy, n

LEMMA KeepEmpty == \A K : Keep(<<>>, K) = <<>>
<1> TAKE K
<1>1. <<>> \in Seq({}) /\ Len(<<>>) = 0
    BY EmptySeq
<1>2. PICK f : KeptBy(f, <<>>, K, {})
    BY <1>1, KeepIs
<1> QED BY <1>1, <1>2 DEF KeptBy

LEMMA KeepTyped ==
    ASSUME NEW T, NEW s \in Seq(T), NEW K
    PROVE  Keep(s, K) \in Seq(T)
<1>1. Len(s) \in Nat
    BY LenProperties
<1>2. PICK f : KeptBy(f, s, K, T)
    BY KeepIs
<1> QED BY <1>1, <1>2 DEF KeptBy

(* One member more is kept or not.                                         *)
LEMMA KeepAppend ==
    ASSUME NEW T, NEW s \in Seq(T), NEW e \in T, NEW K
    PROVE  /\ e \in K => Keep(Append(s, e), K) = Append(Keep(s, K), e)
           /\ e \notin K => Keep(Append(s, e), K) = Keep(s, K)
<1> DEFINE t == Append(s, e)
           n == Len(s)
<1>1. n \in Nat /\ t \in Seq(T) /\ Len(t) = n + 1 /\ t[n + 1] = e
      /\ \A i \in 1..n : t[i] = s[i]
    BY LenProperties, AppendProperties
<1> HIDE DEF t
<1>2. PICK f : KeptBy(f, s, K, T)
    BY KeepIs
<1>3. PICK g : KeptBy(g, t, K, T)
    BY <1>1, KeepIs
<1> DEFINE S == {k \in Nat : k <= n => g[k] = f[k]}
<1>4. 0 \in S
    BY <1>2, <1>3 DEF KeptBy
<1>5. ASSUME NEW k \in Nat, k \in S
      PROVE  k + 1 \in S
    <2> SUFFICES ASSUME k + 1 <= n
                 PROVE  g[k + 1] = f[k + 1]
        OBVIOUS
    <2>1. k + 1 \in 1..n /\ k + 1 \in 1..Len(t) /\ (k + 1) - 1 = k /\ g[k] = f[k]
        BY <1>1, <1>5
    <2>2. t[k + 1] = s[k + 1]
        BY <1>1, <2>1
    <2> QED BY <1>2, <1>3, <2>1, <2>2 DEF KeptBy
<1>6. Nat \subseteq S
    <2> HIDE DEF S
    <2> QED BY <1>4, <1>5, Induct
<1>7. g[n] = f[n]
    BY <1>1, <1>6
<1>8. n + 1 \in 1..Len(t) /\ (n + 1) - 1 = n
    BY <1>1
<1>9. Keep(t, K) = g[n + 1] /\ Keep(s, K) = f[n]
    BY <1>1, <1>2, <1>3 DEF KeptBy
<1>10. /\ e \in K => g[n + 1] = Append(g[n], e)
       /\ e \notin K => g[n + 1] = g[n]
    BY <1>1, <1>3, <1>8 DEF KeptBy
<1> QED BY <1>7, <1>9, <1>10 DEF t

(***************************************************************************)
(* Two sequences in a row, and one member: names the provers do not look   *)
(* into where the facts below suffice.                                     *)
(***************************************************************************)
Cat(s, t) == s \o t
One(e) == <<e>>

LEMMA CatIs ==
    ASSUME NEW T, NEW s \in Seq(T), NEW t \in Seq(T)
    PROVE  /\ Cat(s, t) \in Seq(T) /\ Len(Cat(s, t)) = Len(s) + Len(t)
           /\ \A i \in 1..Len(s) : Cat(s, t)[i] = s[i]
           /\ \A i \in 1..Len(t) : Cat(s, t)[Len(s) + i] = t[i]
<1>1. Len(s) \in Nat /\ Len(t) \in Nat
    BY LenProperties
<1>2. /\ s \o t \in Seq(T)
      /\ Len(s \o t) = Len(s) + Len(t)
      /\ \A i \in 1..(Len(s) + Len(t)) :
            (s \o t)[i] = IF i <= Len(s) THEN s[i] ELSE t[i - Len(s)]
    BY ConcatProperties
<1>3. \A i \in 1..Len(s) : i \in 1..(Len(s) + Len(t)) /\ i <= Len(s)
    BY <1>1
<1>4. \A i \in 1..Len(t) : /\ Len(s) + i \in 1..(Len(s) + Len(t)) /\ ~(Len(s) + i <= Len(s))
                           /\ (Len(s) + i) - Len(s) = i
    BY <1>1
<1> QED BY <1>2, <1>3, <1>4 DEF Cat

LEMMA CatEmpty ==
    ASSUME NEW T, NEW s \in Seq(T)
    PROVE  Cat(s, <<>>) = s /\ Cat(<<>>, s) = s
BY ConcatEmptySeq DEF Cat

LEMMA CatThree ==
    ASSUME NEW T, NEW s \in Seq(T), NEW t \in Seq(T), NEW u \in Seq(T)
    PROVE  Cat(Cat(s, t), u) = Cat(s, Cat(t, u))
BY ConcatAssociative DEF Cat

LEMMA OneIs ==
    ASSUME NEW T, NEW e \in T
    PROVE  One(e) \in Seq(T) /\ Len(One(e)) = 1 /\ One(e)[1] = e
BY DEF One

LEMMA AppendIs ==
    ASSUME NEW T, NEW s \in Seq(T), NEW e \in T
    PROVE  Append(s, e) = Cat(s, One(e)) /\ Append(s, e) \in Seq(T)
BY AppendIsConcat, AppendProperties DEF Cat, One

(* A sequence and one member more.                                         *)
LEMMA CatOne ==
    ASSUME NEW T, NEW s \in Seq(T), NEW e \in T
    PROVE  /\ Cat(s, One(e)) \in Seq(T) /\ Len(Cat(s, One(e))) = Len(s) + 1
           /\ \A i \in 1..Len(s) : Cat(s, One(e))[i] = s[i]
           /\ Cat(s, One(e))[Len(s) + 1] = e
<1>1. Append(s, e) = Cat(s, One(e))
    BY AppendIs
<1>2. /\ Append(s, e) \in Seq(T) /\ Len(Append(s, e)) = Len(s) + 1
      /\ \A i \in 1..Len(s) : Append(s, e)[i] = s[i]
      /\ Append(s, e)[Len(s) + 1] = e
    BY AppendProperties
<1> QED BY <1>1, <1>2

(* Appending to the second of two.                                         *)
LEMMA CatAppend ==
    ASSUME NEW T, NEW s \in Seq(T), NEW t \in Seq(T), NEW e \in T
    PROVE  Cat(s, Append(t, e)) = Append(Cat(s, t), e)
<1>1. One(e) \in Seq(T) /\ Append(t, e) = Cat(t, One(e))
    BY OneIs, AppendIs
<1>2. Cat(s, t) \in Seq(T)
    BY CatIs
<1>3. Append(Cat(s, t), e) = Cat(Cat(s, t), One(e))
    BY <1>2, AppendIs
<1> QED BY <1>1, <1>3, CatThree

(* What is kept of two sequences, one after the other.                     *)
LEMMA KeepCat ==
    ASSUME NEW T, NEW s \in Seq(T), NEW t \in Seq(T), NEW K
    PROVE  Keep(Cat(s, t), K) = Cat(Keep(s, K), Keep(t, K))
<1> DEFINE P == {u \in Seq(T) : Keep(Cat(s, u), K) = Cat(Keep(s, K), Keep(u, K))}
<1>1. <<>> \in P
    BY EmptySeq, CatEmpty, KeepEmpty, KeepTyped
<1>2. ASSUME NEW u \in Seq(T), NEW e \in T, u \in P
      PROVE  Append(u, e) \in P
    <2>1. Cat(s, u) \in Seq(T) /\ Append(u, e) \in Seq(T)
        BY CatIs, AppendProperties
    <2>2. Cat(s, Append(u, e)) = Append(Cat(s, u), e)
        BY CatAppend
    <2>3. Keep(s, K) \in Seq(T) /\ Keep(u, K) \in Seq(T)
        BY KeepTyped
    <2>4. CASE e \in K
        <3>1. Keep(Append(Cat(s, u), e), K) = Append(Keep(Cat(s, u), K), e)
            BY <2>1, <2>4, KeepAppend
        <3>2. Keep(Append(u, e), K) = Append(Keep(u, K), e)
            BY <2>4, KeepAppend
        <3>3. Cat(Keep(s, K), Append(Keep(u, K), e)) = Append(Cat(Keep(s, K), Keep(u, K)), e)
            BY <2>3, CatAppend
        <3> QED BY <1>2, <2>1, <2>2, <3>1, <3>2, <3>3
    <2>5. CASE e \notin K
        <3>1. Keep(Append(Cat(s, u), e), K) = Keep(Cat(s, u), K)
            BY <2>1, <2>5, KeepAppend
        <3>2. Keep(Append(u, e), K) = Keep(u, K)
            BY <2>5, KeepAppend
        <3> QED BY <1>2, <2>1, <2>2, <3>1, <3>2
    <2> QED BY <2>4, <2>5
<1>3. Seq(T) \subseteq P
    <2> HIDE DEF P
    <2> QED BY <1>1, <1>2, InductSeq
<1> QED BY <1>3

(* What is kept of one member.                                             *)
LEMMA KeepOne ==
    ASSUME NEW T, NEW e \in T, NEW K
    PROVE  /\ e \in K => Keep(One(e), K) = One(e)
           /\ e \notin K => Keep(One(e), K) = <<>>
<1>1. <<>> \in Seq(T) /\ One(e) = Append(<<>>, e)
    BY EmptySeq DEF One
<1>2. /\ e \in K => Keep(Append(<<>>, e), K) = Append(Keep(<<>>, K), e)
      /\ e \notin K => Keep(Append(<<>>, e), K) = Keep(<<>>, K)
    BY <1>1, KeepAppend
<1>3. Keep(<<>>, K) = <<>>
    BY KeepEmpty
<1> QED BY <1>1, <1>2, <1>3

(* All members are kept if all are in the set, none if none is; what is    *)
(* kept is in the set.                                                     *)
LEMMA KeepAll ==
    ASSUME NEW T, NEW s \in Seq(T), NEW K, \A i \in 1..Len(s) : s[i] \in K
    PROVE  Keep(s, K) = s
<1> DEFINE P == {u \in Seq(T) : (\A i \in 1..Len(u) : u[i] \in K) => Keep(u, K) = u}
<1>1. <<>> \in P
    BY EmptySeq, KeepEmpty
<1>2. ASSUME NEW u \in Seq(T), NEW e \in T, u \in P
      PROVE  Append(u, e) \in P
    <2>1. /\ Append(u, e) \in Seq(T) /\ Len(Append(u, e)) = Len(u) + 1 /\ Len(u) \in Nat
          /\ \A i \in 1..Len(u) : Append(u, e)[i] = u[i]
          /\ Append(u, e)[Len(u) + 1] = e
        BY AppendProperties, LenProperties
    <2> SUFFICES ASSUME \A i \in 1..Len(Append(u, e)) : Append(u, e)[i] \in K
                 PROVE  Keep(Append(u, e), K) = Append(u, e)
        BY <2>1
    <2>2. \A i \in 1..Len(u) : i \in 1..Len(Append(u, e))
        BY <2>1
    <2>3. \A i \in 1..Len(u) : u[i] \in K
        BY <2>1, <2>2
    <2>4. e \in K
        <3>1. Len(u) + 1 \in 1..Len(Append(u, e))
            BY <2>1
        <3> QED BY <2>1, <3>1
    <2> QED BY <1>2, <2>3, <2>4, KeepAppend
<1>3. Seq(T) \subseteq P
    <2> HIDE DEF P
    <2> QED BY <1>1, <1>2, InductSeq
<1> QED BY <1>3

LEMMA KeepNone ==
    ASSUME NEW T, NEW s \in Seq(T), NEW K, \A i \in 1..Len(s) : s[i] \notin K
    PROVE  Keep(s, K) = <<>>
<1> DEFINE P == {u \in Seq(T) : (\A i \in 1..Len(u) : u[i] \notin K) => Keep(u, K) = <<>>}
<1>1. <<>> \in P
    BY EmptySeq, KeepEmpty
<1>2. ASSUME NEW u \in Seq(T), NEW e \in T, u \in P
      PROVE  Append(u, e) \in P
    <2>1. /\ Append(u, e) \in Seq(T) /\ Len(Append(u, e)) = Len(u) + 1 /\ Len(u) \in Nat
          /\ \A i \in 1..Len(u) : Append(u, e)[i] = u[i]
          /\ Append(u, e)[Len(u) + 1] = e
        BY AppendProperties, LenProperties
    <2> SUFFICES ASSUME \A i \in 1..Len(Append(u, e)) : Append(u, e)[i] \notin K
                 PROVE  Keep(Append(u, e), K) = <<>>
        BY <2>1
    <2>2. \A i \in 1..Len(u) : i \in 1..Len(Append(u, e))
        BY <2>1
    <2>3. \A i \in 1..Len(u) : u[i] \notin K
        BY <2>1, <2>2
    <2>4. e \notin K
        <3>1. Len(u) + 1 \in 1..Len(Append(u, e))
            BY <2>1
        <3> QED BY <2>1, <3>1
    <2> QED BY <1>2, <2>3, <2>4, KeepAppend
<1>3. Seq(T) \subseteq P
    <2> HIDE DEF P
    <2> QED BY <1>1, <1>2, InductSeq
<1> QED BY <1>3

LEMMA KeepIn ==
    ASSUME NEW T, NEW s \in Seq(T), NEW K
    PROVE  Keep(s, K) \in Seq(T \cap K)
<1> DEFINE P == {u \in Seq(T) : Keep(u, K) \in Seq(T \cap K)}
<1>1. <<>> \in P
    BY EmptySeq, KeepEmpty
<1>2. ASSUME NEW u \in Seq(T), NEW e \in T, u \in P
      PROVE  Append(u, e) \in P
    <2>1. Append(u, e) \in Seq(T)
        BY AppendProperties
    <2>2. CASE e \in K
        <3>1. Keep(Append(u, e), K) = Append(Keep(u, K), e) /\ e \in T \cap K
            BY <2>2, KeepAppend
        <3>2. Append(Keep(u, K), e) \in Seq(T \cap K)
            BY <1>2, <3>1, AppendProperties
        <3> QED BY <2>1, <3>1, <3>2
    <2>3. CASE e \notin K
        BY <1>2, <2>1, <2>3, KeepAppend
    <2> QED BY <2>2, <2>3
<1>3. Seq(T) \subseteq P
    <2> HIDE DEF P
    <2> QED BY <1>1, <1>2, InductSeq
<1> QED BY <1>3

(***************************************************************************)
(* Least and greatest.                                                     *)
(***************************************************************************)
LEMMA LeastIs ==
    ASSUME NEW S \in SUBSET Nat, S # {}
    PROVE  Least(S) \in S /\ \A j \in S : Least(S) <= j
<1>1. PICK m \in S : \A n \in S : <<n, m>> \notin OpToRel(<, Nat)
    BY NatLessThanWellFounded, WFMin
<1>2. \A n \in S : ~(n < m)
    BY <1>1 DEF OpToRel
<1>3. \A n \in S : m <= n
    BY <1>2
<1> QED BY <1>3 DEF Least

LEMMA GreatestIs ==
    ASSUME NEW n \in Nat, NEW S \in SUBSET (0..n), S # {}
    PROVE  Greatest(S) \in S /\ \A j \in S : j <= Greatest(S)
<1> DEFINE R == {n - i : i \in S}
<1>1. R \in SUBSET Nat /\ R # {}
    <2>1. ASSUME NEW i \in S
          PROVE  n - i \in Nat
        <3>1. i \in 0..n
            OBVIOUS
        <3> QED BY <3>1
    <2> QED BY <2>1
<1>2. Least(R) \in R /\ \A j \in R : Least(R) <= j
    BY <1>1, LeastIs
<1>3. PICK m \in S : Least(R) = n - m
    BY <1>2
<1>4. \A j \in S : j <= m
    <2> TAKE j \in S
    <2>1. n - j \in R
        OBVIOUS
    <2>2. n - m <= n - j
        BY <1>2, <1>3, <2>1
    <2> QED BY <2>2
<1> QED BY <1>4 DEF Greatest

(***************************************************************************)
(* Finding a line.                                                         *)
(***************************************************************************)
LEMMA LikeTyped == \A a, b : Like(a, b) \in 0..2
BY TextAssumption DEF Like

(* The best of the scores is one of the places, and a place is found if a  *)
(* score reaches the threshold.                                            *)
LEMMA BestIs ==
    ASSUME NEW scores \in Seq(0..2)
    PROVE  /\ BestOf(scores) \in 0..Len(scores)
           /\ BestOf(scores) # 0 => scores[BestOf(scores)] >= 1
           /\ (\E i \in 1..Len(scores) : scores[i] >= 1) => BestOf(scores) # 0
<1> DEFINE n == Len(scores)
           top == {i \in DOMAIN scores : \A j \in DOMAIN scores : scores[j] <= scores[i]}
<1>1. n \in Nat /\ DOMAIN scores = 1..n /\ \A i \in 1..n : scores[i] \in 0..2
    BY LenProperties, ElementOfSeq
<1>2. top \in SUBSET Nat /\ top \subseteq 1..n
    BY <1>1
<1>3. top # {} => Least(top) \in top
    BY <1>2, LeastIs
<1>4. ASSUME NEW i \in 1..n
      PROVE  top # {}
    <2> DEFINE V == {scores[j] : j \in 1..n}
    <2>1. V \in SUBSET (0..2) /\ V # {}
        BY <1>1
    <2>2. Greatest(V) \in V /\ \A v \in V : v <= Greatest(V)
        BY <2>1, GreatestIs
    <2>3. PICK j \in 1..n : scores[j] = Greatest(V)
        BY <2>2
    <2>4. j \in top
        BY <1>1, <2>2, <2>3
    <2> QED BY <2>4
<1>5. BestOf(scores) = IF top = {} \/ scores[Least(top)] < 1 THEN 0 ELSE Least(top)
    BY DEF BestOf
<1>6. ASSUME NEW i \in 1..n, scores[i] >= 1
      PROVE  BestOf(scores) # 0
    <2>1. top # {} /\ Least(top) \in top
        BY <1>3, <1>4
    <2>2. scores[Least(top)] >= scores[i] /\ Least(top) \in 1..n
        BY <1>1, <2>1
    <2>3. scores[Least(top)] >= 1 /\ Least(top) # 0
        BY <1>1, <1>6, <2>2
    <2> HIDE DEF top
    <2> QED BY <1>1, <1>5, <2>1, <2>2, <2>3
<1>7. BestOf(scores) \in 0..n /\ (BestOf(scores) # 0 => scores[BestOf(scores)] >= 1)
    <2>1. CASE top = {} \/ scores[Least(top)] < 1
        BY <1>1, <1>5, <2>1
    <2>2. CASE ~(top = {} \/ scores[Least(top)] < 1)
        <3>1. Least(top) \in 1..n /\ BestOf(scores) = Least(top)
            BY <1>2, <1>3, <1>5, <2>2
        <3>2. scores[Least(top)] \in 0..2
            BY <1>1, <3>1
        <3> HIDE DEF top
        <3> QED BY <1>1, <2>2, <3>1, <3>2
    <2> QED BY <2>1, <2>2
<1> QED BY <1>6, <1>7

LEMMA FuzzyFindIs ==
    ASSUME NEW T, NEW lines \in Seq(T), NEW text
    PROVE  FuzzyFind(lines, text) \in 0..Len(lines)
<1> DEFINE scores == [i \in DOMAIN lines |-> Like(text, TextOf(lines[i]))]
<1>1. Len(lines) \in Nat /\ DOMAIN lines = 1..Len(lines)
    BY LenProperties
<1>2. scores \in [1..Len(lines) -> 0..2]
    BY <1>1, LikeTyped
<1>3. scores \in Seq(0..2) /\ Len(scores) = Len(lines)
    BY <1>1, <1>2
<1> HIDE DEF scores
<1>4. BestOf(scores) \in 0..Len(lines)
    BY <1>3, BestIs
<1> QED BY <1>4 DEF FuzzyFind, scores

(***************************************************************************)
(* Fences.                                                                 *)
(***************************************************************************)
Blocks == [first : Texts, last : Texts, page : Nat, lang : Languages]

LEMMA FenceTyped ==
    ASSUME NEW lang \in Languages
    PROVE  Fence(lang) \in Fences /\ Fence(lang) \in Line /\ Fence(lang) \notin Line \ Fences
<1>1. Fence(lang) \in [is : {"fence"}, lang : Languages] /\ Fence(lang).is = "fence"
    BY DEF Fence
<1> QED BY <1>1 DEF Fences, Line

LEMMA FoundIs ==
    ASSUME NEW T, NEW lines \in Seq(T), NEW block, Found(lines, block) # 0
    PROVE  /\ Found(lines, block) \in 1..Len(lines)
           /\ LastOf(lines, block) \in Found(lines, block)..Len(lines)
<1> DEFINE from == Found(lines, block)
           rest == SubSeq(lines, from, Len(lines))
           last == FuzzyFind(rest, block.last)
<1>1. Len(lines) \in Nat /\ from \in 0..Len(lines)
    BY FuzzyFindIs, LenProperties DEF Found
<1>2. from \in 1..Len(lines)
    BY <1>1
<1> HIDE DEF from
<1>3. \A i \in from..Len(lines) : lines[i] \in T
    BY <1>1, <1>2, ElementOfSeq
<1>4. rest \in Seq(T) /\ Len(rest) = Len(lines) - from + 1
    BY <1>1, <1>2, <1>3, SubSeqProperties
<1> HIDE DEF rest
<1>5. last \in 0..(Len(lines) - from + 1)
    BY <1>4, FuzzyFindIs
<1>6. LastOf(lines, block) = IF last = 0 THEN from ELSE from + last - 1
    BY DEF LastOf, from, rest
<1> HIDE DEF last
<1> QED BY <1>1, <1>2, <1>5, <1>6 DEF from

(* A text cut in three.                                                    *)
LEMMA CutTwo ==
    ASSUME NEW T, NEW lines \in Seq(T), NEW m \in 1..(Len(lines) + 1),
           NEW k \in (m - 1)..Len(lines), NEW n \in k..Len(lines)
    PROVE  /\ SubSeq(lines, m, k) \in Seq(T) /\ SubSeq(lines, k + 1, n) \in Seq(T)
           /\ SubSeq(lines, m, n) = Cat(SubSeq(lines, m, k), SubSeq(lines, k + 1, n))
<1>1. Len(lines) \in Nat /\ \A i \in 1..Len(lines) : lines[i] \in T
    BY LenProperties, ElementOfSeq
<1>2. SubSeq(lines, m, k) \in Seq(T) /\ SubSeq(lines, k + 1, n) \in Seq(T)
    BY <1>1, SubSeqProperties
<1>3. SubSeq(lines, m, k) \o SubSeq(lines, k + 1, n) = SubSeq(lines, m, n)
    BY ConcatAdjacentSubSeq
<1> QED BY <1>2, <1>3 DEF Cat

LEMMA Cut ==
    ASSUME NEW T, NEW lines \in Seq(T), NEW from \in 1..(Len(lines) + 1),
           NEW to \in (from - 1)..Len(lines)
    PROVE  /\ SubSeq(lines, 1, from - 1) \in Seq(T)
           /\ SubSeq(lines, from, to) \in Seq(T)
           /\ SubSeq(lines, to + 1, Len(lines)) \in Seq(T)
           /\ lines = Cat(Cat(SubSeq(lines, 1, from - 1), SubSeq(lines, from, to)),
                          SubSeq(lines, to + 1, Len(lines)))
<1>1. Len(lines) \in Nat
    BY LenProperties
<1>2. /\ 1 \in 1..(Len(lines) + 1) /\ from - 1 \in (1 - 1)..Len(lines)
      /\ to \in (from - 1)..Len(lines) /\ to \in (1 - 1)..Len(lines)
      /\ Len(lines) \in to..Len(lines) /\ (from - 1) + 1 = from
    BY <1>1
<1>3. /\ SubSeq(lines, 1, from - 1) \in Seq(T)
      /\ SubSeq(lines, (from - 1) + 1, to) \in Seq(T)
      /\ SubSeq(lines, 1, to) = Cat(SubSeq(lines, 1, from - 1), SubSeq(lines, (from - 1) + 1, to))
    BY <1>2, CutTwo
<1>4. /\ SubSeq(lines, to + 1, Len(lines)) \in Seq(T)
      /\ SubSeq(lines, 1, Len(lines)) = Cat(SubSeq(lines, 1, to), SubSeq(lines, to + 1, Len(lines)))
    BY <1>2, CutTwo
<1> QED BY <1>2, <1>3, <1>4, SubSeqFull

(* Three parts and a line between two of them, by what is kept.            *)
LEMMA KeepThree ==
    ASSUME NEW T, NEW a \in Seq(T), NEW b \in Seq(T), NEW c \in Seq(T), NEW K
    PROVE  /\ Keep(Cat(Cat(a, b), c), K) = Cat(Cat(Keep(a, K), Keep(b, K)), Keep(c, K))
           /\ Cat(Cat(a, b), c) \in Seq(T)
<1>1. Cat(a, b) \in Seq(T) /\ Keep(Cat(a, b), K) = Cat(Keep(a, K), Keep(b, K))
    BY KeepCat, CatIs
<1>2. Keep(Cat(Cat(a, b), c), K) = Cat(Keep(Cat(a, b), K), Keep(c, K))
    BY <1>1, KeepCat
<1>3. Cat(Cat(a, b), c) \in Seq(T)
    BY <1>1, CatIs
<1> QED BY <1>1, <1>2, <1>3

Wrapped(a, x, b, y, c) == Cat(Cat(Cat(Cat(a, One(x)), b), One(y)), c)

LEMMA KeepWrapped ==
    ASSUME NEW T, NEW a \in Seq(T), NEW b \in Seq(T), NEW c \in Seq(T),
           NEW x \in T, NEW y \in T, NEW K
    PROVE  /\ Wrapped(a, x, b, y, c) \in Seq(T)
           /\ x \in K /\ y \in K =>
                 Keep(Wrapped(a, x, b, y, c), K) = Wrapped(Keep(a, K), x, Keep(b, K), y, Keep(c, K))
           /\ x \notin K /\ y \notin K =>
                 Keep(Wrapped(a, x, b, y, c), K) = Cat(Cat(Keep(a, K), Keep(b, K)), Keep(c, K))
<1> DEFINE d == Cat(Cat(a, One(x)), b)
<1>1. One(x) \in Seq(T) /\ One(y) \in Seq(T)
    BY OneIs
<1>2. d \in Seq(T) /\ Keep(d, K) = Cat(Cat(Keep(a, K), Keep(One(x), K)), Keep(b, K))
    BY <1>1, KeepThree
<1> HIDE DEF d
<1>3. /\ Cat(Cat(d, One(y)), c) \in Seq(T)
      /\ Keep(Cat(Cat(d, One(y)), c), K) = Cat(Cat(Keep(d, K), Keep(One(y), K)), Keep(c, K))
    BY <1>1, <1>2, KeepThree
<1>4. Wrapped(a, x, b, y, c) = Cat(Cat(d, One(y)), c)
    BY DEF Wrapped, d
<1>5. ASSUME x \in K, y \in K
      PROVE  Keep(Wrapped(a, x, b, y, c), K) = Wrapped(Keep(a, K), x, Keep(b, K), y, Keep(c, K))
    <2>1. Keep(One(x), K) = One(x) /\ Keep(One(y), K) = One(y)
        BY <1>5, KeepOne
    <2> QED BY <1>2, <1>3, <1>4, <2>1 DEF Wrapped
<1>6. ASSUME x \notin K, y \notin K
      PROVE  Keep(Wrapped(a, x, b, y, c), K) = Cat(Cat(Keep(a, K), Keep(b, K)), Keep(c, K))
    <2>1. Keep(One(x), K) = <<>> /\ Keep(One(y), K) = <<>>
        BY <1>6, KeepOne
    <2>2. Keep(a, K) \in Seq(T) /\ Keep(b, K) \in Seq(T)
        BY KeepTyped
    <2>3. Cat(Keep(a, K), <<>>) = Keep(a, K) /\ Cat(Keep(a, K), Keep(b, K)) \in Seq(T)
        BY <2>2, CatEmpty, CatIs
    <2>4. Keep(d, K) = Cat(Keep(a, K), Keep(b, K)) /\ Cat(Keep(d, K), <<>>) = Keep(d, K)
        BY <1>2, <2>1, <2>3, CatEmpty
    <2> QED BY <1>3, <1>4, <2>1, <2>4
<1> QED BY <1>3, <1>4, <1>5, <1>6

LEMMA WrapIs ==
    ASSUME NEW lines \in Seq(Line), NEW from \in 1..Len(lines), NEW to \in from..Len(lines),
           NEW lang \in Languages
    PROVE  \E a \in Seq(Line), b \in Seq(Line), c \in Seq(Line) :
              /\ a = SubSeq(lines, 1, from - 1) /\ b = SubSeq(lines, from, to)
              /\ lines = Cat(Cat(a, b), c)
              /\ Wrap(lines, from, to, lang) = Wrapped(a, Fence(lang), b, Fence("none"), c)
<1> DEFINE a == SubSeq(lines, 1, from - 1)
           b == SubSeq(lines, from, to)
           c == SubSeq(lines, to + 1, Len(lines))
<1>1. from \in 1..(Len(lines) + 1) /\ to \in (from - 1)..Len(lines)
    BY LenProperties
<1>2. a \in Seq(Line) /\ b \in Seq(Line) /\ c \in Seq(Line) /\ lines = Cat(Cat(a, b), c)
    BY <1>1, Cut
<1>3. Wrap(lines, from, to, lang) = Wrapped(a, Fence(lang), b, Fence("none"), c)
    BY DEF Wrap, Wrapped, Cat, One
<1> HIDE DEF c
<1> QED BY <1>2, <1>3

(* Wrapping keeps every other line in its place.                           *)
LEMMA WrapPlain ==
    ASSUME NEW lines \in Seq(Line), NEW from \in 1..Len(lines), NEW to \in from..Len(lines),
           NEW lang \in Languages
    PROVE  /\ Wrap(lines, from, to, lang) \in Seq(Line)
           /\ Plain(Wrap(lines, from, to, lang)) = Plain(lines)
<1>1. PICK a \in Seq(Line), b \in Seq(Line), c \in Seq(Line) :
          /\ lines = Cat(Cat(a, b), c)
          /\ Wrap(lines, from, to, lang) = Wrapped(a, Fence(lang), b, Fence("none"), c)
    BY WrapIs
<1> DEFINE K == Line \ Fences
<1>2. /\ Fence(lang) \in Line /\ Fence("none") \in Line
      /\ Fence(lang) \notin K /\ Fence("none") \notin K
    BY FenceTyped, TextAssumption
<1> HIDE DEF K
<1>3. /\ Wrapped(a, Fence(lang), b, Fence("none"), c) \in Seq(Line)
      /\ Keep(Wrapped(a, Fence(lang), b, Fence("none"), c), K)
         = Cat(Cat(Keep(a, K), Keep(b, K)), Keep(c, K))
    BY <1>2, KeepWrapped
<1>4. Keep(lines, K) = Cat(Cat(Keep(a, K), Keep(b, K)), Keep(c, K))
    BY <1>1, KeepThree
<1> QED BY <1>1, <1>3, <1>4 DEF Plain, K

(***************************************************************************)
(* Fences in pairs.                                                        *)
(***************************************************************************)
PairedFences(f) == Len(f) % 2 = 0 /\ \A i \in 1..Len(f) : i % 2 = 0 => Bare(f[i])

LEMMA PairedIs ==
    ASSUME NEW lines \in Seq(Line)
    PROVE  Paired(lines) <=> PairedFences(Keep(lines, Fences))
<1>1. DOMAIN Keep(lines, Fences) = 1..Len(Keep(lines, Fences))
    BY KeepTyped, LenProperties
<1> QED BY <1>1 DEF Paired, PairedFences

LEMMA PairInserted ==
    ASSUME NEW f \in Seq(Line), NEW g \in Seq(Line), PairedFences(Cat(f, g)), Len(f) % 2 = 0,
           NEW x \in Line, NEW y \in Line, Bare(y)
    PROVE  PairedFences(Cat(Cat(Cat(f, One(x)), One(y)), g))
<1> DEFINE d == Cat(f, One(x))
           e == Cat(d, One(y))
           h == Cat(e, g)
           w == Cat(f, g)
           m == Len(f)
           n == Len(g)
<1>1. m \in Nat /\ n \in Nat
    BY LenProperties
<1> HIDE DEF m, n
<1>a. One(x) \in Seq(Line) /\ One(y) \in Seq(Line)
    BY OneIs
<1>b. Len(One(x)) = 1 /\ Len(One(y)) = 1 /\ One(y)[1] = y
    BY OneIs
<1>c. d \in Seq(Line)
    BY <1>a, CatIs
<1>d. e \in Seq(Line)
    BY <1>a, <1>c, CatIs
<1>2. Len(d) = m + 1 /\ \A i \in 1..m : d[i] = f[i]
    <2>1. Len(d) = Len(f) + Len(One(x))
        BY <1>a, CatIs
    <2>2. \A i \in 1..Len(f) : d[i] = f[i]
        BY <1>a, CatIs
    <2> HIDE DEF d
    <2> QED BY <1>b, <2>1, <2>2 DEF m
<1> HIDE DEF d
<1>3. /\ Len(e) = Len(d) + 1 /\ e[Len(d) + 1] = y
      /\ \A i \in 1..Len(d) : e[i] = d[i]
    <2>1. Len(e) = Len(d) + Len(One(y))
        BY <1>a, <1>c, CatIs
    <2>2. \A i \in 1..Len(d) : e[i] = d[i]
        BY <1>a, <1>c, CatIs
    <2>3. \A i \in 1..Len(One(y)) : e[Len(d) + i] = One(y)[i]
        BY <1>a, <1>c, CatIs
    <2> HIDE DEF e
    <2> QED BY <1>b, <2>1, <2>2, <2>3
<1> HIDE DEF e
<1>4. /\ Len(h) = Len(e) + n
      /\ \A i \in 1..Len(e) : h[i] = e[i]
      /\ \A i \in 1..n : h[Len(e) + i] = g[i]
    <2>1. Len(h) = Len(e) + Len(g)
        BY <1>d, CatIs
    <2>2. \A i \in 1..Len(e) : h[i] = e[i]
        BY <1>d, CatIs
    <2>3. \A i \in 1..Len(g) : h[Len(e) + i] = g[i]
        BY <1>d, CatIs
    <2> HIDE DEF h
    <2> QED BY <2>1, <2>2, <2>3 DEF n
<1>5. /\ Len(w) = m + n
      /\ \A i \in 1..m : w[i] = f[i]
      /\ \A i \in 1..n : w[m + i] = g[i]
    <2>1. Len(w) = Len(f) + Len(g)
        BY CatIs
    <2>2. \A i \in 1..Len(f) : w[i] = f[i]
        BY CatIs
    <2>3. \A i \in 1..Len(g) : w[Len(f) + i] = g[i]
        BY CatIs
    <2> HIDE DEF w
    <2> QED BY <2>1, <2>2, <2>3 DEF m, n
<1> HIDE DEF h, w
<1>6. PairedFences(w) /\ m % 2 = 0
    BY DEF w, m
<1>7. ASSUME NEW i \in 1..Len(h), i % 2 = 0
      PROVE  Bare(h[i])
    <2>1. CASE i <= m
        <3>1. i \in 1..m /\ i \in 1..Len(d) /\ i \in 1..Len(e) /\ i \in 1..Len(w)
            BY <1>1, <1>2, <1>3, <1>5, <2>1
        <3>2. h[i] = w[i]
            BY <1>2, <1>3, <1>4, <1>5, <3>1
        <3> QED BY <1>6, <1>7, <3>1, <3>2 DEF PairedFences
    <2>2. i # m + 1
        BY <1>1, <1>6, <1>7
    <2>3. CASE i = m + 2
        <3>1. i \in 1..Len(e) /\ i = Len(d) + 1
            BY <1>1, <1>2, <1>3, <2>3
        <3> QED BY <1>3, <1>4, <3>1
    <2>4. CASE i > m + 2
        <3> DEFINE k == i - (m + 2)
        <3>1. k \in 1..n /\ i = Len(e) + k /\ m + k \in 1..Len(w) /\ (m + k) % 2 = 0
            BY <1>1, <1>2, <1>3, <1>4, <1>5, <1>7, <2>4
        <3>2. h[i] = w[m + k]
            BY <1>4, <1>5, <3>1
        <3> QED BY <1>6, <3>1, <3>2 DEF PairedFences
    <2> QED BY <1>1, <2>1, <2>2, <2>3, <2>4
<1>8. Len(h) % 2 = 0
    <2>1. Len(h) = (m + n) + 2 /\ (m + n) % 2 = 0
        BY <1>1, <1>2, <1>3, <1>4, <1>5, <1>6 DEF PairedFences
    <2> QED BY <1>1, <2>1
<1> QED BY <1>7, <1>8 DEF PairedFences, h, e, d

(* A line between what stands before it and what follows it.               *)
LEMMA Cut1 ==
    ASSUME NEW T, NEW lines \in Seq(T), NEW i \in 1..Len(lines)
    PROVE  /\ SubSeq(lines, 1, i - 1) \in Seq(T) /\ SubSeq(lines, i + 1, Len(lines)) \in Seq(T)
           /\ SubSeq(lines, 1, i) = Cat(SubSeq(lines, 1, i - 1), One(lines[i]))
           /\ lines = Cat(SubSeq(lines, 1, i), SubSeq(lines, i + 1, Len(lines)))
<1>1. Len(lines) \in Nat /\ lines[i] \in T /\ \A j \in 1..Len(lines) : lines[j] \in T
    BY LenProperties, ElementOfSeq
<1>2. SubSeq(lines, i, i) = One(lines[i])
    <2>1. SubSeq(lines, i, i) \in Seq(T) /\ Len(SubSeq(lines, i, i)) = 1
          /\ SubSeq(lines, i, i)[1] = lines[i]
        BY <1>1, SubSeqProperties
    <2>2. One(lines[i]) \in Seq(T) /\ Len(One(lines[i])) = 1 /\ One(lines[i])[1] = lines[i]
        BY <1>1, OneIs
    <2> QED BY <2>1, <2>2, SeqEqual
<1>3. /\ 1 \in 1..(Len(lines) + 1) /\ i - 1 \in (1 - 1)..Len(lines)
      /\ i \in (i - 1)..Len(lines) /\ i \in (1 - 1)..Len(lines)
      /\ Len(lines) \in i..Len(lines) /\ (i - 1) + 1 = i
    BY <1>1
<1>4. /\ SubSeq(lines, 1, i - 1) \in Seq(T)
      /\ SubSeq(lines, 1, i) = Cat(SubSeq(lines, 1, i - 1), SubSeq(lines, (i - 1) + 1, i))
    BY <1>3, CutTwo
<1>5. /\ SubSeq(lines, i + 1, Len(lines)) \in Seq(T)
      /\ SubSeq(lines, 1, Len(lines)) = Cat(SubSeq(lines, 1, i), SubSeq(lines, i + 1, Len(lines)))
    BY <1>3, CutTwo
<1> QED BY <1>2, <1>3, <1>4, <1>5, SubSeqFull

LEMMA CutExcept ==
    ASSUME NEW T, NEW lines \in Seq(T), NEW i \in 1..Len(lines), NEW x \in T
    PROVE  [lines EXCEPT ![i] = x]
           = Cat(Cat(SubSeq(lines, 1, i - 1), One(x)), SubSeq(lines, i + 1, Len(lines)))
<1> DEFINE n == Len(lines)
           a == SubSeq(lines, 1, i - 1)
           c == SubSeq(lines, i + 1, n)
           d == Cat(a, One(x))
           e == Cat(d, c)
           g == [lines EXCEPT ![i] = x]
<1>1. n \in Nat /\ \A j \in 1..n : lines[j] \in T
    BY LenProperties, ElementOfSeq
<1>2. /\ a \in Seq(T) /\ Len(a) = i - 1 /\ \A j \in 1..(i - 1) : a[j] = lines[j]
    BY <1>1, SubSeqProperties
<1>3. /\ c \in Seq(T) /\ Len(c) = n - i /\ \A j \in 1..(n - i) : c[j] = lines[i + j]
    <2>1. /\ c \in Seq(T) /\ Len(c) = IF i + 1 <= n THEN n - (i + 1) + 1 ELSE 0
          /\ \A j \in 1..(n - (i + 1) + 1) : c[j] = lines[(i + 1) + j - 1]
        BY <1>1, SubSeqProperties
    <2>2. n - (i + 1) + 1 = n - i /\ (~(i + 1 <= n) => n - i = 0)
          /\ \A j \in 1..(n - i) : (i + 1) + j - 1 = i + j
        BY <1>1
    <2> HIDE DEF c
    <2> QED BY <2>1, <2>2
<1>4. g \in Seq(T) /\ Len(g) = n /\ \A j \in 1..n : g[j] = IF j = i THEN x ELSE lines[j]
    BY ExceptSeq
<1> HIDE DEF a, c, g
<1>5. a \in Seq(T) /\ c \in Seq(T)
    BY <1>2, <1>3
<1>6. One(x) \in Seq(T)
    BY OneIs
<1>7. Len(One(x)) = 1 /\ One(x)[1] = x
    BY OneIs
<1>8. d \in Seq(T)
    BY <1>5, <1>6, CatIs
<1>9. Len(d) = i /\ d[i] = x /\ \A j \in 1..(i - 1) : d[j] = lines[j]
    <2>1. Len(d) = Len(a) + Len(One(x))
        BY <1>5, <1>6, CatIs
    <2>2. \A j \in 1..Len(a) : d[j] = a[j]
        BY <1>5, <1>6, CatIs
    <2>3. \A j \in 1..Len(One(x)) : d[Len(a) + j] = One(x)[j]
        BY <1>5, <1>6, CatIs
    <2> HIDE DEF d
    <2> QED BY <1>2, <1>7, <2>1, <2>2, <2>3
<1> HIDE DEF d
<1>10. e \in Seq(T)
    BY <1>5, <1>8, CatIs
<1>11. Len(e) = n /\ \A j \in 1..n : e[j] = IF j = i THEN x ELSE lines[j]
    <2>1. Len(e) = Len(d) + Len(c)
        BY <1>5, <1>8, CatIs
    <2>2. \A j \in 1..Len(d) : e[j] = d[j]
        BY <1>5, <1>8, CatIs
    <2>3. \A j \in 1..Len(c) : e[Len(d) + j] = c[j]
        BY <1>5, <1>8, CatIs
    <2> HIDE DEF e
    <2>4. ASSUME NEW j \in 1..n
          PROVE  e[j] = IF j = i THEN x ELSE lines[j]
        <3>1. CASE j <= i
            <4>1. j \in 1..Len(d) /\ (j # i => j \in 1..(i - 1))
                BY <1>1, <1>9, <3>1
            <4> QED BY <1>9, <2>2, <4>1
        <3>2. CASE j > i
            <4>1. j - i \in 1..(n - i) /\ j = i + (j - i) /\ j # i
                BY <1>1, <3>2
            <4> QED BY ZenonT(30), <1>3, <1>9, <2>3, <4>1
        <3> QED BY <3>1, <3>2
    <2> QED BY <1>1, <1>3, <1>9, <2>1, <2>4
<1> HIDE DEF e
<1>12. g = e
    BY <1>4, <1>10, <1>11, SeqEqual
<1> QED BY <1>12 DEF g, e, d, a, c

(***************************************************************************)
(* Inside a pair of fences.                                                *)
(***************************************************************************)
LEMMA InsideNext ==
    ASSUME NEW lines \in Seq(Line), NEW i \in 1..Len(lines)
    PROVE  /\ IsFence(lines[i]) => (Inside(lines, i + 1) <=> ~Inside(lines, i))
           /\ ~IsFence(lines[i]) => (Inside(lines, i + 1) <=> Inside(lines, i))
<1> DEFINE a == SubSeq(lines, 1, i - 1)
           b == SubSeq(lines, 1, i)
           x == lines[i]
<1>1. (i + 1) - 1 = i /\ x \in Line
    BY ElementOfSeq, LenProperties
<1>2. a \in Seq(Line) /\ b = Cat(a, One(x))
    BY Cut1
<1>3. /\ Inside(lines, i) <=> Len(Keep(a, Fences)) % 2 = 1
      /\ Inside(lines, i + 1) <=> Len(Keep(b, Fences)) % 2 = 1
    BY <1>1 DEF Inside
<1> HIDE DEF a, b, x
<1>4. One(x) \in Seq(Line)
    BY <1>1, OneIs
<1>5. Keep(b, Fences) = Cat(Keep(a, Fences), Keep(One(x), Fences))
    BY <1>2, <1>4, KeepCat
<1>6. Keep(a, Fences) \in Seq(Line) /\ Keep(One(x), Fences) \in Seq(Line)
    BY <1>2, <1>4, KeepTyped
<1>7. Len(Keep(b, Fences)) = Len(Keep(a, Fences)) + Len(Keep(One(x), Fences))
    BY <1>5, <1>6, CatIs
<1>8. Len(Keep(a, Fences)) \in Nat
    BY <1>6, LenProperties
<1>9. CASE x \in Fences
    <2>1. Len(Keep(One(x), Fences)) = 1
        BY <1>1, <1>9, KeepOne, OneIs
    <2> QED BY <1>3, <1>7, <1>8, <1>9, <2>1 DEF IsFence, x
<1>10. CASE x \notin Fences
    <2>1. Len(Keep(One(x), Fences)) = 0
        BY <1>1, <1>10, KeepOne, EmptySeq
    <2> QED BY <1>3, <1>7, <1>8, <1>10, <2>1 DEF IsFence, x
<1> QED BY <1>9, <1>10

LEMMA InsideSame ==
    ASSUME NEW lines \in Seq(Line), NEW i \in 1..(Len(lines) + 1),
           NEW j \in i..(Len(lines) + 1), \A k \in i..(j - 1) : ~IsFence(lines[k])
    PROVE  Inside(lines, j) <=> Inside(lines, i)
<1> DEFINE S == {d \in Nat : i + d <= j => (Inside(lines, i + d) <=> Inside(lines, i))}
<1>0. Len(lines) \in Nat
    BY LenProperties
<1>1. 0 \in S
    BY <1>0
<1>2. ASSUME NEW d \in Nat, d \in S
      PROVE  d + 1 \in S
    <2> SUFFICES ASSUME i + (d + 1) <= j
                 PROVE  Inside(lines, i + (d + 1)) <=> Inside(lines, i)
        OBVIOUS
    <2>1. /\ i + d \in 1..Len(lines) /\ i + d \in i..(j - 1) /\ i + d <= j
          /\ i + (d + 1) = (i + d) + 1
        BY <1>0
    <2>2. Inside(lines, (i + d) + 1) <=> Inside(lines, i + d)
        BY <2>1, InsideNext
    <2> QED BY <1>2, <2>1, <2>2
<1>3. Nat \subseteq S
    <2> HIDE DEF S
    <2> QED BY <1>1, <1>2, Induct
<1>4. j - i \in Nat /\ i + (j - i) = j /\ i + (j - i) <= j
    BY <1>0
<1>5. j - i \in S
    BY <1>3, <1>4
<1> QED BY <1>4, <1>5

LEMMA InsideEnds ==
    ASSUME NEW lines \in Seq(Line)
    PROVE  /\ ~Inside(lines, 1)
           /\ Paired(lines) => ~Inside(lines, Len(lines) + 1)
<1>1. Len(lines) \in Nat /\ (Len(lines) + 1) - 1 = Len(lines)
    BY LenProperties
<1>2. SubSeq(lines, 1, 1 - 1) = <<>>
    BY SubSeqEmpty
<1>3. SubSeq(lines, 1, Len(lines)) = lines
    BY SubSeqFull
<1>4. Len(Keep(<<>>, Fences)) = 0
    BY KeepEmpty, EmptySeq
<1>5. Len(Keep(lines, Fences)) \in Nat
    BY KeepTyped, LenProperties
<1>6. ~Inside(lines, 1)
    <2> DEFINE k == Len(Keep(SubSeq(lines, 1, 1 - 1), Fences))
    <2>1. k = 0
        BY <1>2, <1>4
    <2>2. Inside(lines, 1) <=> k % 2 = 1
        BY DEF Inside
    <2> HIDE DEF k
    <2> QED BY <2>1, <2>2
<1>7. ASSUME Paired(lines)
      PROVE  ~Inside(lines, Len(lines) + 1)
    <2>1. Len(Keep(lines, Fences)) % 2 = 0
        BY <1>7, PairedIs DEF PairedFences
    <2>2. Inside(lines, Len(lines) + 1) <=> Len(Keep(lines, Fences)) % 2 = 1
        BY <1>1, <1>3 DEF Inside
    <2> QED BY <2>1, <2>2
<1> QED BY <1>6, <1>7

(* In a paired text the fence that a pair is closed by is bare.            *)
LEMMA InsideIsBare ==
    ASSUME NEW lines \in Seq(Line), NEW i \in 1..Len(lines), Paired(lines),
           IsFence(lines[i]), Inside(lines, i)
    PROVE  Bare(lines[i])
<1> DEFINE a == SubSeq(lines, 1, i - 1)
           b == SubSeq(lines, 1, i)
           c == SubSeq(lines, i + 1, Len(lines))
           x == lines[i]
           f == Keep(lines, Fences)
           m == Len(Keep(a, Fences))
<1>1. x \in Line /\ x \in Fences
    BY ElementOfSeq DEF IsFence
<1>2. a \in Seq(Line) /\ c \in Seq(Line) /\ b = Cat(a, One(x)) /\ lines = Cat(b, c)
    BY Cut1
<1>3. m % 2 = 1
    BY DEF Inside
<1> HIDE DEF a, b, c, x
<1>4. Keep(a, Fences) \in Seq(Line) /\ Keep(c, Fences) \in Seq(Line) /\ One(x) \in Seq(Line)
    BY <1>1, <1>2, KeepTyped, OneIs
<1>5. Keep(b, Fences) = Cat(Keep(a, Fences), One(x)) /\ b \in Seq(Line)
    <2>1. Keep(Cat(a, One(x)), Fences) = Cat(Keep(a, Fences), Keep(One(x), Fences))
        BY <1>2, <1>4, KeepCat
    <2>2. Cat(a, One(x)) \in Seq(Line)
        BY <1>2, <1>4, CatIs
    <2> QED BY <1>1, <1>2, <2>1, <2>2, KeepOne
<1>6. Keep(Cat(b, c), Fences) = Cat(Keep(b, Fences), Keep(c, Fences))
    BY <1>2, <1>5, KeepCat
<1>7. f = Cat(Keep(b, Fences), Keep(c, Fences))
    BY <1>2, <1>6
<1> DEFINE u == Keep(a, Fences)
           v == Keep(b, Fences)
           w == Keep(c, Fences)
<1> HIDE DEF f, u, v, w
<1>8. u \in Seq(Line) /\ w \in Seq(Line) /\ v = Cat(u, One(x)) /\ f = Cat(v, w)
    BY <1>4, <1>5, <1>7 DEF u, v, w
<1>9. v \in Seq(Line)
    BY <1>4, <1>8, CatIs
<1>10. Len(u) \in Nat /\ Len(v) \in Nat /\ Len(w) \in Nat
    BY <1>8, <1>9, LenProperties
<1>13. Len(v) = Len(u) + 1 /\ v[Len(u) + 1] = x
    BY <1>1, <1>8, CatOne
<1>14. Len(f) = Len(v) + Len(w) /\ \A j \in 1..Len(v) : f[j] = v[j]
    BY ZenonT(30), <1>8, <1>9, CatIs
<1>15. Len(u) + 1 \in 1..Len(f) /\ Len(u) + 1 \in 1..Len(v)
    BY <1>10, <1>13, <1>14
<1>16. f[Len(u) + 1] = x
    BY <1>13, <1>14, <1>15
<1>17. Len(u) % 2 = 1
    BY <1>3 DEF u
<1>18. (Len(u) + 1) % 2 = 0
    BY <1>10, <1>17
<1>19. PairedFences(f)
    BY PairedIs DEF f
<1> QED BY <1>15, <1>16, <1>18, <1>19 DEF PairedFences, x

(***************************************************************************)
(* Regions.                                                                *)
(***************************************************************************)
Closing(lines, n) == {j \in (n + 1)..Len(lines) : Bare(lines[j])}
Opens(lines, n, R) ==
    IsFence(lines[n]) /\ Closing(lines, n) # {} /\ \A r \in R : ~(n <= r[2])
IsRegions(f, lines) ==
    f = [n \in 0..Len(lines) |->
            IF n = 0 THEN {}
            ELSE IF Opens(lines, n, f[n - 1])
                 THEN f[n - 1] \cup {<<n, Least(Closing(lines, n))>>} ELSE f[n - 1]]

RegionsBy(f, lines) ==
    /\ f[0] = {} /\ Regions(lines) = f[Len(lines)]
    /\ \A n \in 1..Len(lines) :
          IF Opens(lines, n, f[n - 1])
          THEN f[n] = f[n - 1] \cup {<<n, Least(Closing(lines, n))>>}
          ELSE f[n] = f[n - 1]

LEMMA ClosingIs ==
    ASSUME NEW lines \in Seq(Line), NEW n \in Nat, Closing(lines, n) # {}
    PROVE  LET j == Least(Closing(lines, n)) IN
           /\ j \in (n + 1)..Len(lines) /\ Bare(lines[j])
           /\ \A k \in (n + 1)..(j - 1) : ~Bare(lines[k])
<1>1. Len(lines) \in Nat
    BY LenProperties
<1>2. Closing(lines, n) \in SUBSET Nat
    BY <1>1 DEF Closing
<1>3. /\ Least(Closing(lines, n)) \in Closing(lines, n)
      /\ \A j \in Closing(lines, n) : Least(Closing(lines, n)) <= j
    BY <1>2, LeastIs
<1> DEFINE j == Least(Closing(lines, n))
<1> HIDE DEF j
<1>4. j \in (n + 1)..Len(lines) /\ Bare(lines[j])
    BY <1>3 DEF Closing, j
<1>5. ASSUME NEW k \in (n + 1)..(j - 1), Bare(lines[k])
      PROVE  FALSE
    <2>1. k \in Closing(lines, n)
        BY <1>1, <1>4, <1>5 DEF Closing
    <2>2. j <= k
        BY <1>3, <2>1 DEF j
    <2> QED BY <1>4, <2>2
<1> QED BY <1>4, <1>5 DEF j

LEMMA RegionsIs ==
    ASSUME NEW lines \in Seq(Line)
    PROVE  \E f : RegionsBy(f, lines)
<1> DEFINE n == Len(lines)
           T == SUBSET (Nat \X Nat)
           One1(k, R) == IF Opens(lines, k, R) THEN R \cup {<<k, Least(Closing(lines, k))>>} ELSE R
           g == [k \in 1..n |-> [R \in T |-> One1(k, R)]]
<1>1. n \in Nat
    BY LenProperties
<1>2. ASSUME NEW k \in 1..n, NEW R \in T
      PROVE  One1(k, R) \in T
    <2>1. CASE Opens(lines, k, R)
        <3>1. Least(Closing(lines, k)) \in (k + 1)..n
            BY <1>1, <2>1, ClosingIs DEF Opens
        <3>2. <<k, Least(Closing(lines, k))>> \in Nat \X Nat
            BY <1>1, <3>1
        <3> QED BY <2>1, <3>2
    <2> QED BY <2>1
<1> HIDE DEF One1
<1>3. g \in [1..n -> [T -> T]] /\ {} \in T
    BY <1>2
<1>4. \A k \in 1..n, R \in T : g[k][R] = One1(k, R)
    OBVIOUS
<1> HIDE DEF g, n, T
<1> PICK f : Follows(f, {}, g, n, T)
    BY <1>1, <1>3, Recursion
<1>5. f \in [0..n -> T] /\ f[0] = {} /\ \A k \in 1..n : f[k] = g[k][f[k - 1]]
    BY DEF Follows
<1>6. ASSUME NEW k \in 1..n
      PROVE  f[k] = One1(k, f[k - 1])
    <2>1. k - 1 \in 0..n
        BY <1>1
    <2> QED BY <1>4, <1>5, <2>1
<1>7. f = [k \in 0..n |-> IF k = 0 THEN {} ELSE One1(k, f[k - 1])]
    <2>1. ASSUME NEW k \in 0..n, k # 0
          PROVE  k \in 1..n
        BY <1>1, <2>1
    <2> QED BY <1>5, <1>6, <2>1
<1>8. IsRegions(f, lines)
    BY <1>7 DEF IsRegions, n, One1
<1> DEFINE h == CHOOSE v : IsRegions(v, lines)
<1>9. Regions(lines) = h[n]
    BY DEF Regions, IsRegions, Opens, Closing, n
<1>10. IsRegions(h, lines)
    BY <1>8
<1> HIDE DEF h
<1>11. h[0] = {}
    BY <1>1, <1>10 DEF IsRegions, n
<1>12. ASSUME NEW k \in 1..n
       PROVE  h[k] = One1(k, h[k - 1])
    <2>1. k \in 0..n /\ k # 0
        BY <1>1
    <2> QED BY <1>10, <2>1 DEF IsRegions, n, One1
<1>13. RegionsBy(h, lines)
    BY <1>9, <1>11, <1>12 DEF RegionsBy, n, One1
<1> QED BY <1>13

(* In a paired text a fence that opens a pair is followed by its closing   *)
(* one, with no fence between the two.                                     *)
LEMMA NextFence ==
    ASSUME NEW lines \in Seq(Line), NEW m \in 1..Len(lines), Paired(lines),
           IsFence(lines[m]), ~Inside(lines, m)
    PROVE  /\ Closing(lines, m) # {}
           /\ \A k \in (m + 1)..(Least(Closing(lines, m)) - 1) : ~IsFence(lines[k])
<1> DEFINE F == {k \in (m + 1)..Len(lines) : IsFence(lines[k])}
<1>1. Len(lines) \in Nat
    BY LenProperties
<1>2. Inside(lines, m + 1)
    BY InsideNext
<1>3. F # {}
    <2> SUFFICES ASSUME F = {}
                 PROVE  FALSE
        OBVIOUS
    <2>1. \A k \in (m + 1)..((Len(lines) + 1) - 1) : ~IsFence(lines[k])
        BY <1>1
    <2>2. m + 1 \in 1..(Len(lines) + 1) /\ Len(lines) + 1 \in (m + 1)..(Len(lines) + 1)
        BY <1>1
    <2>3. Inside(lines, Len(lines) + 1)
        BY <1>2, <2>1, <2>2, InsideSame
    <2> QED BY <2>3, InsideEnds
<1>4. F \in SUBSET Nat
    BY <1>1
<1>5. PICK j \in F : \A k \in F : j <= k
    BY <1>3, <1>4, LeastIs
<1>6. j \in (m + 1)..Len(lines) /\ IsFence(lines[j])
    OBVIOUS
<1>7. ASSUME NEW k \in (m + 1)..(j - 1)
      PROVE  ~IsFence(lines[k])
    <2>1. k \in (m + 1)..Len(lines) /\ ~(j <= k)
        BY <1>1, <1>6
    <2> QED BY <1>5, <2>1
<1> HIDE DEF F
<1>8. Inside(lines, j)
    <2>1. m + 1 \in 1..(Len(lines) + 1) /\ j \in (m + 1)..(Len(lines) + 1)
        BY <1>1, <1>6
    <2> QED BY <1>2, <1>7, <2>1, InsideSame
<1>9. Bare(lines[j])
    <2>1. j \in 1..Len(lines)
        BY <1>1, <1>6
    <2> QED BY <1>6, <1>8, <2>1, InsideIsBare
<1>10. j \in Closing(lines, m)
    BY <1>6, <1>9 DEF Closing
<1>11. Closing(lines, m) \in SUBSET Nat
    BY <1>1 DEF Closing
<1>12. Least(Closing(lines, m)) <= j /\ Least(Closing(lines, m)) \in Nat
    BY <1>10, <1>11, LeastIs
<1>13. ASSUME NEW k \in (m + 1)..(Least(Closing(lines, m)) - 1)
       PROVE  ~IsFence(lines[k])
    <2>1. k \in (m + 1)..(j - 1)
        BY <1>6, <1>12
    <2> QED BY <1>7, <2>1
<1> QED BY <1>10, <1>13

LEMMA BareFence == \A l : Bare(l) => IsFence(l)
<1>1. Fence("none") \in Fences
    BY FenceTyped, TextAssumption
<1> QED BY <1>1 DEF Bare, IsFence

(* What is known of the regions found in the first n lines.                *)
Opened(r, lines, n) ==
    r[1] \in 1..n /\ r[2] \in Nat /\ IsFence(lines[r[1]]) /\ ~Inside(lines, r[1])
Closes(r, lines, n) ==
    /\ Inside(lines, n + 1) /\ r[2] \in (n + 1)..Len(lines) /\ Bare(lines[r[2]])
    /\ \A k \in (n + 1)..(r[2] - 1) : ~IsFence(lines[k])
RegionsAt(R, lines, n) ==
    /\ \A r \in R : Opened(r, lines, n)
    /\ \A r \in R : n < r[2] => Closes(r, lines, n)
    /\ Inside(lines, n + 1) => \E r \in R : n < r[2]

LEMMA RegionsNext ==
    ASSUME NEW lines \in Seq(Line), Paired(lines), NEW n \in Nat, n + 1 \in 1..Len(lines),
           NEW R, RegionsAt(R, lines, n), NEW Q,
           Q = IF Opens(lines, n + 1, R)
               THEN R \cup {<<n + 1, Least(Closing(lines, n + 1))>>} ELSE R
    PROVE  RegionsAt(Q, lines, n + 1)
<1> DEFINE m == n + 1
<1>1. Len(lines) \in Nat /\ m \in 1..Len(lines)
    BY LenProperties
<1>2. \A r \in R : Opened(r, lines, m)
    BY DEF RegionsAt, Opened
<1>3. \A r \in R : m < r[2] => n < r[2]
    BY DEF RegionsAt, Opened
<1>4. CASE ~IsFence(lines[m])
    <2>1. Q = R /\ (Inside(lines, m + 1) <=> Inside(lines, m))
        BY <1>1, <1>4, InsideNext DEF Opens
    <2>2. ASSUME NEW r \in R, m < r[2]
          PROVE  Closes(r, lines, m)
        <3>1. Closes(r, lines, n)
            BY <1>3, <2>2 DEF RegionsAt
        <3>2. r[2] \in (m + 1)..Len(lines)
            BY <1>1, <2>2, <3>1 DEF Closes
        <3>3. \A k \in (m + 1)..(r[2] - 1) : k \in (n + 1)..(r[2] - 1)
            BY <3>2
        <3> QED BY <2>1, <3>1, <3>2, <3>3 DEF Closes
    <2>3. ASSUME Inside(lines, m + 1)
          PROVE  \E r \in R : m < r[2]
        <3>1. PICK r \in R : n < r[2]
            BY <2>1, <2>3 DEF RegionsAt
        <3>2. Bare(lines[r[2]]) /\ r[2] \in Nat
            BY <3>1 DEF RegionsAt, Closes, Opened
        <3>3. r[2] # m
            BY <1>4, <3>2, BareFence
        <3>4. m < r[2]
            BY <3>1, <3>2, <3>3
        <3> QED BY <3>4
    <2> QED BY <1>2, <2>1, <2>2, <2>3 DEF RegionsAt
<1>5. CASE IsFence(lines[m]) /\ Inside(lines, m)
    <2>1. ~Inside(lines, m + 1)
        BY <1>1, <1>5, InsideNext
    <2>2. PICK s \in R : n < s[2]
        BY <1>5 DEF RegionsAt
    <2>3. s[2] \in Nat /\ m <= s[2]
        BY <2>2 DEF RegionsAt, Opened
    <2>4. Q = R
        BY <2>2, <2>3 DEF Opens
    <2>5. ASSUME NEW r \in R, m < r[2]
          PROVE  FALSE
        <3>1. Closes(r, lines, n)
            BY <1>3, <2>5 DEF RegionsAt
        <3>2. m \in (n + 1)..(r[2] - 1)
            BY <2>5, <3>1 DEF Closes
        <3> QED BY <1>5, <3>1, <3>2 DEF Closes
    <2> QED BY <1>2, <2>1, <2>4, <2>5 DEF RegionsAt
<1>6. CASE IsFence(lines[m]) /\ ~Inside(lines, m)
    <2> DEFINE j == Least(Closing(lines, m))
    <2>1. Inside(lines, m + 1)
        BY <1>1, <1>6, InsideNext
    <2>2. \A r \in R : ~(n < r[2]) /\ r[2] \in Nat
        BY <1>6 DEF RegionsAt, Closes, Opened
    <2>3. \A r \in R : ~(m <= r[2]) /\ ~(m < r[2])
        BY <2>2
    <2>4. Closing(lines, m) # {} /\ \A k \in (m + 1)..(j - 1) : ~IsFence(lines[k])
        BY <1>1, <1>6, NextFence
    <2>5. Q = R \cup {<<m, j>>}
        BY <1>6, <2>3, <2>4 DEF Opens
    <2>6. j \in (m + 1)..Len(lines) /\ Bare(lines[j])
        BY <1>1, <2>4, ClosingIs
    <2> HIDE DEF j
    <2> DEFINE r == <<m, j>>
    <2>7. r[1] = m /\ r[2] = j
        OBVIOUS
    <2> HIDE DEF r
    <2>8. Opened(r, lines, m) /\ Closes(r, lines, m) /\ m < r[2]
        BY <1>1, <1>6, <2>1, <2>4, <2>6, <2>7 DEF Opened, Closes
    <2> QED BY <1>2, <2>3, <2>5, <2>8 DEF RegionsAt, r
<1> QED BY <1>4, <1>5, <1>6

(* In a paired text a region is opened by a fence that opens a pair.       *)
LEMMA RegionOpens ==
    ASSUME NEW lines \in Seq(Line), Paired(lines), NEW r \in Regions(lines)
    PROVE  r[1] \in 1..Len(lines) /\ IsFence(lines[r[1]]) /\ ~Inside(lines, r[1])
<1>1. PICK f : RegionsBy(f, lines)
    BY RegionsIs
<1>2. Len(lines) \in Nat
    BY LenProperties
<1> DEFINE S == {n \in Nat : n <= Len(lines) => RegionsAt(f[n], lines, n)}
<1>3. 0 \in S
    <2>1. f[0] = {} /\ ~Inside(lines, 0 + 1)
        BY <1>1, InsideEnds DEF RegionsBy
    <2>2. RegionsAt({}, lines, 0)
        BY <2>1 DEF RegionsAt
    <2> QED BY <2>1, <2>2
<1>4. ASSUME NEW n \in Nat, n \in S
      PROVE  n + 1 \in S
    <2> SUFFICES ASSUME n + 1 <= Len(lines)
                 PROVE  RegionsAt(f[n + 1], lines, n + 1)
        OBVIOUS
    <2>1. n + 1 \in 1..Len(lines) /\ (n + 1) - 1 = n /\ RegionsAt(f[n], lines, n)
        BY <1>2, <1>4
    <2>2. f[n + 1] = IF Opens(lines, n + 1, f[n])
                     THEN f[n] \cup {<<n + 1, Least(Closing(lines, n + 1))>>} ELSE f[n]
        BY <1>1, <2>1 DEF RegionsBy
    <2> HIDE DEF S
    <2> QED BY <2>1, <2>2, RegionsNext
<1>5. Nat \subseteq S
    <2> HIDE DEF S
    <2> QED BY <1>3, <1>4, Induct
<1>6. RegionsAt(Regions(lines), lines, Len(lines))
    BY <1>1, <1>2, <1>5 DEF RegionsBy
<1> QED BY <1>6 DEF RegionsAt, Opened

(* A line changed: what is kept of the text.                               *)
ChangedAt(lines, i, x, g, K, T) ==
    /\ g \in Seq(T)
    /\ \E a \in Seq(T), c \in Seq(T) :
          /\ a = SubSeq(lines, 1, i - 1)
          /\ Keep(lines, K) = Cat(Cat(Keep(a, K), Keep(One(lines[i]), K)), Keep(c, K))
          /\ Keep(g, K) = Cat(Cat(Keep(a, K), Keep(One(x), K)), Keep(c, K))

LEMMA KeepChanged ==
    ASSUME NEW T, NEW lines \in Seq(T), NEW i \in 1..Len(lines), NEW x \in T, NEW K
    PROVE  ChangedAt(lines, i, x, [lines EXCEPT ![i] = x], K, T)
<1> DEFINE a == SubSeq(lines, 1, i - 1)
           b == SubSeq(lines, 1, i)
           c == SubSeq(lines, i + 1, Len(lines))
           y == lines[i]
           g == [lines EXCEPT ![i] = x]
<1>1. y \in T
    BY ElementOfSeq
<1>2. a \in Seq(T) /\ c \in Seq(T) /\ b = Cat(a, One(y)) /\ lines = Cat(b, c)
    BY Cut1
<1>3. g = Cat(Cat(a, One(x)), c)
    BY CutExcept
<1> HIDE DEF b, c, y, g
<1>4. One(x) \in Seq(T) /\ One(y) \in Seq(T)
    BY <1>1, OneIs
<1>5. lines = Cat(Cat(a, One(y)), c)
    BY <1>2
<1> HIDE DEF a
<1>6. Keep(Cat(Cat(a, One(y)), c), K) = Cat(Cat(Keep(a, K), Keep(One(y), K)), Keep(c, K))
    BY <1>2, <1>4, KeepThree
<1>7. /\ Keep(Cat(Cat(a, One(x)), c), K) = Cat(Cat(Keep(a, K), Keep(One(x), K)), Keep(c, K))
      /\ Cat(Cat(a, One(x)), c) \in Seq(T)
    BY <1>2, <1>4, KeepThree
<1>8. a = SubSeq(lines, 1, i - 1)
    BY DEF a
<1>9. Keep(lines, K) = Cat(Cat(Keep(a, K), Keep(One(y), K)), Keep(c, K))
    BY <1>5, <1>6
<1>10. Keep(g, K) = Cat(Cat(Keep(a, K), Keep(One(x), K)), Keep(c, K)) /\ g \in Seq(T)
    BY <1>3, <1>7
<1> QED BY <1>2, <1>8, <1>9, <1>10 DEF y, g, ChangedAt

(* A fence put in the place of another leaves the other lines alone, and   *)
(* the pairs if it opens one.                                              *)
LEMMA TagIs ==
    ASSUME NEW lines \in Seq(Line), NEW i \in 1..Len(lines), IsFence(lines[i]),
           NEW x \in Line, x \in Fences
    PROVE  /\ [lines EXCEPT ![i] = x] \in Seq(Line)
           /\ Plain([lines EXCEPT ![i] = x]) = Plain(lines)
           /\ Paired(lines) /\ ~Inside(lines, i) => Paired([lines EXCEPT ![i] = x])
<1> DEFINE y == lines[i]
           g == [lines EXCEPT ![i] = x]
           K == Line \ Fences
<1>1. y \in Line /\ y \in Fences
    BY ElementOfSeq DEF IsFence
<1>2. x \notin K /\ y \notin K
    BY <1>1
<1>3. g \in Seq(Line) /\ Plain(g) = Plain(lines)
    <2> HIDE DEF K
    <2>0. ChangedAt(lines, i, x, g, K, Line)
        BY KeepChanged
    <2>1. PICK a \in Seq(Line), c \in Seq(Line) :
              /\ Keep(lines, K) = Cat(Cat(Keep(a, K), Keep(One(lines[i]), K)), Keep(c, K))
              /\ Keep(g, K) = Cat(Cat(Keep(a, K), Keep(One(x), K)), Keep(c, K))
        BY <2>0 DEF ChangedAt
    <2>2. Keep(One(x), K) = <<>> /\ Keep(One(lines[i]), K) = <<>>
        BY <1>1, <1>2, KeepOne
    <2>3. Keep(g, K) = Keep(lines, K)
        BY <2>1, <2>2
    <2> QED BY <2>0, <2>3 DEF Plain, K, ChangedAt
<1>4. ASSUME Paired(lines), ~Inside(lines, i)
      PROVE  Paired(g)
    <2>0. ChangedAt(lines, i, x, g, Fences, Line)
        BY KeepChanged
    <2>1. PICK a \in Seq(Line), c \in Seq(Line) :
              /\ a = SubSeq(lines, 1, i - 1)
              /\ Keep(lines, Fences)
                 = Cat(Cat(Keep(a, Fences), Keep(One(lines[i]), Fences)), Keep(c, Fences))
              /\ Keep(g, Fences) = Cat(Cat(Keep(a, Fences), Keep(One(x), Fences)), Keep(c, Fences))
        BY <2>0 DEF ChangedAt
    <2>2. Keep(One(x), Fences) = One(x) /\ Keep(One(lines[i]), Fences) = One(y)
        BY <1>1, KeepOne
    <2>3. Keep(a, Fences) \in Seq(Line) /\ Keep(c, Fences) \in Seq(Line)
        BY KeepTyped
    <2>4. ~(Len(Keep(a, Fences)) % 2 = 1)
        BY <1>4, <2>1 DEF Inside
    <2>5. PairedFences(Keep(lines, Fences))
        BY <1>4, PairedIs
    <2> HIDE DEF y
    <2> DEFINE u == Keep(a, Fences)
               w == Keep(c, Fences)
               p == Cat(u, One(y))
               q == Cat(u, One(x))
               f == Cat(p, w)
               h == Cat(q, w)
    <2>6. Keep(g, Fences) = h /\ PairedFences(f)
        BY <2>1, <2>2, <2>5
    <2>7. u \in Seq(Line) /\ w \in Seq(Line) /\ Len(u) % 2 # 1
        BY <2>3, <2>4
    <2> HIDE DEF u, w
    <2>8. p \in Seq(Line) /\ Len(p) = Len(u) + 1 /\ \A j \in 1..Len(u) : p[j] = u[j]
        BY <1>1, <2>7, CatOne
    <2>9. q \in Seq(Line) /\ Len(q) = Len(u) + 1 /\ \A j \in 1..Len(u) : q[j] = u[j]
        BY <2>7, CatOne
    <2> HIDE DEF p, q
    <2>t. w \in Seq(Line) /\ p \in Seq(Line) /\ q \in Seq(Line)
        BY <2>7, <2>8, <2>9
    <2>10. Len(f) = Len(p) + Len(w)
        BY <2>t, CatIs
    <2>11. \A j \in 1..Len(p) : f[j] = p[j]
        BY <2>t, CatIs
    <2>12. \A j \in 1..Len(w) : f[Len(p) + j] = w[j]
        BY <2>t, CatIs
    <2>13. Len(h) = Len(q) + Len(w)
        BY <2>t, CatIs
    <2>14. \A j \in 1..Len(q) : h[j] = q[j]
        BY <2>t, CatIs
    <2>15. \A j \in 1..Len(w) : h[Len(q) + j] = w[j]
        BY <2>t, CatIs
    <2> HIDE DEF f, h
    <2> DEFINE n == Len(u)
               m == Len(w)
    <2> HIDE DEF n, m
    <2>16. n \in Nat /\ m \in Nat /\ n % 2 # 1
        BY <2>7, LenProperties DEF n, m
    <2>17. Len(f) = Len(h) /\ Len(f) = (n + 1) + m /\ Len(p) = n + 1 /\ Len(q) = n + 1
           /\ Len(u) = n /\ Len(w) = m
        BY <2>8, <2>9, <2>10, <2>13 DEF n, m
    <2>18. ASSUME NEW j \in 1..Len(f), j # n + 1
          PROVE  h[j] = f[j]
        <3>1. CASE j <= n
            <4>1. j \in 1..Len(u) /\ j \in 1..Len(p) /\ j \in 1..Len(q)
                BY <2>8, <2>9, <2>16, <2>17, <3>1
            <4> QED BY <2>8, <2>9, <2>11, <2>14, <4>1
        <3>2. CASE j > n + 1
            <4> DEFINE k == j - (n + 1)
            <4>1. k \in 1..Len(w) /\ j = Len(p) + k /\ j = Len(q) + k
                BY <2>8, <2>9, <2>16, <2>17, <3>2
            <4> HIDE DEF k
            <4>2. f[j] = w[k]
                BY <2>12, <4>1
            <4>3. h[j] = w[k]
                BY <2>15, <4>1
            <4> QED BY <4>2, <4>3
        <3>3. j <= n \/ j > n + 1
            BY <2>16, <2>17, <2>18
        <3> QED BY <3>1, <3>2, <3>3
    <2>19. PairedFences(h)
        <3>1. ASSUME NEW j \in 1..Len(h), j % 2 = 0
              PROVE  Bare(h[j])
            <4>1. j # n + 1
                BY <2>16, <3>1
            <4>2. j \in 1..Len(f)
                BY <2>17
            <4> QED BY <2>6, <2>18, <3>1, <4>1, <4>2 DEF PairedFences
        <3> QED BY <2>6, <2>17, <3>1 DEF PairedFences
    <2> QED BY <1>3, <2>6, <2>19, PairedIs
<1> QED BY <1>3, <1>4

(* Wrapping a region without a fence keeps the pairs.                      *)
LEMMA WrapPaired ==
    ASSUME NEW lines \in Seq(Line), NEW from \in 1..Len(lines), NEW to \in from..Len(lines),
           NEW lang \in Languages, Paired(lines), ~Inside(lines, from),
           \A k \in from..to : ~IsFence(lines[k])
    PROVE  Paired(Wrap(lines, from, to, lang))
<1> DEFINE x == Fence(lang)
           y == Fence("none")
           F == Fences
           W == Wrap(lines, from, to, lang)
<1>1. PICK a \in Seq(Line), b \in Seq(Line), c \in Seq(Line) :
          /\ a = SubSeq(lines, 1, from - 1) /\ b = SubSeq(lines, from, to)
          /\ lines = Cat(Cat(a, b), c)
          /\ W = Wrapped(a, x, b, y, c)
    BY WrapIs
<1>2. x \in Line /\ y \in Line /\ x \in F /\ y \in F /\ Bare(y)
    BY FenceTyped, TextAssumption DEF Bare
<1>3. Keep(b, F) = <<>>
    <2>1. Len(lines) \in Nat /\ \A k \in from..to : lines[k] \in Line
        BY LenProperties, ElementOfSeq
    <2>2. /\ b \in Seq(Line) /\ Len(b) = to - from + 1
          /\ \A k \in 1..(to - from + 1) : b[k] = lines[from + k - 1]
        BY <1>1, <2>1, SubSeqProperties
    <2>3. ASSUME NEW k \in 1..Len(b)
          PROVE  b[k] \notin F
        <3>1. from + k - 1 \in from..to /\ b[k] = lines[from + k - 1]
            BY <2>1, <2>2
        <3> QED BY <3>1 DEF IsFence
    <2> QED BY <2>3, KeepNone
<1>4. ~(Len(Keep(a, F)) % 2 = 1)
    BY <1>1 DEF Inside
<1>5. PairedFences(Keep(lines, F))
    BY PairedIs
<1> HIDE DEF x, y, F, W
<1>6. /\ Wrapped(a, x, b, y, c) \in Seq(Line)
      /\ Keep(Wrapped(a, x, b, y, c), F) = Wrapped(Keep(a, F), x, Keep(b, F), y, Keep(c, F))
    BY <1>2, KeepWrapped
<1>7. Keep(Cat(Cat(a, b), c), F) = Cat(Cat(Keep(a, F), Keep(b, F)), Keep(c, F))
    BY KeepThree
<1> DEFINE u == Keep(a, F)
           w == Keep(c, F)
<1>8. u \in Seq(Line) /\ w \in Seq(Line)
    BY KeepTyped
<1>9. Cat(u, <<>>) = u
    BY <1>8, CatEmpty
<1>10. PairedFences(Cat(u, w))
    BY <1>1, <1>3, <1>5, <1>7, <1>9
<1>11. Cat(u, One(x)) \in Seq(Line)
    BY <1>2, <1>8, CatOne
<1>12. Cat(Cat(u, One(x)), <<>>) = Cat(u, One(x))
    BY <1>11, CatEmpty
<1>13. Keep(W, F) = Cat(Cat(Cat(u, One(x)), One(y)), w)
    BY <1>1, <1>3, <1>6, <1>12 DEF Wrapped
<1>14. Len(u) % 2 = 0
    BY <1>4, <1>8, LenProperties
<1> HIDE DEF u, w
<1>15. PairedFences(Cat(Cat(Cat(u, One(x)), One(y)), w))
    BY <1>2, <1>8, <1>10, <1>14, PairInserted
<1> QED BY <1>1, <1>6, <1>13, <1>15, PairedIs DEF F, W

(***************************************************************************)
(* Applying a fence.                                                       *)
(***************************************************************************)
LEMMA ApplyFenceIs ==
    ASSUME NEW lines \in Seq(Line), NEW block, block.lang \in Languages
    PROVE  /\ ApplyFence(lines, block) \in Seq(Line)
           /\ Plain(ApplyFence(lines, block)) = Plain(lines)
           /\ Paired(lines) /\ ~Spanned(lines, block) => Paired(ApplyFence(lines, block))
<1> DEFINE A == Around(lines, block)
           x == Fence(block.lang)
           after == ApplyFence(lines, block)
<1>1. x \in Line /\ x \in Fences
    BY FenceTyped
<1>2. CASE A # {}
    <2> DEFINE r == CHOOSE r \in A : \A s \in A : r[1] <= s[1]
    <2>1. after = IF Bare(lines[r[1]]) THEN [lines EXCEPT ![r[1]] = x] ELSE lines
        BY <1>2 DEF ApplyFence
    <2>2. ASSUME Paired(lines)
          PROVE  r \in A
        <3> DEFINE S == {s[1] : s \in A}
        <3>1. \A s \in A : s[1] \in Nat
            <4> TAKE s \in A
            <4>1. s \in Regions(lines)
                BY DEF Around
            <4> QED BY <2>2, <4>1, RegionOpens, LenProperties
        <3>2. S \in SUBSET Nat /\ S # {}
            BY <1>2, <3>1
        <3>3. Least(S) \in S /\ \A j \in S : Least(S) <= j
            BY <3>2, LeastIs
        <3>4. \E s \in A : \A t \in A : s[1] <= t[1]
            BY <3>3
        <3> QED BY <3>4
    <2>3. Paired(lines) => r[1] \in 1..Len(lines) /\ ~Inside(lines, r[1])
        BY <2>2, RegionOpens DEF Around
    <2> HIDE DEF r
    <2>4. CASE Bare(lines[r[1]]) /\ r[1] \in 1..Len(lines)
        <3>1. IsFence(lines[r[1]])
            BY <2>4, BareFence
        <3>2. /\ [lines EXCEPT ![r[1]] = x] \in Seq(Line)
              /\ Plain([lines EXCEPT ![r[1]] = x]) = Plain(lines)
              /\ Paired(lines) /\ ~Inside(lines, r[1]) => Paired([lines EXCEPT ![r[1]] = x])
            BY <1>1, <2>4, <3>1, TagIs
        <3> QED BY <2>1, <2>3, <2>4, <3>2
    <2>5. CASE ~(Bare(lines[r[1]]) /\ r[1] \in 1..Len(lines))
        <3>1. lines = [i \in 1..Len(lines) |-> lines[i]] /\ DOMAIN lines = 1..Len(lines)
            BY LenProperties
        <3>2. r[1] \notin 1..Len(lines) => [lines EXCEPT ![r[1]] = x] = lines
            BY <3>1
        <3> QED BY <2>1, <2>5, <3>2
    <2> QED BY <2>4, <2>5
<1>3. CASE A = {}
    <2> DEFINE i == Found(lines, block)
    <2>1. after = IF i = 0 \/ Inside(lines, i) THEN lines
                  ELSE Wrap(lines, i, LastOf(lines, block), block.lang)
        BY <1>3 DEF ApplyFence
    <2>2. CASE i = 0 \/ Inside(lines, i)
        BY <2>1, <2>2
    <2>3. CASE ~(i = 0 \/ Inside(lines, i))
        <3> DEFINE j == LastOf(lines, block)
        <3>1. i \in 1..Len(lines) /\ j \in i..Len(lines)
            BY <2>3, FoundIs
        <3>2. ~Spanned(lines, block) => \A k \in i..j : ~IsFence(lines[k])
            BY <1>3, <2>3 DEF Spanned
        <3> HIDE DEF i, j
        <3>3. /\ Wrap(lines, i, j, block.lang) \in Seq(Line)
              /\ Plain(Wrap(lines, i, j, block.lang)) = Plain(lines)
            BY <3>1, WrapPlain
        <3>4. Paired(lines) /\ ~Spanned(lines, block) => Paired(Wrap(lines, i, j, block.lang))
            BY <2>3, <3>1, <3>2, WrapPaired
        <3> QED BY <2>1, <2>3, <3>3, <3>4 DEF j
    <2> QED BY <2>2, <2>3
<1> QED BY <1>2, <1>3

(***************************************************************************)
(* All of the sequences of a sequence.                                     *)
(***************************************************************************)
IsJoined(f, seqs) ==
    f = [n \in 0..Len(seqs) |-> IF n = 0 THEN <<>> ELSE f[n - 1] \o seqs[n]]
JoinedBy(f, seqs, T) ==
    /\ f \in [0..Len(seqs) -> Seq(T)] /\ f[0] = <<>> /\ Concat(seqs) = f[Len(seqs)]
    /\ \A k \in 1..Len(seqs) : f[k] = Cat(f[k - 1], seqs[k])

LEMMA ConcatIs ==
    ASSUME NEW T, NEW seqs \in Seq(Seq(T))
    PROVE  \E f : JoinedBy(f, seqs, T)
<1> DEFINE n == Len(seqs)
           g == [k \in 1..n |-> [t \in Seq(T) |-> Cat(t, seqs[k])]]
<1>1. n \in Nat /\ \A k \in 1..n : seqs[k] \in Seq(T)
    BY LenProperties, ElementOfSeq
<1>2. \A k \in 1..n, t \in Seq(T) : Cat(t, seqs[k]) \in Seq(T)
    BY <1>1, CatIs
<1>3. g \in [1..n -> [Seq(T) -> Seq(T)]] /\ <<>> \in Seq(T)
    BY <1>2, EmptySeq
<1>4. \A k \in 1..n, t \in Seq(T) : g[k][t] = Cat(t, seqs[k])
    OBVIOUS
<1> HIDE DEF g, n
<1> PICK f : Follows(f, <<>>, g, n, Seq(T))
    BY <1>1, <1>3, Recursion
<1>5. f \in [0..n -> Seq(T)] /\ f[0] = <<>> /\ \A k \in 1..n : f[k] = g[k][f[k - 1]]
    BY DEF Follows
<1>6. ASSUME NEW k \in 1..n
      PROVE  f[k] = Cat(f[k - 1], seqs[k])
    <2>1. k - 1 \in 0..n
        BY <1>1
    <2> QED BY <1>4, <1>5, <2>1
<1>7. f = [k \in 0..n |-> IF k = 0 THEN <<>> ELSE f[k - 1] \o seqs[k]]
    <2>1. ASSUME NEW k \in 0..n, k # 0
          PROVE  k \in 1..n
        BY <1>1, <2>1
    <2> QED BY <1>5, <1>6, <2>1 DEF Cat
<1>8. IsJoined(f, seqs)
    BY <1>7 DEF IsJoined, n
<1> DEFINE h == CHOOSE v : IsJoined(v, seqs)
<1>9. Concat(seqs) = h[n]
    BY DEF Concat, IsJoined, n
<1>10. IsJoined(h, seqs)
    BY <1>8
<1> HIDE DEF h
<1>11. h[0] = <<>>
    BY <1>1, <1>10 DEF IsJoined, n
<1>12. ASSUME NEW k \in 1..n
       PROVE  h[k] = Cat(h[k - 1], seqs[k])
    <2>1. k \in 0..n /\ k # 0
        BY <1>1
    <2> QED BY <1>10, <2>1 DEF IsJoined, n, Cat
<1> DEFINE S == {k \in Nat : k <= n => h[k] = f[k]}
<1>13. 0 \in S
    BY <1>5, <1>11
<1>14. ASSUME NEW k \in Nat, k \in S
       PROVE  k + 1 \in S
    <2> SUFFICES ASSUME k + 1 <= n
                 PROVE  h[k + 1] = f[k + 1]
        OBVIOUS
    <2>1. k + 1 \in 1..n /\ (k + 1) - 1 = k /\ h[k] = f[k]
        BY <1>1, <1>14
    <2> QED BY <1>6, <1>12, <2>1
<1>15. Nat \subseteq S
    <2> HIDE DEF S
    <2> QED BY <1>13, <1>14, Induct
<1>16. h[n] = f[n]
    BY <1>1, <1>15
<1>17. JoinedBy(f, seqs, T)
    BY <1>5, <1>6, <1>9, <1>16 DEF JoinedBy, n
<1> QED BY <1>17

LEMMA ConcatEmpty == Concat(<<>>) = <<>>
<1>1. <<>> \in Seq(Seq({})) /\ Len(<<>>) = 0
    BY EmptySeq
<1>2. PICK f : JoinedBy(f, <<>>, {})
    BY <1>1, ConcatIs
<1> QED BY <1>1, <1>2 DEF JoinedBy

LEMMA ConcatTyped ==
    ASSUME NEW T, NEW seqs \in Seq(Seq(T))
    PROVE  Concat(seqs) \in Seq(T)
<1>1. Len(seqs) \in Nat
    BY LenProperties
<1>2. PICK f : JoinedBy(f, seqs, T)
    BY ConcatIs
<1> QED BY <1>1, <1>2 DEF JoinedBy

LEMMA ConcatAppend ==
    ASSUME NEW T, NEW seqs \in Seq(Seq(T)), NEW e \in Seq(T)
    PROVE  Concat(Append(seqs, e)) = Cat(Concat(seqs), e)
<1> DEFINE t == Append(seqs, e)
           n == Len(seqs)
<1>1. n \in Nat /\ t \in Seq(Seq(T)) /\ Len(t) = n + 1 /\ t[n + 1] = e
      /\ \A i \in 1..n : t[i] = seqs[i]
    BY LenProperties, AppendProperties
<1> HIDE DEF t
<1>2. PICK f : JoinedBy(f, seqs, T)
    BY ConcatIs
<1>3. PICK g : JoinedBy(g, t, T)
    BY <1>1, ConcatIs
<1> DEFINE S == {k \in Nat : k <= n => g[k] = f[k]}
<1>4. 0 \in S
    BY <1>2, <1>3 DEF JoinedBy
<1>5. ASSUME NEW k \in Nat, k \in S
      PROVE  k + 1 \in S
    <2> SUFFICES ASSUME k + 1 <= n
                 PROVE  g[k + 1] = f[k + 1]
        OBVIOUS
    <2>1. k + 1 \in 1..n /\ k + 1 \in 1..Len(t) /\ (k + 1) - 1 = k /\ g[k] = f[k]
        BY <1>1, <1>5
    <2>2. t[k + 1] = seqs[k + 1]
        BY <1>1, <2>1
    <2> QED BY <1>2, <1>3, <2>1, <2>2 DEF JoinedBy
<1>6. Nat \subseteq S
    <2> HIDE DEF S
    <2> QED BY <1>4, <1>5, Induct
<1>7. g[n] = f[n]
    BY <1>1, <1>6
<1>8. n + 1 \in 1..Len(t) /\ (n + 1) - 1 = n
    BY <1>1
<1>9. Concat(t) = g[n + 1] /\ Concat(seqs) = f[n] /\ g[n + 1] = Cat(g[n], e)
    BY <1>1, <1>2, <1>3, <1>8 DEF JoinedBy
<1> QED BY <1>7, <1>9 DEF t

(***************************************************************************)
(* Placeholders and figures.                                               *)
(***************************************************************************)
Numbered == [number : Nat, page : Nat]
Placed(lines, n) ==
    IF Positions(lines, {Image}) = {} THEN lines
    ELSE [lines EXCEPT ![Least(Positions(lines, {Image}))] = Figure(n)]

LEMMA ImageIsNo == /\ Image \in Line /\ Blank \in Line /\ Image # Blank
                   /\ Image \notin Drawn /\ Blank \notin Drawn
                   /\ \A n \in Nat : Figure(n) \in Line /\ Figure(n) \in Drawn
                                     /\ Figure(n) # Image /\ Figure(n) # Blank
<1>1. Image.is = "image" /\ Blank.is = "blank" /\ \A n \in Nat : Figure(n).is = "figure"
    BY DEF Image, Blank, Figure
<1>2. Image \in [is : {"blank", "image", "prose", "row"}]
      /\ Blank \in [is : {"blank", "image", "prose", "row"}]
    BY DEF Image, Blank
<1>3. \A n \in Nat : Figure(n) \in [is : {"figure", "number", "numbered"}, number : Nat]
    BY DEF Figure
<1>4. Image \in Line /\ Blank \in Line /\ \A n \in Nat : Figure(n) \in Line
    BY <1>2, <1>3 DEF Line
<1>5. Image # Blank /\ \A n \in Nat : Figure(n) # Image /\ Figure(n) # Blank
    BY <1>1
<1>6. Image \notin Drawn /\ Blank \notin Drawn /\ \A n \in Nat : Figure(n) \in Drawn
    BY <1>1, <1>4 DEF Drawn
<1> QED BY <1>4, <1>5, <1>6

LEMMA PlacedTyped ==
    ASSUME NEW lines \in Seq(Line), NEW n \in Nat
    PROVE  Placed(lines, n) \in Seq(Line)
<1> DEFINE S == Positions(lines, {Image})
<1>1. S \in SUBSET Nat /\ S \subseteq 1..Len(lines)
    BY LenProperties DEF Positions
<1>2. CASE S = {}
    BY <1>2 DEF Placed
<1>3. CASE S # {}
    <2>1. Least(S) \in 1..Len(lines)
        BY <1>1, <1>3, LeastIs
    <2>2. Figure(n) \in Line
        BY ImageIsNo
    <2> DEFINE i == Least(S)
    <2>3. Placed(lines, n) = [lines EXCEPT ![i] = Figure(n)]
        BY <1>3 DEF Placed
    <2> HIDE DEF i
    <2>4. i \in 1..Len(lines)
        BY <2>1 DEF i
    <2> QED BY <2>2, <2>3, <2>4, ExceptSeq
<1> QED BY <1>2, <1>3

IsReplaced(f, lines, figs) ==
    f = [n \in 0..Len(figs) |->
            IF n = 0 THEN lines
            ELSE LET at == Positions(f[n - 1], {Image}) IN
                 IF at = {} THEN f[n - 1]
                 ELSE [f[n - 1] EXCEPT ![Least(at)] = Figure(figs[n].number)]]
ReplacedBy(f, lines, figs) ==
    /\ f \in [0..Len(figs) -> Seq(Line)] /\ f[0] = lines
    /\ ReplaceImages(lines, figs) = f[Len(figs)]
    /\ \A k \in 1..Len(figs) : f[k] = Placed(f[k - 1], figs[k].number)

LEMMA ReplaceIs ==
    ASSUME NEW lines \in Seq(Line), NEW figs \in Seq(Numbered)
    PROVE  \E f : ReplacedBy(f, lines, figs)
<1> DEFINE n == Len(figs)
           g == [k \in 1..n |-> [t \in Seq(Line) |-> Placed(t, figs[k].number)]]
<1>0. n \in Nat /\ \A k \in 1..n : figs[k] \in Numbered
    BY LenProperties, ElementOfSeq
<1>1. n \in Nat /\ \A k \in 1..n : figs[k].number \in Nat
    BY <1>0 DEF Numbered
<1>2. \A k \in 1..n, t \in Seq(Line) : Placed(t, figs[k].number) \in Seq(Line)
    BY <1>1, PlacedTyped
<1>3. g \in [1..n -> [Seq(Line) -> Seq(Line)]]
    BY <1>2
<1>4. \A k \in 1..n, t \in Seq(Line) : g[k][t] = Placed(t, figs[k].number)
    OBVIOUS
<1> HIDE DEF g, n
<1> PICK f : Follows(f, lines, g, n, Seq(Line))
    BY <1>1, <1>3, Recursion
<1>5. f \in [0..n -> Seq(Line)] /\ f[0] = lines /\ \A k \in 1..n : f[k] = g[k][f[k - 1]]
    BY DEF Follows
<1>6. ASSUME NEW k \in 1..n
      PROVE  f[k] = Placed(f[k - 1], figs[k].number)
    <2>1. k - 1 \in 0..n
        BY <1>1
    <2> QED BY <1>4, <1>5, <2>1
<1>7. f = [k \in 0..n |-> IF k = 0 THEN lines ELSE Placed(f[k - 1], figs[k].number)]
    <2>1. ASSUME NEW k \in 0..n, k # 0
          PROVE  k \in 1..n
        BY <1>1, <2>1
    <2> QED BY <1>5, <1>6, <2>1
<1>8. IsReplaced(f, lines, figs)
    BY <1>7 DEF IsReplaced, n, Placed
<1> DEFINE h == CHOOSE v : IsReplaced(v, lines, figs)
<1>9. ReplaceImages(lines, figs) = h[n]
    BY DEF ReplaceImages, IsReplaced, n
<1>10. IsReplaced(h, lines, figs)
    BY <1>8
<1> HIDE DEF h
<1>11. h[0] = lines
    BY <1>1, <1>10 DEF IsReplaced, n
<1>12. ASSUME NEW k \in 1..n
       PROVE  h[k] = Placed(h[k - 1], figs[k].number)
    <2>1. k \in 0..n /\ k # 0
        BY <1>1
    <2> QED BY <1>10, <2>1 DEF IsReplaced, n, Placed
<1> DEFINE S == {k \in Nat : k <= n => h[k] = f[k]}
<1>13. 0 \in S
    BY <1>5, <1>11
<1>14. ASSUME NEW k \in Nat, k \in S
       PROVE  k + 1 \in S
    <2> SUFFICES ASSUME k + 1 <= n
                 PROVE  h[k + 1] = f[k + 1]
        OBVIOUS
    <2>1. k + 1 \in 1..n /\ (k + 1) - 1 = k /\ h[k] = f[k]
        BY <1>1, <1>14
    <2> QED BY <1>6, <1>12, <2>1
<1>15. Nat \subseteq S
    <2> HIDE DEF S
    <2> QED BY <1>13, <1>14, Induct
<1>16. h[n] = f[n]
    BY <1>1, <1>15
<1>17. ReplacedBy(f, lines, figs)
    BY <1>5, <1>6, <1>9, <1>16 DEF ReplacedBy, n
<1> QED BY <1>17

LEMMA ReplaceTyped ==
    ASSUME NEW lines \in Seq(Line), NEW figs \in Seq(Numbered)
    PROVE  ReplaceImages(lines, figs) \in Seq(Line)
<1>1. Len(figs) \in Nat
    BY LenProperties
<1>2. PICK f : ReplacedBy(f, lines, figs)
    BY ReplaceIs
<1> QED BY <1>1, <1>2 DEF ReplacedBy

LEMMA ReplaceNone ==
    ASSUME NEW lines \in Seq(Line)
    PROVE  ReplaceImages(lines, <<>>) = lines
<1>1. <<>> \in Seq(Numbered) /\ Len(<<>>) = 0
    BY EmptySeq
<1>2. PICK f : ReplacedBy(f, lines, <<>>)
    BY <1>1, ReplaceIs
<1> QED BY <1>1, <1>2 DEF ReplacedBy

LEMMA ReplaceAppend ==
    ASSUME NEW lines \in Seq(Line), NEW figs \in Seq(Numbered), NEW e \in Numbered
    PROVE  ReplaceImages(lines, Append(figs, e)) = Placed(ReplaceImages(lines, figs), e.number)
<1> DEFINE t == Append(figs, e)
           n == Len(figs)
<1>1. n \in Nat /\ t \in Seq(Numbered) /\ Len(t) = n + 1 /\ t[n + 1] = e
      /\ \A i \in 1..n : t[i] = figs[i]
    BY LenProperties, AppendProperties
<1> HIDE DEF t
<1>2. PICK f : ReplacedBy(f, lines, figs)
    BY ReplaceIs
<1>3. PICK g : ReplacedBy(g, lines, t)
    BY <1>1, ReplaceIs
<1> DEFINE S == {k \in Nat : k <= n => g[k] = f[k]}
<1>4. 0 \in S
    BY <1>2, <1>3 DEF ReplacedBy
<1>5. ASSUME NEW k \in Nat, k \in S
      PROVE  k + 1 \in S
    <2> SUFFICES ASSUME k + 1 <= n
                 PROVE  g[k + 1] = f[k + 1]
        OBVIOUS
    <2>1. k + 1 \in 1..n /\ k + 1 \in 1..Len(t) /\ (k + 1) - 1 = k /\ g[k] = f[k]
        BY <1>1, <1>5
    <2>2. t[k + 1] = figs[k + 1]
        BY <1>1, <2>1
    <2> QED BY <1>2, <1>3, <2>1, <2>2 DEF ReplacedBy
<1>6. Nat \subseteq S
    <2> HIDE DEF S
    <2> QED BY <1>4, <1>5, Induct
<1>7. g[n] = f[n]
    BY <1>1, <1>6
<1>8. n + 1 \in 1..Len(t) /\ (n + 1) - 1 = n
    BY <1>1
<1>9. ReplaceImages(lines, t) = g[n + 1] /\ ReplaceImages(lines, figs) = f[n]
      /\ g[n + 1] = Placed(g[n], e.number)
    BY <1>1, <1>2, <1>3, <1>8 DEF ReplacedBy
<1> QED BY <1>7, <1>9 DEF t

(***************************************************************************)
(* The pages of the extraction.                                            *)
(***************************************************************************)
StrippedOf(s, x, y) ==
    /\ Strip(s) \in Seq(Line) /\ x \in Seq(Line) /\ y \in Seq(Line)
    /\ s = Cat(Cat(x, Strip(s)), y)
    /\ \A i \in 1..Len(x) : x[i] = Blank
    /\ \A i \in 1..Len(y) : y[i] = Blank

(* Strip drops blank lines at the two ends.                                *)
LEMMA StripIs ==
    ASSUME NEW s \in Seq(Line)
    PROVE  \E x, y : StrippedOf(s, x, y)
<1> DEFINE S == Positions(s, Line \ {Blank})
           n == Len(s)
<1>1. n \in Nat /\ DOMAIN s = 1..n /\ \A i \in 1..n : s[i] \in Line
    BY LenProperties, ElementOfSeq
<1>2. S = {i \in 1..n : s[i] # Blank}
    BY <1>1 DEF Positions
<1>3. Strip(s) = IF S = {} THEN <<>> ELSE SubSeq(s, Least(S), Greatest(S))
    BY DEF Strip
<1> HIDE DEF S, n
<1>4. CASE S = {}
    <2>1. Strip(s) = <<>> /\ <<>> \in Seq(Line) /\ Len(<<>>) = 0
        BY <1>3, <1>4, EmptySeq
    <2>2. \A i \in 1..Len(s) : s[i] = Blank
        BY <1>2, <1>4 DEF n
    <2>3. Cat(s, <<>>) = s
        BY CatEmpty
    <2>4. StrippedOf(s, s, <<>>)
        BY <2>1, <2>2, <2>3 DEF StrippedOf
    <2> QED BY <2>4
<1>5. CASE S # {}
    <2>1. S \in SUBSET Nat /\ S \in SUBSET (0..n)
        BY <1>1, <1>2
    <2>2. Least(S) \in S /\ \A j \in S : Least(S) <= j
        BY <1>5, <2>1, LeastIs
    <2>3. Greatest(S) \in S /\ \A j \in S : j <= Greatest(S)
        BY <1>1, <1>5, <2>1, GreatestIs
    <2> DEFINE a == Least(S)
               b == Greatest(S)
    <2>4. a \in 1..n /\ b \in 1..n /\ a <= b
        BY <1>1, <1>2, <2>2, <2>3
    <2>5. \A i \in 1..n : i < a \/ b < i => s[i] = Blank
        BY <1>1, <1>2, <2>2, <2>3, <2>4
    <2>6. Strip(s) = SubSeq(s, a, b)
        BY <1>3, <1>5
    <2> HIDE DEF a, b
    <2> DEFINE x == SubSeq(s, 1, a - 1)
               y == SubSeq(s, b + 1, n)
    <2>7. a \in 1..(Len(s) + 1) /\ b \in (a - 1)..Len(s)
        BY <1>1, <2>4 DEF n
    <2>8. x \in Seq(Line) /\ SubSeq(s, a, b) \in Seq(Line) /\ y \in Seq(Line)
          /\ s = Cat(Cat(x, SubSeq(s, a, b)), y)
        BY <2>7, Cut DEF n
    <2>9. \A i \in 1..Len(x) : x[i] = Blank
        <3>1. Len(x) = a - 1 /\ \A i \in 1..(a - 1) : x[i] = s[i]
            BY <1>1, <2>4, SubSeqProperties DEF n
        <3>2. \A i \in 1..(a - 1) : i \in 1..n /\ i < a
            BY <1>1, <2>4
        <3> HIDE DEF x
        <3> QED BY <2>5, <3>1, <3>2
    <2>10. \A i \in 1..Len(y) : y[i] = Blank
        <3>1. /\ Len(y) = IF b + 1 <= n THEN n - (b + 1) + 1 ELSE 0
              /\ \A i \in 1..(n - (b + 1) + 1) : y[i] = s[(b + 1) + i - 1]
            BY <1>1, <2>4, SubSeqProperties DEF n
        <3> HIDE DEF y
        <3> SUFFICES ASSUME NEW i \in 1..Len(y)
                     PROVE  y[i] = Blank
            OBVIOUS
        <3>2. i \in 1..(n - (b + 1) + 1) /\ b < b + i /\ b + i \in 1..n
              /\ (b + 1) + i - 1 = b + i
            BY <1>1, <2>4, <3>1
        <3>3. y[i] = s[b + i]
            BY <3>1, <3>2
        <3> QED BY <2>5, <3>2, <3>3
    <2> HIDE DEF x, y
    <2>11. StrippedOf(s, x, y)
        BY <2>6, <2>8, <2>9, <2>10 DEF StrippedOf
    <2> QED BY <2>11
<1> QED BY <1>4, <1>5

LEMMA StripTyped ==
    ASSUME NEW s \in Seq(Line)
    PROVE  Strip(s) \in Seq(Line)
BY StripIs DEF StrippedOf

(* What the services answer.                                               *)
LEMMA InputIs ==
    ASSUME input \in Inputs
    PROVE  /\ input.pages \in Seq(Seq(Line \ Drawn)) /\ input.pages \in Seq(Seq(Line))
           /\ Len(input.pages) \in Nat /\ DOMAIN input.pages = 1..Len(input.pages)
           /\ \A p \in DOMAIN input.pages : /\ input.pages[p] \in Seq(Line \ Drawn)
                                            /\ input.pages[p] \in Seq(Line)
           /\ input.blocks \in Seq(Blocks)
<1>1. input.pages \in Seq(Seq(Line \ Drawn)) /\ input.blocks \in Seq(Blocks)
    BY DocumentAssumption DEF Blocks
<1>2. Seq(Line \ Drawn) \subseteq Seq(Line)
    OBVIOUS
<1>3. Seq(Seq(Line \ Drawn)) \subseteq Seq(Seq(Line))
    BY <1>2
<1>4. Len(input.pages) \in Nat /\ DOMAIN input.pages = 1..Len(input.pages)
    BY <1>1, LenProperties
<1>5. \A p \in DOMAIN input.pages : input.pages[p] \in Seq(Line \ Drawn)
    BY <1>1, <1>4, ElementOfSeq
<1> QED BY <1>1, <1>2, <1>3, <1>4, <1>5

LEMMA FiguresTyped ==
    ASSUME input \in Inputs
    PROVE  Figures \in Seq(Numbered)
<1> DEFINE pics == input.pictures
           all == [i \in DOMAIN pics |-> [number |-> i, page |-> pics[i].page]]
<1>1. pics \in Seq([page : Nat, placed : BOOLEAN, cropped : BOOLEAN])
    BY DocumentAssumption
<1>2. Len(pics) \in Nat /\ DOMAIN pics = 1..Len(pics)
      /\ \A i \in 1..Len(pics) : pics[i] \in [page : Nat, placed : BOOLEAN, cropped : BOOLEAN]
    BY <1>1, LenProperties, ElementOfSeq
<1>3. \A i \in 1..Len(pics) : [number |-> i, page |-> pics[i].page] \in Numbered
    BY <1>2 DEF Numbered
<1>4. all \in [1..Len(pics) -> Numbered]
    BY <1>2, <1>3
<1>5. all \in Seq(Numbered)
    BY <1>2, <1>4
<1> HIDE DEF all
<1>6. \A K : Keep(all, K) \in Seq(Numbered)
    BY <1>5, KeepTyped
<1> QED BY <1>6 DEF Figures, all

(***************************************************************************)
(* The state: the pages of both versions are lines, of the same pages, and *)
(* the second version is only there once the first is.                     *)
(***************************************************************************)
Early == {"docling", "map", "hints"}
Phases == Early \cup {"code", "boundaries", "done"}
Fenced(p) ==
    /\ Plain(v1[p]) = Plain(v0[p])
    /\ Paired(v0[p]) /\ p \notin spans => Paired(v1[p])
TextInv ==
    /\ input \in Inputs /\ phase \in Phases
    /\ fenced \in 0..Len(input.blocks)
    /\ figures \in Seq(Numbered) /\ whole \in Seq(Line)
    /\ \A p \in DOMAIN v0 : v0[p] \in Seq(Line)
    /\ phase \in Early => v1 = <<>>
    /\ \A p \in DOMAIN v1 : p \in DOMAIN v0 /\ v1[p] \in Seq(Line) /\ Fenced(p)

LEMMA TextInit == ASSUME Init PROVE TextInv
<1>1. <<>> \in Seq(Numbered) /\ <<>> \in Seq(Line) /\ DOMAIN <<>> = {}
    BY EmptySeq
<1>2. input \in Inputs
    BY DEF Init
<1>3. Len(input.blocks) \in Nat
    BY <1>2, InputIs, LenProperties
<1> QED BY <1>1, <1>2, <1>3 DEF Init, TextInv, Phases, Early

LEMMA ExtractTyped ==
    ASSUME TextInv, Extract
    PROVE  /\ figures' \in Seq(Numbered) /\ whole' \in Seq(Line)
           /\ \A p \in DOMAIN v0' : v0'[p] \in Seq(Line)
<1>1. input \in Inputs
    BY DEF TextInv
<1>2. figures' \in Seq(Numbered)
    BY <1>1, FiguresTyped DEF Extract
<1>3. Concat(input.pages) \in Seq(Line)
    BY <1>1, InputIs, ConcatTyped
<1>4. whole' \in Seq(Line)
    <2>1. ReplaceImages(Concat(input.pages), figures') \in Seq(Line)
        BY <1>2, <1>3, ReplaceTyped
    <2> QED BY <2>1 DEF Extract
<1> DEFINE pages == Split(input.pages)
<1>5. v0' = [p \in DOMAIN pages |-> ReplaceImages(pages[p], FiguresOf(p))]
    BY DEF Extract
<1>6. \A p \in DOMAIN pages : pages[p] \in Seq(Line)
    <2> TAKE p \in DOMAIN pages
    <2>1. p \in DOMAIN input.pages /\ pages[p] = Strip(input.pages[p])
        BY DEF Split
    <2> QED BY <1>1, <2>1, InputIs, StripTyped
<1> HIDE DEF pages
<1>7. \A p \in DOMAIN pages : ReplaceImages(pages[p], FiguresOf(p)) \in Seq(Line)
    <2> TAKE p \in DOMAIN pages
    <2>1. FiguresOf(p) \in Seq(Numbered)
        BY <1>2, KeepTyped DEF FiguresOf
    <2> QED BY <1>6, <2>1, ReplaceTyped
<1>8. \A p \in DOMAIN v0' : v0'[p] \in Seq(Line)
    BY <1>5, <1>7
<1> QED BY <1>2, <1>4, <1>8

LEMMA FenceBlockKeeps ==
    ASSUME TextInv, FenceBlock
    PROVE  TextInv'
<1> DEFINE now == input.blocks[fenced + 1]
<1>1. /\ phase = "code" /\ fenced < Len(input.blocks) /\ fenced' = fenced + 1
      /\ UNCHANGED <<phase, input, figures, whole, v0>>
    BY DEF FenceBlock
<1>2. fenced + 1 \in 1..Len(input.blocks) /\ fenced' \in 0..Len(input.blocks)
    <2>1. Len(input.blocks) \in Nat
        BY InputIs, LenProperties DEF TextInv
    <2> QED BY <1>1, <2>1 DEF TextInv
<1>3. now.lang \in Languages
    <2>1. now \in Blocks
        BY <1>2, InputIs, ElementOfSeq DEF TextInv
    <2> QED BY <2>1 DEF Blocks
<1>4. ~(phase \in Early)
    BY <1>1 DEF Early
<1>5. ASSUME UNCHANGED <<v1, spans>>
      PROVE  TextInv'
    BY <1>1, <1>2, <1>5 DEF TextInv, Fenced
<1>6. ASSUME NEW q, q \in DOMAIN v1, NEW block, block.lang \in Languages,
             v1' = [v1 EXCEPT ![q] = ApplyFence(v1[q], block)],
             spans' = IF Spanned(v1[q], block) THEN spans \cup {q} ELSE spans
      PROVE  TextInv'
    <2>1. v1[q] \in Seq(Line) /\ Fenced(q)
        BY <1>6 DEF TextInv
    <2>2. /\ ApplyFence(v1[q], block) \in Seq(Line)
          /\ Plain(ApplyFence(v1[q], block)) = Plain(v1[q])
          /\ Paired(v1[q]) /\ ~Spanned(v1[q], block) => Paired(ApplyFence(v1[q], block))
        BY <1>6, <2>1, ApplyFenceIs
    <2>3. /\ DOMAIN v1' = DOMAIN v1 /\ v1'[q] = ApplyFence(v1[q], block)
          /\ \A p \in DOMAIN v1 : p # q => v1'[p] = v1[p]
        BY <1>6
    <2>4. v1'[q] \in Seq(Line) /\ Fenced(q)'
        <3>1. Plain(v1'[q]) = Plain(v0'[q])
            BY <1>1, <2>1, <2>2, <2>3 DEF Fenced
        <3>2. ASSUME Paired(v0'[q]), q \notin spans'
              PROVE  Paired(v1'[q])
            <4>1. q \notin spans /\ ~Spanned(v1[q], block)
                BY <1>6, <3>2
            <4>2. Paired(v1[q])
                BY <1>1, <2>1, <3>2, <4>1 DEF Fenced
            <4> QED BY <2>2, <2>3, <4>1, <4>2
        <3> QED BY <2>2, <2>3, <3>1, <3>2 DEF Fenced
    <2>5. ASSUME NEW p \in DOMAIN v1', p # q
          PROVE  p \in DOMAIN v0' /\ v1'[p] \in Seq(Line) /\ Fenced(p)'
        <3>1. p \in DOMAIN v1 /\ v1'[p] = v1[p] /\ (p \notin spans' => p \notin spans)
            BY <1>6, <2>3, <2>5
        <3>2. p \in DOMAIN v0 /\ v1[p] \in Seq(Line) /\ Fenced(p)
            BY <3>1 DEF TextInv
        <3> QED BY <1>1, <3>1, <3>2 DEF Fenced
    <2>6. q \in DOMAIN v0'
        BY <1>1, <1>6 DEF TextInv
    <2>7. ASSUME NEW p \in DOMAIN v1'
          PROVE  p \in DOMAIN v0' /\ v1'[p] \in Seq(Line) /\ Fenced(p)'
        <3>1. CASE p = q
            BY <2>4, <2>6, <3>1
        <3>2. CASE p # q
            BY <2>5, <3>2
        <3> QED BY <3>1, <3>2
    <2> QED BY <1>1, <1>2, <1>4, <2>7 DEF TextInv
<1>7. CASE now.page \in DOMAIN v1 /\ v1[now.page] # <<>>
    <2>1. /\ v1' = [v1 EXCEPT ![now.page] = ApplyFence(v1[now.page], now)]
          /\ spans' = IF Spanned(v1[now.page], now) THEN spans \cup {now.page} ELSE spans
        BY <1>7 DEF FenceBlock
    <2> HIDE DEF now
    <2> QED BY <1>3, <1>6, <1>7, <2>1
<1> QED BY <1>5, <1>7 DEF FenceBlock

LEMMA TextNext == ASSUME TextInv, [Next]_vars PROVE TextInv'
<1> USE DEF Phases, Early
<1>1. CASE Extract
    <2>1. v1 = <<>> /\ v1' = <<>> /\ phase' = "map" /\ input' = input /\ fenced' = fenced
        BY <1>1 DEF Extract, TextInv
    <2>2. \A p \in DOMAIN v1' : FALSE
        BY <2>1
    <2> QED BY <1>1, <2>1, <2>2, ExtractTyped DEF TextInv
<1>2. CASE BuildSectionMap
    BY <1>2 DEF BuildSectionMap, TextInv, Fenced
<1>3. CASE GeneratePageHints
    <2>1. v1' = v0 /\ v0' = v0 /\ phase' = "code"
          /\ UNCHANGED <<input, fenced, figures, whole, spans>>
        BY <1>3 DEF GeneratePageHints
    <2>2. \A p \in DOMAIN v1' : p \in DOMAIN v0' /\ v1'[p] \in Seq(Line) /\ Fenced(p)'
        BY <2>1 DEF TextInv, Fenced
    <2> QED BY <2>1, <2>2 DEF TextInv
<1>4. CASE FenceBlock
    BY <1>4, FenceBlockKeeps
<1>5. CASE CodeDone
    BY <1>5 DEF CodeDone, TextInv, Fenced
<1>6. CASE GenerateBoundaryHints
    BY <1>6 DEF GenerateBoundaryHints, TextInv, Fenced
<1>7. CASE UNCHANGED vars
    BY <1>7 DEF vars, TextInv, Fenced
<1> QED BY <1>1, <1>2, <1>3, <1>4, <1>5, <1>6, <1>7 DEF Next

(* What the steps on the text read is text: the versions hold lines, and   *)
(* the second has the pages of the first, with no more than all of its     *)
(* blocks fenced (pipeline_viewer.py, the steps from the extraction on).   *)
THEOREM TextAlwaysTyped == Spec => []TextInv
BY TextInit, TextNext, PTL DEF Spec

(* Fencing the code blocks, one after the other, loses and reorders no     *)
(* line, and keeps the fences of a page in pairs of an opening and a bare  *)
(* closing one, unless the region of a block held a fence                  *)
(* (pipeline_viewer.py, _apply_code_block_fence).                          *)
THEOREM CodeAlwaysFenced == Spec => []CodeIsFenced
<1>1. TextInv => CodeIsFenced
    BY DEF TextInv, CodeIsFenced, Fenced
<1> QED BY <1>1, TextAlwaysTyped, PTL

(***************************************************************************)
(* The figures take the placeholders in their order: how many there are,   *)
(* and what replacing does to two texts in a row.                          *)
(***************************************************************************)
Images(s) == Len(Keep(s, {Image}))

LEMMA ImagesCat ==
    ASSUME NEW s \in Seq(Line), NEW t \in Seq(Line)
    PROVE  /\ Images(s) \in Nat /\ Images(t) \in Nat
           /\ Images(Cat(s, t)) = Images(s) + Images(t)
<1> DEFINE u == Keep(s, {Image})
           w == Keep(t, {Image})
<1>1. Keep(Cat(s, t), {Image}) = Cat(u, w)
    BY KeepCat
<1>2. u \in Seq(Line) /\ w \in Seq(Line)
    BY KeepTyped
<1> HIDE DEF u, w
<1>3. Len(Cat(u, w)) = Len(u) + Len(w)
    BY <1>2, CatIs
<1>4. Len(u) \in Nat /\ Len(w) \in Nat
    BY <1>2, LenProperties
<1> QED BY <1>1, <1>3, <1>4 DEF Images, u, w

LEMMA ImagesOne ==
    ASSUME NEW e \in Line
    PROVE  Images(One(e)) = IF e = Image THEN 1 ELSE 0
<1>1. CASE e = Image
    <2>1. Keep(One(e), {Image}) = One(e)
        BY <1>1, KeepOne
    <2>2. Len(One(e)) = 1
        BY OneIs
    <2> QED BY <1>1, <2>1, <2>2 DEF Images
<1>2. CASE e # Image
    <2>1. Keep(One(e), {Image}) = <<>>
        BY <1>2, KeepOne
    <2> QED BY <1>2, <2>1, EmptySeq DEF Images
<1> QED BY <1>1, <1>2

LEMMA ImagesEmpty == Images(<<>>) = 0
BY KeepEmpty, EmptySeq DEF Images

LEMMA ImagesNone ==
    ASSUME NEW s \in Seq(Line)
    PROVE  Images(s) = 0 <=> \A i \in 1..Len(s) : s[i] # Image
<1>1. ASSUME \A i \in 1..Len(s) : s[i] # Image
      PROVE  Images(s) = 0
    <2>1. Keep(s, {Image}) = <<>>
        BY <1>1, KeepNone
    <2> QED BY <2>1, EmptySeq DEF Images
<1>2. ASSUME NEW i \in 1..Len(s), s[i] = Image
      PROVE  Images(s) # 0
    <2> DEFINE a == SubSeq(s, 1, i - 1)
               b == SubSeq(s, 1, i)
               c == SubSeq(s, i + 1, Len(s))
    <2>1. a \in Seq(Line) /\ c \in Seq(Line) /\ b = Cat(a, One(Image)) /\ s = Cat(b, c)
        BY <1>2, Cut1
    <2> HIDE DEF a, b, c
    <2>2. One(Image) \in Seq(Line) /\ Images(One(Image)) = 1
        BY ImageIsNo, OneIs, ImagesOne
    <2>3. b \in Seq(Line)
        BY <2>1, <2>2, CatIs
    <2>4. Images(b) = Images(a) + Images(One(Image)) /\ Images(a) \in Nat
        BY <2>1, <2>2, ImagesCat
    <2>5. Images(s) = Images(b) + Images(c) /\ Images(c) \in Nat
        BY <2>1, <2>3, ImagesCat
    <2> QED BY <2>2, <2>4, <2>5
<1> QED BY <1>1, <1>2

(* A member changed between two sequences.                                 *)
LEMMA CatChanged ==
    ASSUME NEW T, NEW a \in Seq(T), NEW c \in Seq(T), NEW x \in T, NEW y \in T
    PROVE  [Cat(Cat(a, One(y)), c) EXCEPT ![Len(a) + 1] = x] = Cat(Cat(a, One(x)), c)
<1> DEFINE p == Cat(a, One(y))
           q == Cat(a, One(x))
           f == Cat(p, c)
           h == Cat(q, c)
           n == Len(a)
           g == [f EXCEPT ![n + 1] = x]
<1>1. p \in Seq(T) /\ Len(p) = n + 1 /\ \A i \in 1..n : p[i] = a[i]
    BY CatOne
<1>2. q \in Seq(T) /\ Len(q) = n + 1 /\ q[n + 1] = x /\ \A i \in 1..n : q[i] = a[i]
    BY CatOne
<1>3. n \in Nat /\ Len(c) \in Nat
    BY LenProperties
<1> HIDE DEF p, q, n
<1>4. p \in Seq(T) /\ q \in Seq(T)
    BY <1>1, <1>2
<1>5. f \in Seq(T) /\ h \in Seq(T)
    BY <1>4, CatIs
<1>6. Len(f) = Len(p) + Len(c)
    BY <1>4, CatIs
<1>7. \A i \in 1..Len(p) : f[i] = p[i]
    BY <1>4, CatIs
<1>8. \A i \in 1..Len(c) : f[Len(p) + i] = c[i]
    BY <1>4, CatIs
<1>9. Len(h) = Len(q) + Len(c)
    BY <1>4, CatIs
<1>10. \A i \in 1..Len(q) : h[i] = q[i]
    BY <1>4, CatIs
<1>11. \A i \in 1..Len(c) : h[Len(q) + i] = c[i]
    BY <1>4, CatIs
<1> HIDE DEF f, h
<1>12. n + 1 \in 1..Len(f)
    BY <1>1, <1>3, <1>6
<1>13. g \in Seq(T) /\ Len(g) = Len(f)
       /\ \A i \in 1..Len(f) : g[i] = IF i = n + 1 THEN x ELSE f[i]
    <2> DEFINE k == n + 1
    <2> HIDE DEF k
    <2>1. k \in 1..Len(f)
        BY <1>12 DEF k
    <2>2. [f EXCEPT ![k] = x] \in Seq(T) /\ Len([f EXCEPT ![k] = x]) = Len(f)
          /\ \A i \in 1..Len(f) : [f EXCEPT ![k] = x][i] = IF i = k THEN x ELSE f[i]
        BY <1>5, <2>1, ExceptSeq
    <2> QED BY <2>2 DEF k
<1> HIDE DEF g
<1>14. ASSUME NEW i \in 1..Len(g)
       PROVE  g[i] = h[i]
    <2>1. i \in 1..Len(f) /\ i \in Nat
        BY <1>3, <1>13
    <2>2. CASE i = n + 1
        <3>1. i \in 1..Len(q)
            BY <1>2, <1>3, <2>2
        <3> QED BY <1>2, <1>10, <1>13, <2>1, <2>2, <3>1
    <2>3. CASE i < n + 1
        <3>1. i \in 1..n /\ i \in 1..Len(p) /\ i \in 1..Len(q)
            BY <1>1, <1>2, <1>3, <2>1, <2>3
        <3>2. g[i] = f[i]
            BY <1>3, <1>13, <2>1, <2>3
        <3> QED BY <1>1, <1>2, <1>7, <1>10, <3>1, <3>2
    <2>4. CASE i > n + 1
        <3> DEFINE k == i - (n + 1)
        <3>1. k \in 1..Len(c) /\ i = Len(p) + k /\ i = Len(q) + k
            BY <1>1, <1>2, <1>3, <1>6, <2>1, <2>4
        <3> HIDE DEF k
        <3>2. f[i] = c[k]
            BY <1>8, <3>1
        <3>3. h[i] = c[k]
            BY <1>11, <3>1
        <3>4. g[i] = f[i]
            BY <1>3, <1>13, <2>1, <2>4
        <3> QED BY <3>2, <3>3, <3>4
    <2>5. i = n + 1 \/ i < n + 1 \/ i > n + 1
        BY <1>3, <2>1
    <2> QED BY <2>2, <2>3, <2>4, <2>5
<1>15. g = h
    <2>1. Len(g) = Len(h)
        BY <1>1, <1>2, <1>6, <1>9, <1>13
    <2> QED BY <1>5, <1>13, <1>14, <2>1, SeqEqual
<1> QED BY <1>15 DEF g, h, f, p, q, n

(* The figure takes the place of the first image.                          *)
LEMMA PlacedAt ==
    ASSUME NEW a \in Seq(Line), NEW c \in Seq(Line), Images(a) = 0, NEW n \in Nat
    PROVE  Placed(Cat(Cat(a, One(Image)), c), n) = Cat(Cat(a, One(Figure(n))), c)
<1> DEFINE p == Cat(a, One(Image))
           s == Cat(p, c)
           S == Positions(s, {Image})
           k == Len(a) + 1
<1>1. Image \in Line /\ Figure(n) \in Line
    BY ImageIsNo
<1>2. p \in Seq(Line) /\ Len(p) = Len(a) + 1 /\ p[Len(a) + 1] = Image
      /\ \A i \in 1..Len(a) : p[i] = a[i]
    <2> DEFINE e == Image
    <2>1. e \in Line
        BY <1>1
    <2> HIDE DEF e
    <2>2. Cat(a, One(e)) \in Seq(Line) /\ Len(Cat(a, One(e))) = Len(a) + 1
        BY <2>1, CatOne
    <2>3. Cat(a, One(e))[Len(a) + 1] = e
        BY <2>1, CatOne
    <2>4. \A i \in 1..Len(a) : Cat(a, One(e))[i] = a[i]
        <3>1. Append(a, e) = Cat(a, One(e))
            BY <2>1, AppendIs
        <3>2. \A i \in 1..Len(a) : Append(a, e)[i] = a[i]
            BY <2>1, AppendProperties
        <3> QED BY <3>1, <3>2
    <2> QED BY <2>2, <2>3, <2>4 DEF e
<1>3. Len(a) \in Nat
    BY LenProperties
<1>4. \A i \in 1..Len(a) : a[i] # Image
    BY ImagesNone
<1>5. [s EXCEPT ![Len(a) + 1] = Figure(n)] = Cat(Cat(a, One(Figure(n))), c)
    BY <1>1, CatChanged
<1> HIDE DEF p
<1>6. s \in Seq(Line)
    BY <1>2, CatIs
<1>7. Len(s) = Len(p) + Len(c)
    BY <1>2, CatIs
<1>8. \A i \in 1..Len(p) : s[i] = p[i]
    BY ZenonT(30), <1>2, CatIs
<1>9. Len(c) \in Nat /\ Len(s) \in Nat /\ DOMAIN s = 1..Len(s)
    BY <1>6, LenProperties
<1> HIDE DEF s
<1>10. S = {i \in 1..Len(s) : s[i] = Image}
    BY <1>9 DEF Positions
<1> HIDE DEF k, S
<1>11. k \in 1..Len(p) /\ k \in 1..Len(s) /\ k = Len(a) + 1
    BY <1>2, <1>3, <1>7, <1>9 DEF k
<1>12. k \in S
    BY <1>2, <1>8, <1>10, <1>11
<1>13. ASSUME NEW i \in S
       PROVE  k <= i
    <2>1. i \in 1..Len(s) /\ s[i] = Image
        BY <1>10
    <2> SUFFICES ASSUME ~(k <= i)
                 PROVE  FALSE
        OBVIOUS
    <2>2. i \in 1..Len(a) /\ i \in 1..Len(p)
        BY <1>2, <1>3, <1>9, <1>11, <2>1
    <2> QED BY <1>2, <1>4, <1>8, <2>1, <2>2
<1>14. S \in SUBSET Nat
    BY <1>9, <1>10
<1>15. Least(S) = k
    <2>1. Least(S) \in S /\ \A j \in S : Least(S) <= j
        BY <1>12, <1>14, LeastIs
    <2>2. Least(S) <= k /\ k <= Least(S) /\ Least(S) \in Nat /\ k \in Nat
        BY <1>12, <1>13, <1>14, <2>1
    <2> QED BY <2>2
<1>16. Placed(s, n) = [s EXCEPT ![k] = Figure(n)]
    BY <1>12, <1>15 DEF Placed, S
<1> QED BY <1>5, <1>11, <1>16 DEF s, p

(* Every text with an image has a first one.                               *)
FirstImage(s, a, c) ==
    /\ a \in Seq(Line) /\ c \in Seq(Line) /\ Images(a) = 0
    /\ s = Cat(Cat(a, One(Image)), c)
LEMMA FirstImageIs ==
    ASSUME NEW s \in Seq(Line), Images(s) # 0
    PROVE  \E a, c : FirstImage(s, a, c)
<1> DEFINE S == {i \in 1..Len(s) : s[i] = Image}
<1>1. S \in SUBSET Nat /\ S # {}
    BY ImagesNone, LenProperties
<1>2. Least(S) \in S /\ \A j \in S : Least(S) <= j
    BY <1>1, LeastIs
<1> DEFINE i == Least(S)
           a == SubSeq(s, 1, i - 1)
           c == SubSeq(s, i + 1, Len(s))
<1>3. i \in 1..Len(s) /\ s[i] = Image
    BY <1>2
<1>4. \A j \in 1..Len(s) : j < i => s[j] # Image
    BY <1>2, LenProperties
<1> HIDE DEF S, i
<1>5. a \in Seq(Line) /\ c \in Seq(Line) /\ s = Cat(Cat(a, One(Image)), c)
    BY <1>3, Cut1
<1>6. Len(a) = i - 1 /\ \A j \in 1..(i - 1) : a[j] = s[j]
    <2>1. Len(s) \in Nat /\ \A j \in 1..Len(s) : s[j] \in Line
        BY LenProperties, ElementOfSeq
    <2> QED BY <1>3, <2>1, SubSeqProperties
<1> HIDE DEF a, c
<1>7. \A j \in 1..Len(a) : a[j] # Image
    <2> TAKE j \in 1..Len(a)
    <2>1. j \in 1..(i - 1) /\ j \in 1..Len(s) /\ j < i
        BY <1>3, <1>6, LenProperties
    <2> QED BY <1>4, <1>6, <2>1
<1>8. Images(a) = 0
    BY <1>5, <1>7, ImagesNone
<1> QED BY <1>5, <1>8 DEF FirstImage

LEMMA NoneToPlace ==
    ASSUME NEW s \in Seq(Line), Images(s) = 0, NEW n
    PROVE  Placed(s, n) = s
<1>1. Positions(s, {Image}) = {}
    BY ImagesNone, LenProperties DEF Positions
<1> QED BY <1>1 DEF Placed

(* A figure placed in the first of two texts, or in the second.            *)
LEMMA PlacedLeft ==
    ASSUME NEW s \in Seq(Line), NEW t \in Seq(Line), Images(s) # 0, NEW n \in Nat
    PROVE  /\ Placed(Cat(s, t), n) = Cat(Placed(s, n), t)
           /\ Images(Placed(s, n)) = Images(s) - 1
<1>1. PICK a, c : FirstImage(s, a, c)
    BY FirstImageIs
<1> DEFINE p == Cat(a, One(Image))
           q == Cat(a, One(Figure(n)))
<1>2. a \in Seq(Line) /\ c \in Seq(Line) /\ Images(a) = 0 /\ s = Cat(p, c)
    BY <1>1 DEF FirstImage
<1>3. Image \in Line /\ Figure(n) \in Line /\ Figure(n) # Image
    BY ImageIsNo
<1>4. p \in Seq(Line) /\ q \in Seq(Line)
    BY <1>2, <1>3, CatOne
<1>5. One(Image) \in Seq(Line) /\ One(Figure(n)) \in Seq(Line)
    BY <1>3, OneIs
<1>6. Images(p) = Images(a) + Images(One(Image)) /\ Images(q) = Images(a) + Images(One(Figure(n)))
    BY <1>2, <1>5, ImagesCat
<1>7. Images(p) = 1 /\ Images(q) = 0
    BY <1>2, <1>3, <1>6, ImagesOne
<1>8. Placed(Cat(p, c), n) = Cat(q, c)
    BY <1>2, PlacedAt
<1>9. Cat(c, t) \in Seq(Line)
    BY <1>2, CatIs
<1>10. Placed(Cat(p, Cat(c, t)), n) = Cat(q, Cat(c, t))
    BY <1>2, <1>9, PlacedAt
<1> HIDE DEF p, q
<1>11. Cat(Cat(p, c), t) = Cat(p, Cat(c, t)) /\ Cat(Cat(q, c), t) = Cat(q, Cat(c, t))
    BY <1>2, <1>4, CatThree
<1>12. Images(Cat(p, c)) = Images(p) + Images(c) /\ Images(Cat(q, c)) = Images(q) + Images(c)
       /\ Images(c) \in Nat
    BY <1>2, <1>4, ImagesCat
<1>13. Placed(Cat(s, t), n) = Cat(Placed(s, n), t)
    BY <1>2, <1>8, <1>10, <1>11
<1>14. Images(Placed(s, n)) = Images(s) - 1
    BY <1>2, <1>7, <1>8, <1>12
<1> QED BY <1>13, <1>14

LEMMA PlacedRight ==
    ASSUME NEW s \in Seq(Line), NEW t \in Seq(Line), Images(s) = 0, NEW n \in Nat
    PROVE  Placed(Cat(s, t), n) = Cat(s, Placed(t, n))
<1>1. CASE Images(t) = 0
    <2>1. Cat(s, t) \in Seq(Line)
        BY CatIs
    <2>2. Images(Cat(s, t)) = Images(s) + Images(t)
        BY ImagesCat
    <2> QED BY <1>1, <2>1, <2>2, NoneToPlace
<1>2. CASE Images(t) # 0
    <2>1. PICK a, c : FirstImage(t, a, c)
        BY <1>2, FirstImageIs
    <2> DEFINE p == Cat(a, One(Image))
               q == Cat(a, One(Figure(n)))
               b == Cat(s, a)
    <2>2. a \in Seq(Line) /\ c \in Seq(Line) /\ Images(a) = 0 /\ t = Cat(p, c)
        BY <2>1 DEF FirstImage
    <2>3. One(Image) \in Seq(Line) /\ One(Figure(n)) \in Seq(Line)
        BY ImageIsNo, OneIs
    <2>4. p \in Seq(Line) /\ q \in Seq(Line) /\ b \in Seq(Line)
        BY <2>2, <2>3, CatIs
    <2>5. Images(b) = 0
        <3>1. Images(b) = Images(s) + Images(a)
            BY <2>2, ImagesCat
        <3> QED BY <2>2, <3>1
    <2>6. Placed(Cat(p, c), n) = Cat(q, c)
        BY <2>2, PlacedAt
    <2>7. Cat(s, p) = Cat(b, One(Image)) /\ Cat(s, q) = Cat(b, One(Figure(n)))
        BY <2>2, <2>3, CatThree
    <2>8. Cat(s, Cat(p, c)) = Cat(Cat(s, p), c) /\ Cat(s, Cat(q, c)) = Cat(Cat(s, q), c)
        <3> HIDE DEF p, q
        <3> QED BY <2>2, <2>4, CatThree
    <2> HIDE DEF b
    <2>9. Placed(Cat(Cat(b, One(Image)), c), n) = Cat(Cat(b, One(Figure(n))), c)
        BY <2>2, <2>4, <2>5, PlacedAt
    <2> HIDE DEF p, q
    <2> QED BY <2>2, <2>6, <2>7, <2>8, <2>9
<1> QED BY <1>1, <1>2

(* Figures for the images of the first of two texts stay in it; those that *)
(* are left go to the second.                                              *)
LEMMA ReplaceLeft ==
    ASSUME NEW s \in Seq(Line), NEW t \in Seq(Line), NEW figs \in Seq(Numbered),
           Len(figs) <= Images(s)
    PROVE  /\ ReplaceImages(Cat(s, t), figs) = Cat(ReplaceImages(s, figs), t)
           /\ Images(ReplaceImages(s, figs)) = Images(s) - Len(figs)
<1> DEFINE Left(a) == /\ ReplaceImages(Cat(s, t), a) = Cat(ReplaceImages(s, a), t)
                      /\ Images(ReplaceImages(s, a)) = Images(s) - Len(a)
           P == {a \in Seq(Numbered) : Len(a) <= Images(s) => Left(a)}
<1>0. Cat(s, t) \in Seq(Line) /\ Images(s) \in Nat
    BY CatIs, ImagesCat
<1>1. <<>> \in P
    <2>1. <<>> \in Seq(Numbered) /\ Len(<<>>) = 0
        BY EmptySeq
    <2>2. ReplaceImages(s, <<>>) = s /\ ReplaceImages(Cat(s, t), <<>>) = Cat(s, t)
        BY <1>0, ReplaceNone
    <2> QED BY <1>0, <2>1, <2>2
<1>2. ASSUME NEW a \in Seq(Numbered), NEW e \in Numbered, a \in P
      PROVE  Append(a, e) \in P
    <2> DEFINE u == ReplaceImages(s, a)
               v == Append(a, e)
    <2>1. v \in Seq(Numbered) /\ Len(v) = Len(a) + 1 /\ Len(a) \in Nat
        BY AppendProperties, LenProperties
    <2>2. e.number \in Nat
        BY DEF Numbered
    <2>3. ReplaceImages(s, v) = Placed(u, e.number)
          /\ ReplaceImages(Cat(s, t), v) = Placed(ReplaceImages(Cat(s, t), a), e.number)
        BY <1>0, ReplaceAppend
    <2>4. u \in Seq(Line)
        BY ReplaceTyped
    <2> HIDE DEF u, v
    <2> SUFFICES ASSUME Len(v) <= Images(s)
                 PROVE  Left(v)
        BY <2>1 DEF v
    <2>5. ReplaceImages(Cat(s, t), a) = Cat(u, t) /\ Images(u) = Images(s) - Len(a)
        BY <1>0, <1>2, <2>1 DEF u
    <2>6. Images(u) # 0
        BY <1>0, <2>1, <2>5
    <2>7. Placed(Cat(u, t), e.number) = Cat(Placed(u, e.number), t)
          /\ Images(Placed(u, e.number)) = Images(u) - 1
        BY <2>2, <2>4, <2>6, PlacedLeft
    <2> QED BY <1>0, <2>1, <2>3, <2>5, <2>7
<1>3. Seq(Numbered) \subseteq P
    <2> HIDE DEF P
    <2> QED BY <1>1, <1>2, InductSeq
<1> QED BY <1>3

LEMMA ReplaceCat ==
    ASSUME NEW s \in Seq(Line), NEW t \in Seq(Line), NEW a \in Seq(Numbered),
           Len(a) = Images(s), NEW b \in Seq(Numbered)
    PROVE  ReplaceImages(Cat(s, t), Cat(a, b)) = Cat(ReplaceImages(s, a), ReplaceImages(t, b))
<1> DEFINE u == ReplaceImages(s, a)
           P == {d \in Seq(Numbered) :
                    ReplaceImages(Cat(s, t), Cat(a, d)) = Cat(u, ReplaceImages(t, d))}
<1>0. Cat(s, t) \in Seq(Line) /\ u \in Seq(Line) /\ Images(s) \in Nat
    BY CatIs, ReplaceTyped, ImagesCat
<1>1. ReplaceImages(Cat(s, t), a) = Cat(u, t) /\ Images(u) = 0
    <2>1. Len(a) <= Images(s)
        BY <1>0
    <2>2. ReplaceImages(Cat(s, t), a) = Cat(u, t) /\ Images(u) = Images(s) - Len(a)
        BY <2>1, ReplaceLeft
    <2> QED BY <1>0, <2>2
<1> HIDE DEF u
<1>2. <<>> \in P
    <2>1. <<>> \in Seq(Numbered) /\ Cat(a, <<>>) = a
        BY EmptySeq, CatEmpty
    <2>2. ReplaceImages(t, <<>>) = t
        BY ReplaceNone
    <2> QED BY <1>1, <2>1, <2>2
<1>3. ASSUME NEW d \in Seq(Numbered), NEW e \in Numbered, d \in P
      PROVE  Append(d, e) \in P
    <2>1. Append(d, e) \in Seq(Numbered) /\ Cat(a, d) \in Seq(Numbered)
        BY AppendProperties, CatIs
    <2>2. Cat(a, Append(d, e)) = Append(Cat(a, d), e)
        BY CatAppend
    <2>3. ReplaceImages(Cat(s, t), Append(Cat(a, d), e))
          = Placed(ReplaceImages(Cat(s, t), Cat(a, d)), e.number)
        BY <1>0, <2>1, ReplaceAppend
    <2>4. ReplaceImages(t, Append(d, e)) = Placed(ReplaceImages(t, d), e.number)
        BY ReplaceAppend
    <2>5. e.number \in Nat /\ ReplaceImages(t, d) \in Seq(Line)
        BY ReplaceTyped DEF Numbered
    <2>6. Placed(Cat(u, ReplaceImages(t, d)), e.number)
          = Cat(u, Placed(ReplaceImages(t, d), e.number))
        BY <1>0, <1>1, <2>5, PlacedRight
    <2> QED BY <1>3, <2>1, <2>2, <2>3, <2>4, <2>6
<1>4. Seq(Numbered) \subseteq P
    <2> HIDE DEF P
    <2> QED BY <1>2, <1>3, InductSeq
<1> QED BY <1>4 DEF u

(***************************************************************************)
(* The figures that stand in a text are those that were placed.            *)
(***************************************************************************)
Drawing(figs) == [i \in 1..Len(figs) |-> Figure(figs[i].number)]

LEMMA DrawingIs ==
    ASSUME NEW a \in Seq(Numbered)
    PROVE  /\ Drawing(a) \in Seq(Line) /\ Drawing(<<>>) = <<>>
           /\ \A e \in Numbered : Drawing(Append(a, e)) = Cat(Drawing(a), One(Figure(e.number)))
<1>1. Len(a) \in Nat /\ \A i \in 1..Len(a) : a[i] \in Numbered
    BY LenProperties, ElementOfSeq
<1>2. \A e \in Numbered : Figure(e.number) \in Line
    BY ImageIsNo DEF Numbered
<1>3. Drawing(a) \in Seq(Line) /\ Len(Drawing(a)) = Len(a)
      /\ \A i \in 1..Len(a) : Drawing(a)[i] = Figure(a[i].number)
    <2>1. Drawing(a) \in [1..Len(a) -> Line]
        BY <1>1, <1>2 DEF Drawing
    <2> QED BY <1>1, <2>1 DEF Drawing
<1>4. Drawing(<<>>) = <<>>
    <2>1. Len(<<>>) = 0
        OBVIOUS
    <2> QED BY <2>1 DEF Drawing
<1>5. ASSUME NEW e \in Numbered
      PROVE  Drawing(Append(a, e)) = Cat(Drawing(a), One(Figure(e.number)))
    <2> DEFINE b == Append(a, e)
               d == Drawing(a)
               x == Figure(e.number)
               f == Append(d, x)
    <2>1. /\ b \in Seq(Numbered) /\ Len(b) = Len(a) + 1 /\ b[Len(a) + 1] = e
          /\ \A i \in 1..Len(a) : b[i] = a[i]
        BY AppendProperties
    <2>2. d \in Seq(Line) /\ x \in Line /\ Len(d) = Len(a)
        BY <1>2, <1>3
    <2>3. \A i \in 1..Len(a) : d[i] = Figure(a[i].number)
        BY <1>3
    <2> HIDE DEF b, d
    <2>4. x = Figure(e.number)
        OBVIOUS
    <2> HIDE DEF x
    <2>5. /\ f \in Seq(Line) /\ Len(f) = Len(d) + 1 /\ f[Len(d) + 1] = x
          /\ \A i \in 1..Len(d) : f[i] = d[i]
        BY <2>2, AppendProperties
    <2>6. f = Cat(d, One(x))
        BY <2>2, AppendIs
    <2> HIDE DEF f
    <2>7. Drawing(b) = [i \in 1..(Len(a) + 1) |-> Figure(b[i].number)]
        BY <2>1 DEF Drawing
    <2>8. f = [i \in 1..(Len(a) + 1) |-> f[i]]
        BY <2>2, <2>5
    <2>9. ASSUME NEW i \in 1..(Len(a) + 1)
          PROVE  Figure(b[i].number) = f[i]
        <3>1. CASE i = Len(a) + 1
            BY <2>1, <2>2, <2>4, <2>5, <3>1
        <3>2. CASE i # Len(a) + 1
            <4>1. i \in 1..Len(a) /\ i \in 1..Len(d)
                BY <1>1, <2>2, <3>2
            <4> QED BY <2>1, <2>3, <2>5, <4>1
        <3> QED BY <3>1, <3>2
    <2>10. Drawing(b) = f
        BY <2>7, <2>8, <2>9
    <2> QED BY <2>6, <2>10 DEF b, d, x
<1> QED BY <1>3, <1>4, <1>5

LEMMA PlacedOne ==
    ASSUME NEW e \in Numbered
    PROVE  ReplaceImages(One(Image), One(e)) = One(Figure(e.number))
<1> DEFINE I == One(Image)
           F == One(Figure(e.number))
<1>1. e.number \in Nat
    BY DEF Numbered
<1>2. I \in Seq(Line) /\ F \in Seq(Line)
    BY <1>1, ImageIsNo, OneIs
<1>3. <<>> \in Seq(Numbered) /\ <<>> \in Seq(Line) /\ One(e) = Append(<<>>, e)
    BY EmptySeq DEF One
<1>4. ReplaceImages(I, Append(<<>>, e)) = Placed(ReplaceImages(I, <<>>), e.number)
    BY <1>2, <1>3, ReplaceAppend
<1>5. ReplaceImages(I, <<>>) = I
    BY <1>2, ReplaceNone
<1>6. Placed(Cat(Cat(<<>>, I), <<>>), e.number) = Cat(Cat(<<>>, F), <<>>)
    BY <1>1, <1>3, ImagesEmpty, PlacedAt
<1> HIDE DEF I, F
<1>7. Cat(Cat(<<>>, I), <<>>) = I /\ Cat(Cat(<<>>, F), <<>>) = F
    BY <1>2, CatEmpty
<1> QED BY <1>3, <1>4, <1>5, <1>6, <1>7 DEF I, F

LEMMA DrawnFigures ==
    ASSUME NEW lines \in Seq(Line \ Drawn), NEW figs \in Seq(Numbered),
           Len(figs) = Images(lines)
    PROVE  Keep(ReplaceImages(lines, figs), Drawn) = Drawing(figs)
<1> DEFINE T == Line \ Drawn
           Good(s, a) == Keep(ReplaceImages(s, a), Drawn) = Drawing(a)
           P == {s \in Seq(T) : \A a \in Seq(Numbered) : Len(a) = Images(s) => Good(s, a)}
<1>0. T \subseteq Line /\ Seq(T) \subseteq Seq(Line)
    OBVIOUS
<1>1. <<>> \in P
    <2>1. <<>> \in Seq(T) /\ <<>> \in Seq(Line) /\ <<>> \in Seq(Numbered)
        BY EmptySeq
    <2>2. ASSUME NEW a \in Seq(Numbered), Len(a) = Images(<<>>)
          PROVE  Good(<<>>, a)
        <3>1. a = <<>>
            BY <2>2, ImagesEmpty, EmptySeq
        <3>2. ReplaceImages(<<>>, <<>>) = <<>>
            BY <2>1, ReplaceNone
        <3>3. Keep(<<>>, Drawn) = <<>> /\ Drawing(<<>>) = <<>>
            BY <2>1, KeepEmpty, DrawingIs
        <3> QED BY <3>1, <3>2, <3>3
    <2> QED BY <2>1, <2>2
<1>2. ASSUME NEW s \in Seq(T), NEW e \in T, s \in P
      PROVE  Append(s, e) \in P
    <2> DEFINE t == Append(s, e)
    <2>1. t \in Seq(T)
        BY AppendProperties
    <2>2. s \in Seq(Line) /\ e \in Line /\ e \notin Drawn
        BY <1>0
    <2>3. t = Cat(s, One(e)) /\ One(e) \in Seq(Line)
        BY <2>2, AppendIs, OneIs
    <2> HIDE DEF t, T
    <2>4. Images(t) = Images(s) + Images(One(e)) /\ Images(s) \in Nat
        BY <2>2, <2>3, ImagesCat
    <2>5. ASSUME NEW a \in Seq(Numbered), Len(a) = Images(t)
          PROVE  Good(t, a)
        <3>1. CASE e = Image
            <4>1. Len(a) = Images(s) + 1
                BY <2>2, <2>4, <2>5, <3>1, ImagesOne
            <4>2. a # <<>>
                BY <2>4, <4>1, EmptySeq
            <4>3. PICK b \in Seq(Numbered), f \in Numbered : a = Append(b, f)
                BY <4>2, SequenceEmptyOrAppend
            <4>4. a = Cat(b, One(f)) /\ One(f) \in Seq(Numbered)
                BY <4>3, AppendIs, OneIs
            <4>5. Len(b) = Images(s)
                <5>1. Len(a) = Len(b) + 1 /\ Len(b) \in Nat
                    BY <4>3, AppendProperties, LenProperties
                <5> QED BY <2>4, <4>1, <5>1
            <4> DEFINE u == ReplaceImages(s, b)
                       F == Figure(f.number)
            <4>6. ReplaceImages(t, a) = Cat(u, ReplaceImages(One(e), One(f)))
                BY <2>2, <2>3, <4>4, <4>5, ReplaceCat
            <4>7. ReplaceImages(One(e), One(f)) = One(F)
                BY <3>1, PlacedOne
            <4>8. F \in Line /\ F \in Drawn /\ One(F) \in Seq(Line)
                BY ImageIsNo, OneIs DEF Numbered
            <4>9. u \in Seq(Line)
                BY <2>2, ReplaceTyped
            <4>10. Keep(Cat(u, One(F)), Drawn) = Cat(Keep(u, Drawn), Keep(One(F), Drawn))
                BY <4>8, <4>9, KeepCat
            <4>11. Keep(One(F), Drawn) = One(F)
                BY <4>8, KeepOne
            <4>12. Keep(u, Drawn) = Drawing(b)
                BY <1>2, <4>5
            <4>13. Drawing(a) = Cat(Drawing(b), One(F))
                BY <4>3, DrawingIs
            <4> QED BY <4>6, <4>7, <4>10, <4>11, <4>12, <4>13
        <3>2. CASE e # Image
            <4>1. Len(a) = Images(s)
                BY <2>2, <2>4, <2>5, <3>2, ImagesOne
            <4>2. Cat(a, <<>>) = a /\ <<>> \in Seq(Numbered)
                BY CatEmpty, EmptySeq
            <4> DEFINE u == ReplaceImages(s, a)
            <4>3. ReplaceImages(t, Cat(a, <<>>)) = Cat(u, ReplaceImages(One(e), <<>>))
                BY ZenonT(30), <2>2, <2>3, <4>1, <4>2, ReplaceCat
            <4>4. ReplaceImages(One(e), <<>>) = One(e)
                BY <2>3, ReplaceNone
            <4>5. u \in Seq(Line)
                BY <2>2, ReplaceTyped
            <4>6. Keep(Cat(u, One(e)), Drawn) = Cat(Keep(u, Drawn), Keep(One(e), Drawn))
                BY <2>3, <4>5, KeepCat
            <4>7. Keep(One(e), Drawn) = <<>>
                BY <2>2, KeepOne
            <4>8. Keep(u, Drawn) = Drawing(a) /\ Cat(Drawing(a), <<>>) = Drawing(a)
                BY <1>2, <4>1, DrawingIs, CatEmpty
            <4> QED BY <4>2, <4>3, <4>4, <4>6, <4>7, <4>8
        <3> QED BY <3>1, <3>2
    <2> QED BY <2>1, <2>5 DEF t
<1>3. Seq(T) \subseteq P
    <2> HIDE DEF P, T
    <2> QED BY <1>1, <1>2, InductSeq
<1> QED BY <1>3

(* The figures of a page go to the same places whether its blank ends are  *)
(* dropped or not.                                                         *)
LEMMA AllBlank ==
    ASSUME NEW x \in Seq(Line), \A i \in 1..Len(x) : x[i] = Blank
    PROVE  Images(x) = 0 /\ Filled(x) = <<>>
<1>1. \A i \in 1..Len(x) : x[i] # Image /\ x[i] \notin Line \ {Blank}
    BY ImageIsNo
<1>2. Images(x) = 0
    BY <1>1, ImagesNone
<1>3. Keep(x, Line \ {Blank}) = <<>>
    BY <1>1, KeepNone
<1> QED BY <1>2, <1>3 DEF Filled

LEMMA StripReplaced ==
    ASSUME NEW s \in Seq(Line), NEW figs \in Seq(Numbered), Len(figs) = Images(s)
    PROVE  /\ Filled(ReplaceImages(s, figs)) = Filled(ReplaceImages(Strip(s), figs))
           /\ Images(Strip(s)) = Images(s)
<1> DEFINE m == Strip(s)
           B == Line \ {Blank}
<1>1. PICK x, y : StrippedOf(s, x, y)
    BY StripIs
<1>2. m \in Seq(Line) /\ x \in Seq(Line) /\ y \in Seq(Line) /\ s = Cat(Cat(x, m), y)
    BY <1>1 DEF StrippedOf
<1>3. Images(x) = 0 /\ Images(y) = 0 /\ Filled(x) = <<>> /\ Filled(y) = <<>>
    BY <1>1, AllBlank DEF StrippedOf
<1> HIDE DEF m
<1> DEFINE p == Cat(x, m)
           u == ReplaceImages(m, figs)
<1>4. p \in Seq(Line) /\ u \in Seq(Line)
    BY <1>2, CatIs, ReplaceTyped
<1>5. Images(p) = Images(x) + Images(m) /\ Images(m) \in Nat
    BY <1>2, ImagesCat
<1>6. ReplaceImages(p, Cat(<<>>, figs)) = Cat(ReplaceImages(x, <<>>), u)
    <2>1. <<>> \in Seq(Numbered) /\ Len(<<>>) = Images(x)
        BY <1>3, EmptySeq
    <2> QED BY ZenonT(30), <1>2, <2>1, ReplaceCat
<1>7. Cat(<<>>, figs) = figs /\ Cat(figs, <<>>) = figs
    BY CatEmpty
<1>8. ReplaceImages(x, <<>>) = x /\ ReplaceImages(y, <<>>) = y
    BY <1>2, ReplaceNone
<1> HIDE DEF p, u
<1>9. s = Cat(p, y)
    BY <1>2 DEF p
<1>10. Images(s) = Images(p) + Images(y)
    BY <1>2, <1>4, <1>9, ImagesCat
<1>11. Images(p) = Images(s) /\ Images(m) = Images(s)
    BY <1>3, <1>5, <1>10
<1>12. ReplaceImages(Cat(p, y), Cat(figs, <<>>)) = Cat(ReplaceImages(p, figs), ReplaceImages(y, <<>>))
    <2> DEFINE none == <<>>
    <2>1. none \in Seq(Numbered) /\ Len(figs) = Images(p)
        BY <1>11, EmptySeq
    <2>2. p \in Seq(Line) /\ y \in Seq(Line)
        BY <1>2, <1>4
    <2> HIDE DEF none
    <2>3. ReplaceImages(Cat(p, y), Cat(figs, none)) = Cat(ReplaceImages(p, figs), ReplaceImages(y, none))
        BY <2>1, <2>2, ReplaceCat
    <2> QED BY <2>3 DEF none
<1>13. ReplaceImages(s, figs) = Cat(Cat(x, u), y)
    BY <1>6, <1>7, <1>8, <1>9, <1>12
<1> HIDE DEF B
<1>14. Keep(Cat(Cat(x, u), y), B) = Cat(Cat(Keep(x, B), Keep(u, B)), Keep(y, B))
    BY <1>2, <1>4, KeepThree
<1>15. Keep(x, B) = <<>> /\ Keep(y, B) = <<>> /\ Keep(u, B) \in Seq(Line)
    BY <1>3, <1>4, KeepTyped DEF Filled, B
<1>16. Cat(Cat(<<>>, Keep(u, B)), <<>>) = Keep(u, B)
    BY <1>15, CatEmpty
<1> QED BY <1>11, <1>13, <1>14, <1>15, <1>16 DEF Filled, B, u, m

(***************************************************************************)
(* The sequences up to a place, one after the other.                       *)
(***************************************************************************)
Front(g, m) == [p \in 1..m |-> g[p]]
Joined(g, m) == Concat(Front(g, m))

LEMMA FrontIs ==
    ASSUME NEW T, NEW n \in Nat, NEW g \in [1..n -> T]
    PROVE  /\ \A m \in 0..n : Front(g, m) \in Seq(T) /\ Len(Front(g, m)) = m
           /\ Front(g, 0) = <<>>
           /\ \A m \in 0..(n - 1) : Front(g, m + 1) = Append(Front(g, m), g[m + 1])
<1>1. ASSUME NEW m \in 0..n
      PROVE  /\ Front(g, m) \in Seq(T) /\ Len(Front(g, m)) = m
             /\ \A i \in 1..m : Front(g, m)[i] = g[i]
    <2>1. m \in Nat /\ \A i \in 1..m : i \in 1..n
        OBVIOUS
    <2>2. Front(g, m) \in [1..m -> T]
        BY <2>1 DEF Front
    <2> QED BY <2>1, <2>2 DEF Front
<1>2. Front(g, 0) = <<>>
    <2>1. 0 \in 0..n
        OBVIOUS
    <2> QED BY <1>1, <2>1, EmptySeq
<1>3. ASSUME NEW m \in 0..(n - 1)
      PROVE  Front(g, m + 1) = Append(Front(g, m), g[m + 1])
    <2> DEFINE s == Front(g, m)
               t == Front(g, m + 1)
               e == g[m + 1]
               u == Append(s, e)
    <2>1. m \in 0..n /\ m + 1 \in 0..n /\ m \in Nat /\ m + 1 \in 1..n
        OBVIOUS
    <2>2. s \in Seq(T) /\ Len(s) = m /\ \A i \in 1..m : s[i] = g[i]
        BY <1>1, <2>1
    <2>3. t \in Seq(T) /\ Len(t) = m + 1 /\ \A i \in 1..(m + 1) : t[i] = g[i]
        BY <1>1, <2>1
    <2>4. e \in T /\ e = g[m + 1]
        BY <2>1
    <2> HIDE DEF s, t, e
    <2>5. u \in Seq(T) /\ Len(u) = m + 1 /\ u[m + 1] = e /\ \A i \in 1..m : u[i] = s[i]
        BY <2>2, <2>4, AppendProperties
    <2> HIDE DEF u
    <2>6. ASSUME NEW i \in 1..Len(t)
          PROVE  t[i] = u[i]
        <3>1. CASE i = m + 1
            BY <2>1, <2>3, <2>4, <2>5, <3>1
        <3>2. CASE i # m + 1
            <4>1. i \in 1..m /\ i \in 1..(m + 1)
                BY <2>1, <2>3, <3>2
            <4> QED BY <2>2, <2>3, <2>5, <4>1
        <3> QED BY <3>1, <3>2
    <2>7. t = u
        BY <2>3, <2>5, <2>6, SeqEqual
    <2> QED BY <2>7 DEF u, t, s, e
<1> QED BY <1>1, <1>2, <1>3

LEMMA JoinedIs ==
    ASSUME NEW T, NEW n \in Nat, NEW g \in [1..n -> Seq(T)]
    PROVE  /\ \A m \in 0..n : Joined(g, m) \in Seq(T)
           /\ Joined(g, 0) = <<>>
           /\ \A m \in 0..(n - 1) : Joined(g, m + 1) = Cat(Joined(g, m), g[m + 1])
<1>1. /\ \A m \in 0..n : Front(g, m) \in Seq(Seq(T))
      /\ Front(g, 0) = <<>>
      /\ \A m \in 0..(n - 1) : Front(g, m + 1) = Append(Front(g, m), g[m + 1])
    BY FrontIs
<1>2. \A m \in 0..n : Joined(g, m) \in Seq(T)
    BY <1>1, ConcatTyped DEF Joined
<1>3. Joined(g, 0) = <<>>
    BY <1>1, ConcatEmpty DEF Joined
<1>4. ASSUME NEW m \in 0..(n - 1)
      PROVE  Joined(g, m + 1) = Cat(Joined(g, m), g[m + 1])
    <2>1. m \in 0..n /\ m + 1 \in 1..n
        OBVIOUS
    <2>2. Front(g, m) \in Seq(Seq(T)) /\ g[m + 1] \in Seq(T)
        BY <1>1, <2>1
    <2>3. Concat(Append(Front(g, m), g[m + 1])) = Cat(Concat(Front(g, m)), g[m + 1])
        BY <2>2, ConcatAppend
    <2> QED BY <1>1, <2>3 DEF Joined
<1> QED BY <1>2, <1>3, <1>4

(* Only the sequences up to the place count.                               *)
LEMMA JoinedSame ==
    ASSUME NEW m \in Nat, NEW g, NEW h, \A p \in 1..m : g[p] = h[p]
    PROVE  Joined(g, m) = Joined(h, m)
<1>1. Front(g, m) = Front(h, m)
    BY DEF Front
<1> QED BY <1>1 DEF Joined

LEMMA JoinedAll ==
    ASSUME NEW T, NEW s \in Seq(Seq(T))
    PROVE  Concat(s) = Joined(s, Len(s)) /\ s \in [1..Len(s) -> Seq(T)] /\ Len(s) \in Nat
<1>1. Len(s) \in Nat /\ s \in [1..Len(s) -> Seq(T)]
    BY LenProperties
<1>2. s = [i \in 1..Len(s) |-> s[i]]
    BY <1>1
<1>3. Front(s, Len(s)) = s
    BY <1>2 DEF Front
<1> QED BY <1>1, <1>3 DEF Joined

(* What is kept of all is what is kept of each.                            *)
KeptOf(h, g, K, n) == \A p \in 1..n : h[p] = Keep(g[p], K)
LEMMA KeepJoined ==
    ASSUME NEW T, NEW n \in Nat, NEW g \in [1..n -> Seq(T)], NEW K, NEW h, KeptOf(h, g, K, n)
    PROVE  Keep(Joined(g, n), K) = Joined(h, n)
<1> DEFINE k == [p \in 1..n |-> Keep(g[p], K)]
           S == {m \in Nat : m <= n => Keep(Joined(g, m), K) = Joined(k, m)}
<1>1. k \in [1..n -> Seq(T)]
    BY KeepTyped
<1>2. \A p \in 1..n : k[p] = Keep(g[p], K)
    OBVIOUS
<1> HIDE DEF k
<1>3. 0 \in S
    BY <1>1, JoinedIs, KeepEmpty
<1>4. ASSUME NEW m \in Nat, m \in S
      PROVE  m + 1 \in S
    <2> SUFFICES ASSUME m + 1 <= n
                 PROVE  Keep(Joined(g, m + 1), K) = Joined(k, m + 1)
        OBVIOUS
    <2>1. m \in 0..(n - 1) /\ m \in 0..n /\ m + 1 \in 1..n /\ m <= n
        OBVIOUS
    <2>2. Joined(g, m + 1) = Cat(Joined(g, m), g[m + 1])
          /\ Joined(g, m) \in Seq(T) /\ g[m + 1] \in Seq(T)
        BY <2>1, JoinedIs
    <2>3. Joined(k, m + 1) = Cat(Joined(k, m), k[m + 1])
        BY <1>1, <2>1, JoinedIs
    <2>4. Keep(Cat(Joined(g, m), g[m + 1]), K) = Cat(Keep(Joined(g, m), K), Keep(g[m + 1], K))
        BY <2>2, KeepCat
    <2> QED BY <1>2, <1>4, <2>1, <2>2, <2>3, <2>4
<1>5. Nat \subseteq S
    <2> HIDE DEF S
    <2> QED BY <1>3, <1>4, Induct
<1>6. Keep(Joined(g, n), K) = Joined(k, n)
    BY <1>5
<1>7. Joined(k, n) = Joined(h, n)
    BY <1>2, JoinedSame DEF KeptOf
<1> QED BY <1>6, <1>7

(* Placing the figures page by page is placing them all.                   *)
ReplacedOf(h, g, F, n) ==
    \A p \in 1..n : Len(F[p]) = Images(g[p]) /\ h[p] = ReplaceImages(g[p], F[p])
LEMMA ReplaceJoined ==
    ASSUME NEW n \in Nat, NEW g \in [1..n -> Seq(Line)], NEW F \in [1..n -> Seq(Numbered)],
           NEW h, ReplacedOf(h, g, F, n)
    PROVE  /\ ReplaceImages(Joined(g, n), Joined(F, n)) = Joined(h, n)
           /\ Len(Joined(F, n)) = Images(Joined(g, n))
<1> DEFINE k == [p \in 1..n |-> ReplaceImages(g[p], F[p])]
           Good(m) == /\ ReplaceImages(Joined(g, m), Joined(F, m)) = Joined(k, m)
                      /\ Len(Joined(F, m)) = Images(Joined(g, m))
           S == {m \in Nat : m <= n => Good(m)}
<1>1. k \in [1..n -> Seq(Line)]
    BY ReplaceTyped
<1>2. \A p \in 1..n : k[p] = ReplaceImages(g[p], F[p])
    OBVIOUS
<1> HIDE DEF k
<1>3. 0 \in S
    <2>1. Joined(g, 0) = <<>> /\ Joined(F, 0) = <<>> /\ Joined(k, 0) = <<>>
        BY <1>1, JoinedIs
    <2>2. ReplaceImages(<<>>, <<>>) = <<>>
        BY ReplaceNone, EmptySeq
    <2>3. Len(<<>>) = Images(<<>>)
        BY ImagesEmpty, EmptySeq
    <2> QED BY <2>1, <2>2, <2>3
<1>4. ASSUME NEW m \in Nat, m \in S
      PROVE  m + 1 \in S
    <2> SUFFICES ASSUME m + 1 <= n
                 PROVE  Good(m + 1)
        OBVIOUS
    <2>1. m \in 0..(n - 1) /\ m \in 0..n /\ m + 1 \in 1..n /\ m <= n
        OBVIOUS
    <2> DEFINE s == Joined(g, m)
               a == Joined(F, m)
               t == g[m + 1]
               b == F[m + 1]
    <2>2. Joined(g, m + 1) = Cat(s, t) /\ s \in Seq(Line) /\ t \in Seq(Line)
        BY ZenonT(30), <2>1, JoinedIs
    <2>3. Joined(F, m + 1) = Cat(a, b) /\ a \in Seq(Numbered) /\ b \in Seq(Numbered)
        BY ZenonT(30), <2>1, JoinedIs
    <2>4. Joined(k, m + 1) = Cat(Joined(k, m), k[m + 1])
        BY ZenonT(30), <1>1, <2>1, JoinedIs
    <2>5. Good(m) /\ Len(b) = Images(t) /\ k[m + 1] = ReplaceImages(t, b)
        BY <1>2, <1>4, <2>1 DEF ReplacedOf
    <2>6. ReplaceImages(s, a) = Joined(k, m) /\ Len(a) = Images(s)
        BY <2>5
    <2> HIDE DEF s, a, t, b
    <2>7. ReplaceImages(Cat(s, t), Cat(a, b)) = Cat(ReplaceImages(s, a), ReplaceImages(t, b))
        BY <2>2, <2>3, <2>6, ReplaceCat
    <2>8. Len(Cat(a, b)) = Len(a) + Len(b)
        BY <2>3, CatIs
    <2>9. Images(Cat(s, t)) = Images(s) + Images(t)
        BY <2>2, ImagesCat
    <2> QED BY <2>2, <2>3, <2>4, <2>5, <2>6, <2>7, <2>8, <2>9
<1>5. Nat \subseteq S
    <2> HIDE DEF S
    <2> QED BY <1>3, <1>4, Induct
<1>6. Good(n)
    BY <1>5
<1>7. Joined(k, n) = Joined(h, n)
    BY <1>2, JoinedSame DEF ReplacedOf
<1> QED BY <1>6, <1>7

(* A sequence of which all is kept.                                        *)
LEMMA KeepFull ==
    ASSUME NEW T, NEW s \in Seq(T), NEW K
    PROVE  Len(Keep(s, K)) <= Len(s) /\ (Len(Keep(s, K)) = Len(s) => Keep(s, K) = s)
<1> DEFINE Full(u) == Len(Keep(u, K)) <= Len(u) /\ (Len(Keep(u, K)) = Len(u) => Keep(u, K) = u)
           P == {u \in Seq(T) : Full(u)}
<1>1. <<>> \in P
    BY EmptySeq, KeepEmpty
<1>2. ASSUME NEW u \in Seq(T), NEW e \in T, u \in P
      PROVE  Append(u, e) \in P
    <2> DEFINE t == Append(u, e)
               v == Keep(u, K)
    <2>1. t \in Seq(T) /\ Len(t) = Len(u) + 1 /\ Len(u) \in Nat
        BY AppendProperties, LenProperties
    <2>2. v \in Seq(T) /\ Len(v) \in Nat
        BY KeepTyped, LenProperties
    <2>3. Len(v) <= Len(u) /\ (Len(v) = Len(u) => v = u)
        BY <1>2
    <2>4. /\ e \in K => Keep(t, K) = Append(v, e)
          /\ e \notin K => Keep(t, K) = v
        BY KeepAppend
    <2>5. Len(Append(v, e)) = Len(v) + 1
        BY <2>2, AppendProperties
    <2> HIDE DEF v, t
    <2>6. ASSUME e \in K
          PROVE  Len(Keep(t, K)) <= Len(t) /\ (Len(Keep(t, K)) = Len(t) => Keep(t, K) = t)
        <3>1. Keep(t, K) = Append(v, e) /\ Len(Keep(t, K)) = Len(v) + 1
            BY <2>4, <2>5, <2>6
        <3>2. Len(Keep(t, K)) <= Len(t)
            BY <2>1, <2>2, <2>3, <3>1
        <3>3. ASSUME Len(Keep(t, K)) = Len(t)
              PROVE  Keep(t, K) = t
            <4>1. v = u
                BY <2>1, <2>2, <2>3, <3>1, <3>3
            <4> QED BY <3>1, <4>1 DEF t
        <3> QED BY <3>2, <3>3
    <2>7. ASSUME e \notin K
          PROVE  Len(Keep(t, K)) <= Len(t) /\ Len(Keep(t, K)) # Len(t)
        <3>1. Keep(t, K) = v
            BY <2>4, <2>7
        <3>2. Len(v) < Len(t)
            BY <2>1, <2>2, <2>3
        <3> QED BY <2>1, <2>2, <3>1, <3>2
    <2> QED BY <2>1, <2>6, <2>7 DEF t
<1>3. Seq(T) \subseteq P
    <2> HIDE DEF P
    <2> QED BY <1>1, <1>2, InductSeq
<1> QED BY <1>3

(***************************************************************************)
(* The figures of the pages, one page after the other, are the figures of  *)
(* the document, if the figures are in the order of the pages.             *)
(***************************************************************************)
OnPage(p) == [number : Nat, page : {p}]
Repeat(k, p) == [i \in 1..k |-> p]
FigPages(x) == [i \in 1..Len(x) |-> x[i].page]

LEMMA KeepOnPage ==
    ASSUME NEW x \in Seq(Numbered), NEW p
    PROVE  /\ (\A i \in 1..Len(x) : x[i].page = p) => Keep(x, OnPage(p)) = x
           /\ (\A i \in 1..Len(x) : x[i].page # p) => Keep(x, OnPage(p)) = <<>>
<1>1. \A i \in 1..Len(x) : x[i] \in Numbered
    BY ElementOfSeq, LenProperties
<1>2. \A i \in 1..Len(x) : x[i] \in OnPage(p) <=> x[i].page = p
    <2> TAKE i \in 1..Len(x)
    <2> DEFINE e == x[i]
    <2>1. e \in [number : Nat, page : Nat]
        BY <1>1 DEF Numbered
    <2> HIDE DEF e
    <2>2. e = [number |-> e.number, page |-> e.page] /\ e.number \in Nat
        BY <2>1
    <2>3. e \in OnPage(p) <=> e.page = p
        BY <2>2 DEF OnPage
    <2> QED BY <2>3 DEF e
<1>3. ASSUME \A i \in 1..Len(x) : x[i].page = p
      PROVE  Keep(x, OnPage(p)) = x
    BY <1>2, <1>3, KeepAll
<1>4. ASSUME \A i \in 1..Len(x) : x[i].page # p
      PROVE  Keep(x, OnPage(p)) = <<>>
    BY <1>2, <1>4, KeepNone
<1> QED BY <1>3, <1>4

LEMMA RepeatTyped ==
    ASSUME NEW T, NEW p \in T, NEW k \in Nat
    PROVE  Repeat(k, p) \in Seq(T) /\ Len(Repeat(k, p)) = k
           /\ \A i \in 1..k : Repeat(k, p)[i] = p
<1>1. Repeat(k, p) \in [1..k -> T]
    BY DEF Repeat
<1> QED BY <1>1 DEF Repeat

ByPage(x, c, m) ==
    /\ x = Joined([p \in 1..m |-> Keep(x, OnPage(p))], m)
    /\ \A p \in 1..m : Len(Keep(x, OnPage(p))) = c[p]

LEMMA ByPageNext ==
    ASSUME NEW x \in Seq(Numbered), NEW m \in Nat, NEW c, c[m + 1] \in Nat,
           NEW J \in Seq(1..m), FigPages(x) = Cat(J, Repeat(c[m + 1], m + 1)),
           \A u \in Seq(Numbered) : FigPages(u) = J => ByPage(u, c, m)
    PROVE  ByPage(x, c, m + 1)
<1> DEFINE q == m + 1
           R == Repeat(c[q], q)
           L == Len(J)
           n == Len(x)
           F == FigPages(x)
<1>1. q \in Nat /\ R \in Seq(Nat) /\ Len(R) = c[q] /\ \A i \in 1..c[q] : R[i] = q
    <2>1. q \in Nat /\ c[q] \in Nat
        OBVIOUS
    <2> HIDE DEF q
    <2> QED BY <2>1, RepeatTyped
<1>2. J \in Seq(Nat) /\ L \in Nat /\ n \in Nat /\ \A i \in 1..L : J[i] \in 1..m
    <2>1. Seq(1..m) \subseteq Seq(Nat)
        OBVIOUS
    <2> QED BY <2>1, LenProperties, ElementOfSeq
<1>3. Len(F) = n /\ \A i \in 1..n : F[i] = x[i].page
    <2>1. F = [i \in 1..n |-> x[i].page]
        BY DEF FigPages
    <2> HIDE DEF F
    <2>2. DOMAIN F = 1..n
        BY <2>1
    <2> QED BY <1>2, <2>1, <2>2
<1>4. F = Cat(J, R)
    OBVIOUS
<1> HIDE DEF F, R, q, L
<1>5. Len(F) = Len(J) + Len(R)
    BY <1>1, <1>2, <1>4, CatIs
<1>6. \A i \in 1..Len(J) : F[i] = J[i]
    BY ZenonT(30), <1>1, <1>2, <1>4, CatIs
<1>7. \A i \in 1..Len(R) : Cat(J, R)[Len(J) + i] = R[i]
    <2>1. J \in Seq(Nat) /\ R \in Seq(Nat)
        BY <1>1, <1>2
    <2> QED BY <2>1, CatIs
<1>8. c[q] \in Nat /\ n = L + c[q] /\ L = Len(J)
    BY <1>1, <1>3, <1>5 DEF q, L
<1> DEFINE u == SubSeq(x, 1, L)
           w == SubSeq(x, L + 1, n)
<1>9. u \in Seq(Numbered) /\ w \in Seq(Numbered) /\ x = Cat(u, w)
    <2>1. /\ 1 \in 1..(Len(x) + 1) /\ L \in (1 - 1)..Len(x) /\ n \in L..Len(x)
        BY <1>2, <1>8
    <2>2. u \in Seq(Numbered) /\ w \in Seq(Numbered) /\ SubSeq(x, 1, n) = Cat(u, w)
        BY <2>1, CutTwo
    <2> QED BY <2>2, SubSeqFull
<1>x. \A i \in 1..n : x[i] \in Numbered
    BY ElementOfSeq, LenProperties
<1>10. Len(u) = L /\ \A i \in 1..L : u[i] = x[i]
    BY <1>x, <1>2, <1>8, SubSeqProperties
<1>11. Len(w) = c[q] /\ \A i \in 1..c[q] : w[i] = x[L + i]
    <2>1. /\ Len(w) = IF L + 1 <= n THEN n - (L + 1) + 1 ELSE 0
          /\ \A i \in 1..(n - (L + 1) + 1) : w[i] = x[(L + 1) + i - 1]
        BY <1>x, <1>2, <1>8, SubSeqProperties
    <2>2. n - (L + 1) + 1 = c[q] /\ (~(L + 1 <= n) => c[q] = 0)
          /\ \A i \in 1..c[q] : (L + 1) + i - 1 = L + i
        BY <1>2, <1>8
    <2> HIDE DEF w
    <2> QED BY <2>1, <2>2
<1> HIDE DEF u, w, n
<1>12. \A i \in 1..L : u[i].page = J[i]
    <2> TAKE i \in 1..L
    <2>1. i \in 1..n /\ i \in 1..Len(J)
        BY <1>2, <1>8
    <2> QED BY <1>3, <1>6, <1>10, <2>1
<1>13. \A i \in 1..Len(w) : w[i].page = q
    <2> TAKE i \in 1..Len(w)
    <2>0. i \in 1..c[q] /\ i \in 1..Len(R)
        BY <1>1, <1>11
    <2>1. i \in 1..c[q] /\ L + i \in 1..n /\ i \in 1..Len(R)
        <3>1. L \in Nat /\ c[q] \in Nat /\ n = L + c[q]
            BY <1>2, <1>8
        <3> QED BY <2>0, <3>1
    <2>2. F[L + i] = x[L + i].page /\ w[i] = x[L + i]
        BY <1>3, <1>11, <2>1
    <2>3. F[Len(J) + i] = R[i]
        BY <1>4, <1>7, <2>1
    <2>4. R[i] = q
        BY <1>1, <2>1
    <2> QED BY <1>8, <2>2, <2>3, <2>4
<1>14. FigPages(u) = J
    <2>1. FigPages(u) = [i \in 1..L |-> u[i].page]
        BY <1>10 DEF FigPages
    <2>2. J = [i \in 1..L |-> J[i]]
        BY <1>2, <1>8
    <2> QED BY <1>12, <2>1, <2>2
<1>15. ByPage(u, c, m)
    BY <1>9, <1>14
<1>16. ASSUME NEW p
       PROVE  Keep(x, OnPage(p)) = Cat(Keep(u, OnPage(p)), Keep(w, OnPage(p)))
              /\ Keep(u, OnPage(p)) \in Seq(Numbered) /\ Keep(w, OnPage(p)) \in Seq(Numbered)
    BY <1>9, KeepCat, KeepTyped
<1>17. ASSUME NEW p \in 1..m
       PROVE  Keep(x, OnPage(p)) = Keep(u, OnPage(p))
    <2>1. p # q
        BY DEF q
    <2>2. Keep(w, OnPage(p)) = <<>>
        BY <1>9, <1>13, <2>1, KeepOnPage
    <2> QED BY <1>16, <2>2, CatEmpty
<1>18. Keep(x, OnPage(q)) = w
    <2>1. \A i \in 1..Len(u) : u[i].page # q
        BY <1>2, <1>8, <1>10, <1>12 DEF q
    <2>2. Keep(u, OnPage(q)) = <<>> /\ Keep(w, OnPage(q)) = w
        BY <1>9, <1>13, <2>1, KeepOnPage
    <2> QED BY <1>9, <1>16, <2>2, CatEmpty
<1>19. \A p \in 1..q : Len(Keep(x, OnPage(p))) = c[p]
    <2> TAKE p \in 1..q
    <2>1. CASE p = q
        BY <1>11, <1>18, <2>1
    <2>2. CASE p # q
        <3>1. p \in 1..m
            BY <2>2 DEF q
        <3> QED BY <1>15, <1>17, <3>1 DEF ByPage
    <2> QED BY <2>1, <2>2
<1> DEFINE g == [p \in 1..q |-> Keep(x, OnPage(p))]
           h == [p \in 1..m |-> Keep(u, OnPage(p))]
<1>20. g \in [1..q -> Seq(Numbered)] /\ g[q] = w
    <2>1. q \in 1..q
        BY DEF q
    <2> QED BY <1>18, <2>1, KeepTyped
<1>21. \A p \in 1..m : g[p] = h[p]
    <2> TAKE p \in 1..m
    <2>1. p \in 1..q
        BY DEF q
    <2> QED BY <1>17, <2>1
<1>22. u = Joined(h, m)
    BY <1>15 DEF ByPage
<1> HIDE DEF g, h
<1>23. Joined(g, m) = Joined(h, m)
    BY <1>21, JoinedSame
<1>24. Joined(g, m + 1) = Cat(Joined(g, m), g[m + 1])
    <2>1. m + 1 \in Nat /\ g \in [1..(m + 1) -> Seq(Numbered)] /\ m \in 0..((m + 1) - 1)
        BY <1>20 DEF q
    <2> QED BY <2>1, JoinedIs
<1>25. x = Joined(g, q)
    BY <1>9, <1>20, <1>22, <1>23, <1>24 DEF q
<1> QED BY <1>19, <1>25 DEF ByPage, g, q

LEMMA ByPageIs ==
    ASSUME NEW n \in Nat, NEW c \in [1..n -> Nat], NEW x \in Seq(Numbered),
           FigPages(x) = Concat([p \in 1..n |-> Repeat(c[p], p)])
    PROVE  ByPage(x, c, n)
<1> DEFINE G == [p \in 1..n |-> Repeat(c[p], p)]
           Good(m) == \A u \in Seq(Numbered) : FigPages(u) = Joined(G, m) => ByPage(u, c, m)
           S == {m \in Nat : m <= n => Good(m)}
<1>1. \A p \in 1..n : G[p] = Repeat(c[p], p)
    OBVIOUS
<1>2. G \in [1..n -> Seq(Nat)]
    <2>1. ASSUME NEW p \in 1..n
          PROVE  Repeat(c[p], p) \in Seq(Nat)
        <3>1. p \in Nat /\ c[p] \in Nat
            OBVIOUS
        <3> QED BY <3>1, RepeatTyped
    <2> QED BY <2>1
<1>3. FigPages(x) = Joined(G, n)
    BY DEF Joined, Front
<1> HIDE DEF G
<1>4. 0 \in S
    <2>1. Joined(G, 0) = <<>>
        BY <1>2, JoinedIs
    <2>2. ASSUME NEW u \in Seq(Numbered), FigPages(u) = Joined(G, 0)
          PROVE  ByPage(u, c, 0)
        <3>1. DOMAIN FigPages(u) = 1..Len(u) /\ DOMAIN <<>> = {}
            BY DEF FigPages
        <3>2. 1..Len(u) = {} /\ Len(u) \in Nat
            BY <2>1, <2>2, <3>1, LenProperties
        <3>3. Len(u) = 0
            <4>1. 1 \notin 1..Len(u)
                BY <3>2
            <4> QED BY <3>2, <4>1
        <3>4. u = <<>>
            BY <3>3, EmptySeq
        <3> DEFINE h == [p \in 1..0 |-> Keep(u, OnPage(p))]
        <3>5. h \in [1..0 -> Seq(Numbered)]
            BY KeepTyped
        <3> HIDE DEF h
        <3>6. Joined(h, 0) = <<>>
            BY <3>5, JoinedIs
        <3> QED BY <3>4, <3>6 DEF ByPage, h
    <2> QED BY <2>2
<1>5. ASSUME NEW m \in Nat, m \in S
      PROVE  m + 1 \in S
    <2> SUFFICES ASSUME m + 1 <= n, NEW u \in Seq(Numbered), FigPages(u) = Joined(G, m + 1)
                 PROVE  ByPage(u, c, m + 1)
        OBVIOUS
    <2>1. m \in 0..(n - 1) /\ m + 1 \in 1..n /\ m <= n
        OBVIOUS
    <2>2. Joined(G, m + 1) = Cat(Joined(G, m), G[m + 1]) /\ G[m + 1] = Repeat(c[m + 1], m + 1)
        BY ZenonT(30), <1>1, <1>2, <2>1, JoinedIs
    <2>3. Joined(G, m) \in Seq(1..m)
        <3> DEFINE H == [p \in 1..m |-> Repeat(c[p], p)]
        <3>1. \A p \in 1..m : p \in 1..n /\ c[p] \in Nat
            BY <2>1
        <3>2. H \in [1..m -> Seq(1..m)] /\ \A p \in 1..m : H[p] = G[p]
            BY <1>1, <3>1, RepeatTyped
        <3> HIDE DEF H
        <3>3. Joined(H, m) \in Seq(1..m)
            <4>1. m \in 0..m
                OBVIOUS
            <4> QED BY <3>2, <4>1, JoinedIs
        <3>4. Joined(H, m) = Joined(G, m)
            BY <3>2, JoinedSame
        <3> QED BY <3>3, <3>4
    <2>4. Good(m) /\ c[m + 1] \in Nat
        BY <1>5, <2>1
    <2> QED BY <2>2, <2>3, <2>4, ByPageNext
<1>6. Nat \subseteq S
    <2> HIDE DEF S
    <2> QED BY <1>4, <1>5, Induct
<1>7. Good(n)
    BY <1>6
<1> QED BY <1>3, <1>7

LEMMA LinesFilled ==
    ASSUME NEW v, NEW p, p \in DOMAIN v => v[p] \in Seq(Line)
    PROVE  /\ Lines(v, p) \in Seq(Line)
           /\ Filled(Lines(v, p)) = IF p \in DOMAIN v THEN Filled(v[p]) ELSE <<>>
<1>1. <<Blank>> = One(Blank) /\ Blank \in Line /\ Blank \notin Line \ {Blank}
    BY ImageIsNo DEF One
<1>2. One(Blank) \in Seq(Line) /\ Keep(One(Blank), Line \ {Blank}) = <<>>
    BY <1>1, OneIs, KeepOne
<1>3. Filled(<<Blank>>) = <<>> /\ <<Blank>> \in Seq(Line)
    BY <1>1, <1>2 DEF Filled
<1>4. Filled(<<>>) = <<>>
    BY KeepEmpty DEF Filled
<1> QED BY <1>3, <1>4 DEF Lines

(* If every picture became a figure, the figures are the pictures, and     *)
(* those of a page are as many as its placeholders.                        *)
LEMMA AllFigures ==
    ASSUME input \in Inputs, Len(Figures) = Len(input.pictures)
    PROVE  /\ Len(input.pictures) \in Nat /\ DOMAIN input.pictures = 1..Len(input.pictures)
           /\ \A i \in 1..Len(input.pictures) : Figures[i].number = i
           /\ ByPage(Figures, [p \in 1..N |-> Images(input.pages[p])], N)
<1> DEFINE pics == input.pictures
           n == Len(pics)
           all == [i \in DOMAIN pics |-> [number |-> i, page |-> pics[i].page]]
           c == [p \in 1..N |-> Images(input.pages[p])]
<1>1. pics \in Seq([page : Nat, placed : BOOLEAN, cropped : BOOLEAN])
    BY DocumentAssumption
<1>2. n \in Nat /\ DOMAIN pics = 1..n
      /\ \A i \in 1..n : pics[i] \in [page : Nat, placed : BOOLEAN, cropped : BOOLEAN]
    BY <1>1, LenProperties, ElementOfSeq
<1>3. all \in [1..n -> Numbered]
    BY <1>2 DEF Numbered
<1>4. all \in Seq(Numbered) /\ Len(all) = n
      /\ \A i \in 1..n : all[i].number = i /\ all[i].page = pics[i].page
    BY <1>2, <1>3
<1>5. \E K : Figures = Keep(all, K)
    BY DEF Figures
<1> HIDE DEF all
<1>6. Figures = all
    <2>1. PICK K : Figures = Keep(all, K)
        BY <1>5
    <2> QED BY <1>4, <2>1, KeepFull
<1>7. N \in Nat /\ DOMAIN input.pages = 1..N /\ \A p \in 1..N : input.pages[p] \in Seq(Line)
    BY InputIs DEF N
<1>8. c \in [1..N -> Nat]
    <2>1. \A p \in 1..N : Images(input.pages[p]) \in Nat
        BY <1>7, KeepTyped, LenProperties DEF Images
    <2> QED BY <2>1
<1>9. FigPages(all) = [i \in DOMAIN pics |-> pics[i].page]
    BY <1>2, <1>4 DEF FigPages
<1>10. Placeholders(input.pages) = Concat([p \in 1..N |-> Repeat(c[p], p)])
    <2>1. ASSUME NEW p \in 1..N
          PROVE  [i \in DOMAIN Keep(input.pages[p], {Image}) |-> p] = Repeat(c[p], p)
        <3>1. Keep(input.pages[p], {Image}) \in Seq(Line)
            BY <1>7, KeepTyped
        <3>2. DOMAIN Keep(input.pages[p], {Image}) = 1..Images(input.pages[p])
            BY <3>1, LenProperties DEF Images
        <3> QED BY <3>2 DEF Repeat
    <2>2. [p \in DOMAIN input.pages |-> [i \in DOMAIN Keep(input.pages[p], {Image}) |-> p]]
          = [p \in 1..N |-> Repeat(c[p], p)]
        BY <1>7, <2>1
    <2> HIDE DEF c
    <2> QED BY <2>2 DEF Placeholders
<1>11. FigPages(all) = Concat([p \in 1..N |-> Repeat(c[p], p)])
    BY <1>9, <1>10, PictureAssumption
<1> HIDE DEF c
<1>12. ByPage(all, c, N)
    BY <1>4, <1>7, <1>8, <1>11, ByPageIs
<1> QED BY <1>2, <1>4, <1>6, <1>12 DEF c

LEMMA ExtractFigures ==
    ASSUME TextInv, Extract, Len(figures') = Len(input.pictures)
    PROVE  /\ Keep(whole', Drawn) = [i \in DOMAIN input.pictures |-> Figure(i)]
           /\ Filled(whole') = Filled(Concat([p \in PageNumbers |-> Lines(v0', p)]))
<1> DEFINE fs == Figures
           g == input.pages
           c == [p \in 1..N |-> Images(g[p])]
           F == [p \in 1..N |-> Keep(fs, OnPage(p))]
           R == [p \in 1..N |-> ReplaceImages(g[p], F[p])]
           H == [p \in 1..N |-> Lines(v0', p)]
           B == Line \ {Blank}
<1>1. input \in Inputs /\ figures' = fs /\ fs \in Seq(Numbered)
    BY FiguresTyped DEF TextInv, Extract
<1>2. N \in Nat /\ g \in [1..N -> Seq(Line)] /\ DOMAIN g = 1..N /\ Concat(g) = Joined(g, N)
      /\ Concat(g) \in Seq(Line) /\ Concat(g) \in Seq(Line \ Drawn)
    <2>1. g \in Seq(Seq(Line)) /\ g \in Seq(Seq(Line \ Drawn)) /\ DOMAIN g = 1..N
        BY <1>1, InputIs DEF N
    <2>2. Concat(g) \in Seq(Line) /\ Concat(g) \in Seq(Line \ Drawn)
        BY <2>1, ConcatTyped
    <2> QED BY <2>1, <2>2, JoinedAll DEF N
<1>3. /\ Len(input.pictures) \in Nat /\ DOMAIN input.pictures = 1..Len(input.pictures)
      /\ \A i \in 1..Len(input.pictures) : fs[i].number = i
      /\ ByPage(fs, c, N) /\ Len(fs) = Len(input.pictures)
    BY <1>1, AllFigures
<1>4. whole' = ReplaceImages(Concat(g), fs)
    BY <1>1 DEF Extract
<1>5. F \in [1..N -> Seq(Numbered)] /\ \A p \in 1..N : F[p] = Keep(fs, OnPage(p))
    BY <1>1, KeepTyped
<1>6. fs = Joined(F, N) /\ \A p \in 1..N : Len(F[p]) = Images(g[p])
    BY <1>3 DEF ByPage
<1>7. v0' = [p \in {q \in DOMAIN g : q = 1 \/ Strip(g[q]) # <<>>} |->
                ReplaceImages(Strip(g[p]), Keep(fs, OnPage(p)))]
    BY <1>1 DEF Extract, Split, FiguresOf, OnPage
<1>8. \A p \in DOMAIN v0' : v0'[p] \in Seq(Line)
    BY ExtractTyped
<1> HIDE DEF fs, g, F
<1>9. R \in [1..N -> Seq(Line)] /\ \A p \in 1..N : R[p] = ReplaceImages(g[p], F[p])
    BY <1>2, <1>5, ReplaceTyped
<1>10. H \in [1..N -> Seq(Line)] /\ \A p \in 1..N : H[p] = Lines(v0', p)
    BY <1>8, LinesFilled
<1> HIDE DEF R, H
<1>11. whole' = Joined(R, N) /\ Len(fs) = Images(Concat(g))
    <2>0. ReplacedOf(R, g, F, N)
        BY <1>6, <1>9 DEF ReplacedOf
    <2>1. ReplaceImages(Joined(g, N), Joined(F, N)) = Joined(R, N)
          /\ Len(Joined(F, N)) = Images(Joined(g, N))
        BY <1>2, <1>5, <2>0, ReplaceJoined
    <2> QED BY <1>2, <1>4, <1>6, <2>1
<1>12. Keep(whole', Drawn) = [i \in DOMAIN input.pictures |-> Figure(i)]
    <2>1. Keep(whole', Drawn) = Drawing(fs)
        BY <1>1, <1>2, <1>4, <1>11, DrawnFigures
    <2>2. Drawing(fs) = [i \in 1..Len(input.pictures) |-> Figure(i)]
        BY <1>3 DEF Drawing
    <2> QED BY <1>3, <2>1, <2>2
<1>13. ASSUME NEW p \in 1..N
       PROVE  Filled(R[p]) = Filled(H[p])
    <2> DEFINE s == g[p]
               a == F[p]
    <2>1. s \in Seq(Line) /\ a \in Seq(Numbered) /\ Len(a) = Images(s) /\ a = Keep(fs, OnPage(p))
        BY <1>2, <1>5, <1>6
    <2>2. Filled(R[p]) = Filled(ReplaceImages(Strip(s), a)) /\ Images(Strip(s)) = Images(s)
        BY <1>9, <2>1, StripReplaced
    <2>3. Filled(H[p]) = IF p \in DOMAIN v0' THEN Filled(v0'[p]) ELSE <<>>
        BY <1>8, <1>10, LinesFilled
    <2>4. CASE p \in DOMAIN v0'
        <3>1. v0'[p] = ReplaceImages(Strip(s), a)
            BY <1>7, <2>1, <2>4
        <3> QED BY <2>2, <2>3, <2>4, <3>1
    <2>5. CASE p \notin DOMAIN v0'
        <3>1. Strip(s) = <<>>
            BY <1>2, <1>7, <2>5
        <3>2. a = <<>>
            BY <2>1, <2>2, <3>1, ImagesEmpty, EmptySeq
        <3>3. ReplaceImages(<<>>, <<>>) = <<>> /\ Filled(<<>>) = <<>>
            BY ReplaceNone, EmptySeq, KeepEmpty DEF Filled
        <3> QED BY <2>2, <2>3, <2>5, <3>1, <3>2, <3>3
    <2> QED BY <2>4, <2>5
<1> HIDE DEF B
<1>14. Filled(whole') = Filled(Joined(H, N))
    <2> DEFINE k == [p \in 1..N |-> Keep(R[p], B)]
    <2>1. \A p \in 1..N : k[p] = Keep(R[p], B)
        OBVIOUS
    <2>2. \A p \in 1..N : k[p] = Keep(H[p], B)
        BY <1>13 DEF Filled, B
    <2>a. KeptOf(k, R, B, N) /\ KeptOf(k, H, B, N)
        BY <2>1, <2>2 DEF KeptOf
    <2> HIDE DEF k
    <2>3. Keep(Joined(R, N), B) = Joined(k, N)
        BY <1>2, <1>9, <2>a, KeepJoined
    <2>4. Keep(Joined(H, N), B) = Joined(k, N)
        BY <1>2, <1>10, <2>a, KeepJoined
    <2> QED BY <1>11, <2>3, <2>4 DEF Filled, B
<1>15. Joined(H, N) = Concat([p \in PageNumbers |-> Lines(v0', p)])
    BY DEF Joined, Front, H, PageNumbers
<1> QED BY <1>12, <1>14, <1>15

(* "The Nth placeholder corresponds to the Nth figure": every figure stands *)
(* where its picture was, on its page and in the whole document, if every   *)
(* picture became a figure (pipeline_viewer.py,                             *)
(* _replace_image_placeholders).                                            *)
THEOREM FiguresStayInPlace == Spec => []FiguresInPlace
<1>1. Init => FiguresInPlace
    BY DEF Init, FiguresInPlace
<1>2. ASSUME TextInv, FiguresInPlace, [Next]_vars
      PROVE  FiguresInPlace'
    <2>1. CASE Extract
        <3>1. input' = input
            BY <2>1 DEF Extract
        <3> QED BY <1>2, <2>1, <3>1, ExtractFigures DEF FiguresInPlace, PageNumbers, N
    <2>2. ASSUME phase # "docling", UNCHANGED <<input, figures, whole, v0>>
          PROVE  FiguresInPlace'
        BY <1>2, <2>2 DEF FiguresInPlace, PageNumbers, N
    <2>3. CASE BuildSectionMap
        BY <2>2, <2>3 DEF BuildSectionMap
    <2>4. CASE GeneratePageHints
        BY <2>2, <2>4 DEF GeneratePageHints
    <2>5. CASE FenceBlock
        BY <2>2, <2>5 DEF FenceBlock
    <2>6. CASE CodeDone
        BY <2>2, <2>6 DEF CodeDone
    <2>7. CASE GenerateBoundaryHints
        BY <2>2, <2>7 DEF GenerateBoundaryHints
    <2>8. CASE UNCHANGED vars
        BY <1>2, <2>8 DEF vars, FiguresInPlace, PageNumbers, N
    <2> QED BY <1>2, <2>1, <2>3, <2>4, <2>5, <2>6, <2>7, <2>8 DEF Next
<1> QED BY <1>1, <1>2, TextAlwaysTyped, PTL DEF Spec

(***************************************************************************)
(* What is in a sequence, and what is kept first.                          *)
(***************************************************************************)
Of(s) == {s[i] : i \in 1..Len(s)}

LEMMA OfAppend ==
    ASSUME NEW T, NEW s \in Seq(T), NEW e \in T
    PROVE  Of(Append(s, e)) = Of(s) \cup {e}
<1> DEFINE t == Append(s, e)
<1>1. Len(s) \in Nat /\ Len(t) = Len(s) + 1 /\ t[Len(s) + 1] = e
      /\ \A i \in 1..Len(s) : t[i] = s[i]
    BY LenProperties, AppendProperties
<1> HIDE DEF t
<1>2. \A i \in 1..Len(t) : i \in 1..Len(s) \/ i = Len(s) + 1
    BY <1>1
<1>3. Len(s) + 1 \in 1..Len(t) /\ \A i \in 1..Len(s) : i \in 1..Len(t)
    BY <1>1
<1>4. ASSUME NEW x \in Of(t)
      PROVE  x \in Of(s) \cup {e}
    BY <1>1, <1>2 DEF Of
<1>5. ASSUME NEW x \in Of(s) \cup {e}
      PROVE  x \in Of(t)
    BY <1>1, <1>3 DEF Of
<1> QED BY <1>4, <1>5 DEF t

LEMMA OfKept ==
    ASSUME NEW T, NEW s \in Seq(T), NEW K
    PROVE  Of(Keep(s, K)) = Of(s) \cap K
<1> DEFINE P == {u \in Seq(T) : Of(Keep(u, K)) = Of(u) \cap K}
<1>1. <<>> \in P
    <2>1. Keep(<<>>, K) = <<>> /\ Len(<<>>) = 0
        BY KeepEmpty
    <2>2. Of(<<>>) = {}
        BY DEF Of
    <2> QED BY <2>1, <2>2, EmptySeq
<1>2. ASSUME NEW u \in Seq(T), NEW e \in T, u \in P
      PROVE  Append(u, e) \in P
    <2>1. Append(u, e) \in Seq(T) /\ Of(Append(u, e)) = Of(u) \cup {e}
        BY AppendProperties, OfAppend
    <2>2. Keep(u, K) \in Seq(T)
        BY KeepTyped
    <2>3. CASE e \in K
        <3>1. Keep(Append(u, e), K) = Append(Keep(u, K), e)
            BY <2>3, KeepAppend
        <3>2. Of(Append(Keep(u, K), e)) = Of(Keep(u, K)) \cup {e}
            BY <2>2, OfAppend
        <3> QED BY <1>2, <2>1, <2>3, <3>1, <3>2
    <2>4. CASE e \notin K
        <3>1. Keep(Append(u, e), K) = Keep(u, K)
            BY <2>4, KeepAppend
        <3> QED BY <1>2, <2>1, <2>4, <3>1
    <2> QED BY <2>3, <2>4
<1>3. Seq(T) \subseteq P
    <2> HIDE DEF P
    <2> QED BY <1>1, <1>2, InductSeq
<1> QED BY <1>3

(* The first of what is kept is the first member of the set.               *)
LEMMA KeepFirst ==
    ASSUME NEW T, NEW s \in Seq(T), NEW K, NEW i \in 1..Len(s), s[i] \in K,
           \A j \in 1..(i - 1) : s[j] \notin K
    PROVE  Keep(s, K) # <<>> /\ Keep(s, K)[1] = s[i]
<1> DEFINE a == SubSeq(s, 1, i - 1)
           b == SubSeq(s, 1, i)
           c == SubSeq(s, i + 1, Len(s))
           x == s[i]
<1>1. a \in Seq(T) /\ c \in Seq(T) /\ b = Cat(a, One(x)) /\ s = Cat(b, c)
    BY Cut1
<1>2. Len(s) \in Nat /\ \A j \in 1..Len(s) : s[j] \in T
    BY LenProperties, ElementOfSeq
<1>3. Len(a) = i - 1 /\ \A j \in 1..(i - 1) : a[j] = s[j]
    BY <1>2, SubSeqProperties
<1>4. x \in T /\ x \in K
    BY <1>2
<1> HIDE DEF a, b, c, x
<1>5. Keep(a, K) = <<>>
    BY <1>1, <1>3, KeepNone
<1>6. One(x) \in Seq(T) /\ Keep(One(x), K) = One(x)
    BY <1>4, OneIs, KeepOne
<1>7. Keep(Cat(a, One(x)), K) = Cat(Keep(a, K), Keep(One(x), K)) /\ b \in Seq(T)
    BY <1>1, <1>6, KeepCat, CatIs
<1>8. Keep(b, K) = One(x)
    BY <1>1, <1>5, <1>6, <1>7, CatEmpty
<1>9. Keep(s, K) = Cat(Keep(b, K), Keep(c, K))
    BY <1>1, <1>7, KeepCat
<1> DEFINE y == One(x)
           w == Keep(c, K)
<1>10. y \in Seq(T) /\ w \in Seq(T) /\ Keep(s, K) = Cat(y, w)
    BY <1>1, <1>6, <1>8, <1>9, KeepTyped
<1>11. Len(y) = 1 /\ y[1] = x
    BY <1>4, OneIs
<1> HIDE DEF y, w
<1>12. Len(Cat(y, w)) = Len(y) + Len(w) /\ Len(w) \in Nat
    BY <1>10, CatIs, LenProperties
<1>13. \A j \in 1..Len(y) : Cat(y, w)[j] = y[j]
    BY <1>10, CatIs
<1>14. Keep(s, K)[1] = x
    BY <1>10, <1>11, <1>13
<1>15. Keep(s, K) # <<>>
    BY <1>10, <1>11, <1>12, EmptySeq
<1> QED BY <1>14, <1>15 DEF x

(***************************************************************************)
(* Where a member of one of the sequences stands in all of them.           *)
(***************************************************************************)
StandsIn(g, n, i, p) ==
    /\ p \in 1..n /\ Len(Joined(g, p - 1)) < i /\ i <= Len(Joined(g, p))
    /\ i - Len(Joined(g, p - 1)) \in 1..Len(g[p])
    /\ Joined(g, n)[i] = g[p][i - Len(Joined(g, p - 1))]

LEMMA JoinedLens ==
    ASSUME NEW T, NEW n \in Nat, NEW g \in [1..n -> Seq(T)]
    PROVE  /\ Len(Joined(g, 0)) = 0 /\ \A m \in 0..n : Len(Joined(g, m)) \in Nat
           /\ \A m \in 0..(n - 1) : Len(Joined(g, m + 1)) = Len(Joined(g, m)) + Len(g[m + 1])
<1>1. Len(Joined(g, 0)) = 0
    BY JoinedIs, EmptySeq
<1>2. \A m \in 0..n : Len(Joined(g, m)) \in Nat
    BY JoinedIs, LenProperties
<1>3. ASSUME NEW m \in 0..(n - 1)
      PROVE  Len(Joined(g, m + 1)) = Len(Joined(g, m)) + Len(g[m + 1])
    <2>1. m \in 0..n /\ m + 1 \in 1..n
        OBVIOUS
    <2>2. Joined(g, m + 1) = Cat(Joined(g, m), g[m + 1])
        BY JoinedIs
    <2>3. Joined(g, m) \in Seq(T) /\ g[m + 1] \in Seq(T)
        BY <2>1, JoinedIs
    <2>4. Len(Cat(Joined(g, m), g[m + 1])) = Len(Joined(g, m)) + Len(g[m + 1])
        BY <2>3, CatIs
    <2> QED BY <2>2, <2>4
<1> QED BY <1>1, <1>2, <1>3

LEMMA JoinedGrows ==
    ASSUME NEW T, NEW n \in Nat, NEW g \in [1..n -> Seq(T)], NEW p \in 0..n, NEW q \in p..n
    PROVE  Len(Joined(g, p)) <= Len(Joined(g, q))
<1> DEFINE S == {d \in Nat : p + d <= n => Len(Joined(g, p)) <= Len(Joined(g, p + d))}
<1>1. 0 \in S
    <2>1. Len(Joined(g, p)) \in Nat /\ p + 0 = p
        BY JoinedLens
    <2> QED BY <2>1
<1>2. ASSUME NEW d \in Nat, d \in S
      PROVE  d + 1 \in S
    <2> SUFFICES ASSUME p + (d + 1) <= n
                 PROVE  Len(Joined(g, p)) <= Len(Joined(g, p + (d + 1)))
        OBVIOUS
    <2> DEFINE m == p + d
    <2>1. m \in 0..(n - 1) /\ m \in 0..n /\ m + 1 \in 1..n /\ p + (d + 1) = m + 1 /\ m <= n
        OBVIOUS
    <2>2. Len(Joined(g, p)) <= Len(Joined(g, m))
        BY <1>2, <2>1
    <2> HIDE DEF m
    <2>3. Len(Joined(g, m + 1)) = Len(Joined(g, m)) + Len(g[m + 1])
        BY <2>1, JoinedLens
    <2>4. Len(Joined(g, m)) \in Nat /\ Len(Joined(g, p)) \in Nat /\ Len(g[m + 1]) \in Nat
        BY <2>1, JoinedLens, LenProperties
    <2>5. Len(Joined(g, p)) <= Len(Joined(g, m + 1))
        BY <2>2, <2>3, <2>4
    <2> QED BY <2>1, <2>5
<1>3. Nat \subseteq S
    <2> HIDE DEF S
    <2> QED BY <1>1, <1>2, Induct
<1>4. q - p \in Nat /\ p + (q - p) = q /\ q <= n
    OBVIOUS
<1>5. q - p \in S
    BY <1>3, <1>4
<1> QED BY <1>4, <1>5

LEMMA JoinedAt ==
    ASSUME NEW T, NEW n \in Nat, NEW g \in [1..n -> Seq(T)], NEW i \in 1..Len(Joined(g, n))
    PROVE  \E p : StandsIn(g, n, i, p)
<1> DEFINE S == {m \in Nat : m <= n =>
                    \A k \in 1..Len(Joined(g, m)) : \E p : StandsIn(g, m, k, p)}
<1>1. 0 \in S
    <2>1. Len(Joined(g, 0)) = 0
        BY JoinedLens
    <2> QED BY <2>1
<1>2. ASSUME NEW m \in Nat, m \in S
      PROVE  m + 1 \in S
    <2> SUFFICES ASSUME m + 1 <= n, NEW k \in 1..Len(Joined(g, m + 1))
                 PROVE  \E p : StandsIn(g, m + 1, k, p)
        OBVIOUS
    <2>1. m \in 0..(n - 1) /\ m \in 0..n /\ m + 1 \in 1..n /\ m <= n /\ (m + 1) - 1 = m
        OBVIOUS
    <2> DEFINE u == Joined(g, m)
               e == g[m + 1]
               v == Joined(g, m + 1)
    <2>2. v = Cat(u, e) /\ u \in Seq(T) /\ e \in Seq(T)
        BY <2>1, JoinedIs
    <2>3. Len(v) = Len(u) + Len(e) /\ Len(u) \in Nat /\ Len(e) \in Nat
        BY <2>1, <2>2, JoinedLens, LenProperties
    <2>4. \A j \in 1..Len(u) : Cat(u, e)[j] = u[j]
        <3>1. u \in Seq(T) /\ e \in Seq(T)
            BY <2>2
        <3> HIDE DEF u, e
        <3> QED BY <3>1, CatIs
    <2>5. \A j \in 1..Len(e) : Cat(u, e)[Len(u) + j] = e[j]
        <3>1. u \in Seq(T) /\ e \in Seq(T)
            BY <2>2
        <3> HIDE DEF u, e
        <3> QED BY <3>1, CatIs
    <2>6. CASE k <= Len(u)
        <3>1. k \in 1..Len(u)
            BY <2>3, <2>6
        <3>2. PICK p : StandsIn(g, m, k, p)
            BY <1>2, <2>1, <3>1
        <3>3. v[k] = u[k]
            BY <2>2, <2>4, <3>1
        <3>4. /\ p \in 1..m /\ Len(Joined(g, p - 1)) < k /\ k <= Len(Joined(g, p))
              /\ k - Len(Joined(g, p - 1)) \in 1..Len(g[p])
              /\ u[k] = g[p][k - Len(Joined(g, p - 1))]
            BY <3>2 DEF StandsIn
        <3>5. p \in 1..(m + 1)
            BY <3>4
        <3>6. v[k] = g[p][k - Len(Joined(g, p - 1))]
            BY <3>3, <3>4
        <3> HIDE DEF u
        <3>7. StandsIn(g, m + 1, k, p)
            BY <3>4, <3>5, <3>6 DEF StandsIn
        <3> QED BY <3>7
    <2>7. CASE k > Len(u)
        <3> DEFINE j == k - Len(u)
        <3>1. j \in 1..Len(e) /\ k = Len(u) + j /\ k <= Len(v)
            BY <2>3, <2>7
        <3>2. v[k] = e[j]
            <4> HIDE DEF j, u, e, v
            <4>1. Cat(u, e)[Len(u) + j] = e[j]
                BY <2>5, <3>1
            <4> QED BY <2>2, <3>1, <4>1
        <3>3. StandsIn(g, m + 1, k, m + 1)
            BY <2>1, <2>7, <3>1, <3>2 DEF StandsIn
        <3> QED BY <3>3
    <2>8. k <= Len(u) \/ k > Len(u)
        BY <2>3
    <2> QED BY <2>6, <2>7, <2>8
<1>3. Nat \subseteq S
    <2> HIDE DEF S
    <2> QED BY <1>1, <1>2, Induct
<1> QED BY <1>3

(***************************************************************************)
(* Lines with the page they stand on.                                      *)
(***************************************************************************)
Tag == [line : Line, page : Nat]
FullTag == [line : Line \ {Blank}, page : Nat]
Label(s, p) == [i \in 1..Len(s) |-> [line |-> s[i], page |-> p]]

LEMMA LabelIs ==
    ASSUME NEW s \in Seq(Line), NEW p \in Nat
    PROVE  /\ Label(s, p) \in Seq(Tag) /\ Len(Label(s, p)) = Len(s)
           /\ \A i \in 1..Len(s) : Label(s, p)[i] = [line |-> s[i], page |-> p]
<1>1. Len(s) \in Nat /\ \A i \in 1..Len(s) : s[i] \in Line
    BY LenProperties, ElementOfSeq
<1>2. Label(s, p) \in [1..Len(s) -> Tag]
    BY <1>1 DEF Label, Tag
<1> QED BY <1>1, <1>2 DEF Label

LEMMA LabelAppend ==
    ASSUME NEW s \in Seq(Line), NEW p \in Nat, NEW e \in Line
    PROVE  Label(Append(s, e), p) = Append(Label(s, p), [line |-> e, page |-> p])
<1> DEFINE t == Append(s, e)
           x == [line |-> e, page |-> p]
           u == Label(s, p)
           v == Label(t, p)
           w == Append(u, x)
<1>1. t \in Seq(Line) /\ Len(t) = Len(s) + 1 /\ t[Len(s) + 1] = e /\ Len(s) \in Nat
      /\ \A i \in 1..Len(s) : t[i] = s[i]
    BY AppendProperties, LenProperties
<1> HIDE DEF t
<1>2. u \in Seq(Tag) /\ Len(u) = Len(s) /\ \A i \in 1..Len(s) : u[i] = [line |-> s[i], page |-> p]
    BY LabelIs
<1>3. v \in Seq(Tag) /\ Len(v) = Len(t) /\ \A i \in 1..Len(t) : v[i] = [line |-> t[i], page |-> p]
    BY <1>1, LabelIs
<1>4. x \in Tag
    BY DEF Tag
<1> HIDE DEF u, v
<1>5. w \in Seq(Tag) /\ Len(w) = Len(u) + 1 /\ w[Len(u) + 1] = x
      /\ \A i \in 1..Len(u) : w[i] = u[i]
    BY <1>2, <1>4, AppendProperties
<1> HIDE DEF w
<1>6. ASSUME NEW i \in 1..Len(v)
      PROVE  v[i] = w[i]
    <2>1. CASE i = Len(s) + 1
        BY <1>1, <1>2, <1>3, <1>5, <2>1
    <2>2. CASE i # Len(s) + 1
        <3>1. i \in 1..Len(s) /\ i \in 1..Len(t) /\ i \in 1..Len(u)
            BY <1>1, <1>2, <1>3, <2>2
        <3> QED BY <1>1, <1>2, <1>3, <1>5, <3>1
    <2> QED BY <2>1, <2>2
<1>7. v = w
    BY <1>1, <1>2, <1>3, <1>5, <1>6, SeqEqual
<1> QED BY <1>7 DEF v, w, u, t

LEMMA FullTagIs ==
    ASSUME NEW x \in Tag
    PROVE  x \in FullTag <=> x.line # Blank
<1>1. x = [line |-> x.line, page |-> x.page] /\ x.line \in Line /\ x.page \in Nat
    BY DEF Tag
<1> QED BY <1>1 DEF FullTag

LEMMA LabelKeep ==
    ASSUME NEW s \in Seq(Line), NEW p \in Nat
    PROVE  Keep(Label(s, p), FullTag) = Label(Filled(s), p)
<1> DEFINE P == {u \in Seq(Line) : Keep(Label(u, p), FullTag) = Label(Filled(u), p)}
<1>0. Label(<<>>, p) = <<>>
    BY LabelIs, EmptySeq
<1>1. <<>> \in P
    BY <1>0, EmptySeq, KeepEmpty DEF Filled
<1>2. ASSUME NEW u \in Seq(Line), NEW e \in Line, u \in P
      PROVE  Append(u, e) \in P
    <2> DEFINE x == [line |-> e, page |-> p]
    <2>1. Append(u, e) \in Seq(Line) /\ Label(Append(u, e), p) = Append(Label(u, p), x)
        BY AppendProperties, LabelAppend
    <2>2. x \in Tag /\ (x \in FullTag <=> e # Blank)
        <3>1. x \in Tag /\ x.line = e
            BY DEF Tag
        <3> QED BY <3>1, FullTagIs
    <2>3. Label(u, p) \in Seq(Tag) /\ Filled(u) \in Seq(Line)
        BY LabelIs, KeepTyped DEF Filled
    <2>4. CASE e # Blank
        <3>1. Keep(Append(Label(u, p), x), FullTag) = Append(Keep(Label(u, p), FullTag), x)
            BY <2>2, <2>3, <2>4, KeepAppend
        <3>2. Filled(Append(u, e)) = Append(Filled(u), e)
            BY <2>4, KeepAppend DEF Filled
        <3>3. Label(Append(Filled(u), e), p) = Append(Label(Filled(u), p), x)
            BY <2>3, LabelAppend
        <3> QED BY <1>2, <2>1, <3>1, <3>2, <3>3
    <2>5. CASE e = Blank
        <3>1. Keep(Append(Label(u, p), x), FullTag) = Keep(Label(u, p), FullTag)
            BY <2>2, <2>3, <2>5, KeepAppend
        <3>2. Filled(Append(u, e)) = Filled(u)
            BY <2>5, KeepAppend DEF Filled
        <3> QED BY <1>2, <2>1, <3>1, <3>2
    <2> QED BY <2>4, <2>5
<1>3. Seq(Line) \subseteq P
    <2> HIDE DEF P
    <2> QED BY <1>1, <1>2, InductSeq
<1> QED BY <1>3

LEMMA UntaggedIs ==
    ASSUME NEW t \in Seq(Tag)
    PROVE  /\ Untagged(t) \in Seq(Line) /\ Len(Untagged(t)) = Len(t) /\ Len(t) \in Nat
           /\ \A i \in 1..Len(t) : Untagged(t)[i] = t[i].line
<1>1. Len(t) \in Nat /\ DOMAIN t = 1..Len(t) /\ \A i \in 1..Len(t) : t[i] \in Tag
    BY LenProperties, ElementOfSeq
<1>2. Untagged(t) \in [1..Len(t) -> Line]
    BY <1>1 DEF Untagged, Tag
<1> QED BY <1>1, <1>2 DEF Untagged

LEMMA UntaggedAppend ==
    ASSUME NEW t \in Seq(Tag), NEW x \in Tag
    PROVE  Untagged(Append(t, x)) = Append(Untagged(t), x.line)
<1> DEFINE b == Append(t, x)
           u == Untagged(t)
           v == Untagged(b)
           w == Append(u, x.line)
<1>1. b \in Seq(Tag) /\ Len(b) = Len(t) + 1 /\ b[Len(t) + 1] = x
      /\ \A i \in 1..Len(t) : b[i] = t[i]
    BY AppendProperties
<1> HIDE DEF b
<1>2. u \in Seq(Line) /\ Len(u) = Len(t) /\ Len(t) \in Nat
      /\ \A i \in 1..Len(t) : u[i] = t[i].line
    BY UntaggedIs
<1>3. v \in Seq(Line) /\ Len(v) = Len(b) /\ \A i \in 1..Len(b) : v[i] = b[i].line
    BY <1>1, UntaggedIs
<1>4. x.line \in Line
    BY DEF Tag
<1> HIDE DEF u, v
<1>5. w \in Seq(Line) /\ Len(w) = Len(u) + 1 /\ w[Len(u) + 1] = x.line
      /\ \A i \in 1..Len(u) : w[i] = u[i]
    BY <1>2, <1>4, AppendProperties
<1> HIDE DEF w
<1>6. ASSUME NEW i \in 1..Len(v)
      PROVE  v[i] = w[i]
    <2>1. CASE i = Len(t) + 1
        BY <1>1, <1>2, <1>3, <1>5, <2>1
    <2>2. CASE i # Len(t) + 1
        <3>1. i \in 1..Len(t) /\ i \in 1..Len(b) /\ i \in 1..Len(u)
            BY <1>1, <1>2, <1>3, <2>2
        <3> QED BY <1>1, <1>2, <1>3, <1>5, <3>1
    <2> QED BY <2>1, <2>2
<1>7. v = w
    BY <1>1, <1>2, <1>3, <1>5, <1>6, SeqEqual
<1> QED BY <1>7 DEF v, w, u, b

LEMMA UntaggedEmpty == Untagged(<<>>) = <<>>
BY EmptySeq, UntaggedIs

LEMMA UntaggedCat ==
    ASSUME NEW s \in Seq(Tag), NEW t \in Seq(Tag)
    PROVE  Untagged(Cat(s, t)) = Cat(Untagged(s), Untagged(t))
<1> DEFINE P == {u \in Seq(Tag) : Untagged(Cat(s, u)) = Cat(Untagged(s), Untagged(u))}
<1>0. Untagged(s) \in Seq(Line)
    BY UntaggedIs
<1>1. <<>> \in P
    <2>1. <<>> \in Seq(Tag) /\ Cat(s, <<>>) = s
        BY EmptySeq, CatEmpty
    <2> QED BY <1>0, <2>1, UntaggedEmpty, CatEmpty
<1>2. ASSUME NEW u \in Seq(Tag), NEW e \in Tag, u \in P
      PROVE  Append(u, e) \in P
    <2>1. Append(u, e) \in Seq(Tag) /\ Cat(s, u) \in Seq(Tag)
        BY AppendProperties, CatIs
    <2>2. Cat(s, Append(u, e)) = Append(Cat(s, u), e)
        BY CatAppend
    <2>3. Untagged(Append(Cat(s, u), e)) = Append(Untagged(Cat(s, u)), e.line)
        BY <2>1, UntaggedAppend
    <2>4. Untagged(Append(u, e)) = Append(Untagged(u), e.line) /\ Untagged(u) \in Seq(Line)
        BY UntaggedAppend, UntaggedIs
    <2>5. e.line \in Line
        BY DEF Tag
    <2>6. Cat(Untagged(s), Append(Untagged(u), e.line))
          = Append(Cat(Untagged(s), Untagged(u)), e.line)
        <3> DEFINE a == Untagged(s)
                   b == Untagged(u)
                   x == e.line
        <3>1. a \in Seq(Line) /\ b \in Seq(Line) /\ x \in Line
            BY <1>0, <2>4, <2>5
        <3> HIDE DEF a, b, x
        <3>2. Cat(a, Append(b, x)) = Append(Cat(a, b), x)
            BY <3>1, CatAppend
        <3> QED BY <3>2 DEF a, b, x
    <2> QED BY <1>2, <2>1, <2>2, <2>3, <2>4, <2>6
<1>3. Seq(Tag) \subseteq P
    <2> HIDE DEF P
    <2> QED BY <1>1, <1>2, InductSeq
<1> QED BY <1>3

LEMMA UntaggedKeep ==
    ASSUME NEW t \in Seq(Tag)
    PROVE  Untagged(Keep(t, FullTag)) = Filled(Untagged(t))
<1> DEFINE P == {u \in Seq(Tag) : Untagged(Keep(u, FullTag)) = Filled(Untagged(u))}
<1>1. <<>> \in P
    BY EmptySeq, KeepEmpty, UntaggedEmpty DEF Filled
<1>2. ASSUME NEW u \in Seq(Tag), NEW e \in Tag, u \in P
      PROVE  Append(u, e) \in P
    <2>1. Append(u, e) \in Seq(Tag) /\ Untagged(Append(u, e)) = Append(Untagged(u), e.line)
        BY AppendProperties, UntaggedAppend
    <2>2. e.line \in Line /\ (e \in FullTag <=> e.line # Blank)
        BY FullTagIs DEF Tag
    <2>3. Untagged(u) \in Seq(Line) /\ Keep(u, FullTag) \in Seq(Tag)
        BY UntaggedIs, KeepTyped
    <2>4. CASE e.line # Blank
        <3>1. Keep(Append(u, e), FullTag) = Append(Keep(u, FullTag), e)
            BY <2>2, <2>4, KeepAppend
        <3>2. Untagged(Append(Keep(u, FullTag), e)) = Append(Untagged(Keep(u, FullTag)), e.line)
            BY <2>3, UntaggedAppend
        <3>3. Filled(Append(Untagged(u), e.line)) = Append(Filled(Untagged(u)), e.line)
            BY <2>2, <2>3, <2>4, KeepAppend DEF Filled
        <3> QED BY <1>2, <2>1, <3>1, <3>2, <3>3
    <2>5. CASE e.line = Blank
        <3>1. Keep(Append(u, e), FullTag) = Keep(u, FullTag)
            BY <2>2, <2>5, KeepAppend
        <3>2. Filled(Append(Untagged(u), e.line)) = Filled(Untagged(u))
            BY <2>2, <2>3, <2>5, KeepAppend DEF Filled
        <3> QED BY <1>2, <2>1, <3>1, <3>2
    <2> QED BY <2>4, <2>5
<1>3. Seq(Tag) \subseteq P
    <2> HIDE DEF P
    <2> QED BY <1>1, <1>2, InductSeq
<1> QED BY <1>3

LEMMA UntaggedSub ==
    ASSUME NEW t \in Seq(Tag), NEW a \in 1..(Len(t) + 1), NEW b \in (a - 1)..Len(t)
    PROVE  /\ SubSeq(t, a, b) \in Seq(Tag)
           /\ Untagged(SubSeq(t, a, b)) = SubSeq(Untagged(t), a, b)
<1> DEFINE k == IF a <= b THEN b - a + 1 ELSE 0
           s == SubSeq(t, a, b)
           u == Untagged(t)
           v == SubSeq(u, a, b)
           w == Untagged(s)
<1>1. Len(t) \in Nat /\ a \in Nat /\ b \in Int /\ \A i \in 1..Len(t) : t[i] \in Tag
    BY LenProperties, ElementOfSeq
<1>2. u \in Seq(Line) /\ Len(u) = Len(t) /\ \A i \in 1..Len(t) : u[i] = t[i].line /\ u[i] \in Line
    BY UntaggedIs, ElementOfSeq
<1> HIDE DEF u
<1>3. s \in Seq(Tag) /\ Len(s) = k /\ \A i \in 1..(b - a + 1) : s[i] = t[a + i - 1]
    BY <1>1, SubSeqProperties
<1>4. v \in Seq(Line) /\ Len(v) = k /\ \A i \in 1..(b - a + 1) : v[i] = u[a + i - 1]
    BY <1>1, <1>2, SubSeqProperties
<1> HIDE DEF s, v
<1>5. w \in Seq(Line) /\ Len(w) = k /\ \A i \in 1..k : w[i] = s[i].line
    BY <1>3, UntaggedIs
<1>6. \A i \in 1..k : i \in 1..(b - a + 1) /\ a + i - 1 \in 1..Len(t)
    BY <1>1
<1> HIDE DEF w
<1>7. ASSUME NEW i \in 1..Len(w)
      PROVE  w[i] = v[i]
    <2>1. i \in 1..k
        BY <1>5
    <2> HIDE DEF k
    <2> QED BY <1>2, <1>3, <1>4, <1>5, <1>6, <2>1
<1>8. w = v
    <2> HIDE DEF k
    <2> QED BY <1>4, <1>5, <1>7, SeqEqual
<1> QED BY <1>3, <1>8 DEF s, u, v, w

(***************************************************************************)
(* The lines of all pages, each with its page.                             *)
(***************************************************************************)
UntaggedOf(h, g, n) == \A p \in 1..n : h[p] = Untagged(g[p])
LEMMA UntaggedJoined ==
    ASSUME NEW n \in Nat, NEW g \in [1..n -> Seq(Tag)], NEW h, UntaggedOf(h, g, n),
           NEW m \in 0..n
    PROVE  Untagged(Joined(g, m)) = Joined(h, m)
<1> DEFINE k == [p \in 1..n |-> Untagged(g[p])]
           S == {d \in Nat : d <= n => Untagged(Joined(g, d)) = Joined(k, d)}
<1>1. k \in [1..n -> Seq(Line)] /\ \A p \in 1..n : k[p] = Untagged(g[p])
    BY UntaggedIs
<1> HIDE DEF k
<1>2. 0 \in S
    <2>1. Joined(g, 0) = <<>> /\ Joined(k, 0) = <<>>
        BY <1>1, JoinedIs
    <2> QED BY <2>1, UntaggedEmpty
<1>3. ASSUME NEW d \in Nat, d \in S
      PROVE  d + 1 \in S
    <2> SUFFICES ASSUME d + 1 <= n
                 PROVE  Untagged(Joined(g, d + 1)) = Joined(k, d + 1)
        OBVIOUS
    <2>1. d \in 0..(n - 1) /\ d \in 0..n /\ d + 1 \in 1..n /\ d <= n
        OBVIOUS
    <2>2. Joined(g, d + 1) = Cat(Joined(g, d), g[d + 1]) /\ Joined(g, d) \in Seq(Tag)
        BY <2>1, JoinedIs
    <2>3. Joined(k, d + 1) = Cat(Joined(k, d), k[d + 1])
        BY ZenonT(30), <1>1, <2>1, JoinedIs
    <2>4. Untagged(Cat(Joined(g, d), g[d + 1])) = Cat(Untagged(Joined(g, d)), Untagged(g[d + 1]))
        <3>1. g[d + 1] \in Seq(Tag)
            BY <2>1
        <3> QED BY <2>2, <3>1, UntaggedCat
    <2> QED BY <1>1, <1>3, <2>1, <2>2, <2>3, <2>4
<1>4. Nat \subseteq S
    <2> HIDE DEF S
    <2> QED BY <1>2, <1>3, Induct
<1>5. Untagged(Joined(g, m)) = Joined(k, m)
    <2>1. m \in S /\ m <= n
        BY <1>4
    <2> QED BY <2>1
<1>6. Joined(k, m) = Joined(h, m)
    <2>1. m \in Nat /\ \A p \in 1..m : k[p] = h[p]
        BY <1>1 DEF UntaggedOf
    <2> QED BY <2>1, JoinedSame
<1> QED BY <1>5, <1>6

LEMMA UntaggedLabel ==
    ASSUME NEW s \in Seq(Line), NEW p \in Nat
    PROVE  Untagged(Label(s, p)) = s
<1> DEFINE t == Label(s, p)
           u == Untagged(t)
<1>1. t \in Seq(Tag) /\ Len(t) = Len(s) /\ \A i \in 1..Len(s) : t[i] = [line |-> s[i], page |-> p]
    BY LabelIs
<1> HIDE DEF t
<1>2. u \in Seq(Line) /\ Len(u) = Len(t) /\ \A i \in 1..Len(t) : u[i] = t[i].line
    BY <1>1, UntaggedIs
<1> HIDE DEF u
<1>3. ASSUME NEW i \in 1..Len(u)
      PROVE  u[i] = s[i]
    <2>1. i \in 1..Len(s) /\ i \in 1..Len(t)
        BY <1>1, <1>2
    <2>2. u[i] = t[i].line /\ t[i] = [line |-> s[i], page |-> p]
        BY <1>1, <1>2, <2>1
    <2> QED BY <2>2
<1>4. u = s
    BY <1>1, <1>2, <1>3, SeqEqual
<1> QED BY <1>4 DEF u, t

(* The pages with their labels: line i stands on the page that the lines   *)
(* of the pages say.                                                       *)
Labeled(g, n) == [p \in 1..n |-> Label(g[p], p)]
LEMMA LabeledIs ==
    ASSUME NEW n \in Nat, NEW g \in [1..n -> Seq(Line)]
    PROVE  /\ Labeled(g, n) \in [1..n -> Seq(Tag)]
           /\ \A m \in 0..n : /\ Joined(Labeled(g, n), m) \in Seq(Tag)
                              /\ Untagged(Joined(Labeled(g, n), m)) = Joined(g, m)
                              /\ Len(Joined(Labeled(g, n), m)) = Len(Joined(g, m))
<1> DEFINE G == Labeled(g, n)
<1>1. \A p \in 1..n : Label(g[p], p) \in Seq(Tag) /\ Untagged(Label(g[p], p)) = g[p]
    BY LabelIs, UntaggedLabel
<1>2. G \in [1..n -> Seq(Tag)] /\ \A p \in 1..n : G[p] = Label(g[p], p)
    BY <1>1 DEF Labeled
<1>3. UntaggedOf(g, G, n)
    BY <1>1, <1>2 DEF UntaggedOf
<1> HIDE DEF G
<1>4. ASSUME NEW m \in 0..n
      PROVE  /\ Joined(G, m) \in Seq(Tag) /\ Untagged(Joined(G, m)) = Joined(g, m)
             /\ Len(Joined(G, m)) = Len(Joined(g, m))
    <2>1. Joined(G, m) \in Seq(Tag)
        BY <1>2, JoinedIs
    <2>2. Untagged(Joined(G, m)) = Joined(g, m)
        BY <1>2, <1>3, UntaggedJoined
    <2> QED BY <2>1, <2>2, UntaggedIs
<1> QED BY <1>2, <1>4 DEF G

LabeledOn(g, n, i, p) ==
    /\ p \in 1..n /\ Len(Joined(g, p - 1)) < i /\ i <= Len(Joined(g, p))
    /\ Joined(Labeled(g, n), n)[i].page = p

LEMMA LabeledAt ==
    ASSUME NEW n \in Nat, NEW g \in [1..n -> Seq(Line)], NEW i \in 1..Len(Joined(g, n))
    PROVE  \E p : LabeledOn(g, n, i, p)
<1> DEFINE G == Labeled(g, n)
<1>1. /\ G \in [1..n -> Seq(Tag)] /\ \A p \in 1..n : G[p] = Label(g[p], p)
      /\ \A m \in 0..n : Len(Joined(G, m)) = Len(Joined(g, m))
    <2>1. \A p \in 1..n : G[p] = Label(g[p], p)
        BY DEF Labeled
    <2> QED BY <2>1, LabeledIs
<1> HIDE DEF G
<1>2. i \in 1..Len(Joined(G, n))
    BY <1>1
<1>3. PICK p : StandsIn(G, n, i, p)
    BY <1>1, <1>2, JoinedAt
<1> DEFINE j == i - Len(Joined(G, p - 1))
<1>4. /\ p \in 1..n /\ Len(Joined(G, p - 1)) < i /\ i <= Len(Joined(G, p))
      /\ j \in 1..Len(G[p]) /\ Joined(G, n)[i] = G[p][j]
    BY <1>3 DEF StandsIn
<1>5. p \in 0..n /\ p - 1 \in 0..n /\ p \in Nat /\ g[p] \in Seq(Line)
    BY <1>4
<1> HIDE DEF j
<1>6. G[p][j].page = p
    <2>1. Len(Label(g[p], p)) = Len(g[p])
          /\ \A k \in 1..Len(g[p]) : Label(g[p], p)[k] = [line |-> g[p][k], page |-> p]
        BY <1>5, LabelIs
    <2> QED BY SMTT(30), <1>1, <1>4, <2>1
<1>7. LabeledOn(g, n, i, p)
    BY <1>1, <1>4, <1>5, <1>6 DEF LabeledOn, G
<1> QED BY <1>7

LEMMA LabeledKeep ==
    ASSUME NEW n \in Nat, NEW g \in [1..n -> Seq(Line)]
    PROVE  Keep(Joined(Labeled(g, n), n), FullTag)
           = Joined([p \in 1..n |-> Label(Filled(g[p]), p)], n)
<1> DEFINE G == Labeled(g, n)
           h == [p \in 1..n |-> Label(Filled(g[p]), p)]
<1>1. G \in [1..n -> Seq(Tag)] /\ \A p \in 1..n : G[p] = Label(g[p], p)
    <2>1. \A p \in 1..n : G[p] = Label(g[p], p)
        BY DEF Labeled
    <2> QED BY <2>1, LabeledIs
<1> HIDE DEF G
<1>2. KeptOf(h, G, FullTag, n)
    <2>1. \A p \in 1..n : Keep(G[p], FullTag) = Label(Filled(g[p]), p)
        BY <1>1, LabelKeep
    <2> QED BY <2>1 DEF KeptOf
<1> HIDE DEF h
<1>3. Keep(Joined(G, n), FullTag) = Joined(h, n)
    BY <1>1, <1>2, KeepJoined
<1> QED BY <1>3 DEF G, h

(***************************************************************************)
(* The document's lines with their pages: its labeled lines are those that *)
(* are in it, and the page of line i is the one the offsets give.          *)
(***************************************************************************)
Written == [p \in PageNumbers |-> PageLines(p)]
AllTagged == Joined(Labeled(Written, N), N)

LEMMA WrittenIs ==
    ASSUME input \in Inputs, \A p \in DOMAIN v0 : v0[p] \in Seq(Line)
    PROVE  /\ N \in Nat /\ Written \in [1..N -> Seq(Line)]
           /\ \A p \in 1..N : /\ Written[p] = PageLines(p) /\ Lines(v0, p) \in Seq(Line)
                              /\ Filled(Written[p]) = Filled(Lines(v0, p))
           /\ AllLines = Joined(Written, N)
<1>1. N \in Nat
    BY InputIs DEF N
<1>2. ASSUME NEW p \in 1..N
      PROVE  /\ PageLines(p) \in Seq(Line) /\ Lines(v0, p) \in Seq(Line)
             /\ Filled(PageLines(p)) = Filled(Lines(v0, p))
    <2>1. Lines(v0, p) \in Seq(Line)
        BY LinesFilled
    <2>2. Append(Lines(v0, p), Blank) \in Seq(Line) /\ Blank \in Line
        BY <2>1, ImageIsNo, AppendProperties
    <2>3. Filled(Append(Lines(v0, p), Blank)) = Filled(Lines(v0, p))
        BY <2>1, <2>2, KeepAppend DEF Filled
    <2> QED BY <2>1, <2>2, <2>3 DEF PageLines
<1>3. Written \in [1..N -> Seq(Line)] /\ \A p \in 1..N : Written[p] = PageLines(p)
    BY <1>2 DEF Written, PageNumbers
<1>4. AllLines = Joined(Written, N)
    <2>1. Front(Written, N) = Written
        BY DEF Front, Written, PageNumbers
    <2> QED BY <2>1 DEF AllLines, Joined, Written
<1> QED BY <1>1, <1>2, <1>3, <1>4

LEMMA OffsetIs ==
    ASSUME input \in Inputs, \A p \in DOMAIN v0 : v0[p] \in Seq(Line), NEW p \in 1..N
    PROVE  Offset(p) = Len(Joined(Written, p - 1))
<1>1. N \in Nat /\ \A q \in 1..N : Written[q] = PageLines(q)
    BY WrittenIs
<1>2. \A q \in 1..(p - 1) : q \in 1..N
    BY <1>1
<1>3. Front(Written, p - 1) = [q \in 1..(p - 1) |-> PageLines(q)]
    BY <1>1, <1>2 DEF Front
<1> QED BY <1>3 DEF Offset, Joined

LEMMA AllTaggedIs ==
    ASSUME input \in Inputs, \A p \in DOMAIN v0 : v0[p] \in Seq(Line)
    PROVE  /\ AllTagged \in Seq(Tag) /\ Untagged(AllTagged) = AllLines
           /\ AllLines \in Seq(Line) /\ Len(AllTagged) = Len(AllLines)
           /\ Keep(AllTagged, FullTag) = Tagged
<1>1. /\ N \in Nat /\ Written \in [1..N -> Seq(Line)] /\ AllLines = Joined(Written, N)
      /\ \A p \in 1..N : Filled(Written[p]) = Filled(Lines(v0, p)) /\ Lines(v0, p) \in Seq(Line)
    BY WrittenIs
<1>2. N \in 0..N
    BY <1>1
<1>3. AllTagged \in Seq(Tag) /\ Untagged(AllTagged) = AllLines
    BY <1>1, <1>2, LabeledIs DEF AllTagged
<1>4. AllLines \in Seq(Line) /\ Len(AllTagged) = Len(AllLines)
    BY <1>3, UntaggedIs
<1> DEFINE h == [p \in 1..N |-> Label(Filled(Written[p]), p)]
           t == [p \in PageNumbers |->
                  [i \in DOMAIN Filled(Lines(v0, p)) |-> [line |-> Filled(Lines(v0, p))[i],
                                                          page |-> p]]]
<1>5. Keep(AllTagged, FullTag) = Joined(h, N)
    BY <1>1, LabeledKeep DEF AllTagged
<1>6. h = t
    <2>1. ASSUME NEW p \in 1..N
          PROVE  h[p] = t[p]
        <3> DEFINE s == Filled(Lines(v0, p))
        <3>1. s \in Seq(Line)
            BY <1>1, KeepTyped DEF Filled
        <3>2. DOMAIN s = 1..Len(s)
            BY <3>1, LenProperties
        <3>3. h[p] = Label(s, p)
            BY <1>1
        <3>4. t[p] = [i \in DOMAIN s |-> [line |-> s[i], page |-> p]]
            BY DEF PageNumbers
        <3> HIDE DEF h, t, s
        <3> QED BY <3>2, <3>3, <3>4 DEF Label
    <2>2. DOMAIN h = 1..N /\ DOMAIN t = 1..N /\ h = [p \in 1..N |-> h[p]] /\ t = [p \in 1..N |-> t[p]]
        BY DEF PageNumbers
    <2> HIDE DEF h, t
    <2> QED BY <2>1, <2>2
<1>7. Joined(h, N) = Tagged
    <2>1. Front(h, N) = h
        BY DEF Front
    <2>2. Tagged = Concat(t)
        BY DEF Tagged
    <2> HIDE DEF h, t
    <2> QED BY <1>6, <2>1, <2>2 DEF Joined
<1> QED BY <1>3, <1>4, <1>5, <1>7

LEMMA LineToPageIs ==
    ASSUME input \in Inputs, \A p \in DOMAIN v0 : v0[p] \in Seq(Line),
           NEW i \in 1..Len(AllLines)
    PROVE  /\ AllTagged[i].page = LineToPage(i) /\ LineToPage(i) \in 1..N
           /\ Len(Joined(Written, LineToPage(i) - 1)) < i
           /\ i <= Len(Joined(Written, LineToPage(i)))
<1>1. N \in Nat /\ Written \in [1..N -> Seq(Line)] /\ AllLines = Joined(Written, N)
    BY WrittenIs
<1>2. PICK p : LabeledOn(Written, N, i, p)
    BY <1>1, LabeledAt
<1>3. /\ p \in 1..N /\ Len(Joined(Written, p - 1)) < i /\ i <= Len(Joined(Written, p))
      /\ AllTagged[i].page = p
    BY <1>2 DEF LabeledOn, AllTagged
<1> DEFINE begun == {q \in PageNumbers : Offset(q) <= i - 1}
<1>4. i \in Nat /\ \A m \in 0..N : Len(Joined(Written, m)) \in Nat
    <2>1. Len(AllLines) \in Nat
        BY <1>1, JoinedLens
    <2> QED BY <1>1, <2>1, JoinedLens
<1>5. \A q \in 1..N : q \in begun <=> Len(Joined(Written, q - 1)) <= i - 1
    BY OffsetIs DEF PageNumbers
<1>6. begun \in SUBSET (0..N) /\ \A q \in begun : q \in 1..N
    BY <1>1 DEF PageNumbers
<1> HIDE DEF begun
<1>7. p \in begun
    <2>1. Len(Joined(Written, p - 1)) \in Nat
        BY <1>1, <1>3, <1>4
    <2> QED BY <1>3, <1>4, <1>5, <2>1
<1>8. ASSUME NEW q \in begun
      PROVE  q <= p
    <2> SUFFICES ASSUME ~(q <= p)
                 PROVE  FALSE
        OBVIOUS
    <2>1. q \in 1..N /\ p \in 0..N /\ q - 1 \in p..N /\ q - 1 \in 0..N
        BY <1>1, <1>3, <1>6
    <2>2. Len(Joined(Written, p)) <= Len(Joined(Written, q - 1))
        BY <1>1, <2>1, JoinedGrows
    <2>3. Len(Joined(Written, q - 1)) <= i - 1
        BY <1>5, <2>1
    <2>4. Len(Joined(Written, p)) \in Nat /\ Len(Joined(Written, q - 1)) \in Nat
        BY <1>4, <2>1
    <2> QED BY <1>3, <1>4, <2>2, <2>3, <2>4
<1>9. Greatest(begun) \in begun /\ \A q \in begun : q <= Greatest(begun)
    BY <1>1, <1>6, <1>7, GreatestIs
<1>10. Greatest(begun) = p
    <2>1. Greatest(begun) \in Int /\ p \in Int
        <3>1. Greatest(begun) \in 1..N
            BY <1>6, <1>9
        <3> QED BY <1>3, <3>1
    <2>2. p <= Greatest(begun) /\ Greatest(begun) <= p
        BY <1>7, <1>8, <1>9
    <2> QED BY <2>1, <2>2
<1>11. LineToPage(i) = p
    BY <1>7, <1>10 DEF LineToPage, begun
<1> QED BY <1>3, <1>11

LEMMA JoinedPrefix ==
    ASSUME NEW T, NEW n \in Nat, NEW g \in [1..n -> Seq(T)], NEW m \in 0..n, NEW q \in m..n,
           NEW k \in 1..Len(Joined(g, m))
    PROVE  k \in 1..Len(Joined(g, q)) /\ Joined(g, q)[k] = Joined(g, m)[k]
<1> DEFINE Good(d) == k \in 1..Len(Joined(g, m + d)) /\ Joined(g, m + d)[k] = Joined(g, m)[k]
           S == {d \in Nat : m + d <= n => Good(d)}
<1>1. 0 \in S
    <2>1. m + 0 = m
        OBVIOUS
    <2> QED BY <2>1
<1>2. ASSUME NEW d \in Nat, d \in S
      PROVE  d + 1 \in S
    <2> SUFFICES ASSUME m + (d + 1) <= n
                 PROVE  Good(d + 1)
        OBVIOUS
    <2> DEFINE r == m + d
               u == Joined(g, r)
               e == g[r + 1]
    <2>1. r \in 0..(n - 1) /\ r \in 0..n /\ r + 1 \in 1..n /\ m + (d + 1) = r + 1 /\ r <= n
        OBVIOUS
    <2>2. k \in 1..Len(u) /\ u[k] = Joined(g, m)[k]
        BY <1>2, <2>1
    <2> HIDE DEF r
    <2>3. Joined(g, r + 1) = Cat(u, e) /\ u \in Seq(T) /\ e \in Seq(T)
        BY <2>1, JoinedIs
    <2> HIDE DEF u, e
    <2>4. Len(u) \in Nat /\ Len(e) \in Nat /\ Len(Cat(u, e)) = Len(u) + Len(e)
        BY <2>3, CatIs, LenProperties
    <2>5. \A i \in 1..Len(u) : Cat(u, e)[i] = u[i]
        BY <2>3, CatIs
    <2>6. k \in 1..Len(Cat(u, e)) /\ Cat(u, e)[k] = u[k]
        BY <2>2, <2>4, <2>5
    <2> QED BY <2>1, <2>2, <2>3, <2>6
<1>3. Nat \subseteq S
    <2> HIDE DEF S
    <2> QED BY <1>1, <1>2, Induct
<1>4. q - m \in Nat /\ m + (q - m) = q /\ q <= n
    OBVIOUS
<1>5. q - m \in S
    BY <1>3, <1>4
<1> QED BY <1>4, <1>5

LEMMA JoinedInner ==
    ASSUME NEW T, NEW n \in Nat, NEW g \in [1..n -> Seq(T)], NEW i \in 1..n,
           NEW j \in 1..Len(g[i])
    PROVE  Joined(g, n)[Len(Joined(g, i - 1)) + j] = g[i][j]
<1> DEFINE u == Joined(g, i - 1)
           e == g[i]
           k == Len(u) + j
<1>1. i - 1 \in 0..(n - 1) /\ i - 1 \in 0..n /\ (i - 1) + 1 = i /\ i \in 0..n /\ n \in i..n
    OBVIOUS
<1>2. Joined(g, i) = Cat(u, e) /\ u \in Seq(T) /\ e \in Seq(T)
    <2>1. Joined(g, (i - 1) + 1) = Cat(Joined(g, i - 1), g[(i - 1) + 1]) /\ Joined(g, i - 1) \in Seq(T)
        BY <1>1, JoinedIs
    <2> QED BY <1>1, <2>1
<1> HIDE DEF u, e
<1>3. Len(u) \in Nat /\ Len(e) \in Nat /\ Len(Cat(u, e)) = Len(u) + Len(e)
    BY <1>2, CatIs, LenProperties
<1>4. \A x \in 1..Len(e) : Cat(u, e)[Len(u) + x] = e[x]
    BY <1>2, CatIs
<1>5. j \in 1..Len(e)
    BY DEF e
<1>6. k \in 1..Len(Joined(g, i)) /\ Joined(g, i)[k] = e[j]
    BY <1>2, <1>3, <1>4, <1>5
<1> HIDE DEF k
<1>7. Joined(g, n)[k] = Joined(g, i)[k]
    BY <1>1, <1>6, JoinedPrefix
<1> QED BY <1>6, <1>7 DEF k, u, e

(***************************************************************************)
(* Sections that are cut from all lines, from boundary to boundary, hold   *)
(* the document's lines, and are on the pages of their own.                *)
(***************************************************************************)
OwnPages(s, i) ==
    LET start == Len(Concat([k \in 1..(i - 1) |-> s[k].lines]))
        own == (start + 1)..(start + Len(s[i].lines))
    IN  {Tagged[k].page : k \in own}
CutBy(s, e, n) ==
    /\ n \in Nat /\ DOMAIN s = 1..n
    /\ e \in [0..n -> 0..Len(AllLines)] /\ e[n] = Len(AllLines)
    /\ \A i \in 1..n : e[i - 1] <= e[i]
    /\ Filled(SubSeq(AllLines, 1, e[0])) = <<>>
    /\ \A i \in 1..n : s[i].lines = Filled(SubSeq(AllLines, e[i - 1] + 1, e[i]))
PagesIn(t) == {x.page : x \in Of(t)}
Own(e, i) == Keep(SubSeq(AllTagged, e[i - 1] + 1, e[i]), FullTag)

LEMMA OwnIs ==
    ASSUME input \in Inputs, \A p \in DOMAIN v0 : v0[p] \in Seq(Line),
           NEW s, NEW e, NEW n, CutBy(s, e, n), NEW i \in 1..n
    PROVE  /\ Own(e, i) \in Seq(Tag) /\ Untagged(Own(e, i)) = s[i].lines
           /\ PagesIn(Own(e, i)) = PagesOf(e[i - 1] + 1, e[i])
<1> DEFINE T == AllTagged
           a == e[i - 1] + 1
           b == e[i]
           t == SubSeq(T, a, b)
           L == Len(AllLines)
<1>1. /\ T \in Seq(Tag) /\ Untagged(T) = AllLines /\ Len(T) = L /\ L \in Nat
      /\ \A k \in 1..L : T[k] \in Tag /\ AllLines[k] = T[k].line
    BY AllTaggedIs, UntaggedIs, LenProperties, ElementOfSeq
<1>2. a \in 1..(L + 1) /\ b \in (a - 1)..L /\ a - 1 = e[i - 1]
    <2>1. n \in Nat /\ i - 1 \in 0..n /\ i \in 0..n
        BY DEF CutBy
    <2>2. e[i - 1] \in 0..L /\ e[i] \in 0..L /\ e[i - 1] <= e[i]
        BY <2>1 DEF CutBy
    <2> QED BY <1>1, <2>2
<1>3. s[i].lines = Filled(SubSeq(AllLines, a, b))
    BY DEF CutBy
<1> HIDE DEF T, a, b, L
<1>4. t \in Seq(Tag) /\ Untagged(t) = SubSeq(AllLines, a, b)
    BY <1>1, <1>2, UntaggedSub
<1>5. Keep(t, FullTag) \in Seq(Tag) /\ Untagged(Keep(t, FullTag)) = s[i].lines
    BY <1>3, <1>4, KeepTyped, UntaggedKeep
<1>6. Of(t) = {T[k] : k \in a..b}
    <2>1. /\ Len(t) = IF a <= b THEN b - a + 1 ELSE 0
          /\ \A j \in 1..(b - a + 1) : t[j] = T[a + j - 1]
        BY <1>1, <1>2, SubSeqProperties
    <2> HIDE DEF t
    <2>2. ASSUME NEW j \in 1..Len(t)
          PROVE  \E k \in a..b : t[j] = T[k]
        <3>1. j \in 1..(b - a + 1) /\ a + j - 1 \in a..b
            BY <1>2, <2>1
        <3> QED BY <2>1, <3>1
    <2>3. ASSUME NEW k \in a..b
          PROVE  \E j \in 1..Len(t) : T[k] = t[j]
        <3>1. k - a + 1 \in 1..(b - a + 1) /\ k - a + 1 \in 1..Len(t) /\ a + (k - a + 1) - 1 = k
            BY <1>2, <2>1
        <3> QED BY <2>1, <3>1
    <2> QED BY SMTT(30), <2>2, <2>3 DEF Of
<1>7. Of(Keep(t, FullTag)) = Of(t) \cap FullTag
    BY <1>4, OfKept
<1>8. \A k \in a..b : /\ k \in 1..L /\ T[k].page = LineToPage(k)
                      /\ T[k] \in FullTag <=> AllLines[k] # Blank
    <2> TAKE k \in a..b
    <2>1. k \in 1..L
        BY <1>1, <1>2
    <2>2. T[k].page = LineToPage(k)
        BY <2>1, LineToPageIs DEF T, L
    <2> QED BY <1>1, <2>1, <2>2, FullTagIs
<1> DEFINE P == {x.page : x \in Of(Keep(t, FullTag))}
           Q == {LineToPage(k) : k \in {j \in a..b : AllLines[j] # Blank}}
<1>9. \A x : x \in Of(Keep(t, FullTag))
             <=> \E k \in {j \in a..b : AllLines[j] # Blank} : x = T[k]
    BY <1>6, <1>7, <1>8
<1>10. P = Q
    <2> DEFINE K == {j \in a..b : AllLines[j] # Blank}
               O == Of(Keep(t, FullTag))
    <2>1. \A k \in K : T[k].page = LineToPage(k)
        BY <1>8
    <2>2. \A x : x \in O <=> \E k \in K : x = T[k]
        BY <1>9
    <2> HIDE DEF K, O
    <2>3. {x.page : x \in O} = {LineToPage(k) : k \in K}
        BY <2>1, <2>2
    <2> QED BY <2>3 DEF K, O
<1>11. PagesOf(a, b) = Q
    BY DEF PagesOf
<1> HIDE DEF t
<1> QED BY <1>5, <1>10, <1>11 DEF Own, PagesIn, t, T, a, b

LEMMA OwnJoined ==
    ASSUME input \in Inputs, \A p \in DOMAIN v0 : v0[p] \in Seq(Line),
           NEW s, NEW e, NEW n, CutBy(s, e, n)
    PROVE  Tagged = Joined([i \in 1..n |-> Own(e, i)], n)
<1> DEFINE T == AllTagged
           L == Len(AllLines)
           V == [i \in 1..n |-> Own(e, i)]
           Upto(m) == Keep(SubSeq(T, 1, e[m]), FullTag)
           S == {m \in Nat : m <= n => Upto(m) = Joined(V, m)}
<1>1. /\ T \in Seq(Tag) /\ Untagged(T) = AllLines /\ Len(T) = L /\ L \in Nat
      /\ AllLines \in Seq(Line) /\ Keep(T, FullTag) = Tagged
    BY AllTaggedIs, LenProperties
<1>2. /\ n \in Nat /\ e \in [0..n -> 0..L] /\ e[n] = L /\ \A i \in 1..n : e[i - 1] <= e[i]
      /\ Filled(SubSeq(AllLines, 1, e[0])) = <<>>
    BY DEF CutBy
<1>3. V \in [1..n -> Seq(Tag)] /\ \A i \in 1..n : V[i] = Keep(SubSeq(T, e[i - 1] + 1, e[i]), FullTag)
    <2>1. \A i \in 1..n : Own(e, i) \in Seq(Tag)
        BY OwnIs
    <2> QED BY <2>1 DEF Own
<1> HIDE DEF T, L, V
<1>4. 0 \in S
    <2>1. e[0] \in 0..L /\ 1 \in 1..(Len(T) + 1) /\ e[0] \in (1 - 1)..Len(T)
        BY <1>1, <1>2
    <2>2. SubSeq(T, 1, e[0]) \in Seq(Tag) /\ Untagged(SubSeq(T, 1, e[0])) = SubSeq(AllLines, 1, e[0])
        BY <1>1, <2>1, UntaggedSub
    <2>3. Upto(0) \in Seq(Tag) /\ Untagged(Upto(0)) = <<>>
        BY <1>2, <2>2, KeepTyped, UntaggedKeep
    <2>4. Len(Upto(0)) = 0
        BY <2>3, UntaggedIs, EmptySeq
    <2>5. Upto(0) = <<>> /\ Joined(V, 0) = <<>>
        BY <1>2, <1>3, <2>3, <2>4, EmptySeq, JoinedIs
    <2> QED BY <2>5
<1>5. ASSUME NEW m \in Nat, m \in S
      PROVE  m + 1 \in S
    <2> SUFFICES ASSUME m + 1 <= n
                 PROVE  Upto(m + 1) = Joined(V, m + 1)
        OBVIOUS
    <2>1. m \in 0..(n - 1) /\ m \in 0..n /\ m + 1 \in 0..n /\ m + 1 \in 1..n /\ m <= n
          /\ (m + 1) - 1 = m
        BY <1>2
    <2> DEFINE a == e[m]
               b == e[m + 1]
               u == SubSeq(T, 1, a)
               w == SubSeq(T, a + 1, b)
    <2>2. a \in 0..L /\ b \in 0..L /\ a <= b
        BY <1>2, <2>1
    <2> HIDE DEF a, b
    <2>3. 1 \in 1..(Len(T) + 1) /\ a \in (1 - 1)..Len(T) /\ b \in a..Len(T)
        BY <1>1, <2>2
    <2>4. u \in Seq(Tag) /\ w \in Seq(Tag) /\ SubSeq(T, 1, b) = Cat(u, w)
        BY <1>1, <2>3, CutTwo
    <2> HIDE DEF u, w
    <2>5. Keep(Cat(u, w), FullTag) = Cat(Keep(u, FullTag), Keep(w, FullTag))
        BY <2>4, KeepCat
    <2>6. Keep(u, FullTag) = Joined(V, m)
        BY <1>5, <2>1 DEF u, a
    <2>7. Keep(w, FullTag) = V[m + 1]
        BY <1>3, <2>1 DEF w, a, b
    <2>8. Joined(V, m + 1) = Cat(Joined(V, m), V[m + 1])
        BY ZenonT(30), <1>2, <1>3, <2>1, JoinedIs
    <2>9. Upto(m + 1) = Keep(Cat(u, w), FullTag)
        BY <2>4 DEF b
    <2> QED BY <2>5, <2>6, <2>7, <2>8, <2>9
<1>6. Nat \subseteq S
    <2> HIDE DEF S
    <2> QED BY <1>4, <1>5, Induct
<1>7. Upto(n) = Joined(V, n)
    BY <1>2, <1>6
<1>8. Upto(n) = Tagged
    BY <1>1, <1>2, SubSeqFull
<1> QED BY <1>7, <1>8 DEF V

LEMMA CutPartitions ==
    ASSUME input \in Inputs, \A p \in DOMAIN v0 : v0[p] \in Seq(Line),
           NEW s, NEW e, NEW n, CutBy(s, e, n)
    PROVE  /\ Untagged(Tagged) = Concat([i \in DOMAIN s |-> s[i].lines])
           /\ \A i \in 1..n : OwnPages(s, i) = PagesOf(e[i - 1] + 1, e[i])
<1> DEFINE V == [i \in 1..n |-> Own(e, i)]
           ls == [i \in 1..n |-> s[i].lines]
<1>1. n \in Nat /\ DOMAIN s = 1..n
    BY DEF CutBy
<1>2. /\ V \in [1..n -> Seq(Tag)] /\ UntaggedOf(ls, V, n)
      /\ \A i \in 1..n : V[i] = Own(e, i) /\ ls[i] = s[i].lines
    <2>1. \A i \in 1..n : Own(e, i) \in Seq(Tag) /\ Untagged(Own(e, i)) = s[i].lines
        BY OwnIs
    <2> QED BY <2>1 DEF UntaggedOf
<1>3. Tagged = Joined(V, n)
    BY OwnJoined
<1>4. Front(ls, n) = [i \in DOMAIN s |-> s[i].lines]
    BY <1>1 DEF Front
<1>5. \A i \in 1..n : Front(ls, i - 1) = [k \in 1..(i - 1) |-> s[k].lines]
    <2> TAKE i \in 1..n
    <2>1. \A k \in 1..(i - 1) : k \in 1..n
        BY <1>1
    <2> QED BY <2>1 DEF Front
<1> HIDE DEF V, ls
<1>6. \A m \in 0..n : /\ Untagged(Joined(V, m)) = Joined(ls, m)
                      /\ Len(Joined(V, m)) = Len(Joined(ls, m))
    <2> TAKE m \in 0..n
    <2>1. Untagged(Joined(V, m)) = Joined(ls, m)
        BY <1>1, <1>2, UntaggedJoined
    <2>2. Joined(V, m) \in Seq(Tag)
        BY <1>1, <1>2, JoinedIs
    <2> QED BY <2>1, <2>2, UntaggedIs
<1>7. Untagged(Tagged) = Concat([i \in DOMAIN s |-> s[i].lines])
    <2>1. n \in 0..n
        BY <1>1
    <2> QED BY <1>3, <1>4, <1>6, <2>1 DEF Joined
<1>8. ASSUME NEW i \in 1..n
      PROVE  OwnPages(s, i) = PagesOf(e[i - 1] + 1, e[i])
    <2> DEFINE a == Len(Concat([k \in 1..(i - 1) |-> s[k].lines]))
               b == Len(s[i].lines)
    <2>1. i - 1 \in 0..n
        BY <1>1
    <2>2. a = Len(Joined(V, i - 1)) /\ a \in Nat
        <3>1. a = Len(Joined(ls, i - 1))
            BY <1>5 DEF Joined
        <3>2. Joined(V, i - 1) \in Seq(Tag)
            BY <1>1, <1>2, <2>1, JoinedIs
        <3> QED BY <1>6, <2>1, <3>1, <3>2, LenProperties
    <2>3. V[i] \in Seq(Tag) /\ b = Len(V[i]) /\ b \in Nat
        <3>1. V[i] \in Seq(Tag) /\ s[i].lines = Untagged(V[i])
            BY <1>2 DEF UntaggedOf
        <3> QED BY <3>1, UntaggedIs
    <2> HIDE DEF a, b
    <2>4. \A j \in 1..b : Tagged[a + j] = V[i][j]
        <3>1. \A j \in 1..Len(V[i]) : Joined(V, n)[Len(Joined(V, i - 1)) + j] = V[i][j]
            BY <1>1, <1>2, JoinedInner
        <3> QED BY <1>3, <2>2, <2>3, <3>1
    <2>5. {Tagged[k].page : k \in (a + 1)..(a + b)} = {x.page : x \in Of(V[i])}
        <3> DEFINE P == {Tagged[k].page : k \in (a + 1)..(a + b)}
                   Q == {x.page : x \in Of(V[i])}
        <3>0. \A k \in (a + 1)..(a + b) : k - a \in 1..b /\ a + (k - a) = k
            <4>1. a \in Nat /\ b \in Nat
                BY <2>2, <2>3
            <4> HIDE DEF P, Q
            <4> QED BY <4>1
        <3>1. ASSUME NEW y \in P
              PROVE  y \in Q
            <4>1. PICK k \in (a + 1)..(a + b) : y = Tagged[k].page
                OBVIOUS
            <4>2. k - a \in 1..b /\ a + (k - a) = k
                BY <3>0
            <4>3. Tagged[k] = V[i][k - a] /\ V[i][k - a] \in Of(V[i])
                BY <2>3, <2>4, <4>2 DEF Of
            <4> QED BY <4>1, <4>3
        <3>2. ASSUME NEW y \in Q
              PROVE  y \in P
            <4>1. PICK j \in 1..b : y = V[i][j].page
                BY <2>3 DEF Of
            <4>2. a + j \in (a + 1)..(a + b)
                BY <2>2, <2>3
            <4>3. y = Tagged[a + j].page
                BY <2>4, <4>1
            <4> QED BY <4>2, <4>3
        <3> HIDE DEF P, Q
        <3>3. P = Q
            BY <3>1, <3>2
        <3> QED BY <3>3 DEF P, Q
    <2>6. OwnPages(s, i) = {Tagged[k].page : k \in (a + 1)..(a + b)}
        BY DEF OwnPages, a, b
    <2>7. {x.page : x \in Of(V[i])} = PagesOf(e[i - 1] + 1, e[i])
        <3>1. V[i] = Own(e, i)
            BY <1>2
        <3>2. PagesIn(Own(e, i)) = PagesOf(e[i - 1] + 1, e[i])
            BY OwnIs
        <3> QED BY <3>1, <3>2 DEF PagesIn
    <2> QED BY <2>5, <2>6, <2>7
<1> QED BY <1>7, <1>8

(***************************************************************************)
(* The headings the outline has: in the order of the lines.                *)
(***************************************************************************)
Answers(line, used) ==
    /\ line.is = "heading"
    /\ \E k \in 1..Len(input.outline) : k \notin used /\ Like(line.text, input.outline[k].text) >= 1

LEMMA MatchIs ==
    ASSUME input \in Inputs, NEW line \in Line, NEW used
    PROVE  /\ Match(line, used) \in Nat
           /\ Match(line, used) # 0 <=> Answers(line, used)
<1> DEFINE n == Len(input.outline)
           s == Scores(line, used)
<1>1. input.outline \in Seq([text : Texts, level : Nat \ {0}])
    BY DocumentAssumption
<1>2. n \in Nat /\ DOMAIN input.outline = 1..n
    BY <1>1, LenProperties
<1>3. s \in [1..n -> 0..2]
      /\ \A k \in 1..n : s[k] = IF k \in used THEN 0 ELSE Like(line.text, input.outline[k].text)
    BY <1>2, LikeTyped DEF Scores
<1>4. s \in Seq(0..2) /\ Len(s) = n
    BY <1>2, <1>3
<1> HIDE DEF s, n
<1>5. /\ BestOf(s) \in 0..n /\ (BestOf(s) # 0 => s[BestOf(s)] >= 1)
      /\ (\E i \in 1..n : s[i] >= 1) => BestOf(s) # 0
    BY <1>4, BestIs
<1>6. BestOf(s) # 0 <=> \E i \in 1..n : s[i] >= 1
    <2>1. BestOf(s) # 0 => BestOf(s) \in 1..n
        BY <1>2, <1>5
    <2> QED BY <1>5, <2>1
<1>7. \A i \in 1..n : s[i] >= 1 <=> i \notin used /\ Like(line.text, input.outline[i].text) >= 1
    BY <1>3
<1>8. Match(line, used) = IF line.is = "heading" THEN BestOf(s) ELSE 0
    BY DEF Match, s
<1> QED BY <1>2, <1>5, <1>6, <1>7, <1>8 DEF Answers, n

Matching == [used : SUBSET Nat, at : Seq(Nat)]
Taken(line, n, m) ==
    [used |-> m.used \cup {Match(line, m.used)}, at |-> Append(m.at, n)]
NextMatch(line, n, m) == IF Match(line, m.used) = 0 THEN m ELSE Taken(line, n, m)
Unmatched == [used |-> {}, at |-> <<>>]
IsMatched(f, lines) ==
    f = [n \in 0..Len(lines) |->
            IF n = 0 THEN Unmatched ELSE NextMatch(lines[n], n, f[n - 1])]
MatchedBy(f, lines) ==
    /\ f \in [0..Len(lines) -> Matching] /\ f[0] = Unmatched
    /\ Matched(lines) = f[Len(lines)].at
    /\ \A n \in 1..Len(lines) : f[n] = NextMatch(lines[n], n, f[n - 1])

LEMMA NextMatchIs ==
    ASSUME input \in Inputs, NEW line \in Line, NEW n \in Nat, NEW m \in Matching
    PROVE  NextMatch(line, n, m) \in Matching
<1>1. m.used \in SUBSET Nat /\ m.at \in Seq(Nat)
    BY DEF Matching
<1>2. Match(line, m.used) \in Nat
    BY MatchIs
<1>3. Append(m.at, n) \in Seq(Nat)
    BY <1>1, AppendProperties
<1>4. Taken(line, n, m) \in Matching
    BY <1>1, <1>2, <1>3 DEF Taken, Matching
<1> QED BY <1>4 DEF NextMatch

LEMMA MatchedIs ==
    ASSUME input \in Inputs, NEW lines \in Seq(Line)
    PROVE  \E f : MatchedBy(f, lines)
<1> DEFINE n == Len(lines)
           T == Matching
           g == [k \in 1..n |-> [m \in T |-> NextMatch(lines[k], k, m)]]
<1>1. n \in Nat /\ \A k \in 1..n : lines[k] \in Line
    BY LenProperties, ElementOfSeq
<1>2. ASSUME NEW k \in 1..n, NEW m \in T
      PROVE  NextMatch(lines[k], k, m) \in T
    <2>1. lines[k] \in Line /\ k \in Nat
        BY <1>1
    <2> QED BY <2>1, NextMatchIs
<1>3. g \in [1..n -> [T -> T]]
    BY <1>2
<1>4. \A k \in 1..n, m \in T : g[k][m] = NextMatch(lines[k], k, m)
    OBVIOUS
<1>u. Unmatched \in T
    BY EmptySeq DEF Unmatched, Matching
<1> HIDE DEF g, n, T
<1> PICK f : Follows(f, Unmatched, g, n, T)
    BY <1>1, <1>3, <1>u, Recursion
<1>5. f \in [0..n -> T] /\ f[0] = Unmatched /\ \A k \in 1..n : f[k] = g[k][f[k - 1]]
    BY DEF Follows
<1>6. ASSUME NEW k \in 1..n
      PROVE  f[k] = NextMatch(lines[k], k, f[k - 1])
    <2>1. k - 1 \in 0..n
        BY <1>1
    <2> QED BY <1>4, <1>5, <2>1
<1>7. f = [k \in 0..n |-> IF k = 0 THEN Unmatched ELSE NextMatch(lines[k], k, f[k - 1])]
    <2>1. ASSUME NEW k \in 0..n, k # 0
          PROVE  k \in 1..n
        BY <1>1, <2>1
    <2> QED BY <1>5, <1>6, <2>1
<1>8. IsMatched(f, lines)
    BY <1>7 DEF IsMatched, n
<1> DEFINE h == CHOOSE v : IsMatched(v, lines)
<1>9. Matched(lines) = h[n].at
    BY DEF Matched, IsMatched, NextMatch, Taken, Unmatched, n
<1>10. IsMatched(h, lines)
    BY <1>8
<1> HIDE DEF h
<1>11. h = [k \in 0..n |-> IF k = 0 THEN Unmatched ELSE NextMatch(lines[k], k, h[k - 1])]
    BY <1>10 DEF IsMatched, n
<1>12. h[0] = Unmatched /\ \A k \in 1..n : h[k] = NextMatch(lines[k], k, h[k - 1])
    <2>1. 0 \in 0..n /\ \A k \in 1..n : k \in 0..n /\ k # 0
        BY <1>1
    <2> QED BY <1>11, <2>1
<1>13. h \in [0..n -> T]
    <2> DEFINE S == {k \in Nat : k <= n => h[k] \in T}
    <2>1. 0 \in S
        BY <1>12, <1>u
    <2>2. ASSUME NEW k \in Nat, k \in S
          PROVE  k + 1 \in S
        <3> SUFFICES ASSUME k + 1 <= n
                     PROVE  h[k + 1] \in T
            OBVIOUS
        <3>1. k + 1 \in 1..n /\ (k + 1) - 1 = k /\ k <= n
            BY <1>1
        <3> QED BY <1>2, <1>12, <2>2, <3>1
    <2>3. Nat \subseteq S
        <3> HIDE DEF S
        <3> QED BY <2>1, <2>2, Induct
    <2>4. \A k \in 0..n : h[k] \in T
        BY <1>1, <2>3
    <2> HIDE DEF S
    <2> QED BY <1>11, <2>4
<1>14. MatchedBy(h, lines)
    BY <1>9, <1>12, <1>13 DEF MatchedBy, n, T
<1> QED BY <1>14

(* The matched headings up to line n, which come one after the other: a    *)
(* line is one if its heading was like an entry that was left.             *)
HeadsUpto(f, lines, n) ==
    /\ \A i \in 1..Len(f[n].at) : f[n].at[i] \in 1..n /\ Answers(lines[f[n].at[i]], f[f[n].at[i] - 1].used)
    /\ \A i \in 1..Len(f[n].at) : \A j \in 1..Len(f[n].at) : i < j => f[n].at[i] < f[n].at[j]
    /\ \A k \in 1..n : Answers(lines[k], f[k - 1].used) => k \in Of(f[n].at)
    /\ \A k \in 0..n : f[k].used \subseteq f[n].used

LEMMA HeadsAre ==
    ASSUME input \in Inputs, NEW lines \in Seq(Line), NEW f, MatchedBy(f, lines),
           NEW n \in 0..Len(lines)
    PROVE  HeadsUpto(f, lines, n)
<1> DEFINE S == {m \in Nat : m <= Len(lines) => HeadsUpto(f, lines, m)}
<1>1. /\ Len(lines) \in Nat /\ \A k \in 1..Len(lines) : lines[k] \in Line
      /\ f[0] = Unmatched /\ \A k \in 0..Len(lines) : f[k] \in Matching
      /\ \A k \in 1..Len(lines) : f[k] = NextMatch(lines[k], k, f[k - 1])
    BY LenProperties, ElementOfSeq DEF MatchedBy
<1>2. 0 \in S
    <2>1. f[0].at = <<>> /\ Len(<<>>) = 0
        BY <1>1 DEF Unmatched
    <2> QED BY <2>1 DEF HeadsUpto
<1>3. ASSUME NEW m \in Nat, m \in S
      PROVE  m + 1 \in S
    <2> SUFFICES ASSUME m + 1 <= Len(lines)
                 PROVE  HeadsUpto(f, lines, m + 1)
        OBVIOUS
    <2> DEFINE q == m + 1
               a == f[m].at
               b == f[m + 1].at
               u == f[m].used
    <2>1. q \in 1..Len(lines) /\ q - 1 = m /\ m \in 0..Len(lines) /\ q \in Nat /\ q > m
          /\ \A k \in 1..q : k = q \/ k \in 1..m
        BY <1>1
    <2>2. HeadsUpto(f, lines, m)
        BY <1>3, <2>1
    <2>3. a \in Seq(Nat) /\ Len(a) \in Nat /\ f[m] \in Matching
        <3>1. f[m] \in Matching
            BY <1>1, <2>1
        <3>2. a \in Seq(Nat)
            BY <3>1 DEF Matching
        <3> QED BY <3>1, <3>2, LenProperties
    <2>4. Match(lines[q], u) # 0 <=> Answers(lines[q], u)
        BY <1>1, <2>1, MatchIs
    <2>5. f[q] = NextMatch(lines[q], q, f[m])
        BY <1>1, <2>1
    <2>6. /\ \A i \in 1..Len(a) : a[i] \in 1..m /\ Answers(lines[a[i]], f[a[i] - 1].used)
          /\ \A i \in 1..Len(a) : \A j \in 1..Len(a) : i < j => a[i] < a[j]
          /\ \A k \in 1..m : Answers(lines[k], f[k - 1].used) => k \in Of(a)
          /\ \A k \in 0..m : f[k].used \subseteq u
        BY <2>2 DEF HeadsUpto
    <2>7. CASE Match(lines[q], u) = 0
        <3>1. f[q] = f[m]
            BY <2>5, <2>7 DEF NextMatch
        <3>2. \A i \in 1..Len(a) : a[i] \in 1..q
            BY <2>1, <2>6
        <3>3. \A k \in 1..q : Answers(lines[k], f[k - 1].used) => k \in Of(a)
            BY <2>1, <2>4, <2>6, <2>7
        <3>4. \A k \in 0..q : f[k].used \subseteq u
            <4>1. \A k \in 0..q : k = q \/ k \in 0..m
                BY <2>1
            <4> QED BY <2>6, <3>1, <4>1
        <3> HIDE DEF q
        <3>5. HeadsUpto(f, lines, q)
            BY <2>6, <3>1, <3>2, <3>3, <3>4 DEF HeadsUpto
        <3> QED BY <3>5 DEF q
    <2>8. CASE Match(lines[q], u) # 0
        <3>1. f[q] = Taken(lines[q], q, f[m])
            BY <2>5, <2>8 DEF NextMatch
        <3>2. b = Append(a, q) /\ f[q].used = u \cup {Match(lines[q], u)}
            BY <3>1 DEF Taken
        <3>3. Answers(lines[q], u)
            BY <2>4, <2>8
        <3> HIDE DEF q, b, a, u
        <3>4. /\ Len(b) = Len(a) + 1 /\ b[Len(a) + 1] = q /\ \A i \in 1..Len(a) : b[i] = a[i]
            BY <2>1, <2>3, <3>2, AppendProperties
        <3>5. \A i \in 1..Len(b) : i = Len(a) + 1 \/ i \in 1..Len(a)
            BY <2>3, <3>4
        <3>6. ASSUME NEW i \in 1..Len(b)
              PROVE  b[i] \in 1..q /\ Answers(lines[b[i]], f[b[i] - 1].used)
            <4>1. CASE i = Len(a) + 1
                BY <2>1, <3>3, <3>4, <4>1 DEF u
            <4>2. CASE i \in 1..Len(a)
                <5>1. b[i] = a[i] /\ a[i] \in 1..m /\ Answers(lines[a[i]], f[a[i] - 1].used)
                    BY <2>6, <3>4, <4>2
                <5>2. a[i] \in 1..q
                    BY <2>1, <5>1
                <5> QED BY <5>1, <5>2
            <4> QED BY <3>5, <4>1, <4>2
        <3>7. ASSUME NEW i \in 1..Len(b), NEW j \in 1..Len(b), i < j
              PROVE  b[i] < b[j]
            <4>1. i \in 1..Len(a)
                BY <2>3, <3>4, <3>7
            <4>2. b[i] = a[i] /\ a[i] \in 1..m
                BY <2>6, <3>4, <4>1
            <4>3. CASE j = Len(a) + 1
                BY <2>1, <3>4, <4>2, <4>3
            <4>4. CASE j \in 1..Len(a)
                BY <2>6, <3>4, <3>7, <4>1, <4>4
            <4> QED BY <3>5, <4>3, <4>4
        <3>8. Of(b) = Of(a) \cup {q}
            BY <2>1, <2>3, <3>2, OfAppend
        <3>9. \A k \in 1..q : Answers(lines[k], f[k - 1].used) => k \in Of(b)
            BY <2>1, <2>6, <3>8
        <3>10. \A k \in 0..q : f[k].used \subseteq f[q].used
            <4>1. \A k \in 0..q : k = q \/ k \in 0..m
                BY <2>1
            <4> QED BY <2>6, <3>2, <4>1
        <3>11. b = f[q].at
            BY DEF b, q
        <3>12. HeadsUpto(f, lines, q)
            BY <3>6, <3>7, <3>9, <3>10, <3>11 DEF HeadsUpto
        <3> QED BY <3>12 DEF q
    <2> QED BY <2>7, <2>8
<1>4. Nat \subseteq S
    <2> HIDE DEF S
    <2> QED BY <1>2, <1>3, Induct
<1>5. n \in S /\ n <= Len(lines)
    BY <1>1, <1>4
<1> QED BY <1>5

(***************************************************************************)
(* The section map is cut from the lines at the matched headings.          *)
(***************************************************************************)
Sects == [title : Texts \cup {"(Preamble)"}, level : Nat, lines : Seq(Line), pages : SUBSET Nat]
HeadsOf(at) ==
    /\ at \in Seq(Nat) /\ Len(at) \in Nat /\ DOMAIN at = 1..Len(at)
    /\ \A i \in 1..Len(at) : at[i] \in 1..Len(AllLines) /\ AllLines[at[i]].is = "heading"
    /\ \A i \in 1..Len(at) : \A j \in 1..Len(at) : i < j => at[i] < at[j]
CutAs(s, e, n, at) ==
    /\ CutBy(s, e, n) /\ s \in Seq(Sects) /\ n = Len(s)
    /\ \A i \in 1..n : \/ s[i].level = 0 /\ e[0] = 0 /\ i = 1
                       \/ /\ s[i].level > 0 /\ e[i - 1] < e[i] /\ e[i - 1] + 1 \in Of(at)
                          /\ s[i].title = AllLines[e[i - 1] + 1].text
    /\ \A k \in Of(at) : \E i \in 1..n : s[i].level > 0 /\ e[i - 1] + 1 = k
    /\ \A i \in 1..n : \/ s[i].pages = PagesOf(e[i - 1] + 1, e[i])
                       \/ n = 1 /\ s[i].pages = PageNumbers /\ at = <<>>

LEMMA HeadingIs ==
    ASSUME NEW line \in Line, line.is = "heading"
    PROVE  line.text \in Texts /\ line.level \in Nat \ {0} /\ TextOf(line) = line.text
           /\ line # Blank
<1>1. line \in [is : {"heading"}, text : Texts, level : Nat \ {0}]
    BY DEF Line
<1>2. "text" \in DOMAIN line
    BY <1>1
<1> QED BY <1>1, <1>2 DEF TextOf, Blank

LEMMA HeadsOfMatched ==
    ASSUME input \in Inputs, \A p \in DOMAIN v0 : v0[p] \in Seq(Line)
    PROVE  HeadsOf(Matched(AllLines))
<1>1. AllLines \in Seq(Line) /\ Len(AllLines) \in Nat
    BY AllTaggedIs, LenProperties
<1>2. PICK f : MatchedBy(f, AllLines)
    BY <1>1, MatchedIs
<1> DEFINE L == Len(AllLines)
           at == f[L].at
<1>3. at = Matched(AllLines) /\ f[L] \in Matching
    BY <1>1, <1>2 DEF MatchedBy
<1>4. at \in Seq(Nat)
    BY <1>3 DEF Matching
<1>5. HeadsUpto(f, AllLines, L)
    BY <1>1, <1>2, HeadsAre
<1>6. /\ \A i \in 1..Len(at) : at[i] \in 1..L /\ Answers(AllLines[at[i]], f[at[i] - 1].used)
      /\ \A i \in 1..Len(at) : \A j \in 1..Len(at) : i < j => at[i] < at[j]
    BY <1>5 DEF HeadsUpto
<1>7. \A i \in 1..Len(at) : AllLines[at[i]].is = "heading"
    BY <1>6 DEF Answers
<1>8. Len(at) \in Nat /\ DOMAIN at = 1..Len(at)
    BY <1>4, LenProperties
<1> HIDE DEF at
<1>9. HeadsOf(at)
    BY <1>4, <1>6, <1>7, <1>8 DEF HeadsOf
<1> QED BY <1>3, <1>9

LEMMA PagesTyped ==
    ASSUME input \in Inputs, \A p \in DOMAIN v0 : v0[p] \in Seq(Line),
           NEW a \in 1..(Len(AllLines) + 1), NEW b \in 0..Len(AllLines)
    PROVE  PagesOf(a, b) \in SUBSET Nat /\ Filled(SubSeq(AllLines, a, b)) \in Seq(Line)
<1>1. AllLines \in Seq(Line) /\ Len(AllLines) \in Nat
      /\ \A i \in 1..Len(AllLines) : AllLines[i] \in Line
    BY AllTaggedIs, LenProperties, ElementOfSeq
<1>2. N \in Nat
    BY WrittenIs
<1>3. \A k \in a..b : LineToPage(k) \in Nat
    <2> TAKE k \in a..b
    <2>1. k \in 1..Len(AllLines)
        BY <1>1
    <2>2. LineToPage(k) \in 1..N
        BY <2>1, LineToPageIs
    <2> QED BY <1>2, <2>2
<1>4. PagesOf(a, b) \in SUBSET Nat
    BY <1>3 DEF PagesOf
<1>5. SubSeq(AllLines, a, b) \in Seq(Line)
    <2>1. a \in Nat /\ b \in Nat /\ \A i \in a..b : AllLines[i] \in Line
        BY <1>1
    <2> QED BY <1>1, <2>1, SubSeqProperties
<1> QED BY <1>4, <1>5, KeepTyped DEF Filled

Ends(at) == [k \in 0..Len(at) |-> IF k = 0 THEN at[1] - 1 ELSE SectionEnds(at, k)]
LEMMA EndsAre ==
    ASSUME NEW at, HeadsOf(at), at # <<>>, Len(AllLines) \in Nat
    PROVE  LET m == Len(at)
               e == Ends(at) IN
           /\ m \in Nat \ {0} /\ e \in [0..m -> 0..Len(AllLines)] /\ e[m] = Len(AllLines)
           /\ e[0] = at[1] - 1
           /\ \A i \in 1..m : e[i] = SectionEnds(at, i)
           /\ \A i \in 1..m : e[i - 1] + 1 = at[i] /\ e[i - 1] < e[i]
<1> DEFINE m == Len(at)
           e == Ends(at)
           L == Len(AllLines)
<1>1. m \in Nat \ {0} /\ (\A i \in 1..m : at[i] \in 1..L) /\ L \in Nat
      /\ \A i \in 1..m : \A j \in 1..m : i < j => at[i] < at[j]
    BY EmptySeq DEF HeadsOf
<1>a. DOMAIN e = 0..m /\ e = [k \in 0..m |-> e[k]]
    BY DEF Ends
<1>b. e[0] = at[1] - 1 /\ \A k \in 1..m : e[k] = IF k < m THEN at[k + 1] - 1 ELSE L
    BY <1>1 DEF Ends, SectionEnds
<1> HIDE DEF e, m, L
<1>2. e[0] = at[1] - 1 /\ (\A k \in 1..m : k < m => e[k] = at[k + 1] - 1) /\ e[m] = L
    BY <1>1, <1>b
<1>3. \A k \in 1..m : k < m => k + 1 \in 1..m
    BY <1>1
<1>4. \A i \in 1..m : at[i] - 1 \in 0..L
    BY <1>1
<1>5. ASSUME NEW k \in 1..m
      PROVE  e[k] \in 0..L
    <2>1. CASE k < m
        BY <1>2, <1>3, <1>4, <2>1
    <2>2. CASE ~(k < m)
        <3>1. k = m
            BY <1>1, <2>2
        <3> QED BY <1>1, <1>2, <3>1
    <2> QED BY <2>1, <2>2
<1>6. e[0] \in 0..L /\ 1 \in 1..m /\ m \in 1..m
    BY <1>1, <1>2, <1>4
<1>7. \A k \in 0..m : e[k] \in 0..L
    <2>1. \A k \in 0..m : k = 0 \/ k \in 1..m
        BY <1>1
    <2> QED BY <1>5, <1>6, <2>1
<1>8. e \in [0..m -> 0..L] /\ e[m] = L
    BY <1>2, <1>7, <1>a
<1>9. ASSUME NEW i \in 1..m
      PROVE  e[i - 1] + 1 = at[i] /\ e[i - 1] < e[i]
    <2>1. e[i - 1] = at[i] - 1
        <3>1. CASE i = 1
            BY <1>2, <3>1
        <3>2. CASE i # 1
            <4>1. i - 1 \in 1..m /\ i - 1 < m /\ (i - 1) + 1 = i
                BY <1>1, <3>2
            <4> QED BY <1>2, <4>1
        <3> QED BY <3>1, <3>2
    <2>2. at[i] \in 1..L
        BY <1>1
    <2>3. CASE i < m
        <3>1. e[i] = at[i + 1] - 1 /\ i + 1 \in 1..m /\ i < i + 1
            BY <1>1, <1>2, <1>3, <2>3
        <3>2. at[i] < at[i + 1] /\ at[i + 1] \in 1..L
            BY <1>1, <3>1
        <3> QED BY <1>1, <2>1, <2>2, <3>1, <3>2
    <2>4. CASE ~(i < m)
        <3>1. i = m /\ e[i] = L
            BY <1>1, <1>2, <2>4
        <3> QED BY <1>1, <2>1, <2>2, <3>1
    <2> QED BY <2>3, <2>4
<1>10. \A i \in 1..m : e[i] = SectionEnds(at, i)
    BY <1>b DEF SectionEnds, m, L
<1> QED BY <1>1, <1>2, <1>8, <1>9, <1>10 DEF m, e, L

HeadSections(at) == [i \in DOMAIN at |-> Section(AllLines[at[i]].text, AllLines[at[i]].level,
                                                 at[i], SectionEnds(at, i))]
LEMMA HeadSectionsAre ==
    ASSUME input \in Inputs, \A p \in DOMAIN v0 : v0[p] \in Seq(Line),
           NEW at, HeadsOf(at), at # <<>>
    PROVE  LET h == HeadSections(at)
               e == Ends(at) IN
           /\ h \in Seq(Sects) /\ Len(h) = Len(at)
           /\ \A i \in 1..Len(at) :
                /\ h[i].level > 0 /\ h[i].title = AllLines[at[i]].text
                /\ h[i].lines = Filled(SubSeq(AllLines, e[i - 1] + 1, e[i]))
                /\ h[i].pages = PagesOf(e[i - 1] + 1, e[i])
<1> DEFINE m == Len(at)
           e == Ends(at)
           h == HeadSections(at)
           L == Len(AllLines)
<1>1. AllLines \in Seq(Line) /\ L \in Nat /\ \A i \in 1..L : AllLines[i] \in Line
    BY AllTaggedIs, LenProperties, ElementOfSeq
<1>2. /\ m \in Nat \ {0} /\ e \in [0..m -> 0..L]
      /\ \A i \in 1..m : e[i] = SectionEnds(at, i)
      /\ \A i \in 1..m : e[i - 1] + 1 = at[i] /\ e[i - 1] < e[i]
    BY <1>1, EndsAre
<1>3. DOMAIN at = 1..m /\ \A i \in 1..m : at[i] \in 1..L /\ AllLines[at[i]].is = "heading"
    BY DEF HeadsOf
<1>4. h = [i \in 1..m |-> h[i]]
      /\ \A i \in 1..m : h[i] = Section(AllLines[at[i]].text, AllLines[at[i]].level, at[i], e[i])
    BY <1>2, <1>3 DEF HeadSections
<1> HIDE DEF h, e, m, L
<1>5. ASSUME NEW i \in 1..m
      PROVE  /\ h[i] \in Sects /\ h[i].level > 0 /\ h[i].title = AllLines[at[i]].text
             /\ h[i].lines = Filled(SubSeq(AllLines, at[i], e[i]))
             /\ h[i].pages = PagesOf(at[i], e[i])
    <2> DEFINE x == AllLines[at[i]]
               a == at[i]
               b == e[i]
    <2>1. x \in Line /\ x.is = "heading" /\ a \in 1..(L + 1) /\ b \in 0..L
        BY SMTT(30), <1>1, <1>2, <1>3
    <2>2. x.text \in Texts /\ x.level \in Nat \ {0}
        BY <2>1, HeadingIs
    <2>3. PagesOf(a, b) \in SUBSET Nat /\ Filled(SubSeq(AllLines, a, b)) \in Seq(Line)
        BY <2>1, PagesTyped DEF L
    <2>4. h[i] = [title |-> x.text, level |-> x.level, lines |-> Filled(SubSeq(AllLines, a, b)),
                  pages |-> PagesOf(a, b)]
        BY <1>4 DEF Section
    <2> HIDE DEF x, a, b
    <2>5. h[i] \in Sects /\ h[i].level > 0 /\ h[i].title = x.text
          /\ h[i].lines = Filled(SubSeq(AllLines, a, b)) /\ h[i].pages = PagesOf(a, b)
        BY <2>2, <2>3, <2>4 DEF Sects
    <2> QED BY <2>5 DEF x, a, b
<1>6. h \in [1..m -> Sects]
    BY <1>4, <1>5
<1>7. h \in Seq(Sects) /\ Len(h) = m
    BY <1>2, <1>6
<1>8. \A i \in 1..m : /\ h[i].lines = Filled(SubSeq(AllLines, e[i - 1] + 1, e[i]))
                      /\ h[i].pages = PagesOf(e[i - 1] + 1, e[i])
    BY <1>2, <1>5
<1> QED BY <1>5, <1>7, <1>8 DEF h, e, m

(* The sections of the headings, with or without a preamble before them.   *)
LEMMA CutHeads ==
    ASSUME input \in Inputs, \A p \in DOMAIN v0 : v0[p] \in Seq(Line),
           NEW at, HeadsOf(at), at # <<>>, Filled(SubSeq(AllLines, 1, at[1] - 1)) = <<>>
    PROVE  CutAs(HeadSections(at), Ends(at), Len(at), at)
<1> DEFINE m == Len(at)
           e == Ends(at)
           h == HeadSections(at)
           L == Len(AllLines)
<1>1. L \in Nat
    BY AllTaggedIs, LenProperties
<1>2. /\ m \in Nat \ {0} /\ e \in [0..m -> 0..L] /\ e[m] = L /\ e[0] = at[1] - 1
      /\ \A i \in 1..m : e[i - 1] + 1 = at[i] /\ e[i - 1] < e[i]
    BY <1>1, EndsAre
<1>3. /\ h \in Seq(Sects) /\ Len(h) = m
      /\ \A i \in 1..m : /\ h[i].level > 0 /\ h[i].title = AllLines[at[i]].text
                         /\ h[i].lines = Filled(SubSeq(AllLines, e[i - 1] + 1, e[i]))
                         /\ h[i].pages = PagesOf(e[i - 1] + 1, e[i])
    BY HeadSectionsAre
<1>4. DOMAIN h = 1..m
    BY <1>3, LenProperties
<1> HIDE DEF h, e, m, L
<1>5. CutBy(h, e, m)
    <2>1. \A i \in 1..m : e[i - 1] <= e[i]
        <3> TAKE i \in 1..m
        <3>1. i - 1 \in 0..m /\ i \in 0..m
            BY <1>2
        <3>2. e[i - 1] \in 0..L /\ e[i] \in 0..L /\ e[i - 1] < e[i]
            BY <1>2, <3>1
        <3> QED BY <1>1, <3>2
    <2>2. Filled(SubSeq(AllLines, 1, e[0])) = <<>>
        BY <1>2
    <2> QED BY <1>2, <1>3, <1>4, <2>1, <2>2 DEF CutBy, L
<1>6. \A i \in 1..m : /\ h[i].level > 0 /\ e[i - 1] < e[i] /\ e[i - 1] + 1 \in Of(at)
                      /\ h[i].title = AllLines[e[i - 1] + 1].text
    BY <1>2, <1>3 DEF Of, m
<1>7. \A k \in Of(at) : \E i \in 1..m : h[i].level > 0 /\ e[i - 1] + 1 = k
    BY <1>2, <1>3 DEF Of, m
<1>8. CutAs(h, e, m, at)
    BY <1>3, <1>5, <1>6, <1>7 DEF CutAs
<1> QED BY <1>8 DEF h, e, m

(* The elements of h come after those of u in their concatenation.         *)
Follow(u, h) == \A i \in 1..Len(h) : Cat(u, h)[Len(u) + i] = h[i]

LEMMA CatFollow ==
    ASSUME NEW T, NEW u \in Seq(T), NEW h \in Seq(T)
    PROVE  Follow(u, h)
BY CatIs DEF Follow

LEMMA CutPreamble ==
    ASSUME input \in Inputs, \A p \in DOMAIN v0 : v0[p] \in Seq(Line),
           NEW at, HeadsOf(at), at # <<>>
    PROVE  \E e, n : CutAs(Cat(One(Preamble(1, at[1] - 1)), HeadSections(at)), e, n, at)
<1> DEFINE m == Len(at)
           d == Ends(at)
           h == HeadSections(at)
           L == Len(AllLines)
           x == Preamble(1, at[1] - 1)
           u == One(x)
           s == Cat(u, h)
           n == m + 1
           e == [k \in 0..n |-> IF k = 0 THEN 0 ELSE d[k - 1]]
<1>1. L \in Nat /\ AllLines \in Seq(Line)
    BY AllTaggedIs, LenProperties
<1>2. /\ m \in Nat \ {0} /\ d \in [0..m -> 0..L] /\ d[m] = L /\ d[0] = at[1] - 1
      /\ \A i \in 1..m : d[i - 1] + 1 = at[i] /\ d[i - 1] < d[i]
    BY <1>1, EndsAre
<1>3. /\ h \in Seq(Sects) /\ Len(h) = m
      /\ \A i \in 1..m : /\ h[i].level > 0 /\ h[i].title = AllLines[at[i]].text
                         /\ h[i].lines = Filled(SubSeq(AllLines, d[i - 1] + 1, d[i]))
                         /\ h[i].pages = PagesOf(d[i - 1] + 1, d[i])
    BY HeadSectionsAre
<1>4. /\ x \in Sects /\ x.level = 0 /\ x.lines = Filled(SubSeq(AllLines, 1, d[0]))
      /\ x.pages = PagesOf(1, d[0])
    <2>1. 1 \in 1..(L + 1) /\ d[0] \in 0..L
        BY <1>1, <1>2
    <2>2. PagesOf(1, d[0]) \in SUBSET Nat /\ Filled(SubSeq(AllLines, 1, d[0])) \in Seq(Line)
        BY <2>1, PagesTyped
    <2>3. x = [title |-> "(Preamble)", level |-> 0, lines |-> Filled(SubSeq(AllLines, 1, d[0])),
               pages |-> PagesOf(1, d[0])]
        BY <1>2 DEF Preamble, Section
    <2> HIDE DEF x, d, L
    <2> QED BY <2>2, <2>3 DEF Sects
<1>5. n \in Nat /\ m \in Nat /\ n = m + 1
    BY <1>2
<1> HIDE DEF h, d, m, L, x
<1>6. /\ e[0] = 0 /\ \A k \in 1..n : e[k] = d[k - 1]
      /\ e \in [0..n -> 0..L]
    <2>1. \A k \in 1..n : k \in 0..n /\ k # 0 /\ k - 1 \in 0..m
        BY <1>5
    <2>2. e[0] = 0 /\ \A k \in 1..n : e[k] = d[k - 1] /\ d[k - 1] \in 0..L
        BY <1>2, <1>5, <2>1
    <2>3. \A k \in 0..n : e[k] \in 0..L
        <3>1. \A k \in 0..n : k = 0 \/ k \in 1..n
            BY <1>5
        <3>2. 0 \in 0..L
            BY <1>1
        <3> HIDE DEF e
        <3> QED BY <2>2, <3>1, <3>2
    <2> QED BY <2>2, <2>3
<1> HIDE DEF e
<1>7. u \in Seq(Sects) /\ Len(u) = 1 /\ u[1] = x
    BY <1>4, OneIs
<1> HIDE DEF u
<1>8. s \in Seq(Sects) /\ Len(s) = Len(u) + Len(h) /\ (\A i \in 1..Len(u) : Cat(u, h)[i] = u[i])
    BY ZenonT(30), <1>3, <1>7, CatIs
<1>9. \A i \in 1..Len(h) : Cat(u, h)[Len(u) + i] = h[i]
    <2>1. u \in Seq(Sects) /\ h \in Seq(Sects)
        BY <1>3, <1>7
    <2>2. Follow(u, h)
        BY <2>1, CatFollow
    <2> QED BY <2>2 DEF Follow
<1>10. Len(s) = n /\ s[1] = x /\ \A i \in 1..m : s[1 + i] = h[i]
    BY <1>3, <1>5, <1>7, <1>8, <1>9
<1> HIDE DEF s, n
<1>11. \A i \in 1..n : i = 1 \/ (i \in 2..n /\ i - 1 \in 1..m /\ 1 + (i - 1) = i /\ i - 1 \in 1..n)
    BY <1>5
<1>12. ASSUME NEW i \in 1..n
       PROVE  /\ e[i - 1] <= e[i]
              /\ s[i].lines = Filled(SubSeq(AllLines, e[i - 1] + 1, e[i]))
              /\ s[i].pages = PagesOf(e[i - 1] + 1, e[i])
              /\ \/ s[i].level = 0 /\ e[0] = 0 /\ i = 1
                 \/ /\ s[i].level > 0 /\ e[i - 1] < e[i] /\ e[i - 1] + 1 \in Of(at)
                    /\ s[i].title = AllLines[e[i - 1] + 1].text
    <2>1. CASE i = 1
        <3>1. e[i - 1] = 0 /\ e[i] = d[0] /\ s[i] = x /\ i - 1 = 0 /\ e[i - 1] + 1 = 1
            BY <1>6, <1>10, <2>1
        <3>2. d[0] \in 0..L
            BY <1>2
        <3>3. e[i - 1] <= e[i]
            BY <1>1, <3>1, <3>2
        <3> QED BY <1>4, <1>6, <2>1, <3>1, <3>3
    <2>2. CASE i # 1
        <3> DEFINE j == i - 1
        <3>1. j \in 1..m /\ j \in 1..n /\ 1 + j = i
            BY <1>11, <2>2
        <3>2. e[i] = d[j] /\ e[j] = d[j - 1] /\ s[i] = h[j]
            BY <1>6, <1>10, <3>1
        <3>3. d[j - 1] + 1 = at[j] /\ d[j - 1] < d[j] /\ at[j] \in Of(at)
              /\ d[j - 1] <= d[j]
            <4>1. d[j - 1] + 1 = at[j] /\ d[j - 1] < d[j] /\ at[j] \in Of(at)
                BY <1>2, <3>1 DEF Of, m
            <4>2. j - 1 \in 0..m /\ j \in 0..m
                BY <1>5, <3>1
            <4>3. d[j - 1] \in 0..L /\ d[j] \in 0..L
                BY <1>2, <4>2
            <4> QED BY <1>1, <4>1, <4>3
        <3>4. /\ h[j].level > 0 /\ h[j].title = AllLines[at[j]].text
              /\ h[j].lines = Filled(SubSeq(AllLines, d[j - 1] + 1, d[j]))
              /\ h[j].pages = PagesOf(d[j - 1] + 1, d[j])
            BY <1>3, <3>1
        <3>5. i - 1 = j
            OBVIOUS
        <3> HIDE DEF j
        <3> QED BY <3>2, <3>3, <3>4, <3>5
    <2> QED BY <2>1, <2>2
<1>13. DOMAIN s = 1..n
    BY <1>8, <1>10, LenProperties
<1>14. e[n] = L
    <2>1. n \in 1..n /\ n - 1 = m
        BY <1>5
    <2> QED BY <1>2, <1>6, <2>1
<1>15. Filled(SubSeq(AllLines, 1, e[0])) = <<>>
    <2>1. SubSeq(AllLines, 1, 0) = <<>>
        BY <1>1, SubSeqEmpty
    <2> QED BY <1>6, <2>1, KeepEmpty DEF Filled
<1>16. CutBy(s, e, n)
    BY <1>5, <1>6, <1>12, <1>13, <1>14, <1>15 DEF CutBy, L
<1>17. \A k \in Of(at) : \E i \in 1..n : s[i].level > 0 /\ e[i - 1] + 1 = k
    <2> TAKE k \in Of(at)
    <2>1. PICK j \in 1..m : k = at[j]
        BY DEF Of, m
    <2>2. j + 1 \in 1..n /\ (j + 1) - 1 = j /\ j \in 1..n /\ 1 + j = j + 1
        BY <1>5
    <2>3. s[j + 1] = h[j] /\ e[(j + 1) - 1] = d[j - 1]
        BY <1>6, <1>10, <2>2
    <2> QED BY <1>2, <1>3, <2>1, <2>2, <2>3
<1>18. s \in Seq(Sects)
    BY <1>8 DEF s
<1>19. CutAs(s, e, n, at)
    BY <1>10, <1>12, <1>16, <1>17, <1>18 DEF CutAs
<1> QED BY <1>19 DEF s, u, x, h

LEMMA SectionsCut ==
    ASSUME input \in Inputs, \A p \in DOMAIN v0 : v0[p] \in Seq(Line)
    PROVE  \E e, n : CutAs(Sections, e, n, Matched(AllLines))
<1> DEFINE at == Matched(AllLines)
           L == Len(AllLines)
<1>1. L \in Nat /\ AllLines \in Seq(Line)
    BY AllTaggedIs, LenProperties
<1>2. HeadsOf(at)
    BY HeadsOfMatched
<1>3. SubSeq(AllLines, 1, L) = AllLines /\ SubSeq(AllLines, 1, 0) = <<>> /\ Filled(<<>>) = <<>>
    BY <1>1, SubSeqFull, SubSeqEmpty, KeepEmpty DEF Filled
<1>4. CASE Filled(AllLines) = <<>>
    <2>1. at = <<>>
        <3> SUFFICES ASSUME at # <<>>
                     PROVE  FALSE
            OBVIOUS
        <3>1. 1 \in 1..Len(at)
            BY <1>2, EmptySeq DEF HeadsOf
        <3>2. at[1] \in 1..L /\ AllLines[at[1]].is = "heading"
            BY <1>2, <3>1 DEF HeadsOf
        <3> DEFINE y == AllLines[at[1]]
        <3>3. y \in Line \ {Blank}
            <4>1. y \in Line /\ y.is = "heading"
                BY <1>1, <3>2, ElementOfSeq
            <4> QED BY <4>1, HeadingIs
        <3>4. y \in Of(AllLines)
            BY <3>2 DEF Of
        <3> HIDE DEF y
        <3>5. y \in Of(Filled(AllLines))
            BY <1>1, <3>3, <3>4, OfKept DEF Filled
        <3>6. Of(<<>>) = {}
            <4>1. Len(<<>>) = 0
                OBVIOUS
            <4> QED BY <4>1 DEF Of
        <3> QED BY <1>4, <3>5, <3>6
    <2> DEFINE e == [k \in 0..0 |-> L]
               s == <<>>
    <2>2. Sections = s
        BY <1>4 DEF Sections
    <2>3. s \in Seq(Sects) /\ Len(s) = 0 /\ DOMAIN s = 1..0
        OBVIOUS
    <2>4. e \in [0..0 -> 0..L] /\ e[0] = L
        BY <1>1
    <2>5. Of(at) = {}
        <3>1. Len(<<>>) = 0
            OBVIOUS
        <3> QED BY <2>1, <3>1 DEF Of
    <2> HIDE DEF s, e, at
    <2>6. CutBy(s, e, 0)
        <3>1. \A i \in 1..0 : FALSE
            OBVIOUS
        <3> QED BY <1>3, <1>4, <2>3, <2>4, <3>1 DEF CutBy, L
    <2>7. CutAs(s, e, 0, at)
        <3>1. \A i \in 1..0 : FALSE
            OBVIOUS
        <3> QED BY <2>3, <2>5, <2>6, <3>1 DEF CutAs
    <2> QED BY <2>2, <2>7 DEF at
<1>5. CASE Filled(AllLines) # <<>> /\ at = <<>>
    <2> DEFINE x == [Preamble(1, L) EXCEPT !.pages = PageNumbers]
               s == One(x)
               e == [k \in 0..1 |-> IF k = 0 THEN 0 ELSE L]
    <2>1. Sections = s
        BY <1>5 DEF Sections, One
    <2>2. x \in Sects /\ x.level = 0 /\ x.pages = PageNumbers
          /\ x.lines = Filled(SubSeq(AllLines, 1, L))
        <3>1. PageNumbers \in SUBSET Nat
            BY WrittenIs DEF PageNumbers
        <3>2. 1 \in 1..(L + 1) /\ L \in 0..L
            BY <1>1
        <3>3. Filled(SubSeq(AllLines, 1, L)) \in Seq(Line)
            BY <3>2, PagesTyped
        <3>4. x = [title |-> "(Preamble)", level |-> 0, lines |-> Filled(SubSeq(AllLines, 1, L)),
                   pages |-> PageNumbers]
            BY DEF Preamble, Section
        <3> HIDE DEF x, L
        <3> QED BY <3>1, <3>3, <3>4 DEF Sects
    <2> HIDE DEF x
    <2>3. s \in Seq(Sects) /\ Len(s) = 1 /\ s[1] = x
        BY <2>2, OneIs
    <2>4. DOMAIN s = 1..1
        BY <2>3, LenProperties
    <2>5. e \in [0..1 -> 0..L] /\ e[0] = 0 /\ e[1] = L
        BY <1>1
    <2>6. Of(at) = {}
        <3>1. Len(<<>>) = 0
            OBVIOUS
        <3> QED BY <1>5, <3>1 DEF Of
    <2>7. \A i \in 1..1 : i = 1 /\ i - 1 = 0
        OBVIOUS
    <2> HIDE DEF s, e, L, at
    <2>8. CutBy(s, e, 1)
        <3>1. e[0] <= e[1] /\ e[0] + 1 = 1
            BY <1>1, <2>5
        <3> QED BY <1>1, <1>3, <2>2, <2>3, <2>4, <2>5, <2>7, <3>1 DEF CutBy, L
    <2>9. CutAs(s, e, 1, at)
        BY <1>5, <2>2, <2>3, <2>5, <2>6, <2>7, <2>8 DEF CutAs
    <2> QED BY <2>1, <2>9 DEF at
<1>6. CASE Filled(AllLines) # <<>> /\ at # <<>>
    <2> DEFINE x == Preamble(1, at[1] - 1)
               h == HeadSections(at)
    <2>1. x.lines = Filled(SubSeq(AllLines, 1, at[1] - 1))
        BY DEF Preamble, Section
    <2>2. h \in Seq(Sects)
        BY <1>2, <1>6, HeadSectionsAre
    <2>3. Sections = (IF x.lines = <<>> THEN <<>> ELSE <<x>>) \o h
        BY <1>6 DEF Sections, HeadSections
    <2> HIDE DEF x, h
    <2>4. CASE x.lines = <<>>
        <3>1. Sections = Cat(<<>>, h)
            BY <2>3, <2>4 DEF Cat
        <3>2. Sections = h
            BY <2>2, <3>1, CatEmpty
        <3>3. CutAs(HeadSections(at), Ends(at), Len(at), at)
            BY <1>2, <1>6, <2>1, <2>4, CutHeads
        <3> QED BY <3>2, <3>3 DEF h
    <2>5. CASE x.lines # <<>>
        <3>1. Sections = Cat(One(x), h)
            BY <2>3, <2>5 DEF Cat, One
        <3>2. \E e, n : CutAs(Cat(One(x), h), e, n, at)
            BY <1>2, <1>6, CutPreamble DEF x, h
        <3> QED BY <3>1, <3>2
    <2> QED BY <2>4, <2>5
<1> QED BY <1>4, <1>5, <1>6

(***************************************************************************)
(* Once the section map is built, it is that of the pages, which stay.     *)
(***************************************************************************)
LEMMA SectionsSame ==
    ASSUME input' = input, v0' = v0
    PROVE  Sections' = Sections /\ Tagged' = Tagged /\ AllLines' = AllLines
<1>1. N' = N /\ PageNumbers' = PageNumbers
    BY DEF N, PageNumbers
<1>2. AllLines' = AllLines /\ Tagged' = Tagged
    BY <1>1 DEF AllLines, Tagged, PageLines, Lines, PageNumbers, N
<1>3. \A i : LineToPage(i)' = LineToPage(i)
    BY <1>1 DEF LineToPage, Offset, PageLines, Lines, PageNumbers, N
<1>4. \A from, to : PagesOf(from, to)' = PagesOf(from, to)
    BY <1>2, <1>3 DEF PagesOf
<1>5. Matched(AllLines)' = Matched(AllLines)
    BY <1>2 DEF Matched, Match, Scores
<1> QED BY <1>1, <1>2, <1>4, <1>5 DEF Sections, Section, Preamble, SectionEnds

SectionsKept == Mapped => sections = Sections
LEMMA SectionsStay == Spec => []SectionsKept
<1>1. Init => SectionsKept
    BY DEF Init, SectionsKept, Mapped
<1>2. ASSUME SectionsKept, [Next]_vars
      PROVE  SectionsKept'
    <2>1. CASE Extract
        BY <2>1 DEF Extract, SectionsKept, Mapped
    <2>2. CASE BuildSectionMap
        <3>1. input' = input /\ v0' = v0 /\ sections' = Sections
            BY <2>2 DEF BuildSectionMap
        <3> QED BY <3>1, SectionsSame DEF SectionsKept
    <2>3. ASSUME phase \notin {"docling", "map"}, UNCHANGED <<input, v0, sections>>
          PROVE  SectionsKept'
        BY <1>2, <2>3, SectionsSame DEF SectionsKept, Mapped
    <2>4. CASE GeneratePageHints
        BY <2>3, <2>4 DEF GeneratePageHints
    <2>5. CASE FenceBlock
        BY <2>3, <2>5 DEF FenceBlock
    <2>6. CASE CodeDone
        BY <2>3, <2>6 DEF CodeDone
    <2>7. CASE GenerateBoundaryHints
        BY <2>3, <2>7 DEF GenerateBoundaryHints
    <2>8. CASE UNCHANGED vars
        <3>1. input' = input /\ v0' = v0 /\ sections' = sections /\ phase' = phase
            BY <2>8 DEF vars
        <3> QED BY <1>2, <3>1, SectionsSame DEF SectionsKept, Mapped
    <2> QED BY <1>2, <2>1, <2>2, <2>4, <2>5, <2>6, <2>7, <2>8 DEF Next
<1> QED BY <1>1, <1>2, PTL DEF Spec

(* The sections hold every line of the document once, in its order, and    *)
(* the pages of a section are those its lines stand on, though the code    *)
(* gets them from offsets: but for the one section of a document without a *)
(* heading (pipeline_viewer.py, _build_section_map).                       *)
THEOREM SectionsAlwaysPartition == Spec => []SectionsPartition
<1>1. ASSUME TextInv, SectionsKept
      PROVE  SectionsPartition
    <2> SUFFICES ASSUME Mapped
                 PROVE  /\ Untagged(Tagged) = Concat([i \in DOMAIN sections |-> sections[i].lines])
                        /\ \A i \in DOMAIN sections :
                               sections[i].pages = OwnPages(sections, i) \/ Len(sections) = 1
        BY DEF SectionsPartition, OwnPages
    <2>1. input \in Inputs /\ (\A p \in DOMAIN v0 : v0[p] \in Seq(Line)) /\ sections = Sections
        BY <1>1 DEF TextInv, SectionsKept
    <2>2. PICK e, n : CutAs(sections, e, n, Matched(AllLines))
        BY <2>1, SectionsCut
    <2>3. CutBy(sections, e, n) /\ n = Len(sections)
          /\ \A i \in 1..n : sections[i].pages = PagesOf(e[i - 1] + 1, e[i]) \/ n = 1
        BY <2>2 DEF CutAs
    <2>4. DOMAIN sections = 1..n
        BY <2>3 DEF CutBy
    <2>5. /\ Untagged(Tagged) = Concat([i \in DOMAIN sections |-> sections[i].lines])
          /\ \A i \in 1..n : OwnPages(sections, i) = PagesOf(e[i - 1] + 1, e[i])
        BY <2>1, <2>3, CutPartitions
    <2> QED BY <2>3, <2>4, <2>5
<1> QED BY <1>1, TextAlwaysTyped, SectionsStay, PTL

(***************************************************************************)
(* Lines, pages and sections.                                              *)
(***************************************************************************)
LEMMA OfEmpty ==
    ASSUME NEW T, NEW s \in Seq(T)
    PROVE  s # <<>> <=> Of(s) # {}
<1>1. Len(s) \in Nat /\ (s = <<>> <=> Len(s) = 0)
    BY EmptySeq
<1>2. Of(s) # {} <=> 1 \in 1..Len(s)
    <2>1. ASSUME NEW i \in 1..Len(s)
          PROVE  1 \in 1..Len(s)
        BY <1>1
    <2> QED BY <2>1 DEF Of
<1> QED BY <1>1, <1>2

LEMMA PageRises ==
    ASSUME input \in Inputs, \A p \in DOMAIN v0 : v0[p] \in Seq(Line),
           NEW i \in 1..Len(AllLines), NEW j \in i..Len(AllLines)
    PROVE  LineToPage(i) <= LineToPage(j)
<1> DEFINE q == LineToPage(i)
           p == LineToPage(j)
           At(m) == Len(Joined(Written, m))
<1>1. N \in Nat /\ Written \in [1..N -> Seq(Line)] /\ Len(AllLines) \in Nat
    BY WrittenIs, AllTaggedIs, LenProperties
<1>2. q \in 1..N /\ At(q - 1) < i
    BY LineToPageIs
<1>3. p \in 1..N /\ j <= At(p)
    <2>1. j \in 1..Len(AllLines)
        BY <1>1
    <2> QED BY <2>1, LineToPageIs
<1> HIDE DEF p, q
<1> SUFFICES ASSUME ~(q <= p)
             PROVE  FALSE
    BY DEF p, q
<1>4. p \in 0..N /\ q - 1 \in p..N /\ q - 1 \in 0..N
    BY <1>1, <1>2, <1>3
<1>5. At(p) <= At(q - 1) /\ At(p) \in Nat /\ At(q - 1) \in Nat
    BY <1>1, <1>4, JoinedGrows, JoinedLens
<1> HIDE DEF At
<1> QED BY <1>1, <1>2, <1>3, <1>5

(* The first line of a page that is not blank.                             *)
FirstOn(k, p) ==
    /\ k \in 1..Len(AllLines) /\ LineToPage(k) = p /\ AllLines[k] # Blank
    /\ AllLines[k] = Filled(Lines(v0, p))[1]
    /\ \A j \in 1..Len(AllLines) : LineToPage(j) = p /\ AllLines[j] # Blank => k <= j

LEMMA PageLine ==
    ASSUME input \in Inputs, \A p \in DOMAIN v0 : v0[p] \in Seq(Line),
           NEW p \in 1..N, NEW i \in 1..Len(Written[p])
    PROVE  LET k == Len(Joined(Written, p - 1)) + i IN
           k \in 1..Len(AllLines) /\ AllLines[k] = Written[p][i] /\ LineToPage(k) = p
<1> DEFINE At(m) == Len(Joined(Written, m))
           k == At(p - 1) + i
<1>1. N \in Nat /\ Written \in [1..N -> Seq(Line)] /\ AllLines = Joined(Written, N)
    BY WrittenIs
<1>2. p - 1 \in 0..(N - 1) /\ p - 1 \in 0..N /\ p \in 0..N /\ (p - 1) + 1 = p /\ N \in p..N
      /\ N \in 0..N
    BY <1>1
<1>3. AllLines[k] = Written[p][i]
    BY <1>1, JoinedInner
<1>4. /\ At(p - 1) \in Nat /\ At(p) \in Nat /\ At(N) \in Nat /\ At(p) <= At(N)
      /\ At(p) = At(p - 1) + Len(Written[p])
    <2>1. At((p - 1) + 1) = At(p - 1) + Len(Written[(p - 1) + 1])
        BY <1>1, <1>2, JoinedLens
    <2> QED BY <1>1, <1>2, <2>1, JoinedLens, JoinedGrows
<1>5. Len(Written[p]) \in Nat
    BY <1>1, LenProperties
<1>6. k \in 1..Len(AllLines) /\ At(p - 1) < k /\ k <= At(p) /\ k \in Nat
    <2> HIDE DEF At
    <2> QED BY <1>1, <1>4, <1>5 DEF At
<1> HIDE DEF k
<1> DEFINE q == LineToPage(k)
<1>7. q \in 1..N /\ At(q - 1) < k /\ k <= At(q)
    BY <1>6, LineToPageIs
<1> HIDE DEF q
<1>8. q = p
    <2>1. CASE q < p
        <3>1. q \in 0..N /\ p - 1 \in q..N
            BY <1>1, <1>7, <2>1
        <3>2. At(q) <= At(p - 1) /\ At(q) \in Nat
            BY <1>1, <3>1, JoinedGrows, JoinedLens
        <3> HIDE DEF At
        <3> QED BY <1>4, <1>6, <1>7, <3>2
    <2>2. CASE p < q
        <3>1. q - 1 \in 0..N /\ q - 1 \in p..N
            BY <1>1, <1>7, <2>2
        <3>2. At(p) <= At(q - 1) /\ At(q - 1) \in Nat
            BY <1>1, <1>2, <3>1, JoinedGrows, JoinedLens
        <3> HIDE DEF At
        <3> QED BY <1>4, <1>6, <1>7, <3>2
    <2>3. q \in Int /\ p \in Int
        BY <1>7
    <2> QED BY <2>1, <2>2, <2>3
<1> QED BY <1>3, <1>6, <1>8 DEF k, q

LEMMA PageFirst ==
    ASSUME input \in Inputs, \A p \in DOMAIN v0 : v0[p] \in Seq(Line),
           NEW p \in 1..N, Filled(Lines(v0, p)) # <<>>
    PROVE  \E k : FirstOn(k, p)
<1> DEFINE w == Written[p]
           B == Line \ {Blank}
           a == Len(Joined(Written, p - 1))
           S == {i \in 1..Len(w) : w[i] \in B}
<1>1. N \in Nat /\ Written \in [1..N -> Seq(Line)] /\ w \in Seq(Line)
      /\ Keep(w, B) = Filled(Lines(v0, p)) /\ AllLines = Joined(Written, N)
    BY WrittenIs DEF Filled
<1>2. Len(w) \in Nat /\ \A i \in 1..Len(w) : w[i] \in Line
    BY <1>1, LenProperties, ElementOfSeq
<1>a. a \in Nat /\ Len(Joined(Written, p)) = a + Len(w)
    <2>1. p - 1 \in 0..(N - 1) /\ p - 1 \in 0..N /\ (p - 1) + 1 = p
        BY <1>1
    <2>2. Len(Joined(Written, (p - 1) + 1)) = Len(Joined(Written, p - 1)) + Len(Written[(p - 1) + 1])
          /\ Len(Joined(Written, p - 1)) \in Nat
        BY <1>1, <2>1, JoinedLens
    <2> QED BY <2>1, <2>2
<1> HIDE DEF w
<1>3. S # {} /\ S \in SUBSET Nat
    <2> SUFFICES ASSUME S = {}
                 PROVE  FALSE
        BY <1>2
    <2>1. \A i \in 1..Len(w) : w[i] \notin B
        OBVIOUS
    <2> QED BY <1>1, <2>1, KeepNone
<1> DEFINE i0 == Least(S)
<1>4. i0 \in S /\ \A j \in S : i0 <= j
    BY <1>3, LeastIs
<1>5. i0 \in 1..Len(w) /\ w[i0] \in B /\ \A j \in 1..(i0 - 1) : w[j] \notin B
    <2>1. i0 \in 1..Len(w) /\ w[i0] \in B
        BY <1>4
    <2>2. ASSUME NEW j \in 1..(i0 - 1), w[j] \in B
          PROVE  FALSE
        <3> HIDE DEF i0, S, B
        <3>1. j \in 1..Len(w) /\ ~(i0 <= j)
            BY <1>2, <2>1
        <3>2. j \in S
            BY <2>2, <3>1 DEF S
        <3> QED BY <1>4, <3>1, <3>2
    <2> QED BY <2>1, <2>2
<1> HIDE DEF i0, B
<1>6. Keep(w, B)[1] = w[i0]
    BY <1>1, <1>5, KeepFirst
<1> HIDE DEF S
<1> DEFINE k == a + i0
<1>7. k \in 1..Len(AllLines) /\ AllLines[k] = w[i0] /\ LineToPage(k) = p
    BY <1>5, PageLine DEF w
<1> HIDE DEF a
<1>8. ASSUME NEW j \in 1..Len(AllLines), LineToPage(j) = p, AllLines[j] # Blank
      PROVE  k <= j
    <2>1. a < j /\ j <= a + Len(w) /\ j \in Nat
        <3>1. Len(AllLines) \in Nat
            BY AllTaggedIs, LenProperties
        <3>2. a < j /\ j <= Len(Joined(Written, p))
            BY <1>8, LineToPageIs DEF a
        <3> QED BY <1>a, <3>1, <3>2
    <2> DEFINE x == j - a
    <2>2. x \in 1..Len(w) /\ a + x = j
        BY <1>2, <1>a, <2>1
    <2> HIDE DEF x
    <2>3. AllLines[j] = w[x]
        BY <2>2, PageLine DEF w, a
    <2>4. x \in S
        BY <1>2, <1>8, <2>2, <2>3 DEF S, B
    <2>5. i0 <= x /\ i0 \in Nat /\ x \in Nat
        BY <1>2, <1>4, <1>5, <2>2, <2>4 DEF i0
    <2> QED BY <1>a, <2>2, <2>5
<1>9. AllLines[k] # Blank
    BY <1>5, <1>7 DEF B
<1>10. AllLines[k] = Filled(Lines(v0, p))[1]
    BY <1>1, <1>6, <1>7
<1> HIDE DEF k
<1>11. FirstOn(k, p)
    BY <1>7, <1>8, <1>9, <1>10 DEF FirstOn
<1> QED BY <1>11

LEMMA EndsRise ==
    ASSUME NEW s, NEW e, NEW n, CutBy(s, e, n), Len(AllLines) \in Nat,
           NEW x \in 0..n, NEW y \in x..n
    PROVE  e[x] <= e[y] /\ e[x] \in Nat /\ e[y] \in Nat
<1> DEFINE S == {d \in Nat : x + d <= n => e[x] <= e[x + d]}
<1>1. n \in Nat /\ (\A k \in 0..n : e[k] \in Nat) /\ \A i \in 1..n : e[i - 1] <= e[i]
    BY DEF CutBy
<1>2. 0 \in S
    <2>1. x + 0 = x /\ e[x] \in Nat
        BY <1>1
    <2> QED BY <2>1
<1>3. ASSUME NEW d \in Nat, d \in S
      PROVE  d + 1 \in S
    <2> SUFFICES ASSUME x + (d + 1) <= n
                 PROVE  e[x] <= e[x + (d + 1)]
        OBVIOUS
    <2> DEFINE q == x + d
    <2>1. q \in 0..n /\ q + 1 \in 1..n /\ (q + 1) - 1 = q /\ x + (d + 1) = q + 1 /\ q <= n
          /\ q + 1 \in 0..n
        BY <1>1
    <2>2. e[x] <= e[q]
        BY <1>3, <2>1
    <2> HIDE DEF q
    <2>3. e[q] <= e[q + 1] /\ e[q] \in Nat /\ e[q + 1] \in Nat /\ e[x] \in Nat
        <3>1. e[(q + 1) - 1] <= e[q + 1]
            BY <1>1, <2>1
        <3> QED BY <1>1, <2>1, <3>1
    <2>4. e[x] <= e[q + 1]
        BY <2>2, <2>3
    <2> QED BY <2>1, <2>4
<1>4. Nat \subseteq S
    <2> HIDE DEF S
    <2> QED BY <1>2, <1>3, Induct
<1>5. y - x \in Nat /\ x + (y - x) = y /\ y <= n /\ y \in 0..n
    BY <1>1
<1>6. y - x \in S
    BY <1>4, <1>5
<1> QED BY <1>1, <1>5, <1>6

LEMMA InSection ==
    ASSUME input \in Inputs, \A p \in DOMAIN v0 : v0[p] \in Seq(Line),
           NEW s, NEW e, NEW n, CutBy(s, e, n),
           NEW k \in 1..Len(AllLines), AllLines[k] # Blank
    PROVE  \E i \in 1..n : k \in (e[i - 1] + 1)..e[i]
<1> DEFINE L == Len(AllLines)
           a == SubSeq(AllLines, 1, e[0])
           S == {i \in 0..n : k <= e[i]}
<1>1. L \in Nat /\ AllLines \in Seq(Line) /\ \A i \in 1..L : AllLines[i] \in Line
    BY AllTaggedIs, LenProperties, ElementOfSeq
<1>2. /\ n \in Nat /\ (\A i \in 0..n : e[i] \in 0..L) /\ e[n] = L
      /\ Filled(a) = <<>>
    BY DEF CutBy
<1>3. ~(k <= e[0])
    <2> SUFFICES ASSUME k <= e[0]
                 PROVE  FALSE
        OBVIOUS
    <2>1. e[0] \in 0..L /\ k \in 1..e[0] /\ e[0] \in Nat /\ k \in Nat
        BY <1>1, <1>2
    <2>2. \A i \in 1..e[0] : AllLines[i] \in Line
        BY <1>1, <2>1
    <2>3. a \in Seq(Line) /\ Len(a) = e[0] /\ a[k] = AllLines[k]
        <3>1. /\ Len(a) = IF 1 <= e[0] THEN e[0] - 1 + 1 ELSE 0
              /\ a \in Seq(Line)
              /\ \A i \in 1..(e[0] - 1 + 1) : a[i] = AllLines[1 + i - 1]
            BY <1>1, <2>1, <2>2, SubSeqProperties
        <3>2. k \in 1..(e[0] - 1 + 1) /\ 1 + k - 1 = k
            BY <2>1
        <3> QED BY <2>1, <3>1, <3>2
    <2> HIDE DEF a
    <2>4. a[k] \in Of(a) /\ a[k] \in Line \ {Blank}
        BY <1>1, <2>1, <2>3 DEF Of
    <2>5. a[k] \in Of(Filled(a))
        BY <2>3, <2>4, OfKept DEF Filled
    <2>6. Of(<<>>) = {}
        <3>1. Len(<<>>) = 0
            OBVIOUS
        <3> QED BY <3>1 DEF Of
    <2> QED BY <1>2, <2>5, <2>6
<1> HIDE DEF a
<1>4. S # {} /\ S \in SUBSET Nat
    <2>1. n \in 0..n /\ k <= e[n]
        BY <1>1, <1>2
    <2> QED BY <1>2, <2>1
<1> DEFINE i == Least(S)
<1>5. i \in S /\ \A j \in S : i <= j
    BY <1>4, LeastIs
<1>6. i \in 0..n /\ k <= e[i]
    BY <1>5
<1> HIDE DEF i
<1>7. i # 0
    BY <1>3, <1>6
<1>8. i \in 1..n /\ i - 1 \in 0..n /\ ~(i <= i - 1)
    BY <1>2, <1>6, <1>7
<1>9. ~(k <= e[i - 1])
    BY <1>5, <1>8
<1>10. e[i - 1] \in Int /\ e[i] \in Int /\ k \in Int
    BY <1>1, <1>2, <1>6, <1>8
<1>11. k \in (e[i - 1] + 1)..e[i]
    BY <1>6, <1>9, <1>10
<1> QED BY <1>8, <1>11

(* Where the lines of a section stand.                                     *)
LEMMA SectionLine ==
    ASSUME input \in Inputs, \A p \in DOMAIN v0 : v0[p] \in Seq(Line),
           NEW s, NEW e, NEW n, CutBy(s, e, n), NEW i \in 1..n, NEW k \in (e[i - 1] + 1)..e[i]
    PROVE  k \in 1..Len(AllLines) /\ (AllLines[k] # Blank => LineToPage(k) \in PagesOf(e[i - 1] + 1, e[i]))
<1>1. Len(AllLines) \in Nat
    BY AllTaggedIs, LenProperties
<1>2. n \in Nat /\ i - 1 \in 0..n /\ i \in 0..n /\ \A j \in 0..n : e[j] \in 0..Len(AllLines)
    BY DEF CutBy
<1>3. e[i - 1] \in 0..Len(AllLines) /\ e[i] \in 0..Len(AllLines)
    BY <1>2
<1>4. k \in 1..Len(AllLines)
    BY <1>1, <1>3
<1> QED BY <1>4 DEF PagesOf

LEMMA SectionPage ==
    ASSUME NEW a, NEW b, NEW p \in PagesOf(a, b)
    PROVE  \E k \in a..b : AllLines[k] # Blank /\ LineToPage(k) = p
BY DEF PagesOf

(* What the boundary agent is told.                                        *)
LEMMA SectionsOnIs ==
    ASSUME sections \in Seq(Sects), NEW p
    PROVE  /\ SectionsOn(p) \in Seq(Sects) /\ Members(SectionsOn(p)) = Of(SectionsOn(p))
           /\ \A s : s \in Of(SectionsOn(p)) <=> s \in Of(sections) /\ p \in s.pages
<1>1. Len(sections) \in Nat /\ DOMAIN sections = 1..Len(sections)
    BY LenProperties
<1>2. Members(sections) = Of(sections)
    BY <1>1 DEF Members, Of
<1> DEFINE K == {s \in Members(sections) : p \in s.pages}
<1>3. SectionsOn(p) = Keep(sections, K)
    BY DEF SectionsOn
<1>4. \A s : s \in K <=> s \in Of(sections) /\ p \in s.pages
    BY <1>2
<1> HIDE DEF K
<1>5. SectionsOn(p) \in Seq(Sects) /\ Of(SectionsOn(p)) = Of(sections) \cap K
    BY <1>3, KeepTyped, OfKept
<1>6. DOMAIN SectionsOn(p) = 1..Len(SectionsOn(p))
    BY <1>5, LenProperties
<1>7. Members(SectionsOn(p)) = Of(SectionsOn(p))
    BY <1>6 DEF Members, Of
<1> QED BY <1>4, <1>5, <1>7

Shared(p) == Keep(SectionsOn(p), Members(SectionsOn(p + 1)))
LEMMA SharedIs ==
    ASSUME sections \in Seq(Sects), NEW p
    PROVE  Shared(p) # <<>>
           <=> \E i \in 1..Len(sections) : p \in sections[i].pages /\ p + 1 \in sections[i].pages
<1>1. /\ SectionsOn(p) \in Seq(Sects) /\ Members(SectionsOn(p + 1)) = Of(SectionsOn(p + 1))
      /\ \A s : s \in Of(SectionsOn(p)) <=> s \in Of(sections) /\ p \in s.pages
      /\ \A s : s \in Of(SectionsOn(p + 1)) <=> s \in Of(sections) /\ p + 1 \in s.pages
    BY SectionsOnIs
<1>2. Shared(p) \in Seq(Sects) /\ Of(Shared(p)) = Of(SectionsOn(p)) \cap Of(SectionsOn(p + 1))
    BY <1>1, KeepTyped, OfKept DEF Shared
<1>3. Shared(p) # <<>> <=> Of(Shared(p)) # {}
    BY <1>2, OfEmpty
<1>4. Of(Shared(p)) # {} <=> \E s \in Of(sections) : p \in s.pages /\ p + 1 \in s.pages
    BY <1>1, <1>2
<1> QED BY <1>3, <1>4 DEF Of

LEMMA HintIs ==
    ASSUME NEW p
    PROVE  /\ Shared(p) # <<>> => \E h \in SectionHint(p) : h[1] = "same"
           /\ Shared(p) = <<>> => \A h \in SectionHint(p) : /\ h[1] = "transition"
                                                           /\ h[3] = SectionsOn(p + 1)[1].title
<1>1. CASE Shared(p) # <<>>
    <2>1. SectionHint(p) = {<<"same", Shared(p)[1].title>>}
        BY <1>1 DEF SectionHint, Shared
    <2> QED BY <1>1, <2>1
<1>2. CASE Shared(p) = <<>>
    <2> SUFFICES ASSUME NEW h \in SectionHint(p)
                 PROVE  h[1] = "transition" /\ h[3] = SectionsOn(p + 1)[1].title
        BY <1>2
    <2> DEFINE x == SectionsOn(p)[Len(SectionsOn(p))].title
               y == SectionsOn(p + 1)[1].title
    <2>1. h \in {<<"transition", x, y>>}
        BY <1>2 DEF SectionHint, Shared
    <2> QED BY <2>1
<1> QED BY <1>1, <1>2

(* If a heading is matched, so is the first line that is the same.         *)
LEMMA FirstHeading ==
    ASSUME input \in Inputs, \A p \in DOMAIN v0 : v0[p] \in Seq(Line),
           NEW h \in Of(Matched(AllLines)), NEW k \in 1..h, AllLines[k] = AllLines[h]
    PROVE  k \in Of(Matched(AllLines))
<1> DEFINE L == Len(AllLines)
<1>1. AllLines \in Seq(Line) /\ L \in Nat
    BY AllTaggedIs, LenProperties
<1> PICK f : MatchedBy(f, AllLines)
    BY <1>1, MatchedIs
<1>2. Matched(AllLines) = f[L].at
    BY DEF MatchedBy
<1>3. HeadsUpto(f, AllLines, L)
    BY <1>1, HeadsAre
<1>4. PICK i \in 1..Len(f[L].at) : h = f[L].at[i]
    BY <1>2 DEF Of
<1>5. h \in 1..L /\ Answers(AllLines[h], f[h - 1].used)
    BY <1>3, <1>4 DEF HeadsUpto
<1>6. h - 1 \in 0..L /\ k - 1 \in 0..(h - 1) /\ k \in 1..L
    BY <1>1, <1>5
<1>7. HeadsUpto(f, AllLines, h - 1)
    BY <1>1, <1>6, HeadsAre
<1>8. f[k - 1].used \subseteq f[h - 1].used
    BY <1>6, <1>7 DEF HeadsUpto
<1>9. Answers(AllLines[k], f[k - 1].used)
    BY <1>5, <1>8 DEF Answers
<1>10. k \in Of(f[L].at)
    BY <1>3, <1>6, <1>9 DEF HeadsUpto
<1> QED BY <1>2, <1>10

(* A section of a heading begins with its line.                            *)
HeadedBy(i, h, to) ==
    /\ h \in 1..Len(AllLines) /\ h <= to /\ to <= Len(AllLines)
    /\ h \in Of(Matched(AllLines)) /\ AllLines[h].is = "heading" /\ AllLines[h] # Blank
    /\ sections[i].lines[1] = AllLines[h]
    /\ sections[i].title = TextOf(AllLines[h])
    /\ sections[i].pages = PagesOf(h, to)
LEMMA HeadLine ==
    ASSUME input \in Inputs, \A p \in DOMAIN v0 : v0[p] \in Seq(Line),
           NEW e, NEW n, CutAs(sections, e, n, Matched(AllLines)),
           NEW i \in 1..n, sections[i].level > 0
    PROVE  HeadedBy(i, e[i - 1] + 1, e[i])
<1> DEFINE at == Matched(AllLines)
           L == Len(AllLines)
           h == e[i - 1] + 1
           to == e[i]
           a == SubSeq(AllLines, h, to)
<1>1. L \in Nat /\ AllLines \in Seq(Line) /\ \A k \in 1..L : AllLines[k] \in Line
    BY AllTaggedIs, LenProperties, ElementOfSeq
<1>2. /\ e[i - 1] < e[i] /\ h \in Of(at) /\ sections[i].title = AllLines[h].text
      /\ sections[i].pages = PagesOf(h, to) \/ at = <<>>
    BY DEF CutAs
<1>3. /\ n \in Nat /\ (\A k \in 0..n : e[k] \in 0..L)
      /\ sections[i].lines = Filled(a)
    BY DEF CutAs, CutBy
<1>4. i - 1 \in 0..n /\ i \in 0..n
    BY <1>3
<1>5. to \in 0..L /\ h \in Nat /\ h <= to /\ h >= 1 /\ h \in 1..L
    <2>1. e[i - 1] \in 0..L /\ e[i] \in 0..L
        BY <1>3, <1>4
    <2> QED BY <1>1, <1>2, <2>1
<1>6. HeadsOf(at)
    BY HeadsOfMatched
<1>7. AllLines[h].is = "heading" /\ at # <<>>
    <2>1. PICK x \in 1..Len(at) : h = at[x]
        BY <1>2 DEF Of
    <2>2. Len(<<>>) = 0 /\ ~(x \in 1..0)
        OBVIOUS
    <2> QED BY <1>6, <2>1, <2>2 DEF HeadsOf
<1>8. AllLines[h] \in Line /\ AllLines[h] # Blank /\ TextOf(AllLines[h]) = AllLines[h].text
    <2>1. AllLines[h] \in Line
        BY <1>1, <1>5
    <2> QED BY <1>7, <2>1, HeadingIs
<1> HIDE DEF h, to, L
<1>9. a \in Seq(Line) /\ Len(a) \in Nat /\ 1 \in 1..Len(a) /\ a[1] = AllLines[h]
    <2>1. \A k \in h..to : AllLines[k] \in Line
        BY <1>1, <1>5
    <2>2. /\ a \in Seq(Line) /\ Len(a) = IF h <= to THEN to - h + 1 ELSE 0
          /\ \A k \in 1..(to - h + 1) : a[k] = AllLines[h + k - 1]
        BY <1>1, <1>5, <2>1, SubSeqProperties
    <2>3. 1 \in 1..(to - h + 1) /\ h + 1 - 1 = h /\ to - h + 1 \in Nat
        BY <1>1, <1>5
    <2>4. Len(a) = to - h + 1
        BY <1>5, <2>2
    <2>5. a[1] = AllLines[h]
        BY <2>2, <2>3
    <2> HIDE DEF a
    <2> QED BY <2>2, <2>3, <2>4, <2>5
<1> HIDE DEF a
<1>10. Filled(a)[1] = AllLines[h]
    <2> DEFINE K == Line \ {Blank}
    <2>1. ASSUME NEW x \in 1..Len(a), x = 1
          PROVE  Keep(a, K)[1] = a[x]
        <3>1. a[x] \in K
            BY <1>8, <1>9, <2>1
        <3>2. \A j \in 1..(x - 1) : a[j] \notin K
            BY <2>1
        <3> HIDE DEF K
        <3> QED BY <1>9, <3>1, <3>2, KeepFirst
    <2>2. Keep(a, K)[1] = a[1]
        BY <1>9, <2>1
    <2> QED BY <1>9, <2>2 DEF Filled
<1>11. to <= L
    BY <1>1, <1>5
<1> HIDE DEF at
<1>12. HeadedBy(i, h, to)
    BY <1>2, <1>3, <1>5, <1>7, <1>8, <1>10, <1>11 DEF HeadedBy, L, at
<1> QED BY <1>12 DEF h, to

(* The pages of a part of the lines are none before that of its first.     *)
LEMMA PagesFrom ==
    ASSUME input \in Inputs, \A p \in DOMAIN v0 : v0[p] \in Seq(Line),
           NEW h \in 1..Len(AllLines), NEW to \in h..Len(AllLines), AllLines[h] # Blank
    PROVE  Least(PagesOf(h, to)) = LineToPage(h) /\ LineToPage(h) \in PagesOf(h, to)
<1>1. Len(AllLines) \in Nat
    BY AllTaggedIs, LenProperties
<1>2. h \in h..to /\ h \in 1..(Len(AllLines) + 1) /\ to \in 0..Len(AllLines)
    BY <1>1
<1>3. PagesOf(h, to) \in SUBSET Nat
    BY <1>2, PagesTyped
<1>4. LineToPage(h) \in PagesOf(h, to)
    BY <1>2 DEF PagesOf
<1>5. ASSUME NEW q \in PagesOf(h, to)
      PROVE  LineToPage(h) <= q
    <2>1. PICK k \in h..to : LineToPage(k) = q
        BY DEF PagesOf
    <2>2. k \in h..Len(AllLines)
        BY <1>1
    <2> QED BY <2>1, <2>2, PageRises
<1>6. Least(PagesOf(h, to)) \in PagesOf(h, to)
      /\ \A q \in PagesOf(h, to) : Least(PagesOf(h, to)) <= q
    BY <1>3, <1>4, LeastIs
<1> DEFINE m == Least(PagesOf(h, to))
           q == LineToPage(h)
<1>7. m \in Nat /\ q \in Nat /\ m <= q /\ q <= m
    BY <1>3, <1>4, <1>5, <1>6
<1> HIDE DEF m, q
<1>8. m = q
    BY <1>7
<1> QED BY <1>4, <1>8 DEF m, q

(* A second page that does not begin a section goes on with one of the     *)
(* page before.                                                            *)
LEMMA Continues ==
    ASSUME input \in Inputs, \A p \in DOMAIN v0 : v0[p] \in Seq(Line),
           NEW e, NEW n, CutAs(sections, e, n, Matched(AllLines)),
           NEW p \in 1..(N - 1), Filled(Lines(v0, p)) # <<>>, Filled(Lines(v0, p + 1)) # <<>>,
           ~Begins(p + 1)
    PROVE  Shared(p) # <<>>
<1> DEFINE L == Len(AllLines)
           q == p + 1
<1>1. N \in Nat /\ L \in Nat
    BY WrittenIs, AllTaggedIs, LenProperties
<1>2. p \in 1..N /\ q \in 1..N /\ p \in PageNumbers /\ q \in PageNumbers /\ p < q /\ p \in Nat
    BY <1>1 DEF PageNumbers
<1>3. PICK a : FirstOn(a, p)
    BY <1>2, PageFirst
<1>4. PICK b : FirstOn(b, q)
    BY <1>2, PageFirst
<1>5. /\ a \in 1..L /\ LineToPage(a) = p /\ AllLines[a] # Blank
      /\ b \in 1..L /\ LineToPage(b) = q /\ AllLines[b] # Blank
      /\ AllLines[b] = Filled(Lines(v0, q))[1]
      /\ \A j \in 1..L : LineToPage(j) = q /\ AllLines[j] # Blank => b <= j
    BY <1>3, <1>4 DEF FirstOn
<1>6. CutBy(sections, e, n) /\ sections \in Seq(Sects) /\ n = Len(sections)
    BY DEF CutAs
<1>7. PICK i \in 1..n : b \in (e[i - 1] + 1)..e[i]
    BY <1>5, <1>6, InSection
<1> DEFINE h == e[i - 1] + 1
           to == e[i]
<1>8. n \in Nat /\ e[i - 1] \in 0..L /\ e[i] \in 0..L
    <2>1. n \in Nat /\ \A k \in 0..n : e[k] \in 0..L
        BY <1>6 DEF CutBy
    <2>2. i - 1 \in 0..n /\ i \in 0..n
        BY <2>1
    <2> QED BY <2>1, <2>2
<1>9. a < b
    <2> SUFFICES ASSUME ~(a < b)
                 PROVE  FALSE
        OBVIOUS
    <2>1. b \in 1..L /\ a \in b..L
        BY <1>1, <1>5
    <2>2. LineToPage(b) <= LineToPage(a)
        BY <2>1, PageRises
    <2> QED BY <1>2, <1>5, <2>2
<1>10. h \in Nat /\ to \in Nat /\ h >= 1 /\ h <= b /\ b <= to /\ to <= L
    BY <1>1, <1>7, <1>8
<1>11. sections[i].pages = PagesOf(h, to) \/ sections[i].pages = PageNumbers
    BY DEF CutAs
<1> HIDE DEF L, q, h, to
<1>12. CASE sections[i].pages = PageNumbers
    <2>1. p \in sections[i].pages /\ q \in sections[i].pages
        BY <1>2, <1>12
    <2> QED BY <1>6, <2>1, SharedIs DEF q
<1>13. CASE sections[i].pages = PagesOf(h, to)
    <2>1. q \in PagesOf(h, to)
        <3>1. b \in h..to
            BY <1>5, <1>10
        <3> QED BY <1>5, <3>1 DEF PagesOf
    <2>2. CASE h <= a
        <3>1. a \in h..to
            BY <1>5, <1>9, <1>10, <2>2 DEF L
        <3>2. p \in PagesOf(h, to)
            BY <1>5, <3>1 DEF PagesOf
        <3> QED BY <1>6, <1>13, <2>1, <3>2, SharedIs DEF q
    <2>3. CASE a < h
        <3>1. sections[i].level > 0
            <4>1. \/ sections[i].level = 0 /\ e[0] = 0 /\ i = 1
                  \/ sections[i].level > 0
                BY DEF CutAs
            <4>2. ~(e[0] = 0 /\ i = 1)
                <5>1. e[0] = 0 /\ i = 1 => h = 1
                    BY DEF h
                <5> QED BY <1>5, <1>10, <2>3, <5>1 DEF L
            <4> QED BY <4>1, <4>2
        <3>2. HeadedBy(i, h, to)
            BY <3>1, HeadLine DEF h, to
        <3>3. /\ h \in 1..L /\ AllLines[h] # Blank /\ sections[i].lines[1] = AllLines[h]
              /\ to \in h..L
            <4>1. h \in 1..L /\ AllLines[h] # Blank /\ sections[i].lines[1] = AllLines[h]
                BY <3>2 DEF HeadedBy, L
            <4>2. h <= to
                BY <1>5, <1>10 DEF L
            <4> QED BY <1>1, <1>10, <4>1, <4>2 DEF L
        <3>4. LineToPage(a) <= LineToPage(h) /\ LineToPage(h) <= LineToPage(b)
              /\ LineToPage(h) \in 1..N
            <4>1. h \in a..L /\ b \in h..L /\ a \in 1..L /\ b \in 1..L
                BY <1>1, <1>5, <1>10, <2>3, <3>3
            <4> QED BY <3>3, <4>1, PageRises, LineToPageIs DEF L
        <3>5. LineToPage(h) \in {p, q}
            BY <1>2, <1>5, <3>4 DEF q
        <3>6. Least(PagesOf(h, to)) = LineToPage(h) /\ LineToPage(h) \in PagesOf(h, to)
            BY <3>3, PagesFrom DEF L
        <3>7. CASE LineToPage(h) = p
            BY <1>6, <1>13, <2>1, <3>6, <3>7, SharedIs DEF q
        <3>8. CASE LineToPage(h) = q
            <4>1. b <= h
                BY <1>5, <3>3, <3>8
            <4>2. h = b
                BY <1>5, <1>10, <4>1 DEF L
            <4>3. Begins(q)
                <5>1. i \in DOMAIN sections
                    BY <1>6 DEF CutBy
                <5>2. q = Least(sections[i].pages)
                    BY <1>13, <3>6, <3>8
                <5>3. sections[i].lines[1] = Filled(Lines(v0, q))[1]
                    BY <1>5, <3>3, <4>2
                <5> QED BY <3>1, <5>1, <5>2, <5>3 DEF Begins
            <4> QED BY <4>3 DEF q
        <3> QED BY <3>5, <3>7, <3>8
    <2>4. a \in Int /\ h \in Int
        BY <1>5, <1>10
    <2> QED BY <2>2, <2>3, <2>4
<1> QED BY <1>11, <1>12, <1>13

(* A second page that begins a section has none of the page before, and    *)
(* its first section is the one that begins there.                         *)
LEMMA BeginsSection ==
    ASSUME input \in Inputs, \A p \in DOMAIN v0 : v0[p] \in Seq(Line),
           NEW e, NEW n, CutAs(sections, e, n, Matched(AllLines)),
           NEW p \in 1..(N - 1), Filled(Lines(v0, p + 1)) # <<>>, Begins(p + 1)
    PROVE  /\ Shared(p) = <<>>
           /\ SectionsOn(p + 1)[1].title = TextOf(Filled(Lines(v0, p + 1))[1])
<1> DEFINE L == Len(AllLines)
           q == p + 1
           at == Matched(AllLines)
<1>1. N \in Nat /\ L \in Nat
    BY WrittenIs, AllTaggedIs, LenProperties
<1>2. q \in 1..N /\ p < q /\ p \in Nat
    BY <1>1
<1>3. PICK b : FirstOn(b, q)
    BY <1>2, PageFirst
<1>4. /\ b \in 1..L /\ LineToPage(b) = q /\ AllLines[b] # Blank
      /\ AllLines[b] = Filled(Lines(v0, q))[1]
      /\ \A j \in 1..L : LineToPage(j) = q /\ AllLines[j] # Blank => b <= j
    BY <1>3 DEF FirstOn
<1>5. /\ CutBy(sections, e, n) /\ sections \in Seq(Sects) /\ n = Len(sections)
      /\ n \in Nat /\ DOMAIN sections = 1..n
    BY DEF CutAs, CutBy
<1>6. PICK i \in 1..n : /\ sections[i].level > 0 /\ q = Least(sections[i].pages)
                        /\ sections[i].lines[1] = Filled(Lines(v0, q))[1]
    BY <1>5 DEF Begins
<1> HIDE DEF q
<1> DEFINE h == e[i - 1] + 1
           to == e[i]
<1>7. HeadedBy(i, h, to)
    BY <1>6, HeadLine
<1>8. /\ h \in 1..L /\ h <= to /\ to <= L /\ h \in Of(at) /\ AllLines[h] # Blank
      /\ sections[i].lines[1] = AllLines[h] /\ sections[i].pages = PagesOf(h, to)
    BY <1>7 DEF HeadedBy
<1>9. to \in h..L
    <2>1. to \in Nat
        <3>1. \A k \in 0..n : e[k] \in 0..L
            BY <1>5 DEF CutBy
        <3>2. i \in 0..n
            BY <1>5
        <3>3. e[i] \in 0..L
            BY <3>1, <3>2
        <3> QED BY <3>3
    <2> QED BY <1>1, <1>8, <2>1
<1>10. LineToPage(h) = q
    BY <1>6, <1>8, <1>9, PagesFrom
<1>11. b <= h /\ AllLines[b] = AllLines[h]
    BY <1>4, <1>6, <1>8, <1>10
<1>12. b \in Of(at)
    <2>1. b \in 1..h
        BY <1>1, <1>4, <1>8, <1>11
    <2> QED BY <1>8, <1>11, <2>1, FirstHeading
<1> HIDE DEF h, to, L, at
<1>13. PICK j \in 1..n : sections[j].level > 0 /\ e[j - 1] + 1 = b
    BY <1>12 DEF CutAs, at
<1>14. /\ AllLines[b] = AllLines[h] /\ sections[j].title = TextOf(AllLines[b])
       /\ sections[j].pages = PagesOf(b, e[j]) /\ b <= e[j] /\ e[j] <= L
    <2>1. HeadedBy(j, b, e[j])
        BY <1>13, HeadLine
    <2> QED BY <1>11, <2>1 DEF HeadedBy, L
<1>15. \A x \in 0..n : e[x] \in 0..L
    BY <1>5 DEF CutBy, L
<1>16. \A x \in 1..n : sections[x].pages = PagesOf(e[x - 1] + 1, e[x])
    <2>1. at # <<>>
        <3>1. Of(<<>>) = {}
            <4>1. Len(<<>>) = 0
                OBVIOUS
            <4> QED BY <4>1 DEF Of
        <3> QED BY <1>12, <3>1
    <2> QED BY <2>1 DEF CutAs, at
(* No section reaches over the boundary.                                   *)
<1>17. ASSUME NEW x \in 1..n, p \in sections[x].pages, q \in sections[x].pages
       PROVE  FALSE
    <2>1. PICK c \in (e[x - 1] + 1)..e[x] : AllLines[c] # Blank /\ LineToPage(c) = p
        BY <1>16, <1>17, SectionPage
    <2>2. PICK d \in (e[x - 1] + 1)..e[x] : AllLines[d] # Blank /\ LineToPage(d) = q
        BY <1>16, <1>17, SectionPage
    <2>3. c \in 1..L /\ d \in 1..L
        BY <1>5, SectionLine DEF L
    <2>4. b <= d
        BY <1>4, <2>2, <2>3 DEF L
    <2>5. c < b
        <3> SUFFICES ASSUME ~(c < b)
                     PROVE  FALSE
            OBVIOUS
        <3>1. b \in 1..L /\ c \in b..L
            BY <1>1, <1>4, <2>3 DEF L
        <3>2. LineToPage(b) <= LineToPage(c)
            BY <3>1, PageRises DEF L
        <3> QED BY <1>2, <1>4, <2>1, <3>2
    <2>6. x - 1 \in 0..n /\ x \in 0..n /\ j - 1 \in 0..n
        BY <1>5
    <2>7. /\ e[x - 1] + 1 <= c /\ d <= e[x]
          /\ e[x - 1] \in Nat /\ e[x] \in Nat /\ e[j - 1] \in Nat /\ b \in Nat /\ c \in Nat /\ d \in Nat
        <3>1. e[x - 1] \in 0..L /\ e[x] \in 0..L /\ e[j - 1] \in 0..L /\ L \in Nat
            BY <1>1, <1>15, <2>6 DEF L
        <3> QED BY SMTT(30), <1>4, <2>3, <3>1 DEF L
    <2>8. CASE x <= j - 1
        <3>1. x \in 0..n /\ j - 1 \in x..n
            BY <2>6, <2>8
        <3>2. e[x] <= e[j - 1]
            BY <1>1, <1>5, <3>1, EndsRise DEF L
        <3> QED BY <1>13, <2>4, <2>7, <3>2
    <2>9. CASE ~(x <= j - 1)
        <3>1. j - 1 \in 0..n /\ x - 1 \in (j - 1)..n
            BY <2>6, <2>9
        <3>2. e[j - 1] <= e[x - 1]
            BY <1>1, <1>5, <3>1, EndsRise DEF L
        <3> QED BY SMTT(30), <1>13, <2>5, <2>7, <3>2
    <2> QED BY <2>8, <2>9
<1>18. Shared(p) = <<>>
    BY <1>5, <1>17, SharedIs DEF q
<1> DEFINE K == {s \in Members(sections) : q \in s.pages}
<1>19. SectionsOn(q) = Keep(sections, K)
    BY DEF SectionsOn
<1>20. \A x \in 1..n : sections[x] \in K <=> q \in sections[x].pages
    BY <1>5 DEF Members
<1>21. sections[j] \in K
    <2>1. b \in b..e[j]
        <3>1. j \in 0..n
            BY <1>5
        <3>2. e[j] \in 0..L
            BY <1>15, <3>1
        <3> QED BY <1>4, <1>14, <3>2 DEF L
    <2>2. q \in PagesOf(b, e[j])
        BY <1>4, <2>1 DEF PagesOf
    <2> QED BY <1>14, <1>20, <2>2
<1>22. ASSUME NEW x \in 1..(j - 1), sections[x] \in K
       PROVE  FALSE
    <2>1. x \in 1..n /\ x \in 0..n /\ j - 1 \in x..n
        BY <1>5
    <2>2. PICK d \in (e[x - 1] + 1)..e[x] : AllLines[d] # Blank /\ LineToPage(d) = q
        BY <1>16, <1>20, <1>22, <2>1, SectionPage
    <2>3. d \in 1..L
        BY <1>5, <2>1, SectionLine DEF L
    <2>4. b <= d
        BY <1>4, <2>2, <2>3 DEF L
    <2>5. e[x] <= e[j - 1] /\ e[x] \in Nat /\ e[j - 1] \in Nat
        BY <1>1, <1>5, <2>1, EndsRise DEF L
    <2> QED BY <1>4, <1>13, <2>2, <2>3, <2>4, <2>5
<1> HIDE DEF K
<1>23. Keep(sections, K)[1] = sections[j]
    BY <1>5, <1>21, <1>22, KeepFirst
<1> QED BY <1>4, <1>14, <1>18, <1>19, <1>23 DEF q

(* Between two pages with text, the boundary agent is told either of one   *)
(* section that goes on, if the second page does not begin with a heading  *)
(* that begins a section, or of a transition to the one that begins there  *)
(* (pipeline_viewer.py, _generate_boundary_hints).                         *)
THEOREM HintsAlwaysMatch == Spec => []HintsMatchSections
<1>1. ASSUME TextInv, SectionsKept
      PROVE  HintsMatchSections
    <2> SUFFICES ASSUME phase = "done", NEW p \in 1..(N - 1),
                        Filled(Lines(v0, p)) # <<>>, Filled(Lines(v0, p + 1)) # <<>>
                 PROVE  IF Begins(p + 1)
                        THEN \A h \in SectionHint(p) :
                                h[1] = "transition" /\ h[3] = TextOf(Filled(Lines(v0, p + 1))[1])
                        ELSE \E h \in SectionHint(p) : h[1] = "same"
        BY DEF HintsMatchSections
    <2>1. input \in Inputs /\ (\A q \in DOMAIN v0 : v0[q] \in Seq(Line)) /\ sections = Sections
        BY <1>1 DEF TextInv, SectionsKept, Mapped
    <2>2. PICK e, n : CutAs(sections, e, n, Matched(AllLines))
        BY <2>1, SectionsCut
    <2>3. CASE Begins(p + 1)
        <3>1. /\ Shared(p) = <<>>
              /\ SectionsOn(p + 1)[1].title = TextOf(Filled(Lines(v0, p + 1))[1])
            BY <2>1, <2>2, <2>3, BeginsSection
        <3>2. \A h \in SectionHint(p) : /\ h[1] = "transition"
                                        /\ h[3] = SectionsOn(p + 1)[1].title
            BY <3>1, HintIs
        <3> QED BY <2>3, <3>1, <3>2
    <2>4. CASE ~Begins(p + 1)
        <3>1. Shared(p) # <<>>
            BY <2>1, <2>2, <2>4, Continues
        <3>2. \E h \in SectionHint(p) : h[1] = "same"
            BY <3>1, HintIs
        <3> QED BY <2>4, <3>2
    <2> QED BY <2>3, <2>4
<1> QED BY <1>1, TextAlwaysTyped, SectionsStay, PTL
=============================================================================
