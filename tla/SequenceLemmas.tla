---------------------------- MODULE SequenceLemmas ----------------------------
(***************************************************************************)
(* What the proofs about sequences keep needing: what the operators on     *)
(* them have as elements and where, and induction in a form the provers    *)
(* can use.                                                                *)
(***************************************************************************)
EXTENDS Naturals, SequencesExt, SequenceTheorems, WellFoundedInduction, TLAPS

-----------------------------------------------------------------------------
(* Induction. *)

Less == { s \in Nat \X Nat : s[1] < s[2] }

\* Induction, stated of a set so that it can be cited.
LEMMA Induct ==
  ASSUME NEW S, 0 \in S, \A n \in Nat : n \in S => n + 1 \in S
  PROVE  Nat \subseteq S
<1>1. IsWellFoundedOn(Less, Nat)
  BY NatLessThanWellFounded DEF Less, OpToRel
<1> SUFFICES ASSUME Nat \ S # {} PROVE FALSE
  OBVIOUS
<1>2. PICK x \in Nat \ S : \A y \in Nat \ S : ~ (<<y, x>> \in Less)
  BY <1>1, WFMin
<1>3. x # 0 /\ x - 1 \in Nat
  OBVIOUS
<1>a. x - 1 < x
  OBVIOUS
<1>4. x - 1 \in S
  BY <1>2, <1>3, <1>a DEF Less
<1>5. (x - 1) + 1 \in S
  BY <1>3, <1>4
<1> QED BY <1>5

LEMMA Elements ==
  ASSUME NEW S, NEW s \in Seq(S)
  PROVE  /\ Len(s) \in Nat /\ DOMAIN s = 1..Len(s)
         /\ \A i \in 1..Len(s) : s[i] \in S
         /\ ToSet(s) \subseteq S
         /\ \A x : x \in ToSet(s) <=> \E i \in 1..Len(s) : s[i] = x
         /\ \A x : Contains(s, x) <=> x \in ToSet(s)
BY LenProperties, ElementOfSeq DEF ToSet, Contains

LEMMA Single ==
  ASSUME NEW S, NEW x \in S
  PROVE  <<x>> \in Seq(S) /\ Len(<<x>>) = 1 /\ <<x>>[1] = x /\ ToSet(<<x>>) = {x}
<1>1. ASSUME NEW one, one \in Seq(S), Len(one) = 1, one[1] = x
      PROVE  ToSet(one) = {x}
  <2>1. \A y : y \in ToSet(one) <=> \E i \in 1..1 : one[i] = y
    BY <1>1, Elements
  <2>2. 1 \in 1..1 /\ \A i \in 1..1 : i = 1
    OBVIOUS
  <2> QED BY <1>1, <2>1, <2>2
<1>2. <<x>> \in Seq(S) /\ Len(<<x>>) = 1 /\ <<x>>[1] = x
  OBVIOUS
<1> QED BY <1>1, <1>2

LEMMA Pair ==
  ASSUME NEW S, NEW x \in S, NEW y \in S
  PROVE  <<x, y>> \in Seq(S)
OBVIOUS

LEMMA AppendElements ==
  ASSUME NEW S, NEW s \in Seq(S), NEW x \in S
  PROVE  /\ Append(s, x) \in Seq(S)
         /\ ToSet(Append(s, x)) = ToSet(s) \cup {x}
         /\ Len(Append(s, x)) = Len(s) + 1
         /\ \A i \in 1..Len(s) : Append(s, x)[i] = s[i]
         /\ Append(s, x)[Len(s) + 1] = x
<1>1. /\ Append(s, x) \in Seq(S)
      /\ Len(Append(s, x)) = Len(s) + 1
      /\ \A i \in 1..Len(s) : Append(s, x)[i] = s[i]
      /\ Append(s, x)[Len(s) + 1] = x
  BY AppendProperties
<1>2. Len(s) \in Nat
  BY Elements
<1>3. \A y : y \in ToSet(Append(s, x)) <=> y \in ToSet(s) \/ y = x
  <2> TAKE y
  <2>0. DOMAIN Append(s, x) = 1..Len(s) + 1
    BY <1>1, LenProperties
  <2>1. y \in ToSet(Append(s, x)) <=> \E i \in 1..Len(s) + 1 : Append(s, x)[i] = y
    BY <2>0 DEF ToSet
  <2>2. y \in ToSet(s) <=> \E i \in 1..Len(s) : s[i] = y
    BY Elements
  <2>3. \A i \in 1..Len(s) + 1 : i \in 1..Len(s) \/ i = Len(s) + 1
    BY <1>2
  <2>4. Len(s) + 1 \in 1..Len(s) + 1 /\ \A i \in 1..Len(s) : i \in 1..Len(s) + 1
    BY <1>2
  <2> QED BY <1>1, <2>1, <2>2, <2>3, <2>4
<1> QED BY <1>1, <1>3

LEMMA ConcatElements ==
  ASSUME NEW S, NEW s \in Seq(S), NEW t \in Seq(S)
  PROVE  /\ s \o t \in Seq(S)
         /\ ToSet(s \o t) = ToSet(s) \cup ToSet(t)
         /\ Len(s \o t) = Len(s) + Len(t)
         /\ \A i \in 1..Len(s) : (s \o t)[i] = s[i]
         /\ \A i \in 1..Len(t) : (s \o t)[Len(s) + i] = t[i]
<1>0. Len(s) \in Nat /\ Len(t) \in Nat
  BY Elements
<1>1. /\ s \o t \in Seq(S)
      /\ Len(s \o t) = Len(s) + Len(t)
      /\ \A i \in 1..Len(s) + Len(t) :
           (s \o t)[i] = IF i <= Len(s) THEN s[i] ELSE t[i - Len(s)]
  BY ConcatProperties
<1>2. \A i \in 1..Len(s) : i \in 1..Len(s) + Len(t) /\ i <= Len(s)
  BY <1>0
<1>3. \A i \in 1..Len(t) : /\ Len(s) + i \in 1..Len(s) + Len(t)
                           /\ ~ (Len(s) + i <= Len(s)) /\ (Len(s) + i) - Len(s) = i
  BY <1>0
<1>4. \A i \in 1..Len(s) + Len(t) :
        i \in 1..Len(s) \/ (i - Len(s) \in 1..Len(t) /\ Len(s) + (i - Len(s)) = i)
  BY <1>0
<1>5. \A i \in 1..Len(s) : (s \o t)[i] = s[i]
  BY <1>1, <1>2
<1>6. \A i \in 1..Len(t) : (s \o t)[Len(s) + i] = t[i]
  BY <1>1, <1>3
<1>7. \A y : y \in ToSet(s \o t) <=> y \in ToSet(s) \/ y \in ToSet(t)
  <2> TAKE y
  <2>0. DOMAIN (s \o t) = 1..Len(s) + Len(t)
    BY <1>1, LenProperties
  <2>1. y \in ToSet(s \o t) <=> \E i \in 1..Len(s) + Len(t) : (s \o t)[i] = y
    BY <2>0 DEF ToSet
  <2>2. y \in ToSet(s) <=> \E i \in 1..Len(s) : s[i] = y
    BY Elements
  <2>3. y \in ToSet(t) <=> \E i \in 1..Len(t) : t[i] = y
    BY Elements
  <2>4. ASSUME NEW i \in 1..Len(s) + Len(t), (s \o t)[i] = y
        PROVE  y \in ToSet(s) \/ y \in ToSet(t)
    <3>1. CASE i \in 1..Len(s)
      BY <1>5, <2>2, <2>4, <3>1
    <3>2. CASE i - Len(s) \in 1..Len(t) /\ Len(s) + (i - Len(s)) = i
      BY <1>6, <2>3, <2>4, <3>2
    <3> QED BY <1>4, <3>1, <3>2
  <2>5. y \in ToSet(s) => y \in ToSet(s \o t)
    BY <1>2, <1>5, <2>1, <2>2
  <2>6. y \in ToSet(t) => y \in ToSet(s \o t)
    BY <1>3, <1>6, <2>1, <2>3
  <2> QED BY <2>1, <2>4, <2>5, <2>6
<1> QED BY <1>1, <1>5, <1>6, <1>7

\* Concatenation under a name, so that the provers do not look into it.
Cat(s, t) == s \o t

LEMMA CatAssociates ==
  ASSUME NEW S, NEW s \in Seq(S), NEW t \in Seq(S), NEW u \in Seq(S)
  PROVE  Cat(Cat(s, t), u) = Cat(s, Cat(t, u))
<1> DEFINE st == s \o t
           tu == t \o u
           l == st \o u
           r == s \o tu
<1>1. /\ st \in Seq(S) /\ Len(st) = Len(s) + Len(t)
      /\ \A i \in 1..Len(s) : st[i] = s[i]
      /\ \A i \in 1..Len(t) : st[Len(s) + i] = t[i]
  BY ConcatElements
<1>2. /\ tu \in Seq(S) /\ Len(tu) = Len(t) + Len(u)
      /\ \A i \in 1..Len(t) : tu[i] = t[i]
      /\ \A i \in 1..Len(u) : tu[Len(t) + i] = u[i]
  BY ConcatElements
<1> HIDE DEF st, tu
<1>3. /\ l \in Seq(S) /\ Len(l) = Len(st) + Len(u)
      /\ \A i \in 1..Len(st) : l[i] = st[i]
      /\ \A i \in 1..Len(u) : l[Len(st) + i] = u[i]
  <2>1. st \in Seq(S)
    BY <1>1
  <2> QED BY <2>1, ConcatElements
<1>4. /\ r \in Seq(S) /\ Len(r) = Len(s) + Len(tu)
      /\ \A i \in 1..Len(s) : r[i] = s[i]
      /\ \A i \in 1..Len(tu) : r[Len(s) + i] = tu[i]
  <2>1. tu \in Seq(S)
    BY <1>2
  <2> QED BY <2>1, ConcatElements
<1>5. Len(s) \in Nat /\ Len(t) \in Nat /\ Len(u) \in Nat
  BY Elements
<1> HIDE DEF l, r
<1>6. Len(l) = Len(s) + Len(t) + Len(u) /\ Len(r) = Len(l)
  BY <1>1, <1>2, <1>3, <1>4, <1>5
<1>7. ASSUME NEW i \in 1..Len(l) PROVE l[i] = r[i]
  <2>1. CASE i \in 1..Len(s)
    <3>1. i \in 1..Len(st)
      BY <1>1, <1>5, <2>1
    <3> QED BY <1>1, <1>3, <1>4, <2>1, <3>1
  <2>2. CASE i > Len(s) /\ i <= Len(s) + Len(t)
    <3> DEFINE k == i - Len(s)
    <3>1. i \in 1..Len(st) /\ k \in 1..Len(t) /\ k \in 1..Len(tu) /\ i = Len(s) + k
      BY <1>1, <1>2, <1>5, <2>2
    <3> HIDE DEF k
    <3>2. l[i] = t[k]
      BY <1>1, <1>3, <3>1
    <3>3. r[i] = t[k]
      BY <1>2, <1>4, <3>1
    <3> QED BY <3>2, <3>3
  <2>3. CASE i > Len(s) + Len(t)
    <3> DEFINE k == i - (Len(s) + Len(t))
    <3>1. /\ k \in 1..Len(u) /\ Len(t) + k \in 1..Len(tu)
          /\ i = Len(st) + k /\ i = Len(s) + (Len(t) + k)
      BY <1>1, <1>2, <1>5, <1>6, <2>3
    <3> HIDE DEF k
    <3>2. l[i] = u[k]
      BY <1>3, <3>1
    <3>3. r[i] = u[k]
      BY <1>2, <1>4, <3>1
    <3> QED BY <3>2, <3>3
  <2> QED BY <1>5, <1>6, <2>1, <2>2, <2>3
<1>8. l = r
  BY <1>3, <1>4, <1>6, <1>7, SeqEqual
<1> QED BY <1>8 DEF l, r, st, tu, Cat

\* Two lists that are split at the same place are equal part by part.
LEMMA ConcatCancels ==
  ASSUME NEW S, NEW s \in Seq(S), NEW t \in Seq(S), NEW u \in Seq(S), NEW v \in Seq(S),
         s \o u = t \o v, Len(s) = Len(t)
  PROVE  s = t /\ u = v
<1> DEFINE l == s \o u
<1>1. /\ Len(l) = Len(s) + Len(u)
      /\ \A i \in 1..Len(s) : l[i] = s[i]
      /\ \A i \in 1..Len(u) : l[Len(s) + i] = u[i]
  <2>1. s \in Seq(S) /\ u \in Seq(S)
    OBVIOUS
  <2> QED BY ONLY <2>1, ConcatElements DEF l
<1>2. /\ Len(l) = Len(t) + Len(v)
      /\ \A i \in 1..Len(t) : l[i] = t[i]
      /\ \A i \in 1..Len(v) : l[Len(t) + i] = v[i]
  <2> DEFINE r == t \o v
  <2>1. /\ Len(r) = Len(t) + Len(v)
        /\ \A i \in 1..Len(t) : r[i] = t[i]
        /\ \A i \in 1..Len(v) : r[Len(t) + i] = v[i]
    BY ConcatElements
  <2>2. l = r
    OBVIOUS
  <2> HIDE DEF l, r
  <2> QED BY <2>1, <2>2
<1>3. Len(s) \in Nat /\ Len(t) \in Nat /\ Len(u) \in Nat /\ Len(v) \in Nat
  BY Elements
<1> HIDE DEF l
<1>4. Len(u) = Len(v)
  BY <1>1, <1>2, <1>3
<1>5. \A i \in 1..Len(s) : s[i] = t[i]
  BY <1>1, <1>2
<1>6. \A i \in 1..Len(u) : u[i] = v[i]
  BY <1>1, <1>2, <1>4
<1> QED BY <1>3, <1>4, <1>5, <1>6, SeqEqual

LEMMA PrefixCancels ==
  ASSUME NEW S, NEW s \in Seq(S), NEW u \in Seq(S), NEW v \in Seq(S), s \o u = s \o v
  PROVE  u = v
BY ConcatCancels

LEMMA PrependElements ==
  ASSUME NEW S, NEW x \in S, NEW s \in Seq(S)
  PROVE  /\ <<x>> \o s \in Seq(S)
         /\ Len(<<x>> \o s) = Len(s) + 1 /\ (<<x>> \o s)[1] = x
         /\ \A i \in 1..Len(s) : (<<x>> \o s)[i + 1] = s[i]
         /\ ToSet(<<x>> \o s) = {x} \cup ToSet(s)
<1>1. ASSUME NEW one \in Seq(S), Len(one) = 1, one[1] = x
      PROVE  /\ one \o s \in Seq(S)
             /\ Len(one \o s) = Len(s) + 1 /\ (one \o s)[1] = x
             /\ \A i \in 1..Len(s) : (one \o s)[i + 1] = s[i]
             /\ ToSet(one \o s) = {x} \cup ToSet(s)
  <2>1. Len(s) \in Nat
    BY Elements
  <2>2. /\ one \o s \in Seq(S)
        /\ ToSet(one \o s) = ToSet(one) \cup ToSet(s)
        /\ Len(one \o s) = Len(one) + Len(s)
        /\ \A i \in 1..Len(one) : (one \o s)[i] = one[i]
        /\ \A i \in 1..Len(s) : (one \o s)[Len(one) + i] = s[i]
    BY ConcatElements
  <2>3. 1 \in 1..1 /\ \A i \in 1..1 : i = 1
    OBVIOUS
  <2>4. ToSet(one) = {x}
    <3>1. \A y : y \in ToSet(one) <=> \E i \in 1..1 : one[i] = y
      BY <1>1, Elements
    <3> QED BY <1>1, <2>3, <3>1
  <2>5. 1 + Len(s) = Len(s) + 1 /\ \A i \in 1..Len(s) : 1 + i = i + 1
    BY <2>1
  <2>6. (one \o s)[1] = x
    BY <1>1, <2>2, <2>3
  <2>7. ASSUME NEW i \in 1..Len(s) PROVE (one \o s)[i + 1] = s[i]
    BY <1>1, <2>2, <2>5
  <2> QED BY <1>1, <2>2, <2>4, <2>5, <2>6, <2>7
<1>2. <<x>> \in Seq(S) /\ Len(<<x>>) = 1 /\ <<x>>[1] = x
  OBVIOUS
<1> QED BY <1>1, <1>2

LEMMA HeadAndTail ==
  ASSUME NEW S, NEW s \in Seq(S), s # <<>>
  PROVE  /\ Head(s) \in S /\ Tail(s) \in Seq(S)
         /\ ToSet(s) = {Head(s)} \cup ToSet(Tail(s))
<1>1. /\ Head(s) \in S /\ Tail(s) \in Seq(S) /\ Len(Tail(s)) = Len(s) - 1
      /\ \A i \in 1..Len(s) - 1 : Tail(s)[i] = s[i + 1]
  BY HeadTailProperties
<1>2. Len(s) \in Nat \ {0} /\ Head(s) = s[1]
  BY EmptySeq
<1>3. \A y : y \in ToSet(s) <=> y = Head(s) \/ y \in ToSet(Tail(s))
  <2> TAKE y
  <2>1. y \in ToSet(s) <=> \E i \in 1..Len(s) : s[i] = y
    BY Elements
  <2>0. DOMAIN Tail(s) = 1..Len(s) - 1
    BY <1>1, LenProperties
  <2>2. y \in ToSet(Tail(s)) <=> \E i \in 1..Len(s) - 1 : Tail(s)[i] = y
    BY <2>0 DEF ToSet
  <2>3. \A i \in 1..Len(s) : i = 1 \/ (i - 1 \in 1..Len(s) - 1 /\ (i - 1) + 1 = i)
    BY <1>2
  <2>4. 1 \in 1..Len(s) /\ \A i \in 1..Len(s) - 1 : i + 1 \in 1..Len(s)
    BY <1>2
  <2>5. ASSUME NEW i \in 1..Len(s), s[i] = y PROVE y = Head(s) \/ y \in ToSet(Tail(s))
    <3>1. CASE i = 1
      BY <1>2, <2>5, <3>1
    <3>2. CASE i - 1 \in 1..Len(s) - 1 /\ (i - 1) + 1 = i
      BY <1>1, <2>2, <2>5, <3>2
    <3> QED BY <2>3, <3>1, <3>2
  <2>6. y = Head(s) \/ y \in ToSet(Tail(s)) => y \in ToSet(s)
    BY <1>1, <1>2, <2>1, <2>2, <2>4
  <2> QED BY <2>1, <2>5, <2>6
<1> QED BY <1>1, <1>3

LEMMA FrontElements ==
  ASSUME NEW S, NEW s \in Seq(S), s # <<>>
  PROVE  /\ Len(s) \in Nat \ {0}
         /\ Front(s) \in Seq(S) /\ Len(Front(s)) = Len(s) - 1
         /\ \A i \in 1..Len(s) - 1 : Front(s)[i] = s[i]
         /\ Last(s) = s[Len(s)]
<1>1. Len(s) \in Nat \ {0}
  BY EmptySeq
<1>2. \A i \in 1..Len(s) - 1 : s[i] \in S
  BY <1>1, ElementOfSeq
<1>3. /\ SubSeq(s, 1, Len(s) - 1) \in Seq(S)
      /\ Len(SubSeq(s, 1, Len(s) - 1)) =
           IF 1 <= Len(s) - 1 THEN (Len(s) - 1) - 1 + 1 ELSE 0
      /\ \A i \in 1..(Len(s) - 1) - 1 + 1 : SubSeq(s, 1, Len(s) - 1)[i] = s[1 + i - 1]
  BY <1>1, <1>2, SubSeqProperties
<1>4. Len(SubSeq(s, 1, Len(s) - 1)) = Len(s) - 1
  <2> SUFFICES ASSUME NEW n, n = Len(SubSeq(s, 1, Len(s) - 1)) PROVE n = Len(s) - 1
    OBVIOUS
  <2>1. n = IF 1 <= Len(s) - 1 THEN (Len(s) - 1) - 1 + 1 ELSE 0
    BY <1>3, Zenon
  <2> QED BY <1>1, <2>1
<1>5. \A i \in 1..Len(s) - 1 : SubSeq(s, 1, Len(s) - 1)[i] = s[i]
  BY <1>1, <1>3
<1> QED BY <1>1, <1>3, <1>4, <1>5 DEF Front, Last
-----------------------------------------------------------------------------
(* Recursion. *)

\* A loop of n rounds over values of X, and f, the values it takes.
Rounds(n, X, base, step) == n \in Nat /\ base \in X /\ step \in [1..n -> [X -> X]]

Loops(f, n, X, base, step) ==
  f \in [0..n -> X] /\ f[0] = base /\ \A i \in 1..n : f[i] = step[i][f[i - 1]]

\* A function that is defined from one number to the next exists.
LEMMA LoopExists ==
  ASSUME NEW n, NEW X, NEW base, NEW step, Rounds(n, X, base, step)
  PROVE  \E f : Loops(f, n, X, base, step)
<1> SUFFICES \E f \in [0..n -> X] : f[0] = base /\ \A i \in 1..n : f[i] = step[i][f[i - 1]]
  BY DEF Loops
<1> USE DEF Rounds
<1> DEFINE Upto(f, m) == f[0] = base /\ \A i \in 1..m : f[i] = step[i][f[i - 1]]
           Defined == {m \in Nat : m <= n => \E f \in [0..m -> X] : Upto(f, m)}
<1>1. 0 \in Defined
  <2>1. [i \in 0..0 |-> base] \in [0..0 -> X] /\ Upto([i \in 0..0 |-> base], 0)
    OBVIOUS
  <2> QED BY <2>1
<1>2. ASSUME NEW m \in Nat, m \in Defined PROVE m + 1 \in Defined
  <2> SUFFICES ASSUME m + 1 <= n PROVE \E g \in [0..m + 1 -> X] : Upto(g, m + 1)
    OBVIOUS
  <2>1. PICK f \in [0..m -> X] : Upto(f, m)
    BY <1>2
  <2> DEFINE last == step[m + 1][f[m]]
             g == [i \in 0..m + 1 |-> IF i = m + 1 THEN last ELSE f[i]]
  <2>2. last \in X
    BY m + 1 \in 1..n, m \in 0..m
  <2>3. \A i \in 0..m + 1 : i # m + 1 => i \in 0..m
    OBVIOUS
  <2>4. g \in [0..m + 1 -> X]
    <3> HIDE DEF last
    <3> QED BY <2>2, <2>3
  <2>5. (\A i \in 0..m : g[i] = f[i]) /\ g[m + 1] = last
    <3> HIDE DEF last
    <3> QED OBVIOUS
  <2> HIDE DEF g
  <2>6. ASSUME NEW i \in 1..m + 1 PROVE g[i] = step[i][g[i - 1]]
    <3>1. CASE i = m + 1
      <4>1. i - 1 = m /\ g[m] = f[m]
        BY <2>5, <3>1
      <4> QED BY <2>5, <3>1, <4>1
    <3>2. CASE i \in 1..m
      <4>1. i \in 0..m /\ i - 1 \in 0..m
        BY <3>2
      <4> QED BY <2>1, <2>5, <3>2, <4>1
    <3> QED BY <3>1, <3>2
  <2>7. g[0] = base
    BY <2>1, <2>5, 0 \in 0..m
  <2> HIDE DEF last
  <2> QED BY <2>4, <2>6, <2>7
<1> HIDE DEF Defined
<1>3. n \in Defined
  BY <1>1, <1>2, Induct
<1> USE DEF Defined
<1> QED BY <1>3

\* F turns a function into one that is right one step further: its value at t depends on
\* values at smaller ranks only.
Contracts(F, T, X, rank) ==
  /\ F \in [[T -> X] -> [T -> X]]
  /\ rank \in [T -> Nat]
  /\ \A g, h \in [T -> X], t \in T :
       (\A u \in T : rank[u] < rank[t] => g[u] = h[u]) => F[g][t] = F[h][t]

\* A function that is defined by recursion on smaller arguments exists.
LEMMA RecursionExists ==
  ASSUME NEW T, NEW X, NEW x \in X, NEW F, NEW rank, Contracts(F, T, X, rank)
  PROVE  \E f \in [T -> X] : F[f] = f
<1> DEFINE Right(g, n) == \A t \in T : rank[t] < n => F[g][t] = g[t]
           Exists == {n \in Nat : \E g \in [T -> X] : Right(g, n)}
           Agree == {n \in Nat : \A g, h \in [T -> X] :
                       Right(g, n) /\ Right(h, n) => \A t \in T : rank[t] < n => g[t] = h[t]}
           Upto(n) == CHOOSE g : g \in [T -> X] /\ Right(g, n)
           f == [t \in T |-> Upto(rank[t] + 1)[t]]
<1>1. /\ \A g \in [T -> X] : F[g] \in [T -> X]
      /\ \A t \in T : rank[t] \in Nat
      /\ \A g, h \in [T -> X], t \in T :
           (\A u \in T : rank[u] < rank[t] => g[u] = h[u]) => F[g][t] = F[h][t]
  BY DEF Contracts
<1>2. Nat \subseteq Exists
  <2>1. 0 \in Exists
    <3>1. [t \in T |-> x] \in [T -> X] /\ Right([t \in T |-> x], 0)
      BY <1>1
    <3> QED BY <3>1
  <2>2. ASSUME NEW n \in Nat, n \in Exists PROVE n + 1 \in Exists
    <3>1. PICK g \in [T -> X] : Right(g, n)
      BY <2>2
    <3>2. F[g] \in [T -> X]
      BY <1>1
    <3>3. ASSUME NEW t \in T, rank[t] < n + 1 PROVE F[F[g]][t] = F[g][t]
      <4>1. \A u \in T : rank[u] < rank[t] => F[g][u] = g[u]
        BY <1>1, <3>1, <3>3
      <4> QED BY <1>1, <3>2, <4>1
    <3>4. Right(F[g], n + 1)
      BY <3>3
    <3> QED BY <3>2, <3>4
  <2> HIDE DEF Exists
  <2> QED BY <2>1, <2>2, Induct
<1>3. Nat \subseteq Agree
  <2>1. 0 \in Agree
    BY <1>1
  <2>2. ASSUME NEW n \in Nat, n \in Agree PROVE n + 1 \in Agree
    <3> SUFFICES ASSUME NEW g \in [T -> X], NEW h \in [T -> X], Right(g, n + 1), Right(h, n + 1),
                        NEW t \in T, rank[t] < n + 1
                 PROVE  g[t] = h[t]
      OBVIOUS
    <3>1. Right(g, n) /\ Right(h, n)
      BY <1>1
    <3>2. \A u \in T : rank[u] < n => g[u] = h[u]
      BY <2>2, <3>1
    <3>3. \A u \in T : rank[u] < rank[t] => g[u] = h[u]
      BY <1>1, <3>2
    <3>4. F[g][t] = F[h][t]
      BY <1>1, <3>3
    <3> QED BY <3>4
  <2> HIDE DEF Agree
  <2> QED BY <2>1, <2>2, Induct
<1>4. \A n \in Nat : Upto(n) \in [T -> X] /\ Right(Upto(n), n)
  <2> TAKE n \in Nat
  <2>1. \E g : g \in [T -> X] /\ Right(g, n)
    BY <1>2
  <2> HIDE DEF Right
  <2> QED BY <2>1, Zenon
<1> HIDE DEF Upto
<1>5. f \in [T -> X] /\ \A t \in T : f[t] = Upto(rank[t] + 1)[t]
  BY <1>1, <1>4
<1> HIDE DEF f
<1>6. ASSUME NEW t \in T PROVE F[f][t] = f[t]
  <2> DEFINE g == Upto(rank[t] + 1)
  <2>1. g \in [T -> X] /\ Right(g, rank[t] + 1)
    BY <1>1, <1>4
  <2>2. ASSUME NEW u \in T, rank[u] < rank[t] PROVE f[u] = g[u]
    <3> DEFINE h == Upto(rank[u] + 1)
    <3>1. h \in [T -> X] /\ Right(h, rank[u] + 1)
      BY <1>1, <1>4
    <3> HIDE DEF g, h
    <3>2. Right(g, rank[u] + 1)
      BY <1>1, <2>1, <2>2
    <3>3. rank[u] + 1 \in Nat /\ rank[u] < rank[u] + 1
      BY <1>1
    <3>4. rank[u] + 1 \in Agree
      BY <1>3, <3>3
    <3>5. h[u] = g[u]
      <4> HIDE DEF Right
      <4> QED BY <2>1, <3>1, <3>2, <3>3, <3>4
    <3> QED BY <1>5, <3>5 DEF h
  <2>3. rank[t] < rank[t] + 1
    BY <1>1
  <2>4. F[g][t] = g[t]
    BY <2>1, <2>3
  <2> HIDE DEF g
  <2>5. F[f][t] = F[g][t]
    BY <1>1, <1>5, <2>1, <2>2
  <2> QED BY <1>5, <2>4, <2>5 DEF g
<1>7. F[f] \in [T -> X]
  BY <1>1, <1>5
<1> QED BY <1>5, <1>6, <1>7

-----------------------------------------------------------------------------
(* Flattening. *)

\* Where the parts of a flattened sequence end: the i-th at at[i].
Laid(flat, seqs, n, at) ==
  /\ at[0] = 0 /\ at[n] = Len(flat)
  /\ \A i \in 1..n : /\ at[i] = at[i - 1] + Len(seqs[i])
                     /\ \A j \in 1..Len(seqs[i]) : flat[at[i - 1] + j] = seqs[i][j]
  /\ \A i, k \in 0..n : i <= k => at[i] <= at[k]
  /\ \A p \in 1..Len(flat) :
       \E i \in 1..n : \E j \in 1..Len(seqs[i]) : p = at[i - 1] + j

LEMMA WithinLength ==
  ASSUME NEW a \in Nat, NEW l \in Nat, NEW m \in Nat, a + l <= m, NEW j \in 1..l
  PROVE  a + j \in 1..m /\ a < a + j
OBVIOUS

LEMMA LaidFurther ==
  ASSUME NEW S, NEW seqs \in Seq(Seq(S)), NEW n \in Nat, n + 1 \in 1..Len(seqs),
         NEW flat \in Seq(S), NEW at \in [0..n -> Nat], Laid(flat, seqs, n, at)
  PROVE  \E new \in [0..n + 1 -> Nat] : Laid(flat \o seqs[n + 1], seqs, n + 1, new)
<1> DEFINE last == seqs[n + 1]
           both == flat \o last
           new == [i \in 0..n + 1 |-> IF i = n + 1 THEN at[n] + Len(last) ELSE at[i]]
<1>1. last \in Seq(S) /\ Len(last) \in Nat /\ Len(flat) \in Nat
  BY Elements
<1>2. /\ Len(both) = Len(flat) + Len(last)
      /\ \A i \in 1..Len(flat) : both[i] = flat[i]
      /\ \A i \in 1..Len(last) : both[Len(flat) + i] = last[i]
  BY <1>1, ConcatElements
<1>3. \A i \in 1..n : seqs[i] \in Seq(S) /\ Len(seqs[i]) \in Nat
  BY Elements
<1>4. /\ \A i \in 0..n : at[i] \in Nat
      /\ at[0] = 0 /\ at[n] = Len(flat)
      /\ \A i \in 1..n : /\ at[i] = at[i - 1] + Len(seqs[i])
                         /\ \A j \in 1..Len(seqs[i]) : flat[at[i - 1] + j] = seqs[i][j]
      /\ \A i, k \in 0..n : i <= k => at[i] <= at[k]
      /\ \A p \in 1..Len(flat) :
           \E i \in 1..n : \E j \in 1..Len(seqs[i]) : p = at[i - 1] + j
  BY DEF Laid
<1> HIDE DEF both
<1>5. \A i \in 0..n : new[i] = at[i]
  BY <1>1
<1>6. new[n + 1] = Len(flat) + Len(last)
  BY <1>4
<1>7. new \in [0..n + 1 -> Nat]
  <2>1. \A i \in 0..n + 1 : i # n + 1 => i \in 0..n
    OBVIOUS
  <2>2. n \in 0..n
    OBVIOUS
  <2> QED BY <1>1, <1>4, <2>1, <2>2
<1> HIDE DEF last, new
<1>8. /\ \A i \in 0..n + 1 : i \in 0..n \/ i = n + 1
      /\ \A i \in 1..n + 1 : i \in 1..n \/ i = n + 1
      /\ \A i \in 1..n : i \in 0..n /\ i - 1 \in 0..n /\ i \in 1..n + 1
      /\ 0 \in 0..n /\ n \in 0..n /\ (n + 1) - 1 = n /\ n + 1 \in 1..n + 1
      /\ \A i \in 0..n : i <= n /\ ~ (n + 1 <= i)
  OBVIOUS
<1>9. new[0] = 0 /\ new[n + 1] = Len(both)
  BY <1>2, <1>4, <1>5, <1>6, <1>8
<1>10. ASSUME NEW i \in 1..n + 1
       PROVE  /\ new[i] = new[i - 1] + Len(seqs[i])
              /\ \A j \in 1..Len(seqs[i]) : both[new[i - 1] + j] = seqs[i][j]
  <2>1. CASE i \in 1..n
    <3>1. new[i] = at[i] /\ new[i - 1] = at[i - 1] /\ at[i] = at[i - 1] + Len(seqs[i])
      BY <1>4, <1>5, <1>8, <2>1
    <3>2. at[i - 1] \in Nat /\ Len(seqs[i]) \in Nat /\ at[i - 1] + Len(seqs[i]) <= Len(flat)
      BY <1>3, <1>4, <1>8, <2>1
    <3>3. ASSUME NEW j \in 1..Len(seqs[i]) PROVE both[at[i - 1] + j] = seqs[i][j]
      <4>1. at[i - 1] + j \in 1..Len(flat)
        BY <1>1, <3>2, WithinLength
      <4>2. both[at[i - 1] + j] = flat[at[i - 1] + j]
        BY <1>2, <4>1
      <4> QED BY <1>4, <2>1, <4>2
    <3> QED BY <3>1, <3>3
  <2>2. CASE i = n + 1
    <3>1. new[i - 1] = Len(flat) /\ seqs[i] = last
      BY <1>4, <1>5, <1>8, <2>2 DEF last
    <3> QED BY <1>2, <1>6, <2>2, <3>1
  <2> QED BY <1>8, <2>1, <2>2
<1>11. ASSUME NEW i \in 0..n + 1, NEW k \in 0..n + 1, i <= k
       PROVE  new[i] <= new[k]
  <2>1. CASE i \in 0..n /\ k \in 0..n
    BY <1>4, <1>5, <1>11, <2>1
  <2>2. CASE i \in 0..n /\ k = n + 1
    <3>1. at[i] <= at[n] /\ at[i] \in Nat
      BY <1>4, <1>8, <2>2
    <3>2. new[i] = at[i] /\ at[n] = Len(flat)
      BY <1>4, <1>5, <2>2
    <3> QED BY <1>1, <1>6, <2>2, <3>1, <3>2
  <2>3. CASE i = n + 1 /\ k = n + 1
    BY <1>1, <1>6, <2>3
  <2> QED BY <1>8, <1>11, <2>1, <2>2, <2>3
<1>12. ASSUME NEW p \in 1..Len(both)
       PROVE  \E i \in 1..n + 1 : \E j \in 1..Len(seqs[i]) : p = new[i - 1] + j
  <2>1. CASE p \in 1..Len(flat)
    <3>1. PICK i \in 1..n : \E j \in 1..Len(seqs[i]) : p = at[i - 1] + j
      BY <1>4, <2>1
    <3>2. new[i - 1] = at[i - 1] /\ i \in 1..n + 1
      BY <1>5, <1>8
    <3> QED BY <3>1, <3>2
  <2>2. CASE p - Len(flat) \in 1..Len(last) /\ p = Len(flat) + (p - Len(flat))
    <3>1. new[(n + 1) - 1] = Len(flat) /\ seqs[n + 1] = last
      BY <1>4, <1>5, <1>8 DEF last
    <3> QED BY <1>8, <2>2, <3>1
  <2>3. \/ p \in 1..Len(flat)
        \/ p - Len(flat) \in 1..Len(last) /\ p = Len(flat) + (p - Len(flat))
    BY <1>1, <1>2
  <2> QED BY <2>1, <2>2, <2>3
<1>13. Laid(both, seqs, n + 1, new)
  BY <1>9, <1>10, <1>11, <1>12 DEF Laid
<1> QED BY <1>7, <1>13 DEF both, last

LEMMA FlattenLaid ==
  ASSUME NEW S, NEW seqs \in Seq(Seq(S))
  PROVE  /\ FlattenSeq(seqs) \in Seq(S)
         /\ \E at \in [0..Len(seqs) -> Nat] : Laid(FlattenSeq(seqs), seqs, Len(seqs), at)
<1> DEFINE N == Len(seqs)
           Step(f, i) == IF i = 1 THEN seqs[i] ELSE f[i - 1] \o seqs[i]
           Steps(f, n) == f = [i \in 1..n |-> Step(f, i)]
           Defined == {n \in Nat : \E f : Steps(f, n)}
           F == CHOOSE f : Steps(f, N)
           First(n) == IF n = 0 THEN <<>> ELSE F[n]
           Good(n) == /\ First(n) \in Seq(S)
                      /\ \E at \in [0..n -> Nat] : Laid(First(n), seqs, n, at)
           Right == {n \in Nat : n <= N => Good(n)}
<1>0. N \in Nat
  BY Elements
<1>1. Nat \subseteq Defined
  <2>1. 0 \in Defined
    <3>1. Steps([i \in 1..0 |-> <<>>], 0)
      OBVIOUS
    <3> QED BY <3>1
  <2>2. ASSUME NEW n \in Nat, n \in Defined PROVE n + 1 \in Defined
    <3>1. PICK f : Steps(f, n)
      BY <2>2
    <3> DEFINE g == [i \in 1..n + 1 |-> IF i <= n THEN f[i] ELSE Step(f, i)]
    <3>a. \A i \in 1..n : f[i] = Step(f, i)
      <4> HIDE DEF Step
      <4> QED BY <3>1
    <3>b. \A i \in 1..n : g[i] = f[i]
      <4> HIDE DEF Step
      <4> QED OBVIOUS
    <3>c. \A i \in 1..n + 1 : i # 1 => i - 1 \in 1..n
      OBVIOUS
    <3>2. \A i \in 1..n + 1 : g[i] = Step(g, i)
      <4>1. ASSUME NEW i \in 1..n PROVE g[i] = Step(g, i)
        <5>1. g[i] = Step(f, i) /\ (i # 1 => g[i - 1] = f[i - 1])
          <6>1. i \in 1..n + 1
            OBVIOUS
          <6> HIDE DEF g, Step
          <6> QED BY <3>a, <3>b, <3>c, <6>1
        <5> HIDE DEF g
        <5> QED BY <5>1
      <4>2. g[n + 1] = Step(g, n + 1)
        <5>1. g[n + 1] = Step(f, n + 1)
          <6> HIDE DEF Step
          <6> QED OBVIOUS
        <5>2. n + 1 # 1 => g[(n + 1) - 1] = f[(n + 1) - 1]
          <6> HIDE DEF g, Step
          <6> QED BY <3>b
        <5> HIDE DEF g
        <5> QED BY <5>1, <5>2
      <4>3. \A i \in 1..n + 1 : i \in 1..n \/ i = n + 1
        OBVIOUS
      <4> HIDE DEF g, Step
      <4> QED BY <4>1, <4>2, <4>3
    <3>3. g = [i \in 1..n + 1 |-> g[i]]
      OBVIOUS
    <3> HIDE DEF g, Step
    <3>4. [i \in 1..n + 1 |-> g[i]] = [i \in 1..n + 1 |-> Step(g, i)]
      BY <3>2
    <3>5. Steps(g, n + 1)
      BY <3>3, <3>4
    <3> QED BY <3>5
  <2> HIDE DEF Defined
  <2> QED BY <2>1, <2>2, Induct
<1>2. Steps(F, N)
  <2>1. \E f : Steps(f, N)
    BY <1>0, <1>1
  <2> HIDE DEF Steps
  <2> QED BY <2>1, Zenon
<1>3. FlattenSeq(seqs) = First(N)
  <2>1. CASE N = 0
    <3>1. seqs = <<>>
      BY <2>1, EmptySeq
    <3> QED BY <2>1, <3>1 DEF FlattenSeq
  <2>2. CASE N # 0
    BY <2>2 DEF FlattenSeq
  <2> QED BY <2>1, <2>2
<1>4. \A i \in 1..N : F[i] = Step(F, i)
  <2> HIDE DEF F, Step
  <2> QED BY <1>2
<1>5. Nat \subseteq Right
  <2>1. 0 \in Right
    <3>1. <<>> \in Seq(S) /\ Len(<<>>) = 0
      BY EmptySeq
    <3>2. Laid(<<>>, seqs, 0, [i \in 0..0 |-> 0])
      BY <3>1 DEF Laid
    <3> HIDE DEF F
    <3> QED BY <3>1, <3>2
  <2>2. ASSUME NEW n \in Nat, n \in Right PROVE n + 1 \in Right
    <3> SUFFICES ASSUME n + 1 <= N PROVE Good(n + 1)
      <4> HIDE DEF Good
      <4> QED OBVIOUS
    <3> HIDE DEF F
    <3>1. n + 1 \in 1..N /\ seqs[n + 1] \in Seq(S) /\ n <= N
      BY <1>0, Elements
    <3>2. /\ First(n) \in Seq(S)
          /\ \E at \in [0..n -> Nat] : Laid(First(n), seqs, n, at)
      <4> HIDE DEF First
      <4> QED BY <2>2, <3>1
    <3>3. First(n + 1) = First(n) \o seqs[n + 1]
      <4>1. CASE n = 0
        <5>1. F[1] = seqs[1]
          BY <1>4, <3>1, <4>1
        <5>2. <<>> \o seqs[1] = seqs[1]
          BY <3>1, <4>1, ConcatEmptySeq
        <5> QED BY <4>1, <5>1, <5>2
      <4>2. CASE n # 0
        <5>1. F[n + 1] = Step(F, n + 1)
          <6> HIDE DEF Step
          <6> QED BY <1>4, <3>1
        <5>2. (n + 1) - 1 = n /\ n + 1 # 0 /\ n + 1 # 1
          BY <4>2
        <5>3. F[n + 1] = F[(n + 1) - 1] \o seqs[n + 1]
          BY <5>1, <5>2
        <5> QED BY <4>2, <5>2, <5>3
      <4> QED BY <4>1, <4>2
    <3> HIDE DEF First
    <3>4. First(n) \o seqs[n + 1] \in Seq(S)
      BY <3>1, <3>2, ConcatElements
    <3>5. PICK at \in [0..n -> Nat] : Laid(First(n), seqs, n, at)
      BY <3>2
    <3>6. \E at2 \in [0..n + 1 -> Nat] : Laid(First(n) \o seqs[n + 1], seqs, n + 1, at2)
      BY <3>1, <3>2, <3>5, LaidFurther
    <3> QED BY <3>3, <3>4, <3>6
  <2> HIDE DEF Right
  <2> QED BY <2>1, <2>2, Induct
<1> HIDE DEF F, First
<1> QED BY <1>0, <1>3, <1>5
=============================================================================
