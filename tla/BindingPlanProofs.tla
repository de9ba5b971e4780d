--------------------------- MODULE BindingPlanProofs ---------------------------
(***************************************************************************)
(* Machine-checked proofs about BindingPlan, for any events, handlers,     *)
(* inventories, selected bindings, boards and one edit of any of them.     *)
(***************************************************************************)
EXTENDS BindingPlan, FiniteSetTheorems, SequenceLemmas

-----------------------------------------------------------------------------
(* Lists of checks. *)

LEMMA FirstFailureIsNone ==
  ASSUME NEW n \in Nat, NEW checks, DOMAIN checks = 1..n,
         \A i \in 1..n : checks[i].fails => checks[i].error # "none"
  PROVE  FirstFailure(checks) = "none" <=> \A i \in 1..n : ~checks[i].fails
<1> DEFINE failing == {i \in DOMAIN checks : checks[i].fails}
           first == CHOOSE i \in failing : \A j \in failing : i <= j
<1>1. CASE failing = {}
  BY <1>1 DEF FirstFailure
<1>2. CASE failing # {}
  <2>1. IsWellFoundedOn(Less, Nat)
    BY NatLessThanWellFounded DEF Less, OpToRel
  <2>2. failing \subseteq Nat
    OBVIOUS
  <2>3. PICK x \in failing : \A y \in failing : ~ (<<y, x>> \in Less)
    BY <1>2, <2>1, <2>2, WFMin
  <2>4. \A y \in failing : x <= y
    <3> HIDE DEF failing
    <3>1. ASSUME NEW y \in failing PROVE x <= y
      <4>1. x \in Nat /\ y \in Nat /\ ~ (y < x)
        BY <2>2, <2>3 DEF Less
      <4> QED BY <4>1
    <3> QED BY <3>1
  <2>5. first \in failing
    BY <2>4
  <2>6. FirstFailure(checks) = checks[first].error
    BY <1>2 DEF FirstFailure
  <2> HIDE DEF first
  <2> QED BY <1>2, <2>5, <2>6
<1> QED BY <1>1, <1>2

\* The same, of the lists that are written out.
LEMMA FirstOfOne ==
  ASSUME NEW a,
         "none" \notin {a.error}
  PROVE  FirstFailure(<<a>>) = "none" <=>
           ~a.fails
<1> SUFFICES ASSUME NEW t, t = <<a>>
             PROVE  FirstFailure(t) = "none" <=>
                      ~a.fails
  OBVIOUS
<1>1. DOMAIN t = 1..1
  OBVIOUS
<1>2. t[1] = a
  OBVIOUS
<1>3. /\ 1 \in 1..1
      /\ \A i \in 1..1 : i = 1
  OBVIOUS
<1>4. \A i \in 1..1 : t[i].error # "none"
  BY <1>2, <1>3
<1>5. FirstFailure(t) = "none" <=> \A i \in 1..1 : ~t[i].fails
  BY <1>1, <1>4, FirstFailureIsNone
<1> QED BY <1>2, <1>3, <1>5

LEMMA FirstOfTwo ==
  ASSUME NEW a, NEW b,
         a.fails => a.error # "none", b.fails => b.error # "none"
  PROVE  FirstFailure(<<a, b>>) = "none" <=>
           ~a.fails /\ ~b.fails
<1> SUFFICES ASSUME NEW t, t = <<a, b>>
             PROVE  FirstFailure(t) = "none" <=>
                      ~a.fails /\ ~b.fails
  OBVIOUS
<1>1. DOMAIN t = 1..2
  OBVIOUS
<1>2. t[1] = a /\ t[2] = b
  OBVIOUS
<1>3. /\ 1 \in 1..2 /\ 2 \in 1..2
      /\ \A i \in 1..2 : i = 1 \/ i = 2
  OBVIOUS
<1>4. \A i \in 1..2 : t[i].fails => t[i].error # "none"
  BY <1>2, <1>3
<1>5. FirstFailure(t) = "none" <=> \A i \in 1..2 : ~t[i].fails
  BY <1>1, <1>4, FirstFailureIsNone
<1> QED BY <1>2, <1>3, <1>5

LEMMA FirstOfFour ==
  ASSUME NEW a, NEW b, NEW c, NEW d,
         "none" \notin {a.error, b.error, c.error, d.error}
  PROVE  FirstFailure(<<a, b, c, d>>) = "none" <=>
           ~a.fails /\ ~b.fails /\ ~c.fails /\ ~d.fails
<1> SUFFICES ASSUME NEW t, t = <<a, b, c, d>>
             PROVE  FirstFailure(t) = "none" <=>
                      ~a.fails /\ ~b.fails /\ ~c.fails /\ ~d.fails
  OBVIOUS
<1>1. DOMAIN t = 1..4
  OBVIOUS
<1>2. t[1] = a /\ t[2] = b /\ t[3] = c /\ t[4] = d
  OBVIOUS
<1>3. /\ 1 \in 1..4 /\ 2 \in 1..4 /\ 3 \in 1..4 /\ 4 \in 1..4
      /\ \A i \in 1..4 : i = 1 \/ i = 2 \/ i = 3 \/ i = 4
  OBVIOUS
<1>4. \A i \in 1..4 : t[i].error # "none"
  BY <1>2, <1>3
<1>5. FirstFailure(t) = "none" <=> \A i \in 1..4 : ~t[i].fails
  BY <1>1, <1>4, FirstFailureIsNone
<1> QED BY <1>2, <1>3, <1>5

LEMMA FirstOfSeven ==
  ASSUME NEW a, NEW b, NEW c, NEW d,
         NEW e, NEW f, NEW g,
         "none" \notin {a.error, b.error, c.error, d.error, e.error, f.error, g.error}
  PROVE  FirstFailure(<<a, b, c, d, e, f, g>>) = "none" <=>
           ~a.fails /\ ~b.fails /\ ~c.fails /\ ~d.fails /\ ~e.fails /\ ~f.fails /\ ~g.fails
<1> SUFFICES ASSUME NEW t, t = <<a, b, c, d, e, f, g>>
             PROVE  FirstFailure(t) = "none" <=>
                      ~a.fails /\ ~b.fails /\ ~c.fails /\ ~d.fails /\ ~e.fails /\ ~f.fails /\ ~g.fails
  OBVIOUS
<1>1. DOMAIN t = 1..7
  OBVIOUS
<1>2. t[1] = a /\ t[2] = b /\ t[3] = c /\ t[4] = d /\ t[5] = e /\ t[6] = f /\ t[7] = g
  OBVIOUS
<1>3. /\ 1 \in 1..7 /\ 2 \in 1..7 /\ 3 \in 1..7 /\ 4 \in 1..7 /\ 5 \in 1..7 /\ 6 \in 1..7 /\ 7 \in 1..7
      /\ \A i \in 1..7 : i = 1 \/ i = 2 \/ i = 3 \/ i = 4 \/ i = 5 \/ i = 6 \/ i = 7
  OBVIOUS
<1>4. \A i \in 1..7 : t[i].error # "none"
  BY <1>2, <1>3
<1>5. FirstFailure(t) = "none" <=> \A i \in 1..7 : ~t[i].fails
  BY <1>1, <1>4, FirstFailureIsNone
<1> QED BY <1>2, <1>3, <1>5

-----------------------------------------------------------------------------
(* The rows of the demand summary. *)

Rows == [key : Event, handler : {"raw", "event"}, context : {"isr", "main_loop"},
         delivery : {"direct", "elide", "stream"}]

\* What the steps before the strict compilation and the edits leave of the application.
Declared == declared \in Seq(Event) /\ handlers \in [Event -> Choice]

LEMMA RowIsRow ==
  ASSUME Declared, NEW e \in Event, NEW visible
  PROVE  Row(e, visible) \in Rows /\ Row(e, visible).key = e
BY DEF Row, Rows

\* r lists exactly the rows of events with a handler among the first n declared ones.
RowsUpto(r, n, visible) ==
  /\ r \in Seq(Rows)
  /\ \A x : x \in ToSet(r) <=>
       \E k \in 1..n : Present(declared[k], visible) /\ x = Row(declared[k], visible)
  /\ IsInjective(declared) => IsInjective(Keys(r))

LEMMA RowAdded ==
  ASSUME Declared, NEW visible, NEW n \in Nat, n + 1 \in 1..Len(declared),
         NEW r, RowsUpto(r, n, visible), Present(declared[n + 1], visible)
  PROVE  RowsUpto(Append(r, Row(declared[n + 1], visible)), n + 1, visible)
<1> DEFINE row == Row(declared[n + 1], visible)
           s == Append(r, row)
<1>1. /\ declared[n + 1] \in Event /\ Len(declared) \in Nat /\ DOMAIN declared = 1..Len(declared)
      /\ \A k \in 1..n : k \in 1..Len(declared) /\ declared[k] \in Event /\ k # n + 1
  BY Elements DEF Declared
<1>2. r \in Seq(Rows) /\ Len(r) \in Nat /\ row \in Rows /\ row.key = declared[n + 1]
  BY <1>1, RowIsRow, Elements DEF RowsUpto
<1> HIDE DEF row
<1>3. /\ s \in Seq(Rows) /\ ToSet(s) = ToSet(r) \cup {row} /\ Len(s) = Len(r) + 1
      /\ \A i \in 1..Len(r) : s[i] = r[i]
      /\ s[Len(r) + 1] = row
  BY <1>2, AppendElements
<1> HIDE DEF s
<1>4. \A x : x \in ToSet(s) <=>
         \E k \in 1..n + 1 : Present(declared[k], visible) /\ x = Row(declared[k], visible)
  <2>1. \A k \in 1..n + 1 : k \in 1..n \/ k = n + 1
    OBVIOUS
  <2>2. n + 1 \in 1..n + 1 /\ \A k \in 1..n : k \in 1..n + 1
    OBVIOUS
  <2> QED BY <1>3, <2>1, <2>2 DEF row, RowsUpto
<1>5. ASSUME IsInjective(declared) PROVE IsInjective(Keys(s))
  <2>1. DOMAIN Keys(s) = 1..Len(r) + 1 /\ \A i \in 1..Len(r) + 1 : Keys(s)[i] = s[i].key
    BY <1>2, <1>3, Elements DEF Keys
  <2>2. DOMAIN Keys(r) = 1..Len(r) /\ \A i \in 1..Len(r) : Keys(r)[i] = r[i].key
    BY <1>2, Elements DEF Keys
  <2>3. \A i, j \in 1..Len(r) : r[i].key = r[j].key => i = j
    BY <1>5, <2>2 DEF RowsUpto, IsInjective
  <2>4. ASSUME NEW i \in 1..Len(r) PROVE s[i].key # row.key
    <3>1. r[i] \in ToSet(r)
      BY <1>2, Elements
    <3>2. PICK k \in 1..n : r[i] = Row(declared[k], visible)
      BY <3>1 DEF RowsUpto
    <3>3. r[i].key = declared[k]
      BY <1>1, <3>2, RowIsRow
    <3>4. declared[k] # declared[n + 1]
      BY <1>1, <1>5 DEF IsInjective
    <3> QED BY <1>2, <1>3, <3>3, <3>4
  <2>5. \A i \in 1..Len(r) + 1 : i \in 1..Len(r) \/ i = Len(r) + 1
    BY <1>2
  <2>6. \A i, j \in 1..Len(r) + 1 : s[i].key = s[j].key => i = j
    BY <1>3, <2>3, <2>4, <2>5
  <2> QED BY <2>1, <2>6 DEF IsInjective
<1> QED BY <1>3, <1>4, <1>5 DEF RowsUpto, s, row

LEMMA PresentRowsElements ==
  ASSUME Declared, NEW visible
  PROVE  RowsUpto(PresentRows(visible), Len(declared), visible)
<1> DEFINE n == Len(declared)
           Step(f, i) == IF i = 0 THEN <<>>
                         ELSE IF Present(declared[i], visible)
                              THEN Append(f[i - 1], Row(declared[i], visible))
                              ELSE f[i - 1]
           Defines(f) == f = [i \in 0..n |-> Step(f, i)]
           F == CHOOSE f : Defines(f)
           Right == {i \in Nat : i <= n => RowsUpto(F[i], i, visible)}
<1>1. /\ n \in Nat /\ \A i \in 1..n : declared[i] \in Event /\ Row(declared[i], visible) \in Rows
  BY RowIsRow, Elements DEF Declared
<1>2. \E f : Defines(f)
  <2> DEFINE step == [i \in 1..n |-> [r \in Seq(Rows) |->
                        IF Present(declared[i], visible)
                        THEN Append(r, Row(declared[i], visible)) ELSE r]]
  <2>1. step \in [1..n -> [Seq(Rows) -> Seq(Rows)]]
    BY <1>1, AppendElements
  <2>2. <<>> \in Seq(Rows)
    BY EmptySeq
  <2>3. PICK f : Loops(f, n, Seq(Rows), <<>>, step)
    <3>1. Rounds(n, Seq(Rows), <<>>, step)
      <4> HIDE DEF step, n
      <4> QED BY <1>1, <2>1, <2>2 DEF Rounds
    <3> HIDE DEF step, n
    <3> QED BY ONLY <3>1, LoopExists, Zenon
  <2>4. ASSUME NEW i \in 0..n PROVE f[i] = Step(f, i)
    <3>1. CASE i = 0
      BY <2>3, <3>1 DEF Loops
    <3>2. CASE i \in 1..n
      <4>1. i - 1 \in 0..n /\ i # 0
        BY <3>2
      <4>2. f[i - 1] \in Seq(Rows) /\ f[i] = step[i][f[i - 1]]
        BY <2>3, <3>2, <4>1 DEF Loops
      <4> QED BY <3>2, <4>1, <4>2
    <3> QED BY <1>1, <3>1, <3>2
  <2> HIDE DEF Step, n, step
  <2>5. f = [i \in 0..n |-> f[i]]
    BY <2>3 DEF Loops
  <2>6. [i \in 0..n |-> f[i]] = [i \in 0..n |-> Step(f, i)]
    BY <2>4
  <2> QED BY <2>5, <2>6
<1>3. Defines(F)
  <2> HIDE DEF Defines
  <2> QED BY <1>2, Zenon
<1>4. PresentRows(visible) = F[n]
  BY DEF PresentRows
<1>5. \A i \in 0..n : F[i] = Step(F, i)
  <2> HIDE DEF F, Step
  <2> QED BY <1>3
<1> HIDE DEF F
<1>6. 0 \in Right
  <2>1. F[0] = <<>>
    BY <1>1, <1>5
  <2>2. RowsUpto(<<>>, 0, visible)
    BY EmptySeq DEF RowsUpto, ToSet, Keys, IsInjective
  <2> QED BY <2>1, <2>2
<1>7. ASSUME NEW i \in Nat, i \in Right PROVE i + 1 \in Right
  <2> SUFFICES ASSUME i + 1 <= n PROVE RowsUpto(F[i + 1], i + 1, visible)
    OBVIOUS
  <2>1. RowsUpto(F[i], i, visible) /\ i + 1 \in 1..n /\ i + 1 \in 0..n /\ (i + 1) - 1 = i /\ i + 1 # 0
    BY <1>1, <1>7
  <2>2. F[i + 1] = IF Present(declared[i + 1], visible)
                   THEN Append(F[i], Row(declared[i + 1], visible)) ELSE F[i]
    BY <1>5, <2>1
  <2>3. CASE Present(declared[i + 1], visible)
    BY <2>1, <2>2, <2>3, RowAdded
  <2>4. CASE ~Present(declared[i + 1], visible)
    <3>1. \A k \in 1..i + 1 : k \in 1..i \/ k = i + 1
      OBVIOUS
    <3>2. \A k \in 1..i : k \in 1..i + 1
      OBVIOUS
    <3> QED BY <2>1, <2>2, <2>4, <3>1, <3>2 DEF RowsUpto
  <2> QED BY <2>3, <2>4
<1> HIDE DEF Right
<1>8. n \in Right
  BY <1>1, <1>6, <1>7, Induct
<1> USE DEF Right
<1> QED BY <1>1, <1>4, <1>8

-----------------------------------------------------------------------------
(* The exchange sort. *)

Distinct(r, n) == \A i, j \in 1..n : r[i].key = r[j].key => i = j

\* s has the rows of r, each as it is there, in some order.
Rearranged(r, s, n) ==
  /\ s \in [1..n -> Rows]
  /\ \A x : (\E i \in 1..n : s[i] = x) <=> (\E i \in 1..n : r[i] = x)
  /\ Distinct(r, n) => Distinct(s, n)

LEMMA ListIsSeq ==
  ASSUME NEW n \in Nat, NEW S, NEW r \in [1..n -> S]
  PROVE  r \in Seq(S) /\ Len(r) = n
<1>1. r \in Seq(S)
  BY SeqDef
<1>2. Len(r) \in Nat /\ DOMAIN r = 1..Len(r) /\ DOMAIN r = 1..n
  BY <1>1, Elements
<1> QED BY <1>1, <1>2

LEMMA ExchangeRearranges ==
  ASSUME NEW n \in Nat, NEW r \in [1..n -> Rows], NEW i \in 1..n, NEW j \in 1..n, i # j
  PROVE  LET s == ExchangeRows(r, i, j)
         IN  /\ Rearranged(r, s, n)
             /\ s[i] = r[j] /\ s[j] = r[i]
             /\ \A k \in 1..n : k # i /\ k # j => s[k] = r[k]
<1> DEFINE s == ExchangeRows(r, i, j)
<1>1. /\ s \in [1..n -> Rows] /\ s[i] = r[j] /\ s[j] = r[i]
      /\ \A k \in 1..n : k # i /\ k # j => s[k] = r[k]
  BY DEF ExchangeRows, Exchanged
<1> HIDE DEF s
<1>2. ASSUME NEW x PROVE (\E k \in 1..n : s[k] = x) <=> (\E k \in 1..n : r[k] = x)
  BY <1>1
<1>3. Distinct(r, n) => Distinct(s, n)
  BY <1>1 DEF Distinct
<1> QED BY <1>1, <1>2, <1>3 DEF Rearranged, s

\* The inner loop has come to j.
LeastUpto(r, s, i, j, n) ==
  /\ Rearranged(r, s, n)
  /\ \A k \in 1..n : k < i => s[k] = r[k]
  /\ \A k \in i..j : s[i].key <= s[k].key
  /\ \A k \in i..n : \E l \in i..n : s[k] = r[l]

LEMMA KeysAreNumbers ==
  ASSUME NEW n \in Nat, NEW r \in [1..n -> Rows], NEW i \in 1..n
  PROVE  r[i] \in Rows /\ r[i].key \in Event /\ r[i].key \in Nat
BY BindingPlanAssumption DEF Rows

LEMMA LeastStep ==
  ASSUME NEW n \in Nat, NEW r \in [1..n -> Rows], NEW i \in 1..n, NEW j \in i..n, j + 1 <= n,
         NEW s, LeastUpto(r, s, i, j, n)
  PROVE  LeastUpto(r, IF s[j + 1].key < s[i].key THEN ExchangeRows(s, i, j + 1) ELSE s,
                   i, j + 1, n)
<1>1. /\ i \in 1..n /\ j + 1 \in 1..n /\ i # j + 1 /\ i \in i..j /\ i \in i..n /\ j + 1 \in i..n
      /\ j \in Nat /\ i \in Nat
  OBVIOUS
<1>2. /\ \A k \in i..j + 1 : k \in i..j \/ k = j + 1
      /\ \A k \in i..j : k \in 1..n /\ k # j + 1
      /\ \A k \in i..n : k \in 1..n
      /\ \A k \in 1..n : k < i => k # i /\ k # j + 1
  OBVIOUS
<1>3. s \in [1..n -> Rows] /\ \A k \in 1..n : s[k].key \in Nat
  BY KeysAreNumbers DEF LeastUpto, Rearranged
<1>4. CASE s[j + 1].key < s[i].key
  <2> DEFINE t == ExchangeRows(s, i, j + 1)
  <2>1. /\ Rearranged(s, t, n) /\ t[i] = s[j + 1] /\ t[j + 1] = s[i]
        /\ \A k \in 1..n : k # i /\ k # j + 1 => t[k] = s[k]
    <3>1. /\ n \in Nat /\ s \in [1..n -> Rows]
          /\ i \in 1..n /\ j + 1 \in 1..n /\ i # j + 1
      BY <1>1, <1>3
    <3> QED BY ONLY <3>1, ExchangeRearranges DEF t
  <2> HIDE DEF t
  <2>2. Rearranged(r, t, n)
    BY <2>1 DEF LeastUpto, Rearranged
  <2>3. \A k \in 1..n : k < i => t[k] = r[k]
    BY <1>2, <2>1 DEF LeastUpto
  <2>4. ASSUME NEW k \in i..j + 1 PROVE t[i].key <= t[k].key
    <3>1. CASE k = i
      BY <1>1, <1>3, <2>1, <3>1
    <3>2. CASE k = j + 1
      BY <1>1, <1>3, <1>4, <2>1, <3>2
    <3>3. CASE k \in i..j /\ k # i
      <4>1. t[k] = s[k] /\ s[i].key <= s[k].key
        BY <1>2, <2>1, <3>3 DEF LeastUpto
      <4>2. k \in 1..n
        BY <1>2, <3>3
      <4>3. s[j + 1].key \in Nat /\ s[i].key \in Nat /\ s[k].key \in Nat
        BY <1>1, <1>3, <4>2
      <4> QED BY <1>4, <2>1, <4>1, <4>3
    <3> QED BY <1>2, <3>1, <3>2, <3>3
  <2>5. ASSUME NEW k \in i..n PROVE \E l \in i..n : t[k] = r[l]
    <3>1. \E m \in i..n : t[k] = s[m]
      BY <1>1, <1>2, <2>1
    <3> QED BY <3>1 DEF LeastUpto
  <2>6. LeastUpto(r, t, i, j + 1, n)
    BY <2>2, <2>3, <2>4, <2>5 DEF LeastUpto
  <2> QED BY <1>4, <2>6 DEF t
<1>5. CASE ~ (s[j + 1].key < s[i].key)
  <2>1. s[i].key <= s[j + 1].key
    BY <1>1, <1>3, <1>5
  <2>2. \A k \in i..j + 1 : s[i].key <= s[k].key
    BY <1>2, <2>1 DEF LeastUpto
  <2> QED BY <1>5, <2>2 DEF LeastUpto
<1> QED BY <1>4, <1>5

LEMMA LeastFirstIsLeast ==
  ASSUME NEW n \in Nat, NEW r \in [1..n -> Rows], NEW i \in 1..n
  PROVE  LeastUpto(r, LeastFirst(r, i), i, n, n)
<1> DEFINE Exchange(s, j) == IF s[j].key < s[i].key THEN ExchangeRows(s, i, j) ELSE s
           Step(f, j) == IF j = i THEN r ELSE Exchange(f[j - 1], j)
           Defines(f) == f = [j \in i..n |-> Step(f, j)]
           F == CHOOSE f : Defines(f)
           Right == {k \in Nat : k <= n - i => LeastUpto(r, F[i + k], i, i + k, n)}
<1>1. Len(r) = n
  BY ListIsSeq
<1>2. \E f : Defines(f)
  <2> DEFINE X == [1..n -> Rows]
             m == n - i
             step == [k \in 1..m |-> [s \in X |-> Exchange(s, i + k)]]
  <2>1. ASSUME NEW k \in 1..m, NEW s \in X PROVE Exchange(s, i + k) \in X
    <3>1. i + k \in 1..n /\ i # i + k
      OBVIOUS
    <3>2. ExchangeRows(s, i, i + k) \in X
      BY <3>1, ExchangeRearranges DEF Rearranged
    <3> QED BY <3>2
  <2>2. Rounds(m, X, r, step)
    <3>1. m \in Nat
      OBVIOUS
    <3> HIDE DEF Exchange, m
    <3>2. step \in [1..m -> [X -> X]]
      BY <2>1
    <3> QED BY <3>1, <3>2 DEF Rounds
  <2>3. PICK g : Loops(g, m, X, r, step)
    <3> HIDE DEF step, m, X
    <3> QED BY ONLY <2>2, LoopExists, Zenon
  <2> DEFINE f == [j \in i..n |-> g[j - i]]
  <2>4. ASSUME NEW j \in i..n PROVE f[j] = Step(f, j)
    <3>1. CASE j = i
      <4>1. f[j] = g[0] /\ g[0] = r
        BY <2>3, <3>1 DEF Loops
      <4> QED BY <3>1, <4>1
    <3>2. CASE j # i
      <4>1. j - i \in 1..m /\ (j - i) - 1 \in 0..m /\ j - 1 \in i..n /\ i + (j - i) = j
            /\ (j - 1) - i = (j - i) - 1
        BY <3>2
      <4>2. f[j] = g[j - i] /\ f[j - 1] = g[(j - i) - 1]
        BY <4>1
      <4> HIDE DEF Exchange, f, m
      <4>3. g[(j - i) - 1] \in X /\ g[j - i] = step[j - i][g[(j - i) - 1]]
        BY <2>3, <4>1 DEF Loops
      <4>4. step[j - i][g[(j - i) - 1]] = Exchange(g[(j - i) - 1], i + (j - i))
        BY <4>1, <4>3
      <4> QED BY <3>2, <4>1, <4>2, <4>3, <4>4
    <3> QED BY <3>1, <3>2
  <2>5. f = [j \in i..n |-> f[j]]
    OBVIOUS
  <2> HIDE DEF Step, f
  <2>6. [j \in i..n |-> f[j]] = [j \in i..n |-> Step(f, j)]
    BY <2>4
  <2> QED BY <2>5, <2>6
<1>3. Defines(F)
  <2> HIDE DEF Defines
  <2> QED BY <1>2, Zenon
<1>4. LeastFirst(r, i) = F[n]
  BY <1>1 DEF LeastFirst
<1>5. \A j \in i..n : F[j] = Step(F, j)
  <2> HIDE DEF F, Step
  <2> QED BY <1>3
<1> HIDE DEF F
<1>6. 0 \in Right
  <2>1. F[i + 0] = r /\ i + 0 = i
    BY <1>5
  <2>2. Rearranged(r, r, n)
    BY DEF Rearranged
  <2>3. \A k \in i..i : r[i].key <= r[k].key
    <3>1. r[i].key \in Nat
      BY KeysAreNumbers
    <3> QED BY <3>1
  <2>4. LeastUpto(r, r, i, i, n)
    BY <2>2, <2>3 DEF LeastUpto
  <2> QED BY <2>1, <2>4
<1>7. ASSUME NEW k \in Nat, k \in Right PROVE k + 1 \in Right
  <2> SUFFICES ASSUME k + 1 <= n - i PROVE LeastUpto(r, F[i + (k + 1)], i, i + (k + 1), n)
    OBVIOUS
  <2>1. /\ i + k \in i..n /\ i + (k + 1) = (i + k) + 1 /\ (i + k) + 1 <= n
        /\ (i + k) + 1 \in i..n /\ (i + k) + 1 # i /\ ((i + k) + 1) - 1 = i + k
    OBVIOUS
  <2>2. LeastUpto(r, F[i + k], i, i + k, n)
    BY <1>7
  <2>3. F[(i + k) + 1] = Exchange(F[i + k], (i + k) + 1)
    <3> HIDE DEF Exchange
    <3> QED BY <1>5, <2>1
  <2>4. LeastUpto(r, Exchange(F[i + k], (i + k) + 1), i, (i + k) + 1, n)
    BY <2>1, <2>2, LeastStep
  <2> QED BY <2>1, <2>3, <2>4
<1> HIDE DEF Right
<1>8. n - i \in Right /\ n - i \in Nat /\ i + (n - i) = n
  <2>1. n - i \in Nat /\ i + (n - i) = n
    OBVIOUS
  <2> QED BY <1>6, <1>7, <2>1, Induct
<1> USE DEF Right
<1> QED BY <1>4, <1>8

\* The outer loop has come to i.
SortedUpto(r, s, i, n) ==
  /\ Rearranged(r, s, n)
  /\ \A p \in 1..i : \A q \in p..n : s[p].key <= s[q].key

LEMMA SortedStep ==
  ASSUME NEW n \in Nat, NEW r \in [1..n -> Rows], NEW i \in Nat, i + 1 <= n,
         NEW s, SortedUpto(r, s, i, n)
  PROVE  SortedUpto(r, LeastFirst(s, i + 1), i + 1, n)
<1> DEFINE t == LeastFirst(s, i + 1)
<1>1. i + 1 \in 1..n /\ s \in [1..n -> Rows]
  BY DEF SortedUpto, Rearranged
<1>2. LeastUpto(s, t, i + 1, n, n)
  BY <1>1, LeastFirstIsLeast
<1> HIDE DEF t
<1>3. Rearranged(r, t, n)
  BY <1>2 DEF SortedUpto, LeastUpto, Rearranged
<1>4. ASSUME NEW p \in 1..i + 1, NEW q \in p..n PROVE t[p].key <= t[q].key
  <2>1. CASE p = i + 1
    BY <1>2, <2>1 DEF LeastUpto
  <2>2. CASE p \in 1..i
    <3>1. p \in 1..n /\ p < i + 1 /\ q \in 1..n
      BY <2>2
    <3>2. t[p] = s[p]
      BY <1>2, <3>1 DEF LeastUpto
    <3>3. CASE q < i + 1
      <4>1. t[q] = s[q]
        BY <1>2, <3>1, <3>3 DEF LeastUpto
      <4> QED BY <2>2, <3>2, <4>1 DEF SortedUpto
    <3>4. CASE q \in i + 1..n
      <4>1. PICK l \in i + 1..n : t[q] = s[l]
        BY <1>2, <3>4 DEF LeastUpto
      <4>2. l \in p..n
        BY <2>2
      <4> QED BY <2>2, <3>2, <4>1, <4>2 DEF SortedUpto
    <3> QED BY <3>1, <3>3, <3>4
  <2> QED BY <2>1, <2>2
<1> QED BY <1>3, <1>4 DEF SortedUpto, t

LEMMA SortRowsSorts ==
  ASSUME NEW n \in Nat, NEW r \in [1..n -> Rows]
  PROVE  SortedUpto(r, SortRows(r), n, n)
<1> DEFINE Step(f, i) == IF i = 0 THEN r ELSE LeastFirst(f[i - 1], i)
           Defines(f) == f = [i \in 0..n |-> Step(f, i)]
           F == CHOOSE f : Defines(f)
           Right == {i \in Nat : i <= n => SortedUpto(r, F[i], i, n)}
<1>1. Len(r) = n
  BY ListIsSeq
<1>2. \E f : Defines(f)
  <2> DEFINE X == [1..n -> Rows]
             step == [i \in 1..n |-> [s \in X |-> LeastFirst(s, i)]]
  <2>1. ASSUME NEW i \in 1..n, NEW s \in X PROVE LeastFirst(s, i) \in X
    BY LeastFirstIsLeast DEF LeastUpto, Rearranged
  <2>2. Rounds(n, X, r, step)
    BY <2>1 DEF Rounds
  <2>3. PICK f : Loops(f, n, X, r, step)
    <3> HIDE DEF step, X
    <3> QED BY ONLY <2>2, LoopExists, Zenon
  <2>4. ASSUME NEW i \in 0..n PROVE f[i] = Step(f, i)
    <3>1. CASE i = 0
      BY <2>3, <3>1 DEF Loops
    <3>2. CASE i \in 1..n
      <4>1. i - 1 \in 0..n /\ i # 0
        BY <3>2
      <4>2. f[i - 1] \in X /\ f[i] = step[i][f[i - 1]]
        BY <2>3, <3>2, <4>1 DEF Loops
      <4> QED BY <3>2, <4>1, <4>2
    <3> QED BY <3>1, <3>2
  <2> HIDE DEF Step, step
  <2>5. f = [i \in 0..n |-> f[i]]
    BY <2>3 DEF Loops
  <2>6. [i \in 0..n |-> f[i]] = [i \in 0..n |-> Step(f, i)]
    BY <2>4
  <2> QED BY <2>5, <2>6
<1>3. Defines(F)
  <2> HIDE DEF Defines
  <2> QED BY <1>2, Zenon
<1>4. SortRows(r) = F[n]
  BY <1>1 DEF SortRows
<1>5. \A i \in 0..n : F[i] = Step(F, i)
  <2> HIDE DEF F, Step
  <2> QED BY <1>3
<1> HIDE DEF F
<1>6. 0 \in Right
  <2>1. F[0] = r
    BY <1>5
  <2>2. SortedUpto(r, r, 0, n)
    BY DEF SortedUpto, Rearranged
  <2> QED BY <2>1, <2>2
<1>7. ASSUME NEW i \in Nat, i \in Right PROVE i + 1 \in Right
  <2> SUFFICES ASSUME i + 1 <= n PROVE SortedUpto(r, F[i + 1], i + 1, n)
    OBVIOUS
  <2>1. SortedUpto(r, F[i], i, n) /\ F[i + 1] = LeastFirst(F[i], i + 1)
    <3>1. i + 1 \in 0..n /\ i + 1 # 0 /\ (i + 1) - 1 = i
      OBVIOUS
    <3> QED BY <1>5, <1>7, <3>1
  <2> QED BY <2>1, SortedStep
<1> HIDE DEF Right
<1>8. n \in Right
  BY <1>6, <1>7, Induct
<1> USE DEF Right
<1> QED BY <1>4, <1>8

-----------------------------------------------------------------------------
(* The demand summary. *)

\* r is the summary of the events whose rows are made by Row(_, visible).
Summarises(r, visible) ==
  /\ r \in Seq(Rows)
  /\ Increasing(Keys(r))
  /\ ToSet(r) = {Row(e, visible) : e \in {d \in ToSet(declared) : Present(d, visible)}}

LEMMA DemandDataSummarises ==
  ASSUME Declared, IsInjective(declared), NEW visible
  PROVE  Summarises(DemandData(visible), visible)
<1> DEFINE r == PresentRows(visible)
           n == Len(r)
           s == SortRows(r)
<1>1. r \in Seq(Rows) /\ RowsUpto(r, Len(declared), visible)
  BY PresentRowsElements DEF RowsUpto
<1> HIDE DEF r
<1>2. n \in Nat /\ r \in [1..n -> Rows]
  BY <1>1, LenProperties
<1>3. SortedUpto(r, s, n, n)
  BY <1>2, SortRowsSorts
<1> HIDE DEF s
<1>4. s \in Seq(Rows) /\ Len(s) = n /\ s \in [1..n -> Rows]
  BY <1>2, <1>3, ListIsSeq DEF SortedUpto, Rearranged
<1>5. Distinct(r, n)
  <2>1. IsInjective(Keys(r))
    BY <1>1 DEF RowsUpto
  <2>2. DOMAIN Keys(r) = 1..n /\ \A i \in 1..n : Keys(r)[i] = r[i].key
    BY <1>2 DEF Keys
  <2> HIDE DEF n
  <2> QED BY <2>1, <2>2 DEF Distinct, IsInjective
<1>6. Distinct(s, n)
  BY <1>3, <1>5 DEF SortedUpto, Rearranged
<1> HIDE DEF n
<1>7. Increasing(Keys(s))
  <2>1. DOMAIN Keys(s) = 1..n /\ \A i \in 1..n : Keys(s)[i] = s[i].key
    BY <1>4 DEF Keys
  <2>2. Len(Keys(s)) = n
    <3>1. Keys(s) \in [1..n -> Nat]
      BY <1>2, <1>4, KeysAreNumbers DEF Keys
    <3> QED BY <1>2, <3>1, ListIsSeq
  <2>3. ASSUME NEW i \in 2..n PROVE Keys(s)[i - 1] < Keys(s)[i]
    <3>1. i - 1 \in 1..n /\ i \in 1..n /\ i \in i - 1..n /\ i - 1 # i
      BY <1>2
    <3>2. s[i - 1].key <= s[i].key /\ s[i - 1].key # s[i].key
      BY <1>3, <1>6, <3>1 DEF SortedUpto, Distinct
    <3>3. s[i - 1].key \in Nat /\ s[i].key \in Nat
      BY <1>2, <1>4, <3>1, KeysAreNumbers
    <3> QED BY <2>1, <3>1, <3>2, <3>3
  <2> QED BY <2>2, <2>3 DEF Increasing
<1>8. ToSet(s) = {Row(e, visible) : e \in {d \in ToSet(declared) : Present(d, visible)}}
  <2>1. \A x : x \in ToSet(s) <=> x \in ToSet(r)
    <3>1. \A x : x \in ToSet(s) <=> \E i \in 1..n : s[i] = x
      BY <1>4, Elements
    <3>2. \A x : x \in ToSet(r) <=> \E i \in 1..n : r[i] = x
      BY <1>1, Elements DEF n
    <3> QED BY <1>3, <3>1, <3>2 DEF SortedUpto, Rearranged
  <2>2. \A x : x \in ToSet(r) <=>
          \E k \in 1..Len(declared) : Present(declared[k], visible) /\ x = Row(declared[k], visible)
    BY <1>1 DEF RowsUpto
  <2>3. \A e : e \in ToSet(declared) <=> \E k \in 1..Len(declared) : declared[k] = e
    BY Elements DEF Declared
  <2> QED BY <2>1, <2>2, <2>3
<1>9. DemandData(visible) = s
  BY DEF DemandData, s, r
<1> QED BY <1>4, <1>7, <1>8, <1>9 DEF Summarises

-----------------------------------------------------------------------------
(* Lists in increasing order. *)

LEMMA IncreasingOrders ==
  ASSUME NEW s \in Seq(Nat), Increasing(s)
  PROVE  \A i, j \in 1..Len(s) : i < j => s[i] < s[j]
<1> DEFINE n == Len(s)
           Ordered == {j \in Nat : j <= n => \A i \in 1..n : i < j => s[i] < s[j]}
<1>1. n \in Nat /\ \A i \in 1..n : s[i] \in Nat
  BY Elements
<1>2. \A i \in 2..n : s[i - 1] < s[i]
  BY DEF Increasing
<1> HIDE DEF n
<1>3. 0 \in Ordered
  BY <1>1
<1>4. ASSUME NEW j \in Nat, j \in Ordered PROVE j + 1 \in Ordered
  <2> SUFFICES ASSUME j + 1 <= n, NEW i \in 1..n, i < j + 1 PROVE s[i] < s[j + 1]
    OBVIOUS
  <2>1. /\ j + 1 \in 2..n /\ (j + 1) - 1 = j /\ j \in 1..n /\ j + 1 \in 1..n
        /\ i = j \/ i < j
    BY <1>1
  <2>2. s[j] < s[j + 1] /\ s[i] \in Nat /\ s[j] \in Nat /\ s[j + 1] \in Nat
    BY <1>1, <1>2, <2>1
  <2>3. i < j => s[i] < s[j]
    BY <1>1, <1>4, <2>1
  <2> QED BY <2>1, <2>2, <2>3
<1> HIDE DEF Ordered
<1>5. \A j \in Nat : j \in Ordered
  BY <1>3, <1>4, Induct
<1> USE DEF Ordered
<1>6. \A i, j \in 1..n : i < j => s[i] < s[j]
  BY <1>1, <1>5
<1> QED BY <1>6 DEF n

\* What t has at the places before k is what s has there: then what s has at k, t has
\* there or later.
LEMMA NextIsBehind ==
  ASSUME NEW s \in Seq(Nat), NEW t \in Seq(Nat), Increasing(s), Increasing(t),
         ToSet(s) \subseteq ToSet(t), NEW k \in 1..Len(s),
         \A i \in 1..k - 1 : i \in 1..Len(t) => t[i] = s[i]
  PROVE  k \in 1..Len(t) /\ t[k] <= s[k]
<1>1. /\ Len(s) \in Nat /\ Len(t) \in Nat
      /\ \A i \in 1..Len(s) : s[i] \in Nat
      /\ \A i \in 1..Len(t) : t[i] \in Nat
  BY Elements
<1>2. s[k] \in ToSet(s)
  BY Elements
<1>3. PICK l \in 1..Len(t) : t[l] = s[k]
  BY <1>2, Elements
<1>4. ~ (l < k)
  <2> SUFFICES ASSUME l < k PROVE FALSE
    OBVIOUS
  <2>1. l \in 1..k - 1 /\ l \in 1..Len(s)
    BY <1>1
  <2>2. s[l] = s[k] /\ s[l] < s[k]
    BY <1>3, <2>1, IncreasingOrders
  <2> QED BY <1>1, <2>1, <2>2
<1>5. k \in 1..Len(t)
  BY <1>1, <1>4
<1>6. k = l \/ t[k] < t[l]
  BY <1>4, <1>5, IncreasingOrders
<1> QED BY <1>1, <1>3, <1>5, <1>6

LEMMA IncreasingIsUnique ==
  ASSUME NEW s \in Seq(Nat), NEW t \in Seq(Nat), Increasing(s), Increasing(t),
         ToSet(s) = ToSet(t)
  PROVE  s = t
<1> DEFINE Agrees(k) == /\ k \in 1..Len(s) <=> k \in 1..Len(t)
                        /\ k \in 1..Len(s) => s[k] = t[k]
           Agree == {n \in Nat : \A k \in 1..n : Agrees(k)}
<1>1. /\ Len(s) \in Nat /\ DOMAIN s = 1..Len(s) /\ \A i \in 1..Len(s) : s[i] \in Nat
      /\ Len(t) \in Nat /\ DOMAIN t = 1..Len(t) /\ \A i \in 1..Len(t) : t[i] \in Nat
  BY Elements
<1>2. ASSUME NEW n \in Nat, \A k \in 1..n : Agrees(k) PROVE Agrees(n + 1)
  <2>1. (n + 1) - 1 = n
    OBVIOUS
  <2>2. n + 1 \in 1..Len(s) => n + 1 \in 1..Len(t) /\ t[n + 1] <= s[n + 1]
    <3> SUFFICES ASSUME n + 1 \in 1..Len(s)
                 PROVE  n + 1 \in 1..Len(t) /\ t[n + 1] <= s[n + 1]
      OBVIOUS
    <3>1. \A i \in 1..(n + 1) - 1 : i \in 1..Len(t) => t[i] = s[i]
      BY <1>2, <2>1
    <3> QED BY <3>1, NextIsBehind
  <2>3. n + 1 \in 1..Len(t) => n + 1 \in 1..Len(s) /\ s[n + 1] <= t[n + 1]
    <3> SUFFICES ASSUME n + 1 \in 1..Len(t)
                 PROVE  n + 1 \in 1..Len(s) /\ s[n + 1] <= t[n + 1]
      OBVIOUS
    <3>1. \A i \in 1..(n + 1) - 1 : i \in 1..Len(s) => s[i] = t[i]
      BY <1>2, <2>1
    <3> QED BY <3>1, NextIsBehind
  <2> QED BY <1>1, <2>2, <2>3
<1> HIDE DEF Agrees
<1>3. 0 \in Agree
  OBVIOUS
<1>4. ASSUME NEW n \in Nat, n \in Agree PROVE n + 1 \in Agree
  <2>1. \A k \in 1..n + 1 : k \in 1..n \/ k = n + 1
    OBVIOUS
  <2> QED BY <1>2, <1>4, <2>1
<1> HIDE DEF Agree
<1>5. \A n \in Nat : n \in Agree
  BY <1>3, <1>4, Induct
<1> USE DEF Agree
<1>6. \A k \in Nat : k # 0 => Agrees(k)
  <2> TAKE k \in Nat
  <2> HAVE k # 0
  <2>1. k \in 1..k
    OBVIOUS
  <2> QED BY <1>5, <2>1
<1> USE DEF Agrees
<1>7. Len(s) = Len(t)
  <2>1. Len(s) # 0 => Len(s) \in 1..Len(t)
    BY <1>1, <1>6
  <2>2. Len(t) # 0 => Len(t) \in 1..Len(s)
    BY <1>1, <1>6
  <2>3. Len(s) \in Nat /\ Len(t) \in Nat
    BY <1>1
  <2>4. Len(s) <= Len(t) /\ Len(t) <= Len(s)
    BY <2>1, <2>2, <2>3
  <2> QED BY <2>3, <2>4
<1>8. \A k \in 1..Len(s) : s[k] = t[k]
  BY <1>1, <1>6
<1> QED BY <1>1, <1>7, <1>8, SeqEqual

LEMMA KeysOfRows ==
  ASSUME NEW r \in Seq(Rows)
  PROVE  /\ Keys(r) \in Seq(Nat) /\ Len(Keys(r)) = Len(r)
         /\ \A i \in 1..Len(r) : Keys(r)[i] = r[i].key
         /\ ToSet(Keys(r)) = {x.key : x \in ToSet(r)}
<1>1. Len(r) \in Nat /\ DOMAIN r = 1..Len(r) /\ r \in [1..Len(r) -> Rows]
  BY Elements, LenProperties
<1>2. /\ Keys(r) \in [1..Len(r) -> Nat]
      /\ \A i \in 1..Len(r) : Keys(r)[i] = r[i].key
  BY <1>1, KeysAreNumbers DEF Keys
<1>3. Keys(r) \in Seq(Nat) /\ Len(Keys(r)) = Len(r)
  BY <1>1, <1>2, ListIsSeq
<1>4. ToSet(Keys(r)) = {x.key : x \in ToSet(r)}
  <2>1. \A y : y \in ToSet(Keys(r)) <=> \E i \in 1..Len(r) : r[i].key = y
    BY <1>2, <1>3, Elements
  <2>2. \A x : x \in ToSet(r) <=> \E i \in 1..Len(r) : r[i] = x
    BY Elements
  <2> QED BY <2>1, <2>2
<1> QED BY <1>2, <1>3, <1>4

\* A summary is determined by its rows.
LEMMA SummaryIsUnique ==
  ASSUME NEW r \in Seq(Rows), NEW s \in Seq(Rows), Increasing(Keys(r)), Increasing(Keys(s)),
         ToSet(r) = ToSet(s)
  PROVE  r = s
<1>1. Keys(r) = Keys(s)
  <2>1. /\ Keys(r) \in Seq(Nat) /\ Keys(s) \in Seq(Nat)
        /\ ToSet(Keys(r)) = ToSet(Keys(s))
    BY KeysOfRows
  <2> QED BY <2>1, IncreasingIsUnique
<1>2. Len(r) = Len(s) /\ Len(r) \in Nat
  BY <1>1, KeysOfRows, Elements
<1>3. ASSUME NEW i \in 1..Len(r) PROVE r[i] = s[i]
  <2>1. s[i] \in ToSet(r)
    BY <1>2, Elements
  <2>2. PICK j \in 1..Len(r) : r[j] = s[i]
    BY <2>1, Elements
  <2>3. Keys(r)[j] = Keys(r)[i]
    BY <1>1, <1>2, <2>2, KeysOfRows
  <2>4. /\ Keys(r) \in Seq(Nat) /\ Len(Keys(r)) = Len(r)
        /\ Keys(r)[i] \in Nat /\ Keys(r)[j] \in Nat
    BY KeysOfRows, Elements
  <2>5. ~ (i < j) /\ ~ (j < i)
    BY <2>3, <2>4, IncreasingOrders
  <2> QED BY <1>2, <2>2, <2>5
<1> QED BY <1>2, <1>3, SeqEqual

-----------------------------------------------------------------------------
(* Lists without repetition. *)

LEMMA DistinctElements ==
  ASSUME NEW S, NEW s \in Seq(S)
  PROVE  /\ IsFiniteSet(ToSet(s)) /\ Cardinality(ToSet(s)) \in Nat
         /\ Cardinality(ToSet(s)) <= Len(s)
         /\ Cardinality(ToSet(s)) = Len(s) <=> IsInjective(s)
         /\ IsInjective(s) <=> \A i, j \in 1..Len(s) : s[i] = s[j] => i = j
<1> DEFINE n == Len(s)
<1>1. n \in Nat /\ DOMAIN s = 1..n /\ s \in [1..n -> S]
  BY Elements, LenProperties
<1>2. \A x : x \in ToSet(s) <=> \E i \in 1..n : s[i] = x
  BY Elements
<1> HIDE DEF n
<1>3. IsFiniteSet(1..n) /\ Cardinality(1..n) = n
  BY <1>1, FS_Interval
<1>4. s \in [1..n -> ToSet(s)]
  BY <1>1, <1>2
<1>5. s \in Surjection(1..n, ToSet(s))
  BY <1>2, <1>4 DEF Surjection
<1>6. IsInjective(s) <=> \A i, j \in 1..n : s[i] = s[j] => i = j
  BY <1>1 DEF IsInjective
<1>7. IsInjective(s) <=> s \in Injection(1..n, ToSet(s))
  BY <1>4 DEF Injection
<1>8. /\ IsFiniteSet(ToSet(s)) /\ Cardinality(ToSet(s)) <= n
      /\ Cardinality(ToSet(s)) = n <=> s \in Injection(1..n, ToSet(s))
  BY <1>3, <1>5, FS_Surjection
<1>9. Cardinality(ToSet(s)) \in Nat
  BY <1>8, FS_CardinalityType
<1> QED BY <1>6, <1>7, <1>8, <1>9 DEF n

\* The check of each request against the others, and what it comes to.
LEMMA EachOnce ==
  ASSUME NEW S, NEW s \in Seq(S), NEW t \in Seq(S), IsInjective(s), Len(t) = Len(s)
  PROVE  (\A e \in ToSet(s) : Cardinality({j \in DOMAIN t : t[j] = e}) = 1) <=>
            ToSet(t) = ToSet(s)
<1> DEFINE n == Len(s)
           Places(e) == {j \in DOMAIN t : t[j] = e}
<1>1. n \in Nat /\ DOMAIN s = 1..n /\ DOMAIN t = 1..n
  BY Elements
<1>2. \A e : Places(e) = {j \in 1..n : t[j] = e} /\ IsFiniteSet(Places(e))
  <2> TAKE e
  <2>1. Places(e) \in SUBSET (1..n) /\ Places(e) = {j \in 1..n : t[j] = e}
    BY <1>1
  <2> HIDE DEF Places
  <2>2. IsFiniteSet(1..n)
    BY <1>1, FS_Interval
  <2> QED BY <2>1, <2>2, FS_Subset
<1>3. \A e : Cardinality(Places(e)) = 1 <=> \E j : Places(e) = {j}
  <2> HIDE DEF Places
  <2> QED BY <1>2, FS_Singleton
<1>4. /\ \A x : x \in ToSet(s) <=> \E i \in 1..n : s[i] = x
      /\ \A x : x \in ToSet(t) <=> \E i \in 1..n : t[i] = x
      /\ Cardinality(ToSet(s)) = n
      /\ IsFiniteSet(ToSet(s)) /\ IsFiniteSet(ToSet(t))
      /\ Cardinality(ToSet(t)) \in Nat /\ Cardinality(ToSet(t)) <= n
      /\ Cardinality(ToSet(t)) = n <=> \A i, j \in 1..n : t[i] = t[j] => i = j
  BY <1>1, Elements, DistinctElements
<1> HIDE DEF n
<1>5. ASSUME \A e \in ToSet(s) : Cardinality(Places(e)) = 1
      PROVE  ToSet(t) = ToSet(s)
  <2>1. \A e \in ToSet(s) : \E j \in 1..n : t[j] = e
    BY <1>2, <1>3, <1>5
  <2>2. ToSet(s) \in SUBSET ToSet(t)
    BY <1>4, <2>1
  <2>3. /\ Cardinality(ToSet(s)) <= Cardinality(ToSet(t))
        /\ Cardinality(ToSet(t)) = Cardinality(ToSet(s)) => ToSet(t) = ToSet(s)
    BY <1>4, <2>2, FS_Subset
  <2> QED BY <1>1, <1>4, <2>3
<1>6. ASSUME ToSet(t) = ToSet(s), NEW e \in ToSet(s)
      PROVE  Cardinality(Places(e)) = 1
  <2>1. \A i, j \in 1..n : t[i] = t[j] => i = j
    BY <1>4, <1>6
  <2>2. PICK i \in 1..n : t[i] = e
    BY <1>4, <1>6
  <2>3. \A j \in 1..n : t[j] = e <=> j = i
    BY <2>1, <2>2
  <2>4. Places(e) = {j \in 1..n : t[j] = e}
    BY <1>2
  <2>5. Places(e) = {i}
    BY <2>3, <2>4
  <2> QED BY <1>3, <2>5
<1> QED BY <1>5, <1>6

-----------------------------------------------------------------------------
(* What the checks of the catalog and of the inventory come to. *)

\* Every raw handler is visible: to the probe all are, to the strict compilation those
\* that BindingGate lets through.
Sees(visible) == \A e \in Event : handlers[e].raw => e \in visible

LEMMA CatalogVerdict ==
  ASSUME Declared, NEW visible, Sees(visible)
  PROVE  CatalogError(visible) = "none" <=> GoodCatalog
<1> DEFINE catalog == ToSet(declared)
           a == Check(~Unique, "GREVIR_IRQ_DUPLICATE_EVENT_KEY")
           b == Check(catalog \cap BadKey # {}, "GREVIR_IRQ_INVALID_EVENT_KEY")
           c == Check(\E e \in catalog : DuplicateHandler(e, visible),
                      "GREVIR_IRQ_DUPLICATE_HANDLER")
           d == Check(\E e \in catalog : InvalidRoute(e), "GREVIR_IRQ_INVALID_EVENT_ROUTE")
<1>1. catalog \subseteq Event
  BY Elements DEF Declared
<1>2. "none" \notin {a.error, b.error, c.error, d.error}
  BY DEF Check
<1>3. /\ a.fails <=> ~Unique
      /\ b.fails <=> catalog \cap BadKey # {}
      /\ c.fails <=> \E e \in catalog : DuplicateHandler(e, visible)
      /\ d.fails <=> \E e \in catalog : InvalidRoute(e)
  BY DEF Check
<1>4. CatalogError(visible) = FirstFailure(<<a, b, c, d>>)
  BY DEF CatalogError
<1> HIDE DEF a, b, c, d
<1>5. CatalogError(visible) = "none" <=> ~a.fails /\ ~b.fails /\ ~c.fails /\ ~d.fails
  BY <1>2, <1>4, FirstOfFour
<1>6. Unique <=> Cardinality(ToSet(declared)) = Len(declared)
  BY DistinctElements DEF Declared, Unique
<1>7. \A e \in catalog : DuplicateHandler(e, visible) <=> handlers[e].raw /\ handlers[e].event
  BY <1>1 DEF DuplicateHandler, Raw, Sees
<1> QED BY <1>3, <1>5, <1>6, <1>7 DEF GoodCatalog, InvalidRoute

Stated(p) == p = [requests |-> p.requests, candidates |-> p.candidates] /\ p.requests \in Seq(Event)

LEMMA ProblemVerdict ==
  ASSUME Declared, Unique, NEW p, Stated(p)
  PROVE  ProblemError(p) = "none" <=> GoodProblem(p)
<1> DEFINE a == Check(~RequestsMatch(p) \/ ~OwnedByInstance(p),
                      "GREVIR_IRQ_BINDING_NOT_IN_INVENTORY")
<1>1. "none" \notin {a.error}
  BY DEF Check
<1>2. a.fails <=> ~RequestsMatch(p) \/ ~OwnedByInstance(p)
  BY DEF Check
<1>3. ProblemError(p) = FirstFailure(<<a>>)
  BY DEF ProblemError
<1> HIDE DEF a
<1>4. ProblemError(p) = "none" <=> ~a.fails
  BY <1>1, <1>3, FirstOfOne
<1>5. RequestsMatch(p) <=>
        Len(p.requests) = Len(declared) /\ ToSet(p.requests) = ToSet(declared)
  <2> SUFFICES ASSUME Len(p.requests) = Len(declared)
               PROVE  (\A e \in ToSet(declared) :
                         Cardinality({j \in DOMAIN p.requests : p.requests[j] = e}) = 1)
                      <=> ToSet(p.requests) = ToSet(declared)
    BY DEF RequestsMatch
  <2> QED BY EachOnce DEF Declared, Unique, Stated
<1> QED BY <1>2, <1>4, <1>5 DEF GoodProblem, OwnedByInstance

-----------------------------------------------------------------------------
(* What the checks of a selected plan come to. *)

Selected(p) == p \in [bindings : Seq(Binding), state : {"ok", "failed", "exhausted"}]

\* Binding i passes its round of the loop.
Passes(demands, b, i) ==
  /\ b[i].event \in ToSet(declared) \cap ToSet(Keys(demands))
  /\ ~b[i].shared
  /\ {b[i].source, b[i].entry} \subseteq Name
  /\ ~ (i > 1 /\ b[i - 1].event = b[i].event)
  /\ ~ (i > 1 /\ b[i - 1].event > b[i].event)
  /\ ~SourceTaken(b, i)
  /\ ~EntryTaken(b, i)

LEMMA RoundVerdict ==
  ASSUME NEW demands, NEW b, NEW i
  PROVE  BindingError(demands, b, i) = "none" <=> Passes(demands, b, i)
<1> DEFINE known == b[i].event \in ToSet(declared) \cap ToSet(Keys(demands))
           named == {b[i].source, b[i].entry} \subseteq Name
           c1 == Check(b[i].event \notin ToSet(declared) \cap ToSet(Keys(demands)), "unknown_event")
           c2 == Check(b[i].shared, "unsupported_shared_source")
           c3 == Check(~({b[i].source, b[i].entry} \subseteq Name), "invalid_source")
           c4 == Check(i > 1 /\ b[i - 1].event = b[i].event, "duplicate_event")
           c5 == Check(i > 1 /\ b[i - 1].event > b[i].event, "unstable_order")
           c6 == Check(SourceTaken(b, i), "unsupported_shared_source")
           c7 == Check(EntryTaken(b, i), "entry_conflict")
<1>1. "none" \notin {c1.error, c2.error, c3.error, c4.error, c5.error, c6.error, c7.error}
  BY DEF Check
<1>2. /\ c1.fails <=> ~known
      /\ c2.fails <=> b[i].shared
      /\ c3.fails <=> ~named
      /\ c4.fails <=> i > 1 /\ b[i - 1].event = b[i].event
      /\ c5.fails <=> i > 1 /\ b[i - 1].event > b[i].event
      /\ c6.fails <=> SourceTaken(b, i)
      /\ c7.fails <=> EntryTaken(b, i)
  BY DEF Check
<1>3. BindingError(demands, b, i) = FirstFailure(<<c1, c2, c3, c4, c5, c6, c7>>)
  BY DEF BindingError
<1> HIDE DEF c1, c2, c3, c4, c5, c6, c7
<1>4. BindingError(demands, b, i) = "none" <=>
        ~c1.fails /\ ~c2.fails /\ ~c3.fails /\ ~c4.fails /\ ~c5.fails /\ ~c6.fails /\ ~c7.fails
  BY <1>1, <1>3, FirstOfSeven
<1> QED BY <1>2, <1>4 DEF Passes

LEMMA ValidateVerdict ==
  ASSUME NEW demands, NEW p, Selected(p)
  PROVE  Validate(demands, p) = "none" <=>
           /\ p.state = "ok" /\ Len(p.bindings) = Len(demands)
           /\ \A i \in 1..Len(p.bindings) : Passes(demands, p.bindings, i)
           /\ ~Missing(demands, p.bindings)
<1> DEFINE b == p.bindings
           n == Len(b)
           c1 == Check(p.state = "exhausted", "search_exhausted")
           c2 == Check(p.state = "failed", "allocation_failed")
           c3 == Check(Len(b) # Len(demands), "count_mismatch")
           last == Check(Missing(demands, b), "missing_event")
           Round(i) == Check(BindingError(demands, b, i) # "none", BindingError(demands, b, i))
           rounds == [i \in DOMAIN b |-> Round(i)]
           S == {c1, c2, c3, last} \cup {Round(i) : i \in 1..n}
           checks == <<c1, c2, c3>> \o rounds \o <<last>>
<1>1. n \in Nat /\ DOMAIN b = 1..n /\ p.state \in {"ok", "failed", "exhausted"}
  BY Elements DEF Selected
<1>2. /\ "none" \notin {c1.error, c2.error, c3.error, last.error}
      /\ \A i : Round(i).fails => Round(i).error # "none"
  BY DEF Check
<1>3. /\ c1.fails <=> p.state = "exhausted"
      /\ c2.fails <=> p.state = "failed"
      /\ c3.fails <=> Len(b) # Len(demands)
      /\ last.fails <=> Missing(demands, b)
      /\ \A i : Round(i).fails <=> BindingError(demands, b, i) # "none"
  BY DEF Check
<1>4. Validate(demands, p) = FirstFailure(checks)
  BY DEF Validate
<1> HIDE DEF c1, c2, c3, last, Round, b, n
<1>5. rounds \in Seq(S) /\ Len(rounds) = n /\ \A i \in 1..n : rounds[i] = Round(i)
  <2>1. rounds \in [1..n -> S] /\ \A i \in 1..n : rounds[i] = Round(i)
    BY <1>1
  <2> QED BY <1>1, <2>1, ListIsSeq
<1>6. <<c1, c2, c3>> \in Seq(S) /\ <<last>> \in Seq(S)
  OBVIOUS
<1>7. \E head \in Seq(S), tail \in Seq(S) :
        /\ checks = head \o rounds \o tail
        /\ Len(head) = 3 /\ head[1] = c1 /\ head[2] = c2 /\ head[3] = c3
        /\ Len(tail) = 1 /\ tail[1] = last
  BY <1>6
<1> HIDE DEF checks, rounds, S
<1>8. PICK head \in Seq(S), tail \in Seq(S) :
        /\ checks = head \o rounds \o tail
        /\ Len(head) = 3 /\ head[1] = c1 /\ head[2] = c2 /\ head[3] = c3
        /\ Len(tail) = 1 /\ tail[1] = last
  BY <1>7
<1>9. /\ checks \in Seq(S) /\ Len(checks) = n + 4
      /\ checks[1] = c1 /\ checks[2] = c2 /\ checks[3] = c3 /\ checks[n + 4] = last
      /\ \A i \in 1..n : checks[3 + i] = Round(i)
  <2> DEFINE front == head \o rounds
  <2>1. /\ front \in Seq(S) /\ Len(front) = Len(head) + Len(rounds)
        /\ \A i \in 1..Len(head) : front[i] = head[i]
        /\ \A i \in 1..Len(rounds) : front[Len(head) + i] = rounds[i]
    <3>1. head \in Seq(S) /\ rounds \in Seq(S)
      BY <1>5
    <3> QED BY ONLY <3>1, ConcatElements DEF front
  <2>2. checks = front \o tail
    BY <1>8
  <2> HIDE DEF front
  <2>3. /\ checks \in Seq(S) /\ Len(checks) = Len(front) + Len(tail)
        /\ \A i \in 1..Len(front) : checks[i] = front[i]
        /\ \A i \in 1..Len(tail) : checks[Len(front) + i] = tail[i]
    <3>1. front \in Seq(S) /\ tail \in Seq(S)
      BY <2>1
    <3> QED BY ONLY <2>2, <3>1, ConcatElements
  <2>4. Len(front) = 3 + n /\ Len(checks) = n + 4 /\ 3 + n + 1 = n + 4
    BY <1>1, <1>5, <1>8, <2>1, <2>3
  <2>5. \A i \in 1..3 : checks[i] = head[i]
    <3>1. Len(front) = 3 + n /\ Len(head) = 3 /\ n \in Nat
      BY <1>1, <1>8, <2>4
    <3>2. \A i \in 1..3 : i \in 1..Len(front) /\ i \in 1..Len(head)
      BY ONLY <3>1
    <3> QED BY <2>1, <2>3, <3>2
  <2>6. checks[n + 4] = last
    <3>1. 1 \in 1..1
      OBVIOUS
    <3> QED BY <1>8, <2>3, <2>4, <3>1
  <2>7. ASSUME NEW i \in 1..n PROVE checks[3 + i] = Round(i)
    <3>1. 3 + i \in 1..3 + n
      BY <1>1
    <3>2. checks[3 + i] = front[3 + i]
      BY <2>3, <2>4, <3>1
    <3>3. front[3 + i] = rounds[i]
      BY <1>5, <1>8, <2>1
    <3> QED BY <1>5, <3>2, <3>3
  <2>8. 1 \in 1..3 /\ 2 \in 1..3 /\ 3 \in 1..3
    OBVIOUS
  <2> QED BY <1>8, <2>3, <2>4, <2>5, <2>6, <2>7, <2>8
<1>10. DOMAIN checks = 1..n + 4
  BY <1>9, Elements
<1>11. /\ 1 \in 1..n + 4 /\ 2 \in 1..n + 4 /\ 3 \in 1..n + 4 /\ n + 4 \in 1..n + 4
       /\ \A i \in 1..n : 3 + i \in 1..n + 4
       /\ \A k \in 1..n + 4 : k = 1 \/ k = 2 \/ k = 3 \/ k = n + 4 \/ \E i \in 1..n : k = 3 + i
  <2>1. ASSUME NEW k \in 1..n + 4, k # 1, k # 2, k # 3, k # n + 4
        PROVE  \E i \in 1..n : k = 3 + i
    <3>1. k - 3 \in 1..n /\ k = 3 + (k - 3)
      BY <1>1, <2>1
    <3> QED BY <3>1
  <2> QED BY <1>1, <2>1
<1>12. \A k \in 1..n + 4 : checks[k].fails => checks[k].error # "none"
  BY <1>2, <1>9, <1>11
<1>13. n + 4 \in Nat
  BY <1>1
<1>14. FirstFailure(checks) = "none" <=> \A k \in 1..n + 4 : ~checks[k].fails
  BY <1>10, <1>12, <1>13, FirstFailureIsNone
<1>15. (\A k \in 1..n + 4 : ~checks[k].fails) <=>
         ~c1.fails /\ ~c2.fails /\ ~c3.fails /\ ~last.fails /\ \A i \in 1..n : ~Round(i).fails
  BY <1>9, <1>11
<1>16. \A i : BindingError(demands, b, i) = "none" <=> Passes(demands, b, i)
  BY RoundVerdict
<1> QED BY <1>1, <1>3, <1>4, <1>14, <1>15, <1>16 DEF b, n

-----------------------------------------------------------------------------
(* The summary against the application. *)

LEMMA RowIsLive ==
  ASSUME Declared, GoodCatalog, NEW visible, Sees(visible), NEW e \in ToSet(declared)
  PROVE  /\ Present(e, visible) <=> e \in Handled
         /\ e \in Handled => Row(e, visible) = LiveRow(e)
<1>1. e \in Event /\ handlers[e] \in Choice
  BY Elements DEF Declared
<1>2. Raw(e, visible) <=> handlers[e].raw
  BY <1>1 DEF Sees, Raw
<1>3. handlers[e].event => ~handlers[e].raw /\ handlers[e].route # "invalid"
  BY DEF GoodCatalog
<1>4. handlers[e].route \in {"elide", "stream", "direct", "invalid"}
  BY <1>1 DEF Choice
<1>5. Present(e, visible) <=> e \in Handled
  BY <1>2 DEF Present, Handled
<1>6. ASSUME e \in Handled PROVE Row(e, visible) = LiveRow(e)
  <2>1. CASE handlers[e].raw
    BY <1>2, <2>1 DEF Row, LiveRow, InMainLoop
  <2>2. CASE ~handlers[e].raw
    <3>1. handlers[e].route # "invalid"
      BY <1>3, <1>6, <2>2 DEF Handled
    <3> QED BY <1>2, <1>4, <2>2, <3>1 DEF Row, LiveRow, InMainLoop
  <2> QED BY <2>1, <2>2
<1> QED BY <1>5, <1>6

LEMMA SummaryIsLive ==
  ASSUME Declared, GoodCatalog, NEW visible, Sees(visible)
  PROVE  LET demands == DemandData(visible)
         IN  /\ demands \in Seq(Rows) /\ Increasing(Keys(demands))
             /\ ToSet(demands) = {LiveRow(e) : e \in Handled}
             /\ ToSet(Keys(demands)) = Handled
             /\ Deferred(demands) <=> \E e \in Handled : InMainLoop(e)
<1> DEFINE demands == DemandData(visible)
<1>1. IsInjective(declared)
  BY DistinctElements DEF Declared, GoodCatalog
<1>2. /\ demands \in Seq(Rows) /\ Increasing(Keys(demands))
      /\ ToSet(demands) = {Row(e, visible) : e \in {d \in ToSet(declared) : Present(d, visible)}}
  BY <1>1, DemandDataSummarises DEF Summarises
<1> HIDE DEF demands
<1>3. Handled \subseteq ToSet(declared)
  BY DEF Handled
<1>4. ToSet(demands) = {LiveRow(e) : e \in Handled}
  BY <1>2, <1>3, RowIsLive
<1>5. ToSet(Keys(demands)) = Handled
  <2>1. ToSet(Keys(demands)) = {x.key : x \in ToSet(demands)}
    BY <1>2, KeysOfRows
  <2>2. \A e : LiveRow(e).key = e
    BY DEF LiveRow
  <2> QED BY <1>4, <2>1, <2>2
<1>6. Deferred(demands) <=> \E e \in Handled : InMainLoop(e)
  <2>1. Deferred(demands) <=> \E x \in ToSet(demands) : x.context = "main_loop"
    <3>1. /\ DOMAIN demands = 1..Len(demands)
          /\ \A x : x \in ToSet(demands) <=> \E i \in 1..Len(demands) : demands[i] = x
      BY <1>2, Elements
    <3> QED BY <3>1 DEF Deferred
  <2>2. \A e : LiveRow(e).context = "main_loop" <=> InMainLoop(e)
    BY DEF LiveRow
  <2> QED BY <1>4, <2>1, <2>2
<1> QED BY <1>2, <1>4, <1>5, <1>6 DEF demands

\* The values that a field takes are as many as the bindings just when no two agree on it.
LEMMA FieldInjective ==
  ASSUME NEW b \in Seq(Binding), NEW field
  PROVE  Cardinality({b[i][field] : i \in DOMAIN b}) = Len(b) <=>
           \A i \in 1..Len(b) : ~ \E j \in 1..(i - 1) : b[j][field] = b[i][field]
<1> DEFINE n == Len(b)
           values == {b[i][field] : i \in DOMAIN b}
           s == [i \in 1..n |-> b[i][field]]
<1>1. n \in Nat /\ DOMAIN b = 1..n
  BY Elements
<1> HIDE DEF n
<1>2. s \in [1..n -> values]
  BY <1>1
<1>3. s \in Seq(values) /\ Len(s) = n
  BY <1>1, <1>2, ListIsSeq
<1>4. \A i \in 1..n : s[i] = b[i][field]
  OBVIOUS
<1> HIDE DEF s
<1>5. ToSet(s) = values
  <2>1. \A x : x \in ToSet(s) <=> \E i \in 1..n : s[i] = x
    BY <1>3, Elements
  <2> QED BY <1>1, <1>4, <2>1
<1>6. Cardinality(values) = n <=> \A i, j \in 1..n : s[i] = s[j] => i = j
  BY <1>3, <1>5, DistinctElements
<1>7. (\A i, j \in 1..n : s[i] = s[j] => i = j) <=>
        \A i \in 1..n : ~ \E j \in 1..(i - 1) : s[j] = s[i]
  <2>1. \A i \in 1..n, j \in 1..n : i # j => i \in 1..(j - 1) \/ j \in 1..(i - 1)
    BY <1>1
  <2>2. \A i \in 1..n : \A j \in 1..(i - 1) : j \in 1..n /\ j # i
    BY <1>1
  <2> QED BY <2>1, <2>2
<1>8. \A i \in 1..n : \A j \in 1..(i - 1) : j \in 1..n
  BY <1>1
<1> QED BY <1>4, <1>6, <1>7, <1>8 DEF n

\* The keys of the bindings, in their order.
Events(b) == [i \in DOMAIN b |-> b[i].event]

LEMMA EventsOfBindings ==
  ASSUME NEW b \in Seq(Binding)
  PROVE  /\ Events(b) \in Seq(Nat) /\ Len(Events(b)) = Len(b) /\ Len(b) \in Nat
         /\ \A i \in 1..Len(b) : b[i] \in Binding /\ b[i].event \in Event /\ b[i].event \in Nat
         /\ \A i \in 1..Len(b) : Events(b)[i] = b[i].event
         /\ ToSet(Events(b)) = {b[i].event : i \in DOMAIN b}
<1> DEFINE n == Len(b)
<1>1. n \in Nat /\ DOMAIN b = 1..n /\ \A i \in 1..n : b[i] \in Binding
  BY Elements
<1> HIDE DEF n
<1>2. \A i \in 1..n : b[i].event \in Event /\ b[i].event \in Nat
  BY <1>1, BindingPlanAssumption
<1>3. Events(b) \in [1..n -> Nat] /\ \A i \in 1..n : Events(b)[i] = b[i].event
  BY <1>1, <1>2 DEF Events
<1>4. Events(b) \in Seq(Nat) /\ Len(Events(b)) = n
  BY <1>1, <1>3, ListIsSeq
<1>5. \A x : x \in ToSet(Events(b)) <=> \E i \in 1..n : Events(b)[i] = x
  BY <1>4, Elements
<1> QED BY <1>1, <1>2, <1>3, <1>4, <1>5 DEF n

\* The checks that compare a binding with the one before it: the keys increase.
LEMMA NeighboursIncrease ==
  ASSUME NEW b \in Seq(Binding)
  PROVE  Increasing(Events(b)) <=>
           \A i \in 1..Len(b) : /\ ~ (i > 1 /\ b[i - 1].event = b[i].event)
                                /\ ~ (i > 1 /\ b[i - 1].event > b[i].event)
<1> DEFINE n == Len(b)
<1>1. /\ n \in Nat /\ Len(Events(b)) = n
      /\ \A i \in 1..n : b[i].event \in Nat /\ Events(b)[i] = b[i].event
  BY EventsOfBindings
<1> HIDE DEF n
<1>2. /\ \A i \in 2..n : i \in 1..n /\ i - 1 \in 1..n /\ i > 1
      /\ \A i \in 1..n : i > 1 => i \in 2..n
  BY <1>1
<1>3. \A i \in 2..n : Events(b)[i - 1] < Events(b)[i] <=>
                        b[i - 1].event # b[i].event /\ ~ (b[i - 1].event > b[i].event)
  BY <1>1, <1>2
<1> QED BY <1>1, <1>2, <1>3 DEF Increasing, n

LEMMA PlanVerdict ==
  ASSUME Declared, GoodCatalog, NEW visible, Sees(visible), NEW p, Selected(p)
  PROVE  PlanError(DemandData(visible), p) = "none" <=> Valid(p)
<1> DEFINE demands == DemandData(visible)
           b == p.bindings
           n == Len(b)
           a1 == Check(~InInventory(p), "GREVIR_IRQ_BINDING_NOT_IN_INVENTORY")
           a2 == Check(Validate(demands, p) # "none", Validate(demands, p))
<1>1. /\ a1.fails <=> ~InInventory(p)
      /\ a2.fails <=> Validate(demands, p) # "none"
      /\ a1.fails => a1.error # "none"
      /\ a2.fails => a2.error # "none"
  BY DEF Check
<1>2. PlanError(demands, p) = FirstFailure(<<a1, a2>>)
  BY DEF PlanError
<1> HIDE DEF a1, a2
<1>3. PlanError(demands, p) = "none" <=> ~a1.fails /\ ~a2.fails
  BY <1>1, <1>2, FirstOfTwo
<1>4. /\ demands \in Seq(Rows) /\ Increasing(Keys(demands))
      /\ ToSet(Keys(demands)) = Handled
  BY SummaryIsLive
<1> HIDE DEF demands
<1>5. b \in Seq(Binding) /\ p.state \in {"ok", "failed", "exhausted"}
  BY DEF Selected
<1>6. /\ Events(b) \in Seq(Nat) /\ Len(Events(b)) = n /\ n \in Nat /\ DOMAIN b = 1..n
      /\ ToSet(Events(b)) = {b[i].event : i \in DOMAIN b}
  BY <1>5, EventsOfBindings, Elements
<1>7. /\ Keys(demands) \in Seq(Nat) /\ Len(Keys(demands)) = Len(demands)
      /\ ToSet(Keys(demands)) = {demands[i].key : i \in DOMAIN demands}
  <2>1. /\ Keys(demands) \in Seq(Nat) /\ Len(Keys(demands)) = Len(demands)
        /\ ToSet(Keys(demands)) = {x.key : x \in ToSet(demands)}
    BY <1>4, KeysOfRows
  <2>2. DOMAIN demands = 1..Len(demands)
        /\ \A x : x \in ToSet(demands) <=> \E i \in 1..Len(demands) : demands[i] = x
    BY <1>4, Elements
  <2> QED BY <2>1, <2>2
<1>8. InInventory(p) <=> \A i \in DOMAIN b : \E c \in problem.candidates : Suits(c, b[i])
  BY DEF InInventory
<1>9. Missing(demands, b) <=> ~ (Handled \subseteq ToSet(Events(b)))
  BY <1>4, <1>6, <1>7 DEF Missing
<1>10. Handled \subseteq ToSet(declared)
  BY DEF Handled
<1>11. (\A i \in 1..n : Passes(demands, b, i)) <=>
         /\ ToSet(Events(b)) \subseteq Handled
         /\ \A i \in 1..n : ~b[i].shared /\ {b[i].source, b[i].entry} \subseteq Name
         /\ Increasing(Events(b))
         /\ \A i \in 1..n : ~SourceTaken(b, i) /\ ~EntryTaken(b, i)
  <2>1. Increasing(Events(b)) <=>
          \A i \in 1..n : /\ ~ (i > 1 /\ b[i - 1].event = b[i].event)
                          /\ ~ (i > 1 /\ b[i - 1].event > b[i].event)
    BY <1>5, NeighboursIncrease
  <2>2. ToSet(Events(b)) \subseteq Handled <=>
          \A i \in 1..n : b[i].event \in ToSet(declared) \cap ToSet(Keys(demands))
    BY <1>4, <1>6, <1>10
  <2> HIDE DEF b, n
  <2> QED BY <2>1, <2>2 DEF Passes
<1>12. /\ (\A i \in 1..n : ~SourceTaken(b, i)) <=> Cardinality({b[i]["source"] : i \in DOMAIN b}) = n
       /\ (\A i \in 1..n : ~EntryTaken(b, i)) <=> Cardinality({b[i]["entry"] : i \in DOMAIN b}) = n
  <2>1. /\ \A i \in 1..n : SourceTaken(b, i) <=> \E j \in 1..(i - 1) : b[j]["source"] = b[i]["source"]
        /\ \A i \in 1..n : EntryTaken(b, i) <=> \E j \in 1..(i - 1) : b[j]["entry"] = b[i]["entry"]
    BY DEF SourceTaken, EntryTaken
  <2>2. b \in Seq(Binding) /\ n = Len(b)
    BY <1>5
  <2> HIDE DEF b, n
  <2>3. (\A i \in 1..n : ~ \E j \in 1..(i - 1) : b[j]["source"] = b[i]["source"]) <=>
          Cardinality({b[i]["source"] : i \in DOMAIN b}) = n
    BY ONLY <2>2, FieldInjective
  <2>4. (\A i \in 1..n : ~ \E j \in 1..(i - 1) : b[j]["entry"] = b[i]["entry"]) <=>
          Cardinality({b[i]["entry"] : i \in DOMAIN b}) = n
    BY ONLY <2>2, FieldInjective
  <2> QED BY <2>1, <2>3, <2>4
<1>13. Valid(p) <=>
         /\ p.state = "ok" /\ ToSet(Events(b)) = Handled /\ Increasing(Events(b))
         /\ Cardinality({b[i]["source"] : i \in DOMAIN b}) = n
         /\ Cardinality({b[i]["entry"] : i \in DOMAIN b}) = n
         /\ \A i \in 1..n : ~b[i].shared /\ {b[i].source, b[i].entry} \subseteq Name
         /\ InInventory(p)
  <2>1. Valid(p) <=>
         /\ p.state = "ok" /\ {b[i].event : i \in DOMAIN b} = Handled /\ Increasing(Events(b))
         /\ Cardinality({b[i]["source"] : i \in DOMAIN b}) = n
         /\ Cardinality({b[i]["entry"] : i \in DOMAIN b}) = n
         /\ \A i \in DOMAIN b :
              /\ ~b[i].shared /\ {b[i].source, b[i].entry} \subseteq Name
              /\ \E c \in problem.candidates : Suits(c, b[i])
    BY DEF Valid, Events
  <2> HIDE DEF b, n
  <2> QED BY <1>6, <1>8, <2>1
<1>14. ToSet(Events(b)) = Handled /\ Increasing(Events(b)) => n = Len(demands)
  BY <1>4, <1>6, <1>7, IncreasingIsUnique
<1>15. Validate(demands, p) = "none" <=>
           /\ p.state = "ok" /\ n = Len(demands)
           /\ \A i \in 1..n : Passes(demands, b, i)
           /\ ~Missing(demands, b)
  BY ValidateVerdict
<1> HIDE DEF b, n
<1> QED BY <1>1, <1>3, <1>9, <1>11, <1>12, <1>13, <1>14, <1>15 DEF demands

-----------------------------------------------------------------------------
(* The decimal digits of a number. *)

LEMMA Division ==
  ASSUME NEW n \in Nat
  PROVE  /\ n \div 10 \in Nat /\ n % 10 \in 0..9
         /\ n = 10 * (n \div 10) + (n % 10)
         /\ n < 10 => n % 10 = n
         /\ n >= 10 => n \div 10 < n
<1> DEFINE q == n \div 10
           r == n % 10
<1>1. q \in Nat /\ r \in 0..9 /\ n = 10 * q + r
  OBVIOUS
<1> HIDE DEF q, r
<1>2. ASSUME n < 10 PROVE r = n
  BY <1>1, <1>2
<1>3. ASSUME n >= 10 PROVE q < n
  <2>1. q >= 1
    BY <1>1, <1>3
  <2>2. n >= 10 * q
    BY <1>1
  <2> QED BY <1>1, <2>1, <2>2
<1>4. q \in Nat /\ r \in 0..9 /\ n = 10 * q + r /\ (n < 10 => r = n) /\ (n >= 10 => q < n)
  BY <1>1, <1>2, <1>3
<1> QED BY <1>4 DEF q, r

DigitOf(k) == Digit[k + 1]

LEMMA Digits ==
  /\ \A k \in 0..9 : DigitOf(k) \in WordChar /\ DigitOf(k) # "_"
  /\ \A k, l \in 0..9 : DigitOf(k) = DigitOf(l) => k = l
<1>1. /\ DigitOf(0) = "0" /\ DigitOf(1) = "1" /\ DigitOf(2) = "2" /\ DigitOf(3) = "3"
      /\ DigitOf(4) = "4" /\ DigitOf(5) = "5" /\ DigitOf(6) = "6" /\ DigitOf(7) = "7"
      /\ DigitOf(8) = "8" /\ DigitOf(9) = "9"
  BY DEF Digit, DigitOf
<1>2. \A k \in 0..9 : k = 0 \/ k = 1 \/ k = 2 \/ k = 3 \/ k = 4 \/ k = 5 \/ k = 6 \/ k = 7
                      \/ k = 8 \/ k = 9
  OBVIOUS
<1>3. ToSet(Digit) = {"0", "1", "2", "3", "4", "5", "6", "7", "8", "9"}
  BY DEF ToSet, Digit
<1>4. \A k \in 0..9 : DigitOf(k) \in ToSet(Digit) /\ DigitOf(k) # "_"
  BY <1>1, <1>2, <1>3
<1>5. \A k, l \in 0..9 : DigitOf(k) = DigitOf(l) => k = l
  BY <1>1, <1>2
<1> QED BY <1>4, <1>5, BindingPlanAssumption

Word10(f, n) == (IF n < 10 THEN <<>> ELSE f[n \div 10]) \o <<DigitOf(n % 10)>>

\* append_number is defined for every number.
LEMMA DecimalExists ==
  /\ Decimal \in [Nat -> Seq(WordChar)]
  /\ \A n \in Nat : Decimal[n] = Word10(Decimal, n)
<1> DEFINE X == Seq(WordChar)
           F == [g \in [Nat -> X] |-> [n \in Nat |-> Word10(g, n)]]
           rank == [n \in Nat |-> n]
<1>1. \A n \in Nat : DigitOf(n % 10) \in WordChar
  BY Digits, Division
<1>2. ASSUME NEW n \in Nat, NEW g \in [Nat -> X]
      PROVE  Word10(g, n) \in X
  <2>1. <<>> \in X /\ <<DigitOf(n % 10)>> \in X
    BY <1>1
  <2>2. n \div 10 \in Nat
    BY Division
  <2> QED BY <2>1, <2>2, ConcatElements DEF Word10
<1>3. ASSUME NEW g \in [Nat -> X], NEW h \in [Nat -> X], NEW n \in Nat,
             \A k \in Nat : k < n => g[k] = h[k]
      PROVE  Word10(g, n) = Word10(h, n)
  <2>1. ~ (n < 10) => n \div 10 \in Nat /\ n \div 10 < n
    BY Division
  <2> QED BY <1>3, <2>1 DEF Word10
<1>4. Contracts(F, Nat, X, rank)
  <2>1. F \in [[Nat -> X] -> [Nat -> X]]
    BY <1>2
  <2>2. \A g, h \in [Nat -> X], n \in Nat :
          (\A k \in Nat : rank[k] < rank[n] => g[k] = h[k]) => F[g][n] = F[h][n]
    <3>1. \A g \in [Nat -> X], n \in Nat : F[g][n] = Word10(g, n)
      OBVIOUS
    <3>2. \A n \in Nat : rank[n] = n
      OBVIOUS
    <3> HIDE DEF X, F, rank
    <3> QED BY <1>3, <3>1, <3>2
  <2> QED BY <2>1, <2>2 DEF Contracts
<1>5. PICK f \in [Nat -> X] : F[f] = f
  <2>1. <<>> \in X
    OBVIOUS
  <2> HIDE DEF F, X, rank
  <2> QED BY <1>4, <2>1, RecursionExists
<1>6. f = [n \in Nat |-> Word10(f, n)]
  BY <1>5
<1>7. Decimal = [n \in Nat |-> Word10(Decimal, n)]
  BY <1>6 DEF Decimal, Word10, DigitOf
<1>8. \A n \in Nat : Decimal[n] = Word10(Decimal, n)
  <2> HIDE DEF X, F
  <2> QED BY <1>7
<1> DEFINE Small == {n \in Nat : \A i \in 0..n : Decimal[i] \in Seq(WordChar)}
<1>9. ASSUME NEW n \in Nat, n >= 10 => Decimal[n \div 10] \in X
      PROVE  Decimal[n] \in X
  <2>1. <<>> \in X /\ <<DigitOf(n % 10)>> \in X
    BY <1>1
  <2> DEFINE leading == IF n < 10 THEN <<>> ELSE Decimal[n \div 10]
  <2>2. leading \in X
    <3>1. ~ (n < 10) => n >= 10
      OBVIOUS
    <3> QED BY <1>9, <2>1, <3>1
  <2>3. Decimal[n] = leading \o <<DigitOf(n % 10)>>
    BY <1>8 DEF Word10
  <2> HIDE DEF leading
  <2> QED BY ONLY <2>1, <2>2, <2>3, ConcatElements
<1>10. 0 \in Small
  <2>1. Decimal[0] \in X
    BY <1>9
  <2> QED BY <2>1
<1>11. ASSUME NEW n \in Nat, n \in Small PROVE n + 1 \in Small
  <2>1. n + 1 >= 10 => (n + 1) \div 10 \in 0..n
    BY Division
  <2>2. Decimal[n + 1] \in X
    BY <1>9, <1>11, <2>1
  <2>3. \A i \in 0..n + 1 : i \in 0..n \/ i = n + 1
    OBVIOUS
  <2> QED BY <1>11, <2>2, <2>3
<1> HIDE DEF Small
<1>12. \A n \in Nat : n \in Small
  BY <1>10, <1>11, Induct
<1>13. \A n \in Nat : Decimal[n] \in X
  <2> TAKE n \in Nat
  <2>1. n \in Small /\ n \in 0..n
    BY <1>12
  <2> QED BY <2>1 DEF Small
<1>14. Decimal = [n \in Nat |-> Decimal[n]]
  <2> HIDE DEF X, F
  <2> QED BY <1>7
<1> QED BY <1>8, <1>13, <1>14

LEMMA LastEqual ==
  ASSUME NEW S, NEW s \in Seq(S), NEW t \in Seq(S), NEW x \in S, NEW y \in S,
         s \o <<x>> = t \o <<y>>
  PROVE  s = t /\ x = y
<1>1. <<x>> \in Seq(S) /\ <<y>> \in Seq(S) /\ Len(<<x>>) = 1 /\ Len(<<y>>) = 1
  OBVIOUS
<1>2. \A u, v \in Seq(S) : Len(u) = 1 /\ Len(v) = 1 /\ s \o u = t \o v => s = t /\ u = v
  <2> TAKE u, v \in Seq(S)
  <2> HAVE Len(u) = 1 /\ Len(v) = 1 /\ s \o u = t \o v
  <2>1. Len(s \o u) = Len(s) + Len(u)
    <3>1. s \in Seq(S) /\ u \in Seq(S)
      OBVIOUS
    <3> QED BY ONLY <3>1, ConcatElements
  <2>2. Len(t \o v) = Len(t) + Len(v)
    <3>1. t \in Seq(S) /\ v \in Seq(S)
      OBVIOUS
    <3> QED BY ONLY <3>1, ConcatElements
  <2>3. Len(s) \in Nat /\ Len(t) \in Nat
    BY Elements
  <2>4. Len(s) = Len(t)
    BY <2>1, <2>2, <2>3
  <2> QED BY <2>4, ConcatCancels
<1>3. s = t /\ <<x>> = <<y>>
  BY <1>1, <1>2
<1> QED BY <1>3

LEMMA DecimalNonEmpty ==
  ASSUME NEW n \in Nat
  PROVE  /\ Decimal[n] \in Seq(WordChar) /\ Len(Decimal[n]) # 0
         /\ "_" \notin ToSet(Decimal[n])
<1> DEFINE Fine(l) == Len(Decimal[l]) # 0 /\ "_" \notin ToSet(Decimal[l])
           Free == {k \in Nat : \A i \in 0..k : Fine(i)}
<1>1. ASSUME NEW m \in Nat, ~ (m < 10) => Fine(m \div 10)
      PROVE  Fine(m)
  <2> DEFINE front == IF m < 10 THEN <<>> ELSE Decimal[m \div 10]
             last == <<DigitOf(m % 10)>>
  <2>1. m \div 10 \in Nat /\ DigitOf(m % 10) \in WordChar /\ DigitOf(m % 10) # "_"
    BY Digits, Division
  <2>2. Decimal[m] = front \o last
    BY DecimalExists DEF Word10
  <2>3. front \in Seq(WordChar) /\ "_" \notin ToSet(front)
    <3>1. CASE m < 10
      BY <3>1, EmptySeq DEF ToSet
    <3>2. CASE ~ (m < 10)
      BY <1>1, <2>1, <3>2, DecimalExists
    <3> QED BY <3>1, <3>2
  <2>4. last \in Seq(WordChar) /\ Len(last) = 1 /\ ToSet(last) = {DigitOf(m % 10)}
    <3> HIDE DEF DigitOf
    <3> QED BY <2>1, Single
  <2> HIDE DEF front, last
  <2>5. /\ ToSet(front \o last) = ToSet(front) \cup ToSet(last)
        /\ Len(front \o last) = Len(front) + Len(last)
        /\ Len(front) \in Nat
    <3>1. front \in Seq(WordChar) /\ last \in Seq(WordChar)
      BY <2>3, <2>4
    <3> QED BY ONLY <3>1, ConcatElements, Elements
  <2>6. "_" \notin ToSet(Decimal[m])
    BY <2>1, <2>2, <2>3, <2>4, <2>5
  <2>7. Len(Decimal[m]) # 0
    BY <2>2, <2>4, <2>5
  <2> QED BY <2>6, <2>7
<1> HIDE DEF Fine
<1>2. 0 \in Free
  <2>1. Fine(0)
    BY <1>1
  <2> QED BY <2>1
<1>3. ASSUME NEW k \in Nat, k \in Free PROVE k + 1 \in Free
  <2>1. ~ (k + 1 < 10) => (k + 1) \div 10 \in 0..k
    BY Division
  <2>2. \A i \in 0..k + 1 : i \in 0..k \/ i = k + 1
    OBVIOUS
  <2>3. ~ (k + 1 < 10) => Fine((k + 1) \div 10)
    BY <1>3, <2>1
  <2>4. Fine(k + 1)
    BY <1>1, <2>3
  <2> QED BY <1>3, <2>2, <2>4
<1> HIDE DEF Free
<1>4. n \in Free /\ n \in 0..n
  BY <1>2, <1>3, Induct
<1>5. Fine(n)
  BY <1>4 DEF Free
<1> QED BY <1>5, DecimalExists DEF Fine

\* Two numbers are not written alike.
LEMMA DecimalInjective ==
  ASSUME NEW m \in Nat, NEW n \in Nat, Decimal[m] = Decimal[n]
  PROVE  m = n
<1> DEFINE Apart == {k \in Nat : \A i, j \in 0..k : Decimal[i] = Decimal[j] => i = j}
<1>1. ASSUME NEW i \in Nat, NEW j \in Nat, Decimal[i] = Decimal[j]
      PROVE  /\ i % 10 = j % 10
             /\ i < 10 <=> j < 10
             /\ ~ (i < 10) => Decimal[i \div 10] = Decimal[j \div 10]
  <2> DEFINE Leading(l) == IF l < 10 THEN <<>> ELSE Decimal[l \div 10]
             Final(l) == DigitOf(l % 10)
  <2>1. \A l \in Nat : /\ Decimal[l] = Leading(l) \o <<Final(l)>>
                       /\ Leading(l) \in Seq(WordChar) /\ Final(l) \in WordChar
                       /\ Len(Leading(l)) = 0 <=> l < 10
    <3> TAKE l \in Nat
    <3>1. l \div 10 \in Nat /\ Final(l) \in WordChar
      BY Digits, Division
    <3>2. Decimal[l] = Leading(l) \o <<Final(l)>>
      BY DecimalExists DEF Word10
    <3>3. /\ Decimal[l \div 10] \in Seq(WordChar) /\ Len(Decimal[l \div 10]) # 0
          /\ <<>> \in Seq(WordChar) /\ Len(<<>>) = 0
      <4>1. <<>> \in Seq(WordChar) /\ Len(<<>>) = 0
        BY EmptySeq
      <4> QED BY <3>1, <4>1, DecimalNonEmpty
    <3> HIDE DEF Final
    <3> QED BY <3>1, <3>2, <3>3
  <2> HIDE DEF Leading, Final
  <2>2. Leading(i) = Leading(j) /\ Final(i) = Final(j)
    <3> DEFINE Ended(s, x) == s \o <<x>>
    <3>1. /\ Leading(i) \in Seq(WordChar) /\ Leading(j) \in Seq(WordChar)
          /\ Final(i) \in WordChar /\ Final(j) \in WordChar
          /\ Ended(Leading(i), Final(i)) = Ended(Leading(j), Final(j))
      BY <1>1, <2>1
    <3>2. \A s, t \in Seq(WordChar), x, y \in WordChar :
            Ended(s, x) = Ended(t, y) => s = t /\ x = y
      BY LastEqual
    <3> HIDE DEF Ended
    <3> QED BY ONLY <3>1, <3>2
  <2>3. i % 10 = j % 10
    BY <2>2, Digits, Division DEF Final
  <2>4. i < 10 <=> j < 10
    BY <2>1, <2>2
  <2> QED BY <2>2, <2>3, <2>4 DEF Leading
<1>2. 0 \in Apart
  OBVIOUS
<1>3. ASSUME NEW k \in Nat, k \in Apart PROVE k + 1 \in Apart
  <2>1. ASSUME NEW i \in 0..k + 1, NEW j \in 0..k + 1, Decimal[i] = Decimal[j]
        PROVE  i = j
    <3>1. i \in Nat /\ j \in Nat
      OBVIOUS
    <3>2. /\ i % 10 = j % 10
          /\ i < 10 <=> j < 10
          /\ ~ (i < 10) => Decimal[i \div 10] = Decimal[j \div 10]
      BY <1>1, <2>1, <3>1
    <3>3. CASE i < 10
      BY <3>1, <3>2, <3>3, Division
    <3>4. CASE ~ (i < 10)
      <4>1. i >= 10 /\ j >= 10
        BY <3>1, <3>2, <3>4
      <4>2. i \div 10 \in 0..k /\ j \div 10 \in 0..k
        BY <3>1, <4>1, Division
      <4>3. i \div 10 = j \div 10
        BY <1>3, <3>2, <3>4, <4>2
      <4>4. /\ i = 10 * (i \div 10) + (i % 10)
            /\ j = 10 * (j \div 10) + (j % 10)
        BY <3>1, Division
      <4> QED BY ONLY <3>2, <4>3, <4>4
    <3> QED BY <3>3, <3>4
  <2> QED BY <2>1
<1> HIDE DEF Apart
<1>4. \A k \in Nat : k \in Apart
  BY <1>2, <1>3, Induct
<1>5. CASE m <= n
  <2>1. n \in Apart /\ m \in 0..n /\ n \in 0..n
    BY <1>4, <1>5
  <2> QED BY <2>1 DEF Apart
<1>6. CASE n <= m
  <2>1. m \in Apart /\ m \in 0..m /\ n \in 0..m
    BY <1>4, <1>6
  <2> QED BY <2>1 DEF Apart
<1> QED BY <1>5, <1>6

-----------------------------------------------------------------------------
(* The identity of the deferred context. *)

LEMMA ComponentIsSeq ==
  ASSUME NEW text \in Seq(STRING), Component(text)
  PROVE  text \in Seq(WordChar)
<1>1. /\ Len(text) \in Nat /\ text \in [1..Len(text) -> STRING]
      /\ \A i \in 1..Len(text) : text[i] \in ToSet(text)
  BY Elements, LenProperties
<1>2. text \in [1..Len(text) -> WordChar]
  BY <1>1 DEF Component
<1> QED BY <1>1, <1>2, ListIsSeq

Texts(h, l, u, d, x, c) ==
  /\ h \in Seq(WordChar) /\ l \in Seq(WordChar) /\ u \in Seq(WordChar)
  /\ d \in Seq(WordChar) /\ x \in Seq(WordChar) /\ c \in Seq(WordChar)

Regrouped(h, l, u, d, x, c) ==
  Cat(Cat(Cat(Cat(Cat(h, l), u), d), x), c) = Cat(h, Cat(l, Cat(u, Cat(Cat(d, x), c))))

LEMMA Regroup ==
  ASSUME NEW h, NEW l, NEW u, NEW d, NEW x, NEW c, Texts(h, l, u, d, x, c)
  PROVE  Regrouped(h, l, u, d, x, c)
<1>1. \A p, q \in Seq(WordChar) : Cat(p, q) \in Seq(WordChar)
  BY ConcatProperties DEF Cat
<1>2. \A p, q, r \in Seq(WordChar) : Cat(Cat(p, q), r) = Cat(p, Cat(q, r))
  BY CatAssociates
<1>3. /\ h \in Seq(WordChar) /\ l \in Seq(WordChar) /\ u \in Seq(WordChar)
      /\ d \in Seq(WordChar) /\ x \in Seq(WordChar) /\ c \in Seq(WordChar)
  BY DEF Texts
<1>4. /\ Cat(l, u) \in Seq(WordChar) /\ Cat(Cat(l, u), d) \in Seq(WordChar)
      /\ Cat(Cat(Cat(l, u), d), x) \in Seq(WordChar)
      /\ Cat(u, d) \in Seq(WordChar) /\ Cat(Cat(u, d), x) \in Seq(WordChar) /\ Cat(d, x) \in Seq(WordChar)
  BY ONLY <1>1, <1>3
<1>5. Cat(Cat(Cat(Cat(Cat(h, l), u), d), x), c) = Cat(h, Cat(Cat(Cat(Cat(l, u), d), x), c))
  BY ONLY <1>2, <1>3, <1>4
<1>6. Cat(Cat(Cat(Cat(l, u), d), x), c) = Cat(l, Cat(Cat(Cat(u, d), x), c))
  BY ONLY <1>2, <1>3, <1>4
<1>7. Cat(Cat(Cat(u, d), x), c) = Cat(u, Cat(Cat(d, x), c))
  BY ONLY <1>2, <1>3, <1>4
<1> QED BY ONLY <1>5, <1>6, <1>7 DEF Regrouped

LEMMA Terminated ==
  ASSUME NEW x \in Seq(WordChar), NEW t \in Seq(WordChar)
  PROVE  /\ x \o <<"_">> \in Seq(WordChar) /\ Len(x \o <<"_">>) = Len(x) + 1
         /\ \A i \in 1..Len(x) : ((x \o <<"_">>) \o t)[i] = x[i]
         /\ ((x \o <<"_">>) \o t)[Len(x) + 1] = "_"
<1> DEFINE n == Len(x)
<1>1. ASSUME NEW one \in Seq(WordChar), Len(one) = 1, one[1] = "_"
      PROVE  /\ x \o one \in Seq(WordChar) /\ Len(x \o one) = n + 1
             /\ \A i \in 1..n : ((x \o one) \o t)[i] = x[i]
             /\ ((x \o one) \o t)[n + 1] = "_"
  <2> DEFINE xu == x \o one
  <2>1. /\ xu \in Seq(WordChar) /\ Len(xu) = Len(x) + Len(one)
        /\ \A i \in 1..Len(x) : xu[i] = x[i]
        /\ \A i \in 1..Len(one) : xu[Len(x) + i] = one[i]
    BY ConcatElements
  <2>2. n \in Nat /\ 1 \in 1..1
    BY Elements
  <2> HIDE DEF n, xu
  <2>3. Len(xu) = n + 1 /\ (\A i \in 1..n : xu[i] = x[i]) /\ xu[n + 1] = "_"
    BY ONLY <1>1, <2>1, <2>2 DEF n
  <2>4. \A i \in 1..Len(xu) : (xu \o t)[i] = xu[i]
    <3>1. xu \in Seq(WordChar) /\ t \in Seq(WordChar)
      BY <2>1
    <3> QED BY ONLY <3>1, ConcatElements
  <2>5. n + 1 \in 1..n + 1 /\ \A i \in 1..n : i \in 1..n + 1
    BY ONLY <2>2
  <2> QED BY ONLY <2>1, <2>3, <2>4, <2>5 DEF xu
<1>2. <<"_">> \in Seq(WordChar) /\ Len(<<"_">>) = 1 /\ <<"_">>[1] = "_"
  <2>1. "_" \in WordChar
    BY BindingPlanAssumption
  <2> QED BY <2>1, Single
<1> QED BY <1>1, <1>2

\* A text without an underscore ends at the first one.
LEMMA TerminatedEqual ==
  ASSUME NEW d \in Seq(WordChar), NEW e \in Seq(WordChar), NEW r \in Seq(WordChar), NEW q \in Seq(WordChar),
         "_" \notin ToSet(d), "_" \notin ToSet(e),
         (d \o <<"_">>) \o r = (e \o <<"_">>) \o q
  PROVE  d = e /\ r = q
<1> DEFINE z == (d \o <<"_">>) \o r
<1>1. /\ \A i \in 1..Len(d) : z[i] = d[i]
      /\ z[Len(d) + 1] = "_"
      /\ d \o <<"_">> \in Seq(WordChar) /\ Len(d \o <<"_">>) = Len(d) + 1
  BY Terminated
<1>2. /\ \A i \in 1..Len(e) : z[i] = e[i]
      /\ z[Len(e) + 1] = "_"
      /\ e \o <<"_">> \in Seq(WordChar) /\ Len(e \o <<"_">>) = Len(e) + 1
  <2>1. z = (e \o <<"_">>) \o q
    OBVIOUS
  <2> HIDE DEF z
  <2> QED BY <2>1, Terminated
<1>3. /\ Len(d) \in Nat /\ \A i \in 1..Len(d) : d[i] # "_"
      /\ Len(e) \in Nat /\ \A i \in 1..Len(e) : e[i] # "_"
  <2>1. /\ Len(d) \in Nat /\ \A i \in 1..Len(d) : d[i] \in ToSet(d)
        /\ Len(e) \in Nat /\ \A i \in 1..Len(e) : e[i] \in ToSet(e)
    BY Elements
  <2> QED BY <2>1
<1> HIDE DEF z
<1>4. Len(d) \in Nat /\ Len(e) \in Nat
  BY <1>3
<1>5. ~ (Len(d) < Len(e))
  <2>1. ASSUME Len(d) < Len(e) PROVE FALSE
    <3>1. Len(d) + 1 \in 1..Len(e)
      BY ONLY <1>4, <2>1
    <3> QED BY ONLY <1>1, <1>2, <1>3, <3>1
  <2> QED BY <2>1
<1>6. ~ (Len(e) < Len(d))
  <2>1. ASSUME Len(e) < Len(d) PROVE FALSE
    <3>1. Len(e) + 1 \in 1..Len(d)
      BY ONLY <1>4, <2>1
    <3> QED BY ONLY <1>1, <1>2, <1>3, <3>1
  <2> QED BY <2>1
<1>7. Len(d) = Len(e)
  BY ONLY <1>4, <1>5, <1>6
<1>8. d \o <<"_">> = e \o <<"_">> /\ r = q
  <2> DEFINE du == d \o <<"_">>
             eu == e \o <<"_">>
  <2>1. /\ du \in Seq(WordChar) /\ eu \in Seq(WordChar) /\ Len(du) = Len(eu)
        /\ r \in Seq(WordChar) /\ q \in Seq(WordChar) /\ du \o r = eu \o q
    BY <1>1, <1>2, <1>7
  <2> HIDE DEF du, eu
  <2>2. du = eu /\ r = q
    BY ONLY <2>1, ConcatCancels
  <2> QED BY <2>2 DEF du, eu
<1>9. d = e
  <2>1. "_" \in WordChar
    BY BindingPlanAssumption
  <2>2. d \in Seq(WordChar) /\ e \in Seq(WordChar)
    OBVIOUS
  <2> QED BY ONLY <1>8, <2>1, <2>2, LastEqual
<1> QED BY <1>8, <1>9

\* The part up to the lock, and the part after the lock.
Start(n) == (<<"l">> \o Decimal[n]) \o <<"_">>
Rest(context) == <<"_", "c">> \o ((Decimal[Len(context)] \o <<"_">>) \o context)

LEMMA IdentityParts ==
  ASSUME NEW b, b.lock \in Seq(WordChar), b.context \in Seq(WordChar)
  PROVE  /\ PolicyIdentity(b) = Start(Len(b.lock)) \o (b.lock \o Rest(b.context))
         /\ Len(b.lock) \in Nat /\ Len(b.context) \in Nat
         /\ Start(Len(b.lock)) \in Seq(WordChar) /\ Len(Start(Len(b.lock))) \in Nat \ {0}
         /\ <<"l">> \o Decimal[Len(b.lock)] \in Seq(WordChar)
         /\ "_" \notin ToSet(<<"l">> \o Decimal[Len(b.lock)])
         /\ Decimal[Len(b.context)] \o <<"_">> \in Seq(WordChar)
         /\ (Decimal[Len(b.context)] \o <<"_">>) \o b.context \in Seq(WordChar)
         /\ Rest(b.context) \in Seq(WordChar)
         /\ PolicyIdentity(b) \in Seq(WordChar) /\ PolicyIdentity(b) # <<>>
<1> DEFINE n == Len(b.lock)
           m == Len(b.context)
           d == Decimal[n]
           e == Decimal[m]
<1>1. n \in Nat /\ m \in Nat
  BY Elements
<1> HIDE DEF n, m
<1>2. /\ d \in Seq(WordChar) /\ "_" \notin ToSet(d)
      /\ e \in Seq(WordChar) /\ "_" \notin ToSet(e)
  BY <1>1, DecimalNonEmpty
<1>3. /\ "l" \in WordChar /\ "c" \in WordChar /\ "_" \in WordChar
      /\ <<"l">> \in Seq(WordChar) /\ <<"_">> \in Seq(WordChar) /\ <<"_", "c">> \in Seq(WordChar)
      /\ Len(<<"l">>) = 1 /\ Len(<<"_">>) = 1 /\ ToSet(<<"l">>) = {"l"}
  <2>1. "l" \in WordChar /\ "c" \in WordChar /\ "_" \in WordChar
    BY BindingPlanAssumption
  <2>2. <<"_", "c">> \in Seq(WordChar)
    BY <2>1, Pair
  <2> QED BY <2>1, <2>2, Single
<1> HIDE DEF d, e
<1>4. \A s, t \in Seq(WordChar) :
        /\ s \o t \in Seq(WordChar)
        /\ ToSet(s \o t) = ToSet(s) \cup ToSet(t)
        /\ Len(s \o t) = Len(s) + Len(t)
        /\ Len(s) \in Nat /\ Len(t) \in Nat
  BY ConcatElements, Elements
<1> DEFINE L == <<"l">>
           U == <<"_">>
           C == <<"_", "c">>
           ld == L \o d
           h == ld \o U
           eu == e \o U
           x == eu \o b.context
           r == C \o x
           y == b.lock \o r
           id == h \o y
<1>5. /\ L \in Seq(WordChar) /\ U \in Seq(WordChar) /\ C \in Seq(WordChar)
      /\ Len(L) = 1 /\ ToSet(L) = {"l"} /\ "_" \notin {"l"}
  BY <1>3
<1>6. PolicyIdentity(b) = ((((h \o b.lock) \o C) \o e) \o U) \o b.context
  BY DEF PolicyIdentity, n, m, d, e
<1> HIDE DEF L, U, C
<1>7. ld \in Seq(WordChar) /\ "_" \notin ToSet(ld) /\ Len(ld) \in Nat \ {0}
  <2>1. L \in Seq(WordChar) /\ d \in Seq(WordChar)
    BY <1>2, <1>5
  <2>2. /\ ld \in Seq(WordChar) /\ ToSet(ld) = ToSet(L) \cup ToSet(d)
        /\ Len(ld) = Len(L) + Len(d) /\ Len(d) \in Nat
    BY ONLY <2>1, ConcatElements, Elements
  <2> HIDE DEF ld
  <2>3. "_" \notin ToSet(ld)
    BY ONLY <1>2, <1>5, <2>2
  <2>4. Len(L) = 1 /\ Len(d) \in Nat /\ Len(ld) = Len(L) + Len(d)
    BY <1>5, <2>2
  <2>5. Len(ld) \in Nat \ {0}
    BY ONLY <2>4
  <2> QED BY <2>2, <2>3, <2>5
<1> HIDE DEF ld
<1>8. h \in Seq(WordChar) /\ Len(h) \in Nat \ {0}
  <2>1. ld \in Seq(WordChar) /\ U \in Seq(WordChar)
    BY <1>5, <1>7
  <2>2. h \in Seq(WordChar) /\ Len(h) = Len(ld) + Len(U) /\ Len(U) \in Nat
    BY ONLY <2>1, ConcatElements, Elements
  <2> HIDE DEF h
  <2>3. Len(ld) \in Nat \ {0} /\ Len(U) \in Nat /\ Len(h) = Len(ld) + Len(U)
    BY <1>7, <2>2
  <2>4. Len(h) \in Nat \ {0}
    BY ONLY <2>3
  <2> QED BY <2>2, <2>4
<1>9. eu \in Seq(WordChar)
  BY ONLY <1>2, <1>4, <1>5
<1> HIDE DEF h, eu
<1>10. x \in Seq(WordChar)
  <2>1. b.context \in Seq(WordChar)
    OBVIOUS
  <2> QED BY ONLY <1>4, <1>9, <2>1
<1> HIDE DEF x
<1>11. r \in Seq(WordChar)
  BY ONLY <1>4, <1>5, <1>10
<1> HIDE DEF r
<1>12. b.lock \in Seq(WordChar) /\ y \in Seq(WordChar)
  <2>1. b.lock \in Seq(WordChar)
    OBVIOUS
  <2> QED BY ONLY <1>4, <1>11, <2>1
<1> HIDE DEF y
<1>13. id \in Seq(WordChar) /\ Len(id) # 0
  <2>1. id \in Seq(WordChar) /\ Len(id) = Len(h) + Len(y) /\ Len(y) \in Nat
    BY ONLY <1>4, <1>8, <1>12
  <2> QED BY ONLY <1>8, <2>1
<1> HIDE DEF id
<1>14. PolicyIdentity(b) = id
  <2>1. b.context \in Seq(WordChar)
    OBVIOUS
  <2>2. ((((h \o b.lock) \o C) \o e) \o U) \o b.context
          = h \o (b.lock \o (C \o ((e \o U) \o b.context)))
    <3>1. Texts(h, b.lock, C, e, U, b.context)
      <4>1. e \in Seq(WordChar)
        BY ONLY <1>2
      <4>2. U \in Seq(WordChar) /\ C \in Seq(WordChar)
        BY ONLY <1>5
      <4>3. h \in Seq(WordChar)
        BY ONLY <1>8
      <4>4. b.lock \in Seq(WordChar)
        BY ONLY <1>12
      <4> QED BY <2>1, <4>1, <4>2, <4>3, <4>4, Zenon DEF Texts
    <3>2. Regrouped(h, b.lock, C, e, U, b.context)
      BY ONLY <3>1, Regroup, Zenon
    <3> QED BY ONLY <3>2 DEF Regrouped, Cat
  <2> QED BY <1>6, <2>2 DEF id, y, r, x, eu
<1>15. id # <<>>
  <2>1. Len(<<>>) = 0
    OBVIOUS
  <2> QED BY ONLY <1>13, <2>1
<1>16. /\ Start(n) = h /\ Rest(b.context) = r
       /\ eu = Decimal[Len(b.context)] \o <<"_">>
       /\ x = (Decimal[Len(b.context)] \o <<"_">>) \o b.context
       /\ ld = <<"l">> \o Decimal[n]
       /\ id = h \o (b.lock \o r)
  BY DEF Start, Rest, id, y, r, x, h, eu, ld, d, e, L, U, C, m
<1> QED BY <1>1, <1>7, <1>8, <1>9, <1>10, <1>11, <1>13, <1>14, <1>15, <1>16 DEF n, m

\* Two policies with one identity have the same lock and the same context.
LEMMA IdentityInjective ==
  ASSUME NEW a, a.lock \in Seq(WordChar), a.context \in Seq(WordChar),
         NEW b, b.lock \in Seq(WordChar), b.context \in Seq(WordChar),
         PolicyIdentity(a) = PolicyIdentity(b)
  PROVE  a.lock = b.lock /\ a.context = b.context
<1> DEFINE Ld(x) == <<"l">> \o Decimal[Len(x.lock)]
           After(x) == x.lock \o Rest(x.context)
           Tail2(x) == (Decimal[Len(x.context)] \o <<"_">>) \o x.context
           Typed(x) ==
             /\ PolicyIdentity(x) = (Ld(x) \o <<"_">>) \o After(x)
             /\ Len(x.lock) \in Nat /\ Len(x.context) \in Nat
             /\ Ld(x) \in Seq(WordChar) /\ "_" \notin ToSet(Ld(x))
             /\ Decimal[Len(x.lock)] \in Seq(WordChar)
             /\ Decimal[Len(x.context)] \in Seq(WordChar)
             /\ "_" \notin ToSet(Decimal[Len(x.context)])
             /\ Tail2(x) \in Seq(WordChar) /\ Rest(x.context) \in Seq(WordChar)
             /\ After(x) \in Seq(WordChar)
<1>1. ASSUME NEW x, x.lock \in Seq(WordChar), x.context \in Seq(WordChar)
      PROVE  Typed(x)
  <2>1. /\ PolicyIdentity(x) = (Ld(x) \o <<"_">>) \o After(x)
        /\ Len(x.lock) \in Nat /\ Len(x.context) \in Nat
        /\ Ld(x) \in Seq(WordChar) /\ "_" \notin ToSet(Ld(x))
        /\ Tail2(x) \in Seq(WordChar) /\ Rest(x.context) \in Seq(WordChar)
    BY <1>1, IdentityParts DEF Start
  <2>2. /\ Decimal[Len(x.lock)] \in Seq(WordChar)
        /\ Decimal[Len(x.context)] \in Seq(WordChar)
        /\ "_" \notin ToSet(Decimal[Len(x.context)])
    BY <2>1, DecimalNonEmpty
  <2>3. After(x) \in Seq(WordChar)
    <3>1. x.lock \in Seq(WordChar) /\ Rest(x.context) \in Seq(WordChar)
      BY <1>1, <2>1
    <3> QED BY ONLY <3>1, ConcatElements
  <2> HIDE DEF After, Ld, Tail2
  <2> QED BY <2>1, <2>2, <2>3
<1>2. Typed(a) /\ Typed(b)
  BY <1>1
<1>3. Ld(a) = Ld(b) /\ After(a) = After(b)
  <2>1. (Ld(a) \o <<"_">>) \o After(a) = (Ld(b) \o <<"_">>) \o After(b)
    <3> HIDE DEF Ld, After, Tail2
    <3> QED BY <1>2
  <2> HIDE DEF Ld, After, Tail2
  <2> QED BY ONLY <1>2, <2>1, TerminatedEqual
<1>4. Decimal[Len(a.lock)] = Decimal[Len(b.lock)]
  <2>1. <<"l">> \in Seq(WordChar)
    BY BindingPlanAssumption, Single
  <2> DEFINE l == <<"l">>
  <2>2. /\ l \in Seq(WordChar)
        /\ l \o Decimal[Len(a.lock)] = l \o Decimal[Len(b.lock)]
        /\ Decimal[Len(a.lock)] \in Seq(WordChar) /\ Decimal[Len(b.lock)] \in Seq(WordChar)
    BY <1>2, <1>3, <2>1
  <2> HIDE DEF l
  <2> QED BY ONLY <2>2, PrefixCancels
<1>5. Len(a.lock) = Len(b.lock)
  <2> HIDE DEF Ld, After, Tail2
  <2> QED BY <1>2, <1>4, DecimalInjective
<1>6. a.lock = b.lock /\ Rest(a.context) = Rest(b.context)
  <2>1. /\ a.lock \in Seq(WordChar) /\ b.lock \in Seq(WordChar)
        /\ Rest(a.context) \in Seq(WordChar) /\ Rest(b.context) \in Seq(WordChar)
        /\ a.lock \o Rest(a.context) = b.lock \o Rest(b.context)
    BY <1>2, <1>3
  <2> QED BY ONLY <1>5, <2>1, ConcatCancels
<1>7. Tail2(a) = Tail2(b)
  <2> DEFINE c == <<"_", "c">>
  <2>1. c \in Seq(WordChar)
    BY BindingPlanAssumption, Pair
  <2>2. /\ c \in Seq(WordChar)
        /\ c \o Tail2(a) = c \o Tail2(b)
        /\ Tail2(a) \in Seq(WordChar) /\ Tail2(b) \in Seq(WordChar)
    BY <1>2, <1>6, <2>1 DEF Rest
  <2> HIDE DEF c, Tail2
  <2> QED BY ONLY <2>2, PrefixCancels
<1>8. a.context = b.context
  <2>1. /\ Decimal[Len(a.context)] \in Seq(WordChar) /\ Decimal[Len(b.context)] \in Seq(WordChar)
        /\ "_" \notin ToSet(Decimal[Len(a.context)]) /\ "_" \notin ToSet(Decimal[Len(b.context)])
        /\ a.context \in Seq(WordChar) /\ b.context \in Seq(WordChar)
        /\ (Decimal[Len(a.context)] \o <<"_">>) \o a.context
             = (Decimal[Len(b.context)] \o <<"_">>) \o b.context
    BY <1>2, <1>7
  <2> QED BY ONLY <2>1, TerminatedEqual
<1> QED BY <1>6, <1>8

LEMMA ContextVerdict ==
  ASSUME Declared, GoodCatalog, NEW visible, Sees(visible), NEW b \in Board
  PROVE  ContextError(DemandData(visible), b) = "none" <=> GoodContext(b)
<1> DEFINE demands == DemandData(visible)
           outside == b.capacity \notin 1..2048
           long == Len(PolicyIdentity(b)) > MaxPolicy
           a1 == Check(~b.available, "GREVIR_EVENT_CONTEXT_UNAVAILABLE")
           a2 == Check(outside, "GREVIR_EVENT_CAPACITY_OUT_OF_RANGE")
           a3 == Check(~Component(b.lock) \/ ~Component(b.context),
                       "GREVIR_EVENT_POLICY_COMPONENT_INVALID")
           a4 == Check(long, "GREVIR_EVENT_POLICY_ID_TOO_LONG")
<1>1. "none" \notin {a1.error, a2.error, a3.error, a4.error}
  BY DEF Check
<1>2. /\ a1.fails <=> ~b.available
      /\ a2.fails <=> outside
      /\ a3.fails <=> ~Component(b.lock) \/ ~Component(b.context)
      /\ a4.fails <=> long
  <2> HIDE DEF long, outside
  <2>1. a1.fails <=> ~b.available
    BY DEF Check
  <2>2. a2.fails <=> outside
    BY DEF Check
  <2>3. a3.fails <=> ~Component(b.lock) \/ ~Component(b.context)
    BY DEF Check
  <2>4. a4.fails <=> long
    BY DEF Check
  <2> QED BY <2>1, <2>2, <2>3, <2>4
<1>3. ContextError(demands, b) = IF ~Deferred(demands) THEN "none" ELSE FirstFailure(<<a1, a2, a3, a4>>)
  BY DEF ContextError
<1> HIDE DEF a1, a2, a3, a4
<1>4. FirstFailure(<<a1, a2, a3, a4>>) = "none" <=> ~a1.fails /\ ~a2.fails /\ ~a3.fails /\ ~a4.fails
  BY <1>1, FirstOfFour
<1>5. Deferred(demands) <=> \E e \in Handled : InMainLoop(e)
  BY SummaryIsLive
<1> HIDE DEF demands
<1>6. b.lock \in Seq(STRING) /\ b.context \in Seq(STRING) /\ MaxPolicy \in Nat
  BY BindingPlanAssumption
<1>7. Component(b.lock) /\ Component(b.context) => Len(PolicyIdentity(b)) \in Nat
  BY <1>6, ComponentIsSeq, IdentityParts, Elements
<1>8. Component(b.lock) /\ Component(b.context) =>
        (~long <=> Len(PolicyIdentity(b)) <= MaxPolicy)
  BY <1>6, <1>7
<1> HIDE DEF long, outside
<1>9. ContextError(demands, b) = "none" <=>
        (Deferred(demands) =>
           b.available /\ ~outside /\ Component(b.lock) /\ Component(b.context) /\ ~long)
  BY <1>2, <1>3, <1>4
<1> QED BY <1>5, <1>8, <1>9 DEF GoodContext, demands, outside

-----------------------------------------------------------------------------
(* The inductive invariant. *)

\* A demand summary that has a row for each event with a handler.
Summary(r) ==
  /\ r \in Seq(Rows)
  /\ Increasing(Keys(r))
  /\ ToSet(r) = {LiveRow(e) : e \in Handled}

\* r is what the record holds for the bindings b.
Written(r, b) == r = [i \in DOMAIN b |-> [b[i] EXCEPT !.order = Word(@)]]

\* What the compiler has read is right, and the record is about it.
Fresh ==
  /\ GoodCatalog
  /\ GoodProblem(problem)
  /\ Valid(plan)
  /\ GoodContext(board) /\ Encodable /\ probed = board
  /\ Summary(record.demands)
  /\ Written(record.bindings, plan.bindings)

\* What the record is, however the application is edited.
Recorded ==
  /\ record.demands \in Seq(Rows)
  /\ \A i \in DOMAIN record.bindings : record.bindings[i].order < WordModulus
  /\ probed \in Board
  /\ record.header = probed.header
  /\ record.capacity = ContextCapacity(record.demands, probed)
  /\ record.policy = ContextPolicy(record.demands, probed)
  /\ Deferred(record.demands) => Component(probed.lock) /\ Component(probed.context)

ReadSoFar ==
  CASE stage = "catalog" -> problem = NoProblem /\ plan = NoPlan /\ board = NoBoard
    [] stage = "problem" -> GoodCatalog /\ problem = NoProblem /\ plan = NoPlan /\ board = NoBoard
    [] stage = "plan" ->
         /\ GoodCatalog /\ Stated(problem) /\ GoodProblem(problem)
         /\ plan = NoPlan /\ board = NoBoard
    [] stage = "context" ->
         /\ GoodCatalog /\ Stated(problem) /\ GoodProblem(problem)
         /\ Selected(plan) /\ Valid(plan) /\ board = NoBoard
    [] stage = "rejected" -> ~(GoodSoFar /\ Encodable)
    [] OTHER -> /\ Stated(problem) /\ Selected(plan) /\ board \in Board
                /\ edited \/ Fresh
                /\ Recorded

PlanInv ==
  /\ Declared
  /\ stage \in {"catalog", "problem", "plan", "context", "decode", "strict", "rejected",
                "bound", "stale", "undecodable", "misconfigured", "unsupported"}
  /\ edited \in BOOLEAN
  /\ edited => stage \in {"strict", "bound", "stale"}
  /\ ReadSoFar
  /\ DecoderAgrees
  /\ stage \in {"strict", "bound", "stale"} => Emitted(record)
  /\ BoundIsLive /\ TruncatedIsNotBound /\ FreshIsBound

-----------------------------------------------------------------------------
(* The generator accepts what the probe accepted, but for the names of the build. *)

LEMMA WordFits ==
  ASSUME NEW n \in Nat
  PROVE  /\ Word(n) \in 0..(WordModulus - 1) /\ Word(n) < WordModulus
         /\ n < WordModulus => Word(n) = n
<1>1. WordModulus \in Nat \ {0}
  BY BindingPlanAssumption
<1> QED BY <1>1 DEF Word

\* A binding in the record: all but the order is as it was selected.
LEMMA RecordedBinding ==
  ASSUME NEW b \in Binding
  PROVE  LET r == [b EXCEPT !.order = Word(@)]
         IN  /\ r.event = b.event /\ r.source = b.source /\ r.entry = b.entry
             /\ r.shared = b.shared /\ r.order = Word(b.order)
             /\ r.order \in 0..(WordModulus - 1) /\ r.order < WordModulus
             /\ b.order < WordModulus => r = b
             /\ r = b => b.order < WordModulus
<1> DEFINE r == [b EXCEPT !.order = Word(@)]
<1>1. /\ b = [event |-> b.event, source |-> b.source, entry |-> b.entry,
              shared |-> b.shared, order |-> b.order]
      /\ b.order \in Nat
  BY BindingPlanAssumption
<1>2. r = [event |-> b.event, source |-> b.source, entry |-> b.entry,
           shared |-> b.shared, order |-> Word(b.order)]
  BY <1>1
<1> HIDE DEF r
<1>3. /\ r.event = b.event /\ r.source = b.source /\ r.entry = b.entry
      /\ r.shared = b.shared /\ r.order = Word(b.order)
  BY <1>2
<1>4. Word(b.order) \in 0..(WordModulus - 1) /\ Word(b.order) < WordModulus
  BY <1>1, WordFits
<1>5. b.order < WordModulus => Word(b.order) = b.order
  BY <1>1, WordFits
<1>6. b.order < WordModulus => r = b
  BY <1>1, <1>2, <1>5
<1>7. r = b => b.order < WordModulus
  BY <1>3, <1>4
<1> QED BY <1>3, <1>4, <1>6, <1>7 DEF r

\* The bindings of the record beside those that were selected.
LEMMA RecordedBindings ==
  ASSUME NEW b \in Seq(Binding), NEW r, Written(r, b)
  PROVE  /\ DOMAIN b = 1..Len(b) /\ DOMAIN r = 1..Len(b) /\ Len(r) = Len(b) /\ Len(b) \in Nat
         /\ \A i \in 1..Len(b) :
              /\ r[i].event = b[i].event /\ r[i].source = b[i].source
              /\ r[i].entry = b[i].entry /\ r[i].shared = b[i].shared
              /\ r[i].order \in 0..(WordModulus - 1) /\ r[i].order < WordModulus
              /\ b[i].order < WordModulus <=> r[i] = b[i]
<1> DEFINE n == Len(b)
           Cut(x) == [x EXCEPT !.order = Word(@)]
<1>1. n \in Nat /\ DOMAIN b = 1..n /\ \A i \in 1..n : b[i] \in Binding
  BY Elements
<1> HIDE DEF n
<1>2. r = [i \in 1..n |-> Cut(b[i])]
  BY <1>1 DEF Written
<1> HIDE DEF Cut
<1>3. r \in [1..n -> {Cut(x) : x \in Binding}] /\ \A i \in 1..n : r[i] = Cut(b[i])
  BY <1>1, <1>2
<1>4. Len(r) = n /\ DOMAIN r = 1..n
  BY <1>1, <1>3, ListIsSeq
<1>5. \A x \in Binding :
        /\ Cut(x).event = x.event /\ Cut(x).source = x.source
        /\ Cut(x).entry = x.entry /\ Cut(x).shared = x.shared
        /\ Cut(x).order \in 0..(WordModulus - 1) /\ Cut(x).order < WordModulus
        /\ x.order < WordModulus <=> Cut(x) = x
  BY RecordedBinding DEF Cut
<1> QED BY <1>1, <1>3, <1>4, <1>5 DEF n

\* The keys of a valid plan are those of the summary, one by one.
LEMMA ValidFollowsSummary ==
  ASSUME Declared, NEW p, Selected(p), Valid(p), NEW r, Summary(r)
  PROVE  /\ Len(r) = Len(p.bindings)
         /\ \A i \in 1..Len(r) : p.bindings[i].event = r[i].key
         /\ ToSet(Keys(r)) = Handled
<1> DEFINE b == p.bindings
<1>1. b \in Seq(Binding)
  BY DEF Selected
<1>2. ToSet(Keys(r)) = Handled
  <2>1. ToSet(Keys(r)) = {x.key : x \in ToSet(r)}
    BY KeysOfRows DEF Summary
  <2>2. \A e : LiveRow(e).key = e
    BY DEF LiveRow
  <2> QED BY <2>1, <2>2 DEF Summary
<1>3. /\ Keys(r) \in Seq(Nat) /\ Len(Keys(r)) = Len(r) /\ Increasing(Keys(r))
      /\ \A i \in 1..Len(r) : Keys(r)[i] = r[i].key
  BY KeysOfRows DEF Summary
<1>4. Increasing(Events(b)) /\ {b[i].event : i \in DOMAIN b} = Handled
  BY DEF Valid, Events
<1> HIDE DEF b
<1>5. /\ Events(b) \in Seq(Nat) /\ Len(Events(b)) = Len(b)
      /\ \A i \in 1..Len(b) : Events(b)[i] = b[i].event
      /\ ToSet(Events(b)) = Handled
  BY <1>1, <1>4, EventsOfBindings
<1>6. Events(b) = Keys(r)
  <2>1. /\ Events(b) \in Seq(Nat) /\ Keys(r) \in Seq(Nat)
        /\ Increasing(Events(b)) /\ Increasing(Keys(r))
        /\ ToSet(Events(b)) = ToSet(Keys(r))
    BY <1>2, <1>3, <1>4, <1>5
  <2> QED BY ONLY <2>1, IncreasingIsUnique
<1> QED BY <1>2, <1>3, <1>5, <1>6 DEF b

LEMMA RecordDecodes ==
  ASSUME Declared, Selected(plan), board \in Board, Fresh, Recorded
  PROVE  ValidPlan(record) <=> Named(probed)
<1> DEFINE b == plan.bindings
           n == Len(b)
           r == record.demands
           s == record.bindings
<1>1. b \in Seq(Binding)
  BY DEF Selected
<1>2. r \in Seq(Rows) /\ Increasing(Keys(r)) /\ ToSet(r) = {LiveRow(e) : e \in Handled}
  BY DEF Fresh, Summary
<1>3. /\ DOMAIN b = 1..n /\ DOMAIN s = 1..n /\ Len(s) = n /\ n \in Nat
      /\ \A i \in 1..n :
           /\ s[i].event = b[i].event /\ s[i].source = b[i].source
           /\ s[i].entry = b[i].entry /\ s[i].shared = b[i].shared
           /\ s[i].order \in 0..(WordModulus - 1)
  <2>1. Written(s, b)
    BY DEF Fresh
  <2> HIDE DEF b, s
  <2>2. /\ DOMAIN b = 1..Len(b) /\ DOMAIN s = 1..Len(b) /\ Len(s) = Len(b) /\ Len(b) \in Nat
        /\ \A i \in 1..Len(b) :
             /\ s[i].event = b[i].event /\ s[i].source = b[i].source
             /\ s[i].entry = b[i].entry /\ s[i].shared = b[i].shared
             /\ s[i].order \in 0..(WordModulus - 1) /\ s[i].order < WordModulus
             /\ b[i].order < WordModulus <=> s[i] = b[i]
    BY ONLY <1>1, <2>1, RecordedBindings
  <2> QED BY <2>2
<1>4. /\ Len(r) = n /\ \A i \in 1..Len(r) : b[i].event = r[i].key
      /\ ToSet(Keys(r)) = Handled
  BY ValidFollowsSummary DEF Fresh
<1>5. DOMAIN r = 1..n
  BY <1>2, <1>4, Elements
<1>6. Valid(plan)
  BY DEF Fresh
<1>7. \A i \in 1..n : ~b[i].shared /\ {b[i].source, b[i].entry} \subseteq Name
  BY <1>3, <1>6 DEF Valid
<1>8. /\ Cardinality({b[i]["source"] : i \in DOMAIN b}) = n
      /\ Cardinality({b[i]["entry"] : i \in DOMAIN b}) = n
  BY <1>6 DEF Valid
<1>9. \A i \in 1..n : \A j \in 1..(i - 1) : b[j].source # b[i].source /\ b[j].entry # b[i].entry
  <2> HIDE DEF b
  <2>1. /\ \A i \in 1..n : ~ \E j \in 1..(i - 1) : b[j]["source"] = b[i]["source"]
        /\ \A i \in 1..n : ~ \E j \in 1..(i - 1) : b[j]["entry"] = b[i]["entry"]
    BY <1>1, <1>8, FieldInjective
  <2> QED BY <2>1
<1> HIDE DEF b, n, r, s
<1>10. Len(r) = Len(s)
  BY <1>3, <1>4
<1>11. ToSet(Keys(r)) \cap BadKey = {}
  BY <1>4 DEF Fresh, GoodCatalog, Handled
<1>12. \A i \in DOMAIN r :
         <<r[i].handler, r[i].context, r[i].delivery>> \in
           {<<"raw", "isr", "direct">>, <<"event", "isr", "direct">>,
            <<"event", "main_loop", "elide">>, <<"event", "main_loop", "stream">>}
  <2> TAKE i \in DOMAIN r
  <2>1. r[i] \in ToSet(r)
    BY <1>2, <1>4, <1>5, Elements
  <2>2. PICK e \in Handled : r[i] = LiveRow(e)
    BY <1>2, <2>1
  <2>3. handlers[e].route \in {"elide", "stream", "direct", "invalid"}
    <3>1. e \in Event
      BY Elements DEF Handled, Declared
    <3> QED BY <3>1 DEF Declared, Choice
  <2>4. InMainLoop(e) => ~handlers[e].raw /\ handlers[e].route \in {"elide", "stream"}
    BY <2>3 DEF InMainLoop, Handled, Fresh, GoodCatalog
  <2> QED BY <2>2, <2>4 DEF LiveRow
<1>13. IF Deferred(r) THEN record.capacity \in 1..2048 /\ Component(record.policy)
       ELSE record.capacity = 0 /\ record.policy = <<>>
  <2>1. Deferred(r) <=> \E e \in Handled : InMainLoop(e)
    <3>1. /\ DOMAIN r = 1..Len(r)
          /\ \A x : x \in ToSet(r) <=> \E i \in 1..Len(r) : r[i] = x
      BY <1>2, Elements
    <3>2. Deferred(r) <=> \E x \in ToSet(r) : x.context = "main_loop"
      BY <3>1 DEF Deferred
    <3>3. \A e : LiveRow(e).context = "main_loop" <=> InMainLoop(e)
      BY DEF LiveRow
    <3> QED BY <1>2, <3>2, <3>3
  <2>2. /\ record.capacity = ContextCapacity(r, board) /\ record.policy = ContextPolicy(r, board)
    BY DEF Recorded, Fresh, r
  <2>3. CASE Deferred(r)
    <3>1. board.capacity \in 1..2048 /\ Component(board.lock) /\ Component(board.context)
      BY <2>1, <2>3 DEF Fresh, GoodContext
    <3>2. board.lock \in Seq(WordChar) /\ board.context \in Seq(WordChar)
      <4>1. board.lock \in Seq(STRING) /\ board.context \in Seq(STRING)
        BY BindingPlanAssumption
      <4> QED BY <3>1, <4>1, ComponentIsSeq
    <3>3. Component(PolicyIdentity(board))
      <4>1. PolicyIdentity(board) \in Seq(WordChar) /\ PolicyIdentity(board) # <<>>
        BY <3>2, IdentityParts
      <4> QED BY <4>1, Elements DEF Component
    <3>4. record.capacity = board.capacity /\ record.policy = PolicyIdentity(board)
      <4> HIDE DEF r
      <4> QED BY <2>2, <2>3 DEF ContextCapacity, ContextPolicy
    <3>5. record.capacity \in 1..2048 /\ Component(record.policy)
      BY ONLY <3>1, <3>3, <3>4
    <3> QED BY ONLY <2>3, <3>5
  <2>4. CASE ~Deferred(r)
    BY <2>2, <2>4 DEF ContextCapacity, ContextPolicy
  <2> QED BY <2>3, <2>4
<1>14. \A i \in DOMAIN s :
         LET x == s[i]
             earlier == {s[j] : j \in 1..(i - 1)}
         IN /\ {x.source, x.entry} \subseteq Name
            /\ x.order \in 0..(WordModulus - 1)
            /\ ~x.shared
            /\ \A e \in earlier : e.entry = x.entry => e.source = x.source
            /\ \A e \in earlier : e.source # x.source
            /\ x.event = r[i].key
  <2> TAKE i \in DOMAIN s
  <2>1. i \in 1..n /\ \A j \in 1..(i - 1) : j \in 1..n
    BY <1>3
  <2>2. \A j \in 1..(i - 1) : s[j].source # s[i].source /\ s[j].entry # s[i].entry
    BY <1>3, <1>9, <2>1
  <2>3. {s[i].source, s[i].entry} \subseteq Name /\ ~s[i].shared
    BY <1>3, <1>7, <2>1
  <2>4. s[i].order \in 0..(WordModulus - 1) /\ s[i].event = r[i].key
    BY <1>3, <1>4, <2>1
  <2> QED BY <2>2, <2>3, <2>4
<1>15. ValidHeader(record.header) <=> Named(probed)
  BY DEF ValidHeader, Named, Recorded
<1>16. ValidPlan(record) <=> ValidHeader(record.header)
  BY <1>2, <1>10, <1>11, <1>12, <1>13, <1>14 DEF ValidPlan, r, s
<1> QED BY <1>15, <1>16

-----------------------------------------------------------------------------
(* What the strict compilation checks comes to. *)

LEMMA StrictMeans ==
  ASSUME Declared, Stated(problem), Selected(plan), board \in Board, Recorded, StrictCompiles,
         Named(probed), Emitted(record)
  PROVE  /\ GoodSoFar
         /\ {e \in Event : handlers[e].raw} \subseteq BoundKeys
         /\ ToSet(record.demands) = {LiveRow(e) : e \in Handled}
         /\ board.header.target = probed.header.target
         /\ board.header.backend \in Backends
         /\ Emitted([header |-> board.header, bindings |-> plan.bindings])
         /\ Deferred(record.demands) =>
              <<board.capacity, board.lock, board.context>>
                = <<probed.capacity, probed.lock, probed.context>>
         /\ \A i \in DOMAIN plan.bindings : plan.bindings[i].order < WordModulus
<1>1. Sees(BoundKeys)
  BY DEF StrictCompiles, GateHolds, Sees
<1>2. record.demands = DemandData(BoundKeys)
  BY DEF StrictCompiles, SameDemands, LiveDemandSet
<1>3. GoodCatalog
  BY <1>1, CatalogVerdict DEF StrictCompiles
<1>4. Unique
  BY <1>3, DistinctElements DEF Declared, GoodCatalog, Unique
<1>5. GoodProblem(problem)
  BY <1>4, ProblemVerdict DEF StrictCompiles
<1>6. Valid(plan)
  BY <1>1, <1>2, <1>3, PlanVerdict DEF StrictCompiles
<1>7. GoodContext(board)
  BY <1>1, <1>2, <1>3, ContextVerdict DEF StrictCompiles
<1>8. /\ ToSet(record.demands) = {LiveRow(e) : e \in Handled}
      /\ Deferred(record.demands) <=> \E e \in Handled : InMainLoop(e)
  BY <1>1, <1>2, <1>3, SummaryIsLive
<1>9. ASSUME Deferred(record.demands)
      PROVE  <<board.capacity, board.lock, board.context>>
               = <<probed.capacity, probed.lock, probed.context>>
  <2>1. /\ ContextCapacity(record.demands, board) = ContextCapacity(record.demands, probed)
        /\ ContextPolicy(record.demands, board) = ContextPolicy(record.demands, probed)
    BY DEF StrictCompiles, Recorded
  <2>2. board.capacity = probed.capacity /\ PolicyIdentity(board) = PolicyIdentity(probed)
    BY <1>9, <2>1 DEF ContextCapacity, ContextPolicy
  <2>3. /\ Component(board.lock) /\ Component(board.context)
        /\ Component(probed.lock) /\ Component(probed.context)
    BY <1>7, <1>8, <1>9 DEF GoodContext, Recorded
  <2>4. /\ board.lock \in Seq(STRING) /\ board.context \in Seq(STRING)
        /\ probed.lock \in Seq(STRING) /\ probed.context \in Seq(STRING)
    BY BindingPlanAssumption DEF Recorded
  <2>5. /\ board.lock \in Seq(WordChar) /\ board.context \in Seq(WordChar)
        /\ probed.lock \in Seq(WordChar) /\ probed.context \in Seq(WordChar)
    BY <2>3, <2>4, ComponentIsSeq
  <2>6. board.lock = probed.lock /\ board.context = probed.context
    BY <2>2, <2>5, IdentityInjective
  <2> QED BY <2>2, <2>6
<1>10. \A i \in DOMAIN plan.bindings : plan.bindings[i].order < WordModulus
  BY DEF StrictCompiles, SameBindings, Recorded
<1>11. /\ board.header.target = probed.header.target
       /\ board.header.backend = probed.header.backend
       /\ plan.bindings = record.bindings /\ record.header = probed.header
  BY DEF StrictCompiles, SameTarget, SameBindings, Recorded, TargetField, HeaderField
<1>12. Emitted([header |-> board.header, bindings |-> plan.bindings])
  BY <1>11 DEF Emitted
<1> QED BY <1>1, <1>3, <1>5, <1>6, <1>7, <1>8, <1>9, <1>10, <1>11, <1>12
        DEF GoodSoFar, Sees, Named

\* Nothing the strict compilation checks fails for the application that was probed.
LEMMA FreshCompiles ==
  ASSUME Declared, Stated(problem), Selected(plan), board \in Board, Recorded, Fresh,
         \A i \in DOMAIN plan.bindings : plan.bindings[i].order < WordModulus,
         \A e \in Event \ ToSet(declared) : ~handlers[e].raw
  PROVE  StrictCompiles
<1> DEFINE b == plan.bindings
           r == record.demands
           s == record.bindings
<1>1. b \in Seq(Binding) /\ Written(s, b) /\ Summary(r) /\ Valid(plan)
  BY DEF Selected, Fresh
<1>2. /\ DOMAIN b = 1..Len(b) /\ DOMAIN s = 1..Len(b) /\ Len(s) = Len(b) /\ Len(b) \in Nat
      /\ \A i \in 1..Len(b) : s[i].event = b[i].event /\ s[i] = b[i]
  <2>1. \A i \in DOMAIN b : b[i].order < WordModulus
    OBVIOUS
  <2> HIDE DEF b, s
  <2> QED BY <1>1, <2>1, RecordedBindings
<1>3. b = s
  <2>1. b \in [1..Len(b) -> Binding] /\ s = [i \in DOMAIN b |-> [b[i] EXCEPT !.order = Word(@)]]
    BY <1>1, LenProperties DEF Written
  <2> HIDE DEF b, s
  <2>2. s = [i \in DOMAIN s |-> s[i]] /\ b = [i \in DOMAIN b |-> b[i]]
    BY <2>1
  <2> QED BY <1>2, <2>2
<1>4. BoundKeys = Handled
  <2>1. {b[i].event : i \in DOMAIN b} = Handled
    BY <1>1 DEF Valid
  <2> QED BY <1>3, <2>1 DEF BoundKeys
<1>5. GateHolds /\ Sees(BoundKeys) /\ BoundInCatalog
  BY <1>4 DEF GateHolds, Sees, BoundInCatalog, Handled
<1>6. GoodCatalog /\ GoodProblem(problem) /\ GoodContext(board) /\ probed = board
  BY DEF Fresh
<1>7. Unique
  BY <1>6, DistinctElements DEF Declared, GoodCatalog, Unique
<1>8. DemandData(BoundKeys) = r
  <2>1. /\ DemandData(BoundKeys) \in Seq(Rows) /\ Increasing(Keys(DemandData(BoundKeys)))
        /\ ToSet(DemandData(BoundKeys)) = {LiveRow(e) : e \in Handled}
    BY <1>5, <1>6, SummaryIsLive
  <2>2. /\ DemandData(BoundKeys) \in Seq(Rows) /\ r \in Seq(Rows)
        /\ Increasing(Keys(DemandData(BoundKeys))) /\ Increasing(Keys(r))
        /\ ToSet(DemandData(BoundKeys)) = ToSet(r)
    BY <1>1, <2>1 DEF Summary
  <2> QED BY ONLY <2>2, SummaryIsUnique
<1>9. CatalogError(BoundKeys) = "none"
  BY <1>5, <1>6, CatalogVerdict
<1>10. ProblemError(problem) = "none"
  BY <1>6, <1>7, ProblemVerdict
<1>11. PlanError(record.demands, plan) = "none"
  BY <1>1, <1>5, <1>6, <1>8, PlanVerdict DEF r
<1>12. ContextError(record.demands, board) = "none"
  BY <1>5, <1>6, <1>8, ContextVerdict DEF r
<1>13. DispatchMatches
  <2>1. ASSUME NEW i \in DOMAIN r
        PROVE  Present(r[i].key, BoundKeys) /\ Row(r[i].key, BoundKeys) = r[i]
    <3>1. r[i] \in ToSet(r)
      <4>1. r \in Seq(Rows)
        BY <1>1 DEF Summary
      <4> HIDE DEF r
      <4> QED BY <2>1, <4>1, Elements
    <3>2. PICK e \in Handled : r[i] = LiveRow(e)
      BY <1>1, <3>1 DEF Summary
    <3>3. r[i].key = e /\ e \in ToSet(declared)
      BY <3>2 DEF LiveRow, Handled
    <3> QED BY <1>5, <1>6, <3>2, <3>3, RowIsLive
  <2> QED BY <2>1 DEF DispatchMatches
<1>14. /\ ContextCapacity(record.demands, board) = record.capacity
       /\ ContextPolicy(record.demands, board) = record.policy
  BY <1>6 DEF Recorded
<1>15. SameTarget(board.header, record.header)
  BY <1>6 DEF SameTarget, Recorded
<1> QED BY <1>3, <1>5, <1>8, <1>9, <1>10, <1>11, <1>12, <1>13, <1>14, <1>15
        DEF StrictCompiles, SameDemands, LiveDemandSet, SameBindings

-----------------------------------------------------------------------------
(* The invariant holds at first and at every step. *)

LEMMA PlanInit == Init => PlanInv
<1> SUFFICES ASSUME Init PROVE PlanInv
  OBVIOUS
<1>1. declared \in Seq(Event)
  <2>1. PICK n \in 0..MaxEvents : declared \in [1..n -> Event]
    BY DEF Init
  <2>2. n \in Nat
    <3>1. MaxEvents \in Nat
      BY BindingPlanAssumption
    <3> QED BY <2>1, <3>1
  <2> QED BY <2>1, <2>2, SeqDef
<1>2. handlers \in [Event -> Choice]
  BY BindingPlanAssumption DEF Init
<1> QED BY <1>1, <1>2 DEF Init, PlanInv, Declared, ReadSoFar, BoundIsLive, TruncatedIsNotBound, DecoderAgrees,
                          FreshIsBound

\* What is said of the application says the same as long as nobody edits it.
LEMMA Unedited ==
  ASSUME UNCHANGED <<declared, handlers>>
  PROVE  /\ Declared' <=> Declared
         /\ GoodCatalog' <=> GoodCatalog
         /\ GoodProblem(problem)' <=> GoodProblem(problem')
         /\ GoodContext(board)' <=> GoodContext(board')
         /\ UNCHANGED problem => (Valid(plan)' <=> Valid(plan'))
         /\ Summary(record.demands)' <=> Summary(record'.demands)
<1>1. Declared' <=> Declared
  BY DEF Declared
<1>2. GoodCatalog' <=> GoodCatalog
  BY DEF GoodCatalog
<1>3. GoodProblem(problem)' <=> GoodProblem(problem')
  BY DEF GoodProblem
<1>4. Handled' = Handled
  BY DEF Handled
<1>5. \A e : InMainLoop(e)' <=> InMainLoop(e)
  BY DEF InMainLoop
<1>6. GoodContext(board)' <=> GoodContext(board')
  BY <1>4, <1>5 DEF GoodContext
<1>7. UNCHANGED problem => (Valid(plan)' <=> Valid(plan'))
  BY <1>4 DEF Valid
<1>8. \A e : LiveRow(e)' = LiveRow(e)
  BY <1>5 DEF LiveRow
<1>9. Summary(record.demands)' <=> Summary(record'.demands)
  BY <1>4, <1>8 DEF Summary
<1> QED BY <1>1, <1>2, <1>3, <1>6, <1>7, <1>9

LEMMA TextsKept ==
  ASSUME UNCHANGED <<plan, board>>
  PROVE  Encodable' <=> Encodable
BY DEF Encodable, RecordTexts, NoBoard

\* What is read differs from what stands for not having read it.
LEMMA ReadDiffers ==
  /\ \A p : Stated(p) => p # NoProblem
  /\ \A p : Selected(p) => p # NoPlan
  /\ \A b \in Board : b # NoBoard
<1>1. ASSUME NEW p, Stated(p) PROVE p # NoProblem
  <2>1. "requests" \in DOMAIN p
    BY <1>1 DEF Stated
  <2>2. "requests" \notin DOMAIN NoProblem
    BY DEF NoProblem
  <2> QED BY <2>1, <2>2
<1>2. ASSUME NEW p, Selected(p) PROVE p # NoPlan
  BY <1>2 DEF Selected, NoPlan
<1>3. ASSUME NEW b \in Board PROVE b # NoBoard
  <2>1. "capacity" \in DOMAIN b
    BY BindingPlanAssumption
  <2>2. "capacity" \notin DOMAIN NoBoard
    BY DEF NoBoard
  <2> QED BY <2>1, <2>2
<1> QED BY <1>1, <1>2, <1>3

LEMMA StatedProblem == \A p \in Problem : Stated(p)
BY BindingPlanAssumption DEF Stated

LEMMA CompileCatalogKeeps ==
  ASSUME PlanInv, CompileCatalog
  PROVE  PlanInv'
<1>1. /\ stage = "catalog" /\ Declared /\ edited = FALSE
      /\ problem = NoProblem /\ plan = NoPlan /\ board = NoBoard
  BY DEF CompileCatalog, PlanInv, ReadSoFar
<1>2. UNCHANGED <<declared, handlers, problem, plan, board, record, probed, edited>>
  BY DEF CompileCatalog
<1>3. stage' = IF CatalogError(Event) = "none" THEN "problem" ELSE "rejected"
  BY DEF CompileCatalog, Proceed
<1>4. CatalogError(Event) = "none" <=> GoodCatalog
  BY <1>1, CatalogVerdict DEF Sees
<1>5. Declared' /\ (GoodCatalog' <=> GoodCatalog)
  BY <1>1, <1>2, Unedited
<1>6. ReadSoFar'
  BY <1>1, <1>2, <1>3, <1>4, <1>5 DEF ReadSoFar, GoodSoFar
<1> QED BY <1>1, <1>2, <1>3, <1>5, <1>6
        DEF PlanInv, BoundIsLive, TruncatedIsNotBound, FreshIsBound, DecoderAgrees

LEMMA CompileProblemKeeps ==
  ASSUME PlanInv, CompileProblem
  PROVE  PlanInv'
<1>1. /\ stage = "problem" /\ Declared /\ edited = FALSE
      /\ GoodCatalog /\ plan = NoPlan /\ board = NoBoard
  BY DEF CompileProblem, PlanInv, ReadSoFar
<1>2. UNCHANGED <<declared, handlers, plan, board, record, probed, edited>>
  BY DEF CompileProblem
<1>3. PICK p \in Problem : problem' = p /\ Proceed(ProblemError(p), "plan")
  BY DEF CompileProblem
<1>4. Stated(problem') /\ problem' # NoProblem
  BY <1>3, StatedProblem, ReadDiffers
<1>5. stage' = IF GoodProblem(problem') THEN "plan" ELSE "rejected"
  <2>1. Unique
    BY <1>1, DistinctElements DEF Declared, GoodCatalog, Unique
  <2>2. ProblemError(problem') = "none" <=> GoodProblem(problem')
    BY <1>1, <1>4, <2>1, ProblemVerdict
  <2> QED BY <1>3, <2>2 DEF Proceed
<1>6. Declared' /\ GoodCatalog' /\ (GoodProblem(problem)' <=> GoodProblem(problem'))
  BY <1>1, <1>2, Unedited
<1>7. Stated(problem)' /\ (problem # NoProblem)'
  BY <1>4 DEF Stated, NoProblem
<1>8. ReadSoFar'
  BY <1>1, <1>2, <1>5, <1>6, <1>7 DEF ReadSoFar, GoodSoFar
<1> QED BY <1>1, <1>2, <1>5, <1>6, <1>8
        DEF PlanInv, BoundIsLive, TruncatedIsNotBound, FreshIsBound, DecoderAgrees

LEMMA CompilePlanKeeps ==
  ASSUME PlanInv, CompilePlan
  PROVE  PlanInv'
<1>1. /\ stage = "plan" /\ Declared /\ edited = FALSE
      /\ GoodCatalog /\ Stated(problem) /\ GoodProblem(problem) /\ board = NoBoard
  BY DEF CompilePlan, PlanInv, ReadSoFar
<1>2. UNCHANGED <<declared, handlers, problem, board, record, probed, edited>>
  BY DEF CompilePlan
<1>3. PICK p \in Plans(Len(DemandData(Event))) :
        plan' = p /\ Proceed(PlanError(DemandData(Event), p), "context")
  BY DEF CompilePlan
<1>4. Selected(p)
  <2>1. p.bindings \in Seq(Binding)
    <3>1. \A n \in Nat : [1..n -> Binding] \subseteq Seq(Binding)
      BY SeqDef
    <3>2. <<>> \in Seq(Binding)
      OBVIOUS
    <3>3. 0..MaxBindings \subseteq Nat
      OBVIOUS
    <3> QED BY <3>1, <3>2, <3>3 DEF Plans
  <2>2. p = [bindings |-> p.bindings, state |-> p.state] /\ p.state \in {"ok", "failed", "exhausted"}
    BY DEF Plans
  <2> QED BY <2>1, <2>2 DEF Selected
<1>5. Selected(plan') /\ plan' # NoPlan
  BY <1>3, <1>4, ReadDiffers
<1>6. stage' = IF Valid(plan') THEN "context" ELSE "rejected"
  <2>1. PlanError(DemandData(Event), p) = "none" <=> Valid(p)
    BY <1>1, <1>4, PlanVerdict DEF Sees
  <2> QED BY <1>3, <2>1 DEF Proceed
<1>7. /\ Declared' /\ GoodCatalog' /\ GoodProblem(problem)'
      /\ Valid(plan)' <=> Valid(plan')
  BY <1>1, <1>2, Unedited
<1>8. Stated(problem)' /\ Selected(plan)' /\ (plan # NoPlan)'
  BY <1>1, <1>2, <1>5 DEF Stated, Selected, NoPlan
<1>9. ReadSoFar'
  BY <1>1, <1>2, <1>6, <1>7, <1>8 DEF ReadSoFar, GoodSoFar
<1> QED BY <1>1, <1>2, <1>6, <1>7, <1>9
        DEF PlanInv, BoundIsLive, TruncatedIsNotBound, FreshIsBound, DecoderAgrees

LEMMA EncodeVerdict ==
  ASSUME NEW b
  PROVE  EncodeError(b) = "none" <=> RecordTexts(plan, b) \cap Long = {}
<1> DEFINE a == Check(RecordTexts(plan, b) \cap Long # {}, "text_too_long")
<1>1. a.error # "none" /\ (a.fails <=> RecordTexts(plan, b) \cap Long # {})
  BY DEF Check
<1>2. EncodeError(b) = FirstFailure(<<a>>)
  BY DEF EncodeError
<1> HIDE DEF a
<1>3. FirstFailure(<<a>>) = "none" <=> ~a.fails
  BY <1>1, FirstOfOne
<1> QED BY <1>1, <1>2, <1>3

LEMMA CompileContextKeeps ==
  ASSUME PlanInv, CompileContext
  PROVE  PlanInv'
<1> DEFINE demands == DemandData(Event)
<1>1. /\ stage = "context" /\ Declared /\ edited = FALSE
      /\ GoodCatalog /\ Stated(problem) /\ GoodProblem(problem)
      /\ Selected(plan) /\ Valid(plan) /\ board = NoBoard
  BY DEF CompileContext, PlanInv, ReadSoFar
<1>2. UNCHANGED <<declared, handlers, problem, plan, edited>>
  BY DEF CompileContext
<1>3. PICK b \in Board :
        LET context == ContextError(demands, b)
            found == IF context = "none" THEN EncodeError(b) ELSE context
        IN  /\ board' = b /\ probed' = b
            /\ Proceed(found, "decode")
            /\ record' = IF found = "none" THEN Encode(demands, b) ELSE NoRecord
  BY DEF CompileContext
<1>4. board' \in Board /\ board' # NoBoard /\ probed' = board'
  BY <1>3, ReadDiffers
<1>5. ContextError(demands, b) = "none" <=> GoodContext(b)
  BY <1>1, ContextVerdict DEF Sees
<1>6. /\ Declared' /\ GoodCatalog' /\ GoodProblem(problem)' /\ Valid(plan)'
      /\ GoodContext(board)' <=> GoodContext(board')
      /\ Summary(record.demands)' <=> Summary(record'.demands)
  BY <1>1, <1>2, Unedited
<1>10. EncodeError(b) = "none" <=> RecordTexts(plan, b) \cap Long = {}
  BY EncodeVerdict
<1>11. Encodable' <=> RecordTexts(plan, b) \cap Long = {}
  BY <1>2, <1>3, <1>4 DEF Encodable, RecordTexts, NoBoard
<1>7. Stated(problem)' /\ Selected(plan)' /\ (board \in Board)' /\ (board # NoBoard)'
  BY <1>1, <1>2, <1>4 DEF Stated, Selected, NoBoard
<1>8. CASE GoodContext(b) /\ RecordTexts(plan, b) \cap Long = {}
  <2>1. /\ stage' = "decode" /\ GoodContext(board)' /\ Encodable'
        /\ record' = Encode(demands, b)
    BY <1>3, <1>5, <1>6, <1>8, <1>10, <1>11 DEF Proceed
  <2>2. /\ record'.demands = demands /\ record'.header = b.header
        /\ record'.bindings = [i \in DOMAIN plan.bindings |-> [plan.bindings[i] EXCEPT !.order = Word(@)]]
        /\ record'.capacity = ContextCapacity(demands, b)
        /\ record'.policy = ContextPolicy(demands, b)
    BY <2>1 DEF Encode
  <2>3. /\ demands \in Seq(Rows) /\ Increasing(Keys(demands))
        /\ ToSet(demands) = {LiveRow(e) : e \in Handled}
        /\ Deferred(demands) <=> \E e \in Handled : InMainLoop(e)
    BY <1>1, SummaryIsLive DEF Sees
  <2> HIDE DEF demands
  <2>4. Summary(record.demands)'
    BY <1>6, <2>2, <2>3 DEF Summary
  <2>5. Written(record'.bindings, plan.bindings)
    BY <2>2 DEF Written
  <2>6. Written(record.bindings, plan.bindings)'
    BY <1>2, <2>5 DEF Written
  <2>7. \A i \in DOMAIN record'.bindings : record'.bindings[i].order < WordModulus
    <3>1. plan.bindings \in Seq(Binding)
      BY <1>1 DEF Selected
    <3>2. /\ DOMAIN record'.bindings = 1..Len(plan.bindings)
          /\ \A i \in 1..Len(plan.bindings) : record'.bindings[i].order < WordModulus
      BY <2>5, <3>1, RecordedBindings
    <3> QED BY <3>2
  <2>8. Deferred(demands) => Component(b.lock) /\ Component(b.context)
    BY <1>8, <2>3 DEF GoodContext
  <2>9. Recorded'
    <3>1. /\ record'.demands \in Seq(Rows) /\ probed' \in Board /\ record'.header = probed'.header
          /\ record'.capacity = ContextCapacity(record'.demands, probed')
          /\ record'.policy = ContextPolicy(record'.demands, probed')
          /\ Deferred(record'.demands) => Component(probed'.lock) /\ Component(probed'.context)
      BY <1>3, <1>4, <2>2, <2>3, <2>8
    <3> QED BY <2>7, <3>1 DEF Recorded
  <2>10. Fresh'
    BY <1>4, <1>6, <2>1, <2>4, <2>6 DEF Fresh
  <2>11. ReadSoFar'
    BY <1>7, <2>1, <2>9, <2>10 DEF ReadSoFar
  <2> QED BY <1>1, <1>2, <1>6, <2>1, <2>11
          DEF PlanInv, BoundIsLive, TruncatedIsNotBound, FreshIsBound, DecoderAgrees
<1>9. CASE ~(GoodContext(b) /\ RecordTexts(plan, b) \cap Long = {})
  <2>1. stage' = "rejected" /\ ~(GoodContext(board)' /\ Encodable')
    <3>1. (IF ContextError(demands, b) = "none" THEN EncodeError(b) ELSE ContextError(demands, b)) # "none"
      BY <1>5, <1>9, <1>10
    <3>2. stage' = "rejected"
      BY <1>3, <3>1 DEF Proceed
    <3> QED BY <1>3, <1>6, <1>9, <1>11, <3>2
  <2>2. ReadSoFar'
    BY <1>7, <2>1 DEF ReadSoFar, GoodSoFar
  <2> QED BY <1>1, <1>2, <1>6, <2>1, <2>2
          DEF PlanInv, BoundIsLive, TruncatedIsNotBound, FreshIsBound, DecoderAgrees
<1> QED BY <1>8, <1>9

LEMMA DecodeKeeps ==
  ASSUME PlanInv, Decode
  PROVE  PlanInv'
<1>1. /\ stage = "decode" /\ Declared /\ edited = FALSE
      /\ Stated(problem) /\ Selected(plan) /\ board \in Board /\ Fresh /\ Recorded
  BY DEF Decode, PlanInv, ReadSoFar
<1>2. UNCHANGED <<declared, handlers, problem, plan, board, error, record, probed, edited>>
  BY DEF Decode
<1>3. /\ stage' \in {"undecodable", "misconfigured", "unsupported", "strict"}
      /\ stage' = "undecodable" <=> ~Named(probed)
      /\ stage' = "strict" => Emitted(record)
  <2>1. ValidPlan(record) <=> Named(probed)
    BY <1>1, RecordDecodes
  <2>2. PICK a \in Argument :
          stage' = IF ~ValidPlan(record) THEN "undecodable"
                   ELSE IF ~SameTarget(a, record.header) THEN "misconfigured"
                   ELSE IF Emitted(record) THEN "strict" ELSE "unsupported"
    BY DEF Decode
  <2> QED BY <2>1, <2>2
<1>4. Declared' /\ Fresh' /\ Recorded'
  <2>1. Declared' /\ GoodCatalog' /\ GoodProblem(problem)' /\ Valid(plan)' /\ GoodContext(board)'
        /\ Summary(record.demands)' /\ Encodable'
    BY <1>1, <1>2, Unedited, TextsKept DEF Fresh
  <2>2. Written(record.bindings, plan.bindings)' /\ (probed = board)'
    BY <1>1, <1>2 DEF Fresh, Written
  <2> QED BY <1>1, <1>2, <2>1, <2>2 DEF Fresh, Recorded
<1>5. ReadSoFar'
  BY <1>1, <1>2, <1>3, <1>4 DEF ReadSoFar, Stated, Selected
<1>6. DecoderAgrees' /\ (stage \in {"strict", "bound", "stale"} => Emitted(record))'
  BY <1>2, <1>3 DEF DecoderAgrees, Named, Emitted
<1> QED BY <1>1, <1>2, <1>3, <1>4, <1>5, <1>6
        DEF PlanInv, BoundIsLive, TruncatedIsNotBound, FreshIsBound

\* An edit leaves an application that can be compiled: a catalog, handlers and a board.
LEMMA EditKeeps ==
  ASSUME PlanInv, Edit
  PROVE  PlanInv'
<1>1. /\ stage = "strict" /\ Declared
      /\ Stated(problem) /\ Selected(plan) /\ board \in Board /\ Recorded
  BY DEF Edit, PlanInv, ReadSoFar
<1>2. stage' = "strict" /\ edited' = TRUE /\ UNCHANGED <<record, probed>>
  BY <1>1 DEF Edit
<1>3. Recorded'
  BY <1>1, <1>2 DEF Recorded
<1>4. Declared' /\ Stated(problem') /\ Selected(plan') /\ board' \in Board
  <2>1. CASE EditEvents
    <3>1. declared' \in Seq(Event)
      <4>1. Len(declared) \in Nat /\ DOMAIN declared = 1..Len(declared) /\ declared \in [1..Len(declared) -> Event]
        BY <1>1, Elements, LenProperties DEF Declared
      <4>2. CASE \E i \in DOMAIN declared, e \in Event : declared' = [declared EXCEPT ![i] = e]
        <5>1. declared' \in [1..Len(declared) -> Event]
          BY <4>1, <4>2
        <5> QED BY <4>1, <5>1, ListIsSeq
      <4>3. CASE \E i \in DOMAIN declared : declared' = RemoveAt(declared, i)
        <5>1. PICK i \in 1..Len(declared) : declared' = RemoveAt(declared, i)
          BY <4>1, <4>3
        <5>2. SubSeq(declared, 1, i - 1) \in Seq(Event) /\ SubSeq(declared, i + 1, Len(declared)) \in Seq(Event)
          BY <1>1, <4>1, <5>1, SubSeqProperties DEF Declared
        <5> QED BY <5>1, <5>2, ConcatElements DEF RemoveAt
      <4> QED BY <2>1, <4>2, <4>3 DEF EditEvents
    <3>2. Stated(problem')
      <4>1. problem' = [problem EXCEPT !.requests = declared']
        BY <2>1 DEF EditEvents
      <4>2. problem' = [requests |-> declared', candidates |-> problem.candidates]
        BY <1>1, <4>1 DEF Stated
      <4> QED BY <3>1, <4>2 DEF Stated
    <3>3. UNCHANGED <<handlers, plan, board>>
      BY <2>1 DEF EditEvents
    <3> QED BY <1>1, <3>1, <3>2, <3>3 DEF Declared
  <2>2. CASE EditHandler
    <3>1. handlers' \in [Event -> Choice] /\ UNCHANGED <<declared, problem, plan, board>>
      BY <1>1, <2>2 DEF EditHandler, Declared
    <3> QED BY <1>1, <3>1 DEF Declared
  <2>3. CASE EditBoard
    <3>1. UNCHANGED <<declared, handlers>>
      BY <2>3 DEF EditBoard
    <3>2. Stated(problem')
      BY <1>1, <2>3, StatedProblem DEF EditBoard
    <3>3. Selected(plan')
      <4>1. CASE UNCHANGED plan
        BY <1>1, <4>1
      <4>2. CASE \E i \in DOMAIN plan.bindings, b \in Binding :
                   plan' = [plan EXCEPT !.bindings[i] = b]
        <5>1. PICK i \in DOMAIN plan.bindings, b \in Binding :
                plan' = [plan EXCEPT !.bindings = [plan.bindings EXCEPT ![i] = b]]
          BY <4>2
        <5>2. [plan.bindings EXCEPT ![i] = b] \in Seq(Binding)
          BY <1>1, <5>1, ExceptSeq DEF Selected
        <5> QED BY <1>1, <5>1, <5>2 DEF Selected
      <4> QED BY <2>3, <4>1, <4>2 DEF EditBoard
    <3>4. board' \in Board
      BY <1>1, <2>3 DEF EditBoard
    <3> QED BY <1>1, <3>1, <3>2, <3>3, <3>4 DEF Declared
  <2> QED BY <2>1, <2>2, <2>3 DEF Edit
<1>5. Stated(problem)' /\ Selected(plan)'
  BY <1>4 DEF Stated, Selected
<1>6. ReadSoFar'
  BY <1>2, <1>3, <1>4, <1>5 DEF ReadSoFar
<1>7. DecoderAgrees' /\ (stage \in {"strict", "bound", "stale"} => Emitted(record))'
  BY <1>1, <1>2 DEF PlanInv, DecoderAgrees, Named, Emitted
<1> QED BY <1>2, <1>4, <1>6, <1>7 DEF PlanInv, BoundIsLive, TruncatedIsNotBound, FreshIsBound

LEMMA CompileStrictKeeps ==
  ASSUME PlanInv, CompileStrict
  PROVE  PlanInv'
<1>1. /\ stage = "strict" /\ Declared /\ edited \in BOOLEAN
      /\ Stated(problem) /\ Selected(plan) /\ board \in Board /\ Recorded /\ (edited \/ Fresh)
  BY DEF CompileStrict, PlanInv, ReadSoFar
<1>2. UNCHANGED <<declared, handlers, problem, plan, board, error, record, probed, edited>>
  BY DEF CompileStrict
<1>3. stage' = IF StrictCompiles THEN "bound" ELSE "stale"
  BY DEF CompileStrict
<1>4. Declared' /\ Recorded' /\ (Fresh' <=> Fresh)
  <2>1. /\ Declared' /\ (GoodCatalog' <=> GoodCatalog)
        /\ GoodProblem(problem)' <=> GoodProblem(problem)
        /\ GoodContext(board)' <=> GoodContext(board)
        /\ Valid(plan)' <=> Valid(plan)
        /\ Encodable' <=> Encodable
        /\ Summary(record.demands)' <=> Summary(record.demands)
    BY <1>1, <1>2, Unedited, TextsKept
  <2>2. /\ Written(record.bindings, plan.bindings)' <=> Written(record.bindings, plan.bindings)
        /\ (probed = board)' <=> probed = board
    BY <1>2 DEF Written
  <2>3. Recorded'
    BY <1>1, <1>2 DEF Recorded
  <2> QED BY <2>1, <2>2, <2>3 DEF Fresh
<1>5. ReadSoFar'
  <2>1. Stated(problem)' /\ Selected(plan)' /\ (board \in Board)' /\ (edited \/ Fresh)'
    BY <1>1, <1>2, <1>4 DEF Stated, Selected
  <2> QED BY <1>3, <1>4, <2>1 DEF ReadSoFar
<1>8. Named(probed) /\ Emitted(record)
  BY <1>1 DEF PlanInv, DecoderAgrees
<1>9. DecoderAgrees' /\ (stage \in {"strict", "bound", "stale"} => Emitted(record))'
  BY <1>2, <1>3, <1>8 DEF DecoderAgrees, Named, Emitted
<1>6. CASE StrictCompiles
  <2>1. /\ GoodSoFar
        /\ {e \in Event : handlers[e].raw} \subseteq BoundKeys
        /\ ToSet(record.demands) = {LiveRow(e) : e \in Handled}
        /\ board.header.target = probed.header.target
        /\ board.header.backend \in Backends
        /\ Emitted([header |-> board.header, bindings |-> plan.bindings])
        /\ Deferred(record.demands) =>
             <<board.capacity, board.lock, board.context>>
               = <<probed.capacity, probed.lock, probed.context>>
        /\ \A i \in DOMAIN plan.bindings : plan.bindings[i].order < WordModulus
    <3>1. /\ Declared /\ Stated(problem) /\ Selected(plan) /\ board \in Board /\ Recorded
          /\ StrictCompiles /\ Named(probed) /\ Emitted(record)
      BY <1>1, <1>6, <1>8
    <3> QED BY ONLY <3>1, StrictMeans
  <2>2. stage' = "bound"
    BY <1>3, <1>6
  <2>3. GoodSoFar'
    <3>1. /\ GoodCatalog' <=> GoodCatalog
          /\ GoodProblem(problem)' <=> GoodProblem(problem)
          /\ GoodContext(board)' <=> GoodContext(board)
          /\ Valid(plan)' <=> Valid(plan)
      BY <1>2, Unedited
    <3>2. /\ (problem = NoProblem)' <=> problem = NoProblem
          /\ (plan = NoPlan)' <=> plan = NoPlan
          /\ (board = NoBoard)' <=> board = NoBoard
      BY <1>2 DEF NoProblem, NoPlan, NoBoard
    <3> QED BY <2>1, <3>1, <3>2 DEF GoodSoFar
  <2>4. ({LiveRow(e) : e \in Handled})' = {LiveRow(e) : e \in Handled}
    BY <1>2 DEF LiveRow, Handled, InMainLoop
  <2>5. BoundIsLive'
    BY <1>2, <2>1, <2>3, <2>4 DEF BoundIsLive, BoundKeys, Emitted
  <2>6. TruncatedIsNotBound' /\ FreshIsBound'
    BY <1>2, <2>1, <2>2 DEF TruncatedIsNotBound, FreshIsBound
  <2> QED BY <1>1, <1>2, <1>4, <1>5, <1>9, <2>2, <2>5, <2>6 DEF PlanInv
<1>7. CASE ~StrictCompiles
  <2>1. \/ edited
        \/ \E i \in DOMAIN plan.bindings : ~(plan.bindings[i].order < WordModulus)
        \/ \E e \in Event \ ToSet(declared) : handlers[e].raw
    <3> SUFFICES ASSUME ~edited,
                        \A i \in DOMAIN plan.bindings : plan.bindings[i].order < WordModulus,
                        \A e \in Event \ ToSet(declared) : ~handlers[e].raw
                 PROVE  FALSE
      OBVIOUS
    <3>1. /\ Declared /\ Stated(problem) /\ Selected(plan) /\ board \in Board /\ Recorded /\ Fresh
          /\ \A i \in DOMAIN plan.bindings : plan.bindings[i].order < WordModulus
          /\ \A e \in Event \ ToSet(declared) : ~handlers[e].raw
      BY <1>1
    <3> QED BY ONLY <1>7, <3>1, FreshCompiles
  <2>2. \A i \in DOMAIN plan.bindings : plan.bindings[i].order \in Nat
    <3>1. plan.bindings \in Seq(Binding)
      BY <1>1 DEF Selected
    <3>2. DOMAIN plan.bindings = 1..Len(plan.bindings)
          /\ \A i \in 1..Len(plan.bindings) : plan.bindings[i] \in Binding
      BY <3>1, Elements
    <3>3. \A x \in Binding : x.order \in Nat
      BY BindingPlanAssumption
    <3> QED BY <3>2, <3>3
  <2>3. WordModulus \in Nat
    BY BindingPlanAssumption
  <2>4. FreshIsBound'
    BY <1>2, <2>1, <2>2, <2>3 DEF FreshIsBound
  <2> QED BY <1>1, <1>2, <1>3, <1>4, <1>5, <1>7, <1>9, <2>4 DEF PlanInv, BoundIsLive, TruncatedIsNotBound
<1> QED BY <1>6, <1>7

\* Every step of the probe, the generator, the developer and the compiler keeps it.
LEMMA PlanStep == PlanInv /\ [Next]_vars => PlanInv'
<1> SUFFICES ASSUME PlanInv, [Next]_vars PROVE PlanInv'
  OBVIOUS
<1>1. CASE CompileCatalog
  BY <1>1, CompileCatalogKeeps
<1>2. CASE CompileProblem
  BY <1>2, CompileProblemKeeps
<1>3. CASE CompilePlan
  BY <1>3, CompilePlanKeeps
<1>4. CASE CompileContext
  BY <1>4, CompileContextKeeps
<1>5. CASE Decode
  BY <1>5, DecodeKeeps
<1>6. CASE Edit
  BY <1>6, EditKeeps
<1>7. CASE CompileStrict
  BY <1>7, CompileStrictKeeps
<1>8. CASE UNCHANGED vars
  <2>1. UNCHANGED <<declared, handlers, problem, plan, board, stage, error, record, probed, edited>>
    BY <1>8 DEF vars
  <2>2. /\ Declared' <=> Declared
        /\ GoodCatalog' <=> GoodCatalog
        /\ GoodProblem(problem)' <=> GoodProblem(problem)
        /\ GoodContext(board)' <=> GoodContext(board)
        /\ Valid(plan)' <=> Valid(plan)
        /\ Encodable' <=> Encodable
        /\ Summary(record.demands)' <=> Summary(record.demands)
    BY <2>1, Unedited, TextsKept
  <2>3. /\ Written(record.bindings, plan.bindings)' <=> Written(record.bindings, plan.bindings)
        /\ (probed = board)' <=> probed = board
    BY <2>1 DEF Written
  <2>4. (Fresh' <=> Fresh) /\ (Recorded' <=> Recorded)
    BY <2>1, <2>2, <2>3 DEF Fresh, Recorded
  <2>5. /\ (Stated(problem)' <=> Stated(problem)) /\ (Selected(plan)' <=> Selected(plan))
        /\ (problem = NoProblem)' <=> problem = NoProblem
        /\ (plan = NoPlan)' <=> plan = NoPlan
        /\ (board = NoBoard)' <=> board = NoBoard
    BY <2>1 DEF Stated, Selected, NoProblem, NoPlan, NoBoard
  <2>6. GoodSoFar' <=> GoodSoFar
    BY <2>2, <2>5 DEF GoodSoFar
  <2>7. ReadSoFar'
    BY <2>1, <2>2, <2>4, <2>5, <2>6 DEF PlanInv, ReadSoFar
  <2>8. BoundIsLive'
    <3>1. ({LiveRow(e) : e \in Handled})' = {LiveRow(e) : e \in Handled}
      BY <2>1 DEF LiveRow, Handled, InMainLoop
    <3> QED BY <2>1, <2>6, <3>1 DEF PlanInv, BoundIsLive, BoundKeys, Emitted
  <2>9. TruncatedIsNotBound' /\ FreshIsBound'
    BY <2>1 DEF PlanInv, TruncatedIsNotBound, FreshIsBound
  <2>10. DecoderAgrees' /\ (stage \in {"strict", "bound", "stale"} => Emitted(record))'
    BY <2>1 DEF PlanInv, DecoderAgrees, Named, Emitted
  <2> QED BY <2>1, <2>2, <2>7, <2>8, <2>9, <2>10 DEF PlanInv
<1> QED BY <1>1, <1>2, <1>3, <1>4, <1>5, <1>6, <1>7, <1>8 DEF Next

-----------------------------------------------------------------------------
(* The theorems. *)

\* At every stage the application, the problem, the plan and the board read so far are
\* right, or the probe is rejected, and the record is about them until an edit.
THEOREM PlanInvariant == Spec => []PlanInv
BY PlanInit, PlanStep, PTL DEF Spec

\* The static assertions, in the order they are made, reject exactly the applications with
\* a defect (catalog.hpp:164-173, handler.hpp:41-52, binding.hpp:46-152,
\* probe_record.hpp:74-75).
THEOREM VerdictRight == Spec => []VerdictIsRight
<1>1. PlanInv => VerdictIsRight
  <2> SUFFICES ASSUME PlanInv, stage \in {"problem", "plan", "context", "decode", "rejected"}
               PROVE  stage = "rejected" <=> ~(GoodSoFar /\ Encodable)
    BY DEF VerdictIsRight
  <2>1. CASE stage = "problem"
    BY <2>1 DEF PlanInv, ReadSoFar, GoodSoFar, Encodable
  <2>2. CASE stage = "plan"
    BY <2>2 DEF PlanInv, ReadSoFar, GoodSoFar, Encodable
  <2>3. CASE stage = "context"
    BY <2>3 DEF PlanInv, ReadSoFar, GoodSoFar, Encodable
  <2>4. CASE stage = "decode"
    BY <2>4 DEF PlanInv, ReadSoFar, Fresh, GoodSoFar
  <2>5. CASE stage = "rejected"
    BY <2>5 DEF PlanInv, ReadSoFar
  <2> QED BY <2>1, <2>2, <2>3, <2>4, <2>5
<1> QED BY <1>1, PlanInvariant, PTL

\* Whatever record the probe writes, the generator rejects it for the names of the build or
\* not at all: for its backend, or a name that is no identifier (probe_record.hpp:83-87,
\* protocol.py:64-171).
THEOREM DecoderAccepts == Spec => []DecoderAgrees
<1>1. PlanInv => DecoderAgrees
  BY DEF PlanInv, DecoderAgrees
<1> QED BY <1>1, PlanInvariant, PTL

\* The recorded demands are in key order and each row is still that of its event after the
\* sort (demand.hpp:38-55).
THEOREM RowsTogether == Spec => []RowsStayTogether
<1>1. PlanInv => RowsStayTogether
  BY DEF PlanInv, ReadSoFar, Fresh, Summary, RowsStayTogether
<1> QED BY <1>1, PlanInvariant, PTL

\* What compiles strictly is right for the application as it is now, whatever was edited
\* after the probe (emit.py:79-111, handler.hpp:77-100, context_policy.hpp:36-60).
THEOREM BoundLive == Spec => []BoundIsLive
<1>1. PlanInv => BoundIsLive
  BY DEF PlanInv
<1> QED BY <1>1, PlanInvariant, PTL

\* No unit with a cut dispatch order compiles (emit.py:139-141).
THEOREM TruncatedNotBound == Spec => []TruncatedIsNotBound
<1>1. PlanInv => TruncatedIsNotBound
  BY DEF PlanInv
<1> QED BY <1>1, PlanInvariant, PTL

\* A fresh generated unit compiles: the strict compilation is rejected only after an edit,
\* for an order that does not fit or for a raw handler of an undeclared event
\* (emit.py:79-141).
THEOREM FreshBound == Spec => []FreshIsBound
<1>1. PlanInv => FreshIsBound
  BY DEF PlanInv
<1> QED BY <1>1, PlanInvariant, PTL
=============================================================================
