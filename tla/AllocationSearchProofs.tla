------------------------ MODULE AllocationSearchProofs ------------------------
(***************************************************************************)
(* Machine-checked proofs about AllocationSearch, for tables of any size,  *)
(* any numbers of units, any budgets and any compatibility policy.         *)
(***************************************************************************)
EXTENDS AllocationSearch, FiniteSetTheorems, TLAPS

-----------------------------------------------------------------------------
(* The inductive invariant. *)

SearchTypeOK ==
  /\ problem \in Problem
  /\ selected \in [Row -> Nat]
  /\ visited \in Nat
  /\ success \in BOOLEAN
  /\ exhausted \in BOOLEAN
  /\ depth \in Nat
  /\ from \in [Row -> Nat]
  /\ stage \in {"call", "visit", "done"}

\* p and q hold the same in the first n rows.
Agree(p, q, n) == \A u \in 0..n - 1 : p[u] = q[u]

\* The search has still to come by q: where q leaves the rows that are selected, it has
\* a later column than theirs, or one the loop of the innermost visit() has still to
\* look at.
Ahead(q) ==
  \E u \in 0..depth :
    /\ Agree(q, selected, u)
    /\ u < depth => q[u] > selected[u]
    /\ (u = depth /\ u < problem.units) => q[u] >= from[u]

CallInv == stage = "call" => selected = Zeros /\ from = Zeros /\ depth = 0

VisitInv ==
  stage = "visit" =>
    /\ problem.units <= R /\ depth <= problem.units
    /\ Consistent(selected, depth)
    /\ \A u \in 0..depth - 1 : from[u] = selected[u] + 1
    /\ \A q \in Solutions : Ahead(q)

\* Nothing is answered before the end.
AnswerInv == stage # "done" => ~success /\ ~exhausted

DoneInv ==
  stage = "done" =>
    /\ ~success => selected = Zeros
    /\ success => /\ problem.units <= R
                  /\ Consistent(selected, problem.units)
                  /\ \A q \in Solutions : NotAfter(selected, q, problem.units)
    /\ (~success /\ ~exhausted /\ problem.units <= R) => Solutions = {}
    /\ ~(success /\ exhausted)

SearchInv == SearchTypeOK /\ CallInv /\ VisitInv /\ AnswerInv /\ DoneInv

-----------------------------------------------------------------------------
(* The budget. *)

\* The search has come by p, a placement of the first n units: in the first row in which
\* p differs from the selected ones it has an earlier column, or it does not differ.
Behind(p, n) ==
  \/ \E u \in 0..n - 1 :
       /\ u <= depth
       /\ Agree(p, selected, u)
       /\ u < depth => p[u] < selected[u]
       /\ u = depth => p[u] < from[u]
  \/ n <= depth /\ Agree(p, selected, n)

\* The partial placements with candidates of the table whose last one needs a look.
Partial(n) ==
  { p \in Placements(n) :
      Consistent(p, n - 1) /\ p[n - 1] \in problem.eligible[n - 1] }

Looked == UNION { { p \in Partial(n) : Behind(p, n) } : n \in 1..problem.units }

BudgetInv ==
  /\ stage = "call" => visited = 0
  /\ stage = "visit" => visited = Cardinality(Looked) /\ visited <= problem.budget
  /\ BudgetIsExact

-----------------------------------------------------------------------------
(* Least numbers and first differences. *)

Less == { s \in Nat \X Nat : s[1] < s[2] }

LEMMA LessWellFounded == IsWellFoundedOn(Less, Nat)
BY NatLessThanWellFounded DEF Less, OpToRel

LEMMA LeastNatural ==
  ASSUME NEW S, S \subseteq Nat, S # {}
  PROVE  Min(S) \in S /\ \A y \in S : Min(S) <= y
<1>1. PICK x \in S : \A y \in S : ~ (<<y, x>> \in Less)
  BY LessWellFounded, WFMin
<1>2. \A y \in S : ~ (y < x)
  BY <1>1 DEF Less
<1>3. \A y \in S : x <= y
  BY <1>2
<1> QED BY <1>3 DEF Min

LEMMA FirstDifference ==
  ASSUME NEW p, NEW q, NEW n \in Nat, ~Agree(p, q, n)
  PROVE  \E u \in 0..n - 1 : p[u] # q[u] /\ Agree(p, q, u)
<1> DEFINE D == { u \in 0..n - 1 : p[u] # q[u] }
<1>1. D \subseteq Nat /\ D # {}
  BY DEF Agree
<1>2. Min(D) \in D /\ \A u \in D : Min(D) <= u
  BY <1>1, LeastNatural
<1>3. \A u \in 0..Min(D) - 1 : p[u] = q[u]
  BY <1>1, <1>2
<1> QED BY <1>2, <1>3 DEF Agree

-----------------------------------------------------------------------------
(* Candidates. *)

LEMMA ProblemType ==
  ASSUME SearchTypeOK
  PROVE  /\ problem.eligible \in [Row -> SUBSET Column]
         /\ problem.units \in Nat /\ problem.budget \in Nat
         /\ Row \subseteq Nat /\ Column \subseteq Nat
         /\ R \in Nat
<1>1. /\ problem.eligible \in [Row -> SUBSET Column]
      /\ problem.units \in Units /\ problem.budget \in Budgets
  BY DEF SearchTypeOK, Problem
<1>2. Row \subseteq Nat /\ Column \subseteq Nat
  BY TableAssumption DEF Row, Column
<1> QED BY <1>1, <1>2, TableAssumption, InputAssumption

\* The candidate of a row is its first eligible column not yet looked at.
LEMMA CandidateIsLeast ==
  ASSUME SearchTypeOK, VisitInv, AtCandidate
  PROVE  /\ depth \in Row
         /\ Candidate \in Nat /\ Candidate \in Column
         /\ Candidate \in problem.eligible[depth] /\ Candidate >= from[depth]
         /\ \A c \in problem.eligible[depth] : c >= from[depth] => c >= Candidate
<1>1. depth \in Row
  BY ProblemType DEF AtCandidate, VisitInv, Row, SearchTypeOK
<1>2. Left \subseteq Nat /\ Left # {}
  BY <1>1, ProblemType DEF AtCandidate, Left
<1>3. Candidate \in Left /\ \A c \in Left : Candidate <= c
  BY <1>2, LeastNatural DEF Candidate
<1> QED BY <1>1, <1>2, <1>3, ProblemType DEF Left

LEMMA SearchInit == Init => SearchInv
<1> SUFFICES ASSUME Init PROVE SearchInv
  OBVIOUS
<1>1. Zeros \in [Row -> Nat]
  BY DEF Zeros
<1> QED
  BY <1>1 DEF Init, SearchInv, SearchTypeOK, CallInv, VisitInv, AnswerInv, DoneInv

LEMMA SearchTypeStep == SearchTypeOK /\ VisitInv /\ [Next]_vars => SearchTypeOK'
<1> SUFFICES ASSUME SearchTypeOK, VisitInv, [Next]_vars PROVE SearchTypeOK'
  OBVIOUS
<1> USE DEF SearchTypeOK
<1>a. Zeros \in [Row -> Nat] /\ Row \subseteq Nat
  BY ProblemType DEF Zeros
<1>1. CASE TooManyUnits \/ Begin \/ Found \/ UNCHANGED vars
  BY <1>1 DEF TooManyUnits, Begin, Found, vars, result
<1>2. CASE Exhaust \/ GiveUp
  BY <1>2, <1>a DEF Exhaust, GiveUp
<1>3. CASE Refuse
  BY <1>3, CandidateIsLeast DEF Refuse
<1>4. CASE Select
  BY <1>4, CandidateIsLeast DEF Select, NextColumns
<1>5. CASE Backtrack
  BY <1>5 DEF Backtrack, result
<1> QED BY <1>1, <1>2, <1>3, <1>4, <1>5 DEF Next

\* The problem does not change, and with it what a solution is.
LEMMA ProblemFixed ==
  ASSUME [Next]_vars
  PROVE  /\ problem' = problem
         /\ Solutions' = Solutions
<1>1. problem' = problem
  BY DEF Next, TooManyUnits, Begin, Found, Exhaust, Refuse, Select, Backtrack, GiveUp, vars,
         result
<1> QED BY <1>1 DEF Solutions, Placements, Consistent

\* A solution holds columns, eligible and compatible with those before.
LEMMA SolutionType ==
  ASSUME SearchTypeOK, NEW q \in Solutions
  PROVE  /\ \A u \in 0..problem.units - 1 : q[u] \in Nat
         /\ Consistent(q, problem.units)
BY ProblemType DEF Solutions, Placements, SearchTypeOK

-----------------------------------------------------------------------------
(* The search. *)

\* Looking at a candidate that does not go with the rows above passes no solution.
LEMMA RefusedIsNoSolution ==
  ASSUME SearchInv, Refuse, NEW q \in Solutions, Ahead(q)
  PROVE  Ahead(q)'
<1>1. /\ stage = "visit" /\ depth < problem.units /\ depth \in Row /\ depth \in Nat
      /\ Candidate \in Nat
      /\ \A c \in problem.eligible[depth] : c >= from[depth] => c >= Candidate
  BY CandidateIsLeast DEF SearchInv, Refuse, AtCandidate, SearchTypeOK
<1>2. /\ from' = [from EXCEPT ![depth] = Candidate + 1]
      /\ selected' = selected /\ depth' = depth /\ problem' = problem
      /\ from \in [Row -> Nat]
  BY DEF Refuse, SearchInv, SearchTypeOK
<1>3. PICK u \in 0..depth :
        /\ Agree(q, selected, u)
        /\ u < depth => q[u] > selected[u]
        /\ u = depth => q[u] >= from[u]
  BY <1>1 DEF Ahead
<1>4. CASE u < depth
  BY <1>2, <1>3, <1>4 DEF Ahead, Agree
<1>5. CASE u = depth
  <2>1. /\ q[depth] \in problem.eligible[depth]
        /\ \A earlier \in 0..depth - 1 : <<q[depth], q[earlier]>> \in problem.compatible
    BY <1>1, ProblemType, SolutionType DEF SearchInv, Consistent
  <2>2. q[depth] # Candidate
    BY <1>3, <1>5, <2>1 DEF Refuse, Allowed, Agree
  <2>3. q[depth] >= Candidate + 1
    BY <1>1, <1>3, <1>5, <2>1, <2>2, ProblemType, SolutionType DEF SearchInv
  <2> QED BY <1>1, <1>2, <1>3, <1>5, <2>3 DEF Ahead, Agree
<1> QED BY <1>1, <1>4, <1>5

LEMMA SelectedIsAhead ==
  ASSUME SearchInv, Select, NEW q \in Solutions, Ahead(q)
  PROVE  Ahead(q)'
<1>1. /\ stage = "visit" /\ depth < problem.units /\ depth \in Row /\ depth \in Nat
      /\ Candidate \in Nat /\ problem.units \in Nat /\ problem.units <= R /\ R \in Nat
      /\ \A c \in problem.eligible[depth] : c >= from[depth] => c >= Candidate
  BY CandidateIsLeast, ProblemType
  DEF SearchInv, Select, AtCandidate, SearchTypeOK, VisitInv
<1>2. /\ from' = NextColumns /\ selected' = [selected EXCEPT ![depth] = Candidate]
      /\ depth' = depth + 1 /\ problem' = problem
      /\ from \in [Row -> Nat] /\ selected \in [Row -> Nat]
  BY DEF Select, SearchInv, SearchTypeOK
<1>3. PICK u \in 0..depth :
        /\ Agree(q, selected, u)
        /\ u < depth => q[u] > selected[u]
        /\ u = depth => q[u] >= from[u]
  BY <1>1 DEF Ahead
<1>4. \A w \in 0..depth - 1 : selected'[w] = selected[w]
  BY <1>1, <1>2
<1>5. CASE u < depth
  <2>1. Agree(q, selected', u) /\ q[u] > selected'[u]
    BY <1>1, <1>3, <1>4, <1>5 DEF Agree
  <2> QED BY <1>1, <1>2, <1>5, <2>1 DEF Ahead
<1>6. CASE u = depth
  <2>1. q[depth] \in problem.eligible[depth] /\ q[depth] \in Nat
    BY <1>1, SolutionType DEF SearchInv, Consistent
  <2>2. q[depth] >= Candidate
    BY <1>1, <1>3, <1>6, <2>1
  <2>3. Agree(q, selected', depth) /\ selected'[depth] = Candidate
    BY <1>1, <1>2, <1>3, <1>4, <1>6 DEF Agree
  <2>4. CASE q[depth] = Candidate
    <3>1. Agree(q, selected', depth + 1)
      BY <1>1, <2>3, <2>4 DEF Agree
    <3>2. depth + 1 < problem.units => from'[depth + 1] = 0 /\ q[depth + 1] \in Nat
      BY <1>1, <1>2, SolutionType DEF NextColumns, Row, SearchInv
    <3> QED BY <1>1, <1>2, <3>1, <3>2 DEF Ahead
  <2>5. CASE q[depth] # Candidate
    BY <1>1, <1>2, <2>1, <2>2, <2>3, <2>5 DEF Ahead
  <2> QED BY <2>4, <2>5
<1> QED BY <1>1, <1>5, <1>6

\* A row without candidate left holds back no solution.
LEMMA DeadEndPassesNone ==
  ASSUME SearchInv, DeadEnd, NEW q \in Solutions, Ahead(q)
  PROVE  \E u \in 0..depth - 1 : Agree(q, selected, u) /\ q[u] > selected[u]
<1>1. /\ depth < problem.units /\ depth \in Nat /\ problem.units \in Nat
      /\ \A c \in problem.eligible[depth] : ~ (c >= from[depth])
  BY ProblemType DEF SearchInv, DeadEnd, SearchTypeOK, Left
<1>2. PICK u \in 0..depth :
        /\ Agree(q, selected, u)
        /\ u < depth => q[u] > selected[u]
        /\ u = depth => q[u] >= from[u]
  BY <1>1 DEF Ahead
<1>3. u # depth
  BY <1>1, <1>2, SolutionType DEF SearchInv, Consistent
<1> QED BY <1>1, <1>2, <1>3

LEMMA BacktrackedIsAhead ==
  ASSUME SearchInv, Backtrack, NEW q \in Solutions, Ahead(q)
  PROVE  Ahead(q)'
<1>1. PICK u \in 0..depth - 1 : Agree(q, selected, u) /\ q[u] > selected[u]
  BY DeadEndPassesNone DEF Backtrack
<1>2. /\ depth \in Nat /\ depth > 0 /\ depth' = depth - 1 /\ problem' = problem
      /\ selected' = selected /\ from' = from
      /\ depth < problem.units /\ problem.units \in Nat /\ depth \in 0..R - 1
  BY ProblemType DEF SearchInv, SearchTypeOK, VisitInv, Backtrack, DeadEnd, result
<1>3. from[u] = selected[u] + 1
  BY <1>2 DEF SearchInv, VisitInv, Backtrack, DeadEnd
<1>4. u \in 0..problem.units - 1 /\ u \in Row
  BY <1>1, <1>2, ProblemType DEF SearchInv, Row
<1>5. selected[u] \in Nat /\ q[u] \in Nat
  BY <1>4, SolutionType DEF SearchInv, SearchTypeOK
<1> QED BY <1>1, <1>2, <1>3, <1>5 DEF Ahead

\* What is ahead of a complete placement comes after it.
LEMMA FoundIsFirst ==
  ASSUME SearchInv, Found, NEW q \in Solutions, Ahead(q)
  PROVE  NotAfter(selected, q, problem.units)
<1>1. /\ depth = problem.units /\ depth \in Nat /\ depth <= R /\ R \in Nat
      /\ selected \in [Row -> Nat]
  BY ProblemType DEF Found, SearchInv, SearchTypeOK, VisitInv
<1>2. PICK u \in 0..depth :
        Agree(q, selected, u) /\ (u < depth => q[u] > selected[u])
  BY DEF Ahead
<1>3. \A w \in 0..depth - 1 : q[w] \in Nat /\ selected[w] \in Nat
  BY <1>1, SolutionType DEF SearchInv, Row
<1>4. SUFFICES ASSUME NEW w \in 0..depth - 1, selected[w] > q[w]
               PROVE  \E earlier \in 0..w - 1 : selected[earlier] < q[earlier]
  BY <1>1 DEF NotAfter
<1>5. u < w
  BY <1>1, <1>2, <1>3, <1>4 DEF Agree
<1> QED BY <1>1, <1>2, <1>3, <1>5

LEMMA VisitStep == SearchInv /\ [Next]_vars => VisitInv'
<1> SUFFICES ASSUME SearchInv, [Next]_vars, stage' = "visit" PROVE VisitInv'
  BY DEF VisitInv
<1>a. /\ problem' = problem /\ Solutions' = Solutions
      /\ problem.units \in Nat /\ R \in Nat /\ depth \in Nat
      /\ selected \in [Row -> Nat] /\ from \in [Row -> Nat]
  BY ProblemFixed, ProblemType DEF SearchInv, SearchTypeOK
<1>b. stage = "visit" =>
        /\ problem.units <= R /\ depth <= problem.units
        /\ Consistent(selected, depth)
        /\ \A u \in 0..depth - 1 : from[u] = selected[u] + 1
        /\ \A q \in Solutions : Ahead(q)
  BY DEF SearchInv, VisitInv
<1>1. CASE Begin
  <2>1. /\ problem.units <= R /\ depth = 0 /\ from = Zeros /\ depth' = depth
        /\ from' = from /\ selected' = selected
    BY <1>1 DEF Begin, SearchInv, CallInv, result
  <2>2. Consistent(selected, depth)'
    BY <2>1 DEF Consistent
  <2>3. ASSUME NEW q \in Solutions PROVE Ahead(q)'
    <3>1. 0 < problem.units => from[0] = 0 /\ q[0] \in Nat
      BY <2>1, <1>a, SolutionType DEF Zeros, Row, SearchInv
    <3> QED BY <2>1, <3>1, <1>a DEF Ahead, Agree
  <2> QED BY <2>1, <2>2, <2>3, <1>a DEF VisitInv
<1>2. CASE Refuse
  <2>1. /\ stage = "visit" /\ depth' = depth /\ selected' = selected /\ depth \in Row
        /\ from' = [from EXCEPT ![depth] = Candidate + 1]
    BY <1>2, CandidateIsLeast DEF Refuse, AtCandidate, SearchInv
  <2>2. \A u \in 0..depth - 1 : from'[u] = selected'[u] + 1
    BY <1>a, <1>b, <2>1 DEF Row
  <2>3. Consistent(selected, depth)'
    BY <1>a, <1>b, <2>1 DEF Consistent
  <2>4. \A q \in Solutions : Ahead(q)'
    BY <1>2, <1>b, <2>1, RefusedIsNoSolution
  <2> QED BY <1>a, <1>b, <2>1, <2>2, <2>3, <2>4 DEF VisitInv
<1>3. CASE Select
  <2>1. /\ stage = "visit" /\ depth' = depth + 1 /\ depth < problem.units /\ depth \in Row
        /\ selected' = [selected EXCEPT ![depth] = Candidate] /\ from' = NextColumns
        /\ Candidate \in problem.eligible[depth]
        /\ \A earlier \in 0..depth - 1 :
             <<Candidate, selected[earlier]>> \in problem.compatible
    BY <1>3, CandidateIsLeast DEF Select, AtCandidate, SearchInv, Allowed
  <2>2. /\ \A u \in 0..depth - 1 : u \in Row /\ selected'[u] = selected[u]
        /\ selected'[depth] = Candidate
    BY <1>a, <2>1 DEF Row
  <2>3. Consistent(selected, depth)'
    <3> SUFFICES ASSUME NEW u \in 0..depth
                 PROVE  /\ selected'[u] \in problem.eligible[u]
                        /\ \A earlier \in 0..u - 1 :
                             <<selected'[u], selected'[earlier]>> \in problem.compatible
      BY <1>a, <2>1 DEF Consistent
    <3>1. CASE u < depth
      BY <1>a, <1>b, <2>1, <2>2, <3>1 DEF Consistent
    <3>2. CASE u = depth
      BY <1>a, <2>1, <2>2, <3>2
    <3> QED BY <1>a, <3>1, <3>2
  <2>4. \A u \in 0..depth : from'[u] = selected'[u] + 1
    <3>1. \A u \in 0..depth - 1 : from'[u] = from[u]
      BY <1>a, <2>1, <2>2 DEF NextColumns
    <3>2. from'[depth] = Candidate + 1
      BY <2>1 DEF NextColumns
    <3> QED BY <1>a, <1>b, <2>1, <2>2, <3>1, <3>2
  <2>5. \A q \in Solutions : Ahead(q)'
    BY <1>3, <1>b, <2>1, SelectedIsAhead
  <2>6. (\A u \in 0..depth - 1 : from[u] = selected[u] + 1)'
    BY <1>a, <2>1, <2>4
  <2> QED BY <1>a, <1>b, <2>1, <2>3, <2>5, <2>6 DEF VisitInv
<1>4. CASE Backtrack
  <2>1. /\ stage = "visit" /\ depth' = depth - 1 /\ depth > 0 /\ selected' = selected
        /\ from' = from
    BY <1>4 DEF Backtrack, DeadEnd, result
  <2>2. Consistent(selected, depth)'
    BY <1>a, <1>b, <2>1 DEF Consistent
  <2>3. \A q \in Solutions : Ahead(q)'
    BY <1>4, <1>b, <2>1, BacktrackedIsAhead
  <2> QED BY <1>a, <1>b, <2>1, <2>2, <2>3 DEF VisitInv
<1>5. CASE UNCHANGED vars
  <2>1. /\ stage = "visit" /\ depth' = depth /\ selected' = selected /\ from' = from
    BY <1>5 DEF vars, result
  <2> QED BY <1>a, <1>b, <2>1 DEF VisitInv, Consistent, Ahead
<1>6. ~ (TooManyUnits \/ Found \/ Exhaust \/ GiveUp)
  BY DEF TooManyUnits, Found, Exhaust, GiveUp
<1> QED BY <1>1, <1>2, <1>3, <1>4, <1>5, <1>6 DEF Next

LEMMA DoneStep == SearchInv /\ [Next]_vars => CallInv' /\ AnswerInv' /\ DoneInv'
<1> SUFFICES ASSUME SearchInv, [Next]_vars PROVE CallInv' /\ AnswerInv' /\ DoneInv'
  OBVIOUS
<1>a. problem' = problem /\ Solutions' = Solutions /\ problem.units \in Nat /\ R \in Nat
  BY ProblemFixed, ProblemType DEF SearchInv
<1> USE DEF SearchInv, CallInv, AnswerInv, DoneInv
<1>1. CASE TooManyUnits
  BY <1>1, <1>a DEF TooManyUnits, result
<1>2. CASE Begin \/ Refuse \/ Select \/ Backtrack
  BY <1>2 DEF Begin, Refuse, Select, Backtrack, AtCandidate, DeadEnd, result
<1>3. CASE Found
  <2>1. /\ stage = "visit" /\ problem.units <= R /\ depth = problem.units
        /\ Consistent(selected, depth)
    BY <1>3 DEF Found, VisitInv
  <2>2. \A q \in Solutions : NotAfter(selected, q, problem.units)
    BY <1>3, <2>1, FoundIsFirst DEF VisitInv
  <2>3. /\ selected' = selected /\ success' /\ stage' = "done" /\ ~exhausted'
        /\ problem' = problem
    BY <1>3, <2>1 DEF Found
  <2>4. Consistent(selected, problem.units)'
    BY <2>1, <2>3 DEF Consistent
  <2>5. (\A q \in Solutions : NotAfter(selected, q, problem.units))'
    BY <2>2, <2>3, <1>a DEF NotAfter
  <2> QED BY <2>1, <2>3, <2>4, <2>5
<1>4. CASE Exhaust
  <2>1. /\ stage = "visit" /\ stage' = "done" /\ ~success' /\ exhausted' /\ selected' = Zeros
    BY <1>4 DEF Exhaust, AtCandidate
  <2>2. Zeros' = Zeros
    BY DEF Zeros
  <2> QED BY <2>1, <2>2
<1>5. CASE GiveUp
  <2>1. /\ stage = "visit" /\ stage' = "done" /\ ~success' /\ ~exhausted'
        /\ selected' = Zeros /\ depth = 0
    BY <1>5 DEF GiveUp, DeadEnd
  <2>2. Solutions = {}
    <3> SUFFICES ASSUME NEW q \in Solutions PROVE FALSE
      OBVIOUS
    <3>1. Ahead(q)
      BY <2>1 DEF VisitInv
    <3>2. \E u \in 0..depth - 1 : Agree(q, selected, u) /\ q[u] > selected[u]
      BY <1>5, <3>1, DeadEndPassesNone DEF GiveUp
    <3> QED BY <2>1, <3>2
  <2> QED BY <2>1, <2>2, <1>a DEF Zeros
<1>6. CASE UNCHANGED vars
  <2>1. /\ stage' = stage /\ depth' = depth /\ selected' = selected /\ from' = from
        /\ success' = success /\ exhausted' = exhausted
    BY <1>6 DEF vars, result
  <2> QED BY <2>1, <1>a DEF Consistent, NotAfter, Zeros
<1> QED BY <1>1, <1>2, <1>3, <1>4, <1>5, <1>6 DEF Next

LEMMA SearchInvariant == Spec => []SearchInv
<1>1. SearchInv /\ [Next]_vars => SearchInv'
  BY SearchTypeStep, VisitStep, DoneStep DEF SearchInv
<1> QED BY <1>1, SearchInit, PTL DEF Spec

\* The rows above the current depth hold a consistent partial placement
\* (search.hpp:31-36).
THEOREM PrefixCompatible == Spec => []PrefixIsCompatible
<1>1. SearchInv => PrefixIsCompatible
  BY DEF SearchInv, VisitInv, PrefixIsCompatible
<1> QED BY <1>1, SearchInvariant, PTL

\* A consistent placement of all units is a solution.
LEMMA FoundIsSolution ==
  ASSUME SearchInv, stage = "done", success
  PROVE  /\ [u \in 0..problem.units - 1 |-> selected[u]] \in Solutions
         /\ problem.units \in Nat
         /\ \A u \in 0..problem.units - 1 : selected[u] \in Nat
<1> DEFINE p == [u \in 0..problem.units - 1 |-> selected[u]]
<1>1. /\ problem.units \in Nat /\ problem.units <= R /\ R \in Nat
      /\ Consistent(selected, problem.units)
      /\ problem.eligible \in [Row -> SUBSET Column] /\ Column \subseteq Nat
  BY ProblemType DEF SearchInv, DoneInv
<1>2. \A u \in 0..problem.units - 1 : u \in Row /\ selected[u] \in Column
  BY <1>1 DEF Consistent, Row
<1>3. p \in Placements(problem.units)
  BY <1>2 DEF Placements
<1>4. Consistent(p, problem.units)
  BY <1>1 DEF Consistent
<1> QED BY <1>1, <1>2, <1>3, <1>4 DEF Solutions

\* A search that was not cut short finds a placement exactly when there is one, and an
\* unsuccessful one leaves no choice in its result (search.hpp:28,40-43).
THEOREM VerdictRight == Spec => []VerdictIsRight
<1>1. SearchInv => VerdictIsRight
  BY FoundIsSolution DEF SearchInv, DoneInv, VerdictIsRight, Answered, SearchTypeOK
<1> QED BY <1>1, SearchInvariant, PTL

\* Of two placements neither of which comes after the other all rows are the same.
LEMMA SamePlacement ==
  ASSUME NEW n \in Nat, NEW p, NEW q,
         \A u \in 0..n - 1 : p[u] \in Nat /\ q[u] \in Nat,
         NotAfter(p, q, n), NotAfter(q, p, n)
  PROVE  Agree(p, q, n)
<1> SUFFICES ASSUME ~Agree(p, q, n) PROVE FALSE
  OBVIOUS
<1>1. PICK u \in 0..n - 1 : p[u] # q[u] /\ Agree(p, q, u)
  BY FirstDifference
<1>2. p[u] > q[u] \/ q[u] > p[u]
  BY <1>1
<1>3. \A earlier \in 0..u - 1 : p[earlier] = q[earlier] /\ p[earlier] \in Nat
  BY <1>1 DEF Agree
<1> QED BY <1>1, <1>2, <1>3 DEF NotAfter

\* The placement found is the first one in the order of rows and columns
\* (search.hpp:26,33).
THEOREM FirstFound == Spec => []FirstSolution
<1>1. SearchInv => FirstSolution
  <2> SUFFICES ASSUME SearchInv, stage = "done", success
               PROVE  Agree(selected, First(Solutions), problem.units)
    BY DEF FirstSolution, Agree
  <2> DEFINE p == [u \in 0..problem.units - 1 |-> selected[u]]
  <2>1. /\ p \in Solutions /\ problem.units \in Nat
        /\ \A u \in 0..problem.units - 1 : selected[u] \in Nat
    BY FoundIsSolution
  <2>2. \A q \in Solutions : NotAfter(selected, q, problem.units)
    BY DEF SearchInv, DoneInv
  <2>3. \A q \in Solutions : NotAfter(p, q, problem.units)
    BY <2>1, <2>2 DEF NotAfter
  <2>4. /\ First(Solutions) \in Solutions
        /\ \A q \in Solutions : NotAfter(First(Solutions), q, problem.units)
    BY <2>1, <2>3 DEF First
  <2>5. NotAfter(First(Solutions), p, problem.units)
    BY <2>1, <2>4
  <2>6. NotAfter(First(Solutions), selected, problem.units)
    BY <2>1, <2>5 DEF NotAfter
  <2>7. \A u \in 0..problem.units - 1 : First(Solutions)[u] \in Nat
    BY <2>4, SolutionType DEF SearchInv
  <2> QED BY <2>1, <2>2, <2>4, <2>6, <2>7, SamePlacement
<1> QED BY <1>1, SearchInvariant, PTL

-----------------------------------------------------------------------------
(* The placements of n units are finitely many. *)

LEMMA NoUnits == IsFiniteSet(Placements(0))
<1>1. Placements(0) = [{} -> Column]
  BY DEF Placements
<1>2. \A p, q \in [{} -> Column] : p = q
  OBVIOUS
<1>3. PICK p : [{} -> Column] \subseteq {p}
  BY <1>2
<1> QED BY <1>1, <1>3, FS_Singleton, FS_Subset

LEMMA OneUnitMore ==
  ASSUME NEW n \in Nat, IsFiniteSet(Placements(n))
  PROVE  IsFiniteSet(Placements(n + 1))
<1> DEFINE S == Placements(n) \X Column
           f == [s \in S |-> [u \in 0..n |-> IF u = n THEN s[2] ELSE s[1][u]]]
<1>1. IsFiniteSet(S)
  <2>1. IsFiniteSet(Column)
    BY TableAssumption, FS_Interval DEF Column
  <2> QED BY <2>1, FS_Product
<1>2. Placements(n + 1) = [0..n -> Column]
  BY DEF Placements
<1>3. f \in [S -> [0..n -> Column]]
  <2> SUFFICES ASSUME NEW s \in S PROVE f[s] \in [0..n -> Column]
    OBVIOUS
  <2>1. s[1] \in [0..n - 1 -> Column] /\ s[2] \in Column
    BY DEF Placements
  <2> QED BY <2>1
<1>4. ASSUME NEW p \in [0..n -> Column] PROVE \E s \in S : f[s] = p
  <2> DEFINE s == <<[u \in 0..n - 1 |-> p[u]], p[n]>>
  <2>1. s \in S
    BY DEF Placements
  <2>2. f[s] = p
    BY <2>1
  <2> QED BY <2>1, <2>2
<1>5. f \in Surjection(S, Placements(n + 1))
  BY <1>2, <1>3, <1>4 DEF Surjection
<1> QED BY <1>1, <1>5, FS_Surjection

LEMMA PlacementsFinite == \A n \in Nat : IsFiniteSet(Placements(n))
<1> DEFINE Bad == { n \in Nat : ~ IsFiniteSet(Placements(n)) }
<1> SUFFICES ASSUME Bad # {} PROVE FALSE
  OBVIOUS
<1>1. PICK m \in Bad : \A n \in Bad : m <= n
  BY LeastNatural
<1>2. m \in Nat /\ m # 0
  BY <1>1, NoUnits
<1>3. m - 1 \in Nat /\ m - 1 \notin Bad
  BY <1>1, <1>2
<1>4. IsFiniteSet(Placements(m - 1 + 1))
  BY <1>3, OneUnitMore
<1>5. m - 1 + 1 = m
  BY <1>2
<1> QED BY <1>1, <1>4, <1>5

LEMMA PartialFinite ==
  ASSUME NEW m \in Nat
  PROVE  IsFiniteSet(UNION { Placements(n) : n \in 1..m })
<1> DEFINE T == { Placements(n) : n \in 1..m }
           f == [n \in 1..m |-> Placements(n)]
<1>1. f \in Surjection(1..m, T)
  BY DEF Surjection
<1>2. IsFiniteSet(T)
  BY <1>1, FS_Interval, FS_Surjection
<1>3. \A S \in T : IsFiniteSet(S)
  BY PlacementsFinite
<1> QED BY <1>2, <1>3, FS_UNION

LEMMA LooksFinite ==
  ASSUME SearchTypeOK
  PROVE  IsFiniteSet(Looks) /\ IsFiniteSet(Looked)
<1> DEFINE S == UNION { Placements(n) : n \in 1..problem.units }
<1>1. IsFiniteSet(S)
  BY ProblemType, PartialFinite
<1>2. Looks \subseteq S /\ Looked \subseteq S
  BY DEF Looks, Looked, Partial
<1> QED BY <1>1, <1>2, FS_Subset

-----------------------------------------------------------------------------
(* There is a first solution. *)

LEMMA EarlierInOrder ==
  ASSUME NEW n \in Nat, NEW s \in [1..n -> Nat], NEW t \in [1..n -> Nat], NEW j \in 1..n,
         \A i \in 1..j - 1 : s[i] = t[i], s[j] < t[j]
  PROVE  <<s, t>> \in LexProductOrdering(Less, Nat, n)
<1>1. <<s[j], t[j]>> \in Less
  BY DEF Less
<1> QED BY <1>1 DEF LexProductOrdering

LEMMA FirstExists ==
  ASSUME SearchTypeOK, Solutions # {}
  PROVE  /\ First(Solutions) \in Solutions
         /\ \A q \in Solutions : NotAfter(First(Solutions), q, problem.units)
<1> DEFINE n == problem.units
           Shifted(p) == [i \in 1..n |-> p[i - 1]]
           T == { Shifted(p) : p \in Solutions }
<1>1. n \in Nat
  BY ProblemType
<1>2. ASSUME NEW p \in Solutions PROVE Shifted(p) \in [1..n -> Nat]
  BY <1>1, SolutionType
<1>3. T \subseteq [1..n -> Nat] /\ T # {}
  BY <1>2
<1>4. IsWellFoundedOn(LexProductOrdering(Less, Nat, n), [1..n -> Nat])
  BY <1>1, LessWellFounded, WFLexProductOrdering
<1>5. PICK s \in T : \A t \in T : ~ (<<t, s>> \in LexProductOrdering(Less, Nat, n))
  BY <1>3, <1>4, WFMin
<1>6. PICK p \in Solutions : s = Shifted(p)
  OBVIOUS
<1>7. ASSUME NEW q \in Solutions PROVE NotAfter(p, q, n)
  <2>1. \A u \in 0..n - 1 : p[u] \in Nat /\ q[u] \in Nat
    BY SolutionType
  <2>2. CASE Agree(p, q, n)
    BY <2>1, <2>2 DEF Agree, NotAfter
  <2>3. CASE ~Agree(p, q, n)
    <3>1. PICK u \in 0..n - 1 : p[u] # q[u] /\ Agree(p, q, u)
      BY <1>1, <2>3, FirstDifference
    <3>2. ~ (q[u] < p[u])
      <4> SUFFICES ASSUME q[u] < p[u] PROVE FALSE
        OBVIOUS
      <4> DEFINE t == Shifted(q)
      <4>1. t \in T /\ t \in [1..n -> Nat] /\ s \in [1..n -> Nat]
        BY <1>2, <1>3
      <4>2. u + 1 \in 1..n /\ t[u + 1] = q[u] /\ s[u + 1] = p[u]
        BY <1>1, <1>6
      <4>3. \A i \in 1..(u + 1) - 1 : t[i] = s[i]
        BY <1>1, <1>6, <3>1 DEF Agree
      <4>4. t[u + 1] < s[u + 1]
        BY <4>2
      <4> HIDE DEF t
      <4>5. <<t, s>> \in LexProductOrdering(Less, Nat, n)
        BY <1>1, <4>1, <4>2, <4>3, <4>4, EarlierInOrder
      <4> QED BY <1>5, <4>1, <4>5
    <3>3. p[u] < q[u]
      BY <2>1, <3>1, <3>2
    <3> QED BY <1>1, <2>1, <3>1, <3>3 DEF Agree, NotAfter
  <2> QED BY <2>2, <2>3
<1> QED BY <1>7 DEF First

-----------------------------------------------------------------------------
(* One look at a time. *)

\* The partial placement that is looked at next.
Look == [u \in 0..depth |-> IF u = depth THEN Candidate ELSE selected[u]]

\* Partial placements hold eligible columns, and compatible ones but for the last.
LEMMA PartialType ==
  ASSUME SearchTypeOK, NEW n \in 1..problem.units, NEW p \in Partial(n)
  PROVE  /\ n \in Nat /\ n >= 1 /\ n <= problem.units
         /\ p \in [0..n - 1 -> Column]
         /\ \A u \in 0..n - 1 : p[u] \in Nat /\ p[u] \in problem.eligible[u]
         /\ \A u \in 0..n - 2 : \A earlier \in 0..u - 1 :
              <<p[u], p[earlier]>> \in problem.compatible
<1>1. /\ problem.units \in Nat /\ Column \subseteq Nat
      /\ p \in [0..n - 1 -> Column] /\ Consistent(p, n - 1)
      /\ p[n - 1] \in problem.eligible[n - 1]
  BY ProblemType DEF Partial, Placements
<1>2. n \in Nat /\ n >= 1 /\ n <= problem.units
  BY <1>1
<1>3. \A u \in 0..n - 1 : p[u] \in problem.eligible[u]
  <2> SUFFICES ASSUME NEW u \in 0..n - 1 PROVE p[u] \in problem.eligible[u]
    OBVIOUS
  <2>1. u = n - 1 \/ u \in 0..(n - 1) - 1
    BY <1>2
  <2> QED BY <1>1, <2>1 DEF Consistent
<1>4. (n - 1) - 1 = n - 2
  BY <1>2
<1> QED BY <1>1, <1>2, <1>3, <1>4 DEF Consistent

\* What is known where a candidate is looked at or missing.
LEMMA VisitType ==
  ASSUME SearchInv, stage = "visit"
  PROVE  /\ depth \in Nat /\ problem.units \in Nat /\ R \in Nat
         /\ depth <= problem.units /\ problem.units <= R
         /\ \A u \in 0..depth - 1 :
              selected[u] \in Nat /\ selected[u] \in Column /\ from[u] = selected[u] + 1
         /\ depth < problem.units => depth \in Row /\ from[depth] \in Nat
         /\ Consistent(selected, depth)
<1>1. /\ depth \in Nat /\ problem.units \in Nat /\ R \in Nat
      /\ depth <= problem.units /\ problem.units <= R
      /\ Consistent(selected, depth)
      /\ \A u \in 0..depth - 1 : from[u] = selected[u] + 1
      /\ problem.eligible \in [Row -> SUBSET Column] /\ Column \subseteq Nat
      /\ from \in [Row -> Nat]
  BY ProblemType DEF SearchInv, SearchTypeOK, VisitInv
<1>2. \A u \in 0..depth - 1 : u \in Row
  BY <1>1 DEF Row
<1>3. depth < problem.units => depth \in Row
  BY <1>1 DEF Row
<1> QED BY <1>1, <1>2, <1>3 DEF Consistent

LEMMA LookIsNew ==
  ASSUME SearchInv, AtCandidate
  PROVE  /\ depth + 1 \in 1..problem.units
         /\ Look \in Partial(depth + 1)
         /\ Look \notin Looked
<1>1. stage = "visit" /\ depth < problem.units
  BY DEF AtCandidate
<1>2. /\ Candidate \in Nat /\ Candidate \in Column
      /\ Candidate \in problem.eligible[depth] /\ Candidate >= from[depth]
  BY CandidateIsLeast DEF SearchInv
<1>3. depth + 1 \in 1..problem.units
  BY <1>1, VisitType
<1>4. Look \in [0..depth -> Column] /\ Look[depth] = Candidate
  BY <1>1, <1>2, VisitType DEF Look
<1>5. \A u \in 0..depth - 1 : Look[u] = selected[u] /\ selected[u] \in Nat
  BY <1>1, VisitType DEF Look
<1>6. (depth + 1) - 1 = depth /\ depth \in Nat
  BY <1>1, VisitType
<1>7. Consistent(Look, depth)
  BY <1>1, <1>5, VisitType DEF Consistent
<1>8. Look \in Partial(depth + 1)
  BY <1>2, <1>4, <1>6, <1>7 DEF Partial, Placements
<1>9. ASSUME NEW n \in 1..problem.units, Look \in Partial(n), Behind(Look, n) PROVE FALSE
  <2>1. n \in Nat /\ n >= 1 /\ Look \in [0..n - 1 -> Column]
    BY <1>9, PartialType DEF SearchInv
  <2>2. 0..n - 1 = 0..depth
    BY <1>4, <2>1
  <2>3. n = depth + 1
    BY <1>6, <2>1, <2>2
  <2>4. ~ (n <= depth)
    BY <1>6, <2>3
  <2>5. PICK u \in 0..n - 1 : /\ u <= depth
                              /\ u < depth => Look[u] < selected[u]
                              /\ u = depth => Look[u] < from[u]
    BY <1>9, <2>4 DEF Behind
  <2> QED BY <1>1, <1>2, <1>4, <1>5, <1>6, <2>5, VisitType
<1> QED BY <1>3, <1>8, <1>9 DEF Looked

\* A partial placement that ends where the next look does and agrees with it is that look.
LEMMA LookIsLast ==
  ASSUME SearchInv, AtCandidate, NEW p \in Partial(depth + 1), depth + 1 \in 1..problem.units,
         Agree(p, selected, depth), p[depth] = Candidate
  PROVE  p = Look
<1>1. depth \in Nat /\ (depth + 1) - 1 = depth
  BY VisitType DEF AtCandidate
<1>2. p \in [0..depth -> Column]
  BY <1>1 DEF Partial, Placements
<1>3. \A u \in 0..depth : p[u] = Look[u]
  BY <1>1 DEF Agree, Look
<1> QED BY <1>2, <1>3 DEF Look

\* A refused candidate is one look.
LEMMA RefuseLooks ==
  ASSUME SearchInv, Refuse
  PROVE  Looked' = Looked \cup {Look}
<1>1. AtCandidate /\ ~Allowed(Candidate) /\ stage = "visit" /\ depth < problem.units
  BY DEF Refuse, AtCandidate
<1>2. /\ problem' = problem /\ selected' = selected /\ depth' = depth
      /\ from' = [from EXCEPT ![depth] = Candidate + 1]
      /\ from \in [Row -> Nat] /\ depth \in Row /\ depth \in Nat
      /\ Candidate \in Nat /\ Candidate >= from[depth]
      /\ \A c \in problem.eligible[depth] : c >= from[depth] => c >= Candidate
  BY <1>1, CandidateIsLeast DEF Refuse, SearchInv, SearchTypeOK
<1>3. /\ from'[depth] = Candidate + 1 /\ from[depth] \in Nat
      /\ \A u \in Nat : u # depth => from'[u] = from[u]
  BY <1>2
<1>4. \A n : Partial(n)' = Partial(n)
  BY <1>2 DEF Partial, Placements, Consistent
<1>5. ASSUME NEW n \in 1..problem.units, NEW p \in Partial(n)
      PROVE  Behind(p, n)' <=> Behind(p, n) \/ p = Look
  <2>1. /\ n \in Nat /\ n >= 1 /\ n <= problem.units
        /\ p \in [0..n - 1 -> Column]
        /\ \A u \in 0..n - 1 : p[u] \in Nat /\ p[u] \in problem.eligible[u]
        /\ \A u \in 0..n - 2 : \A earlier \in 0..u - 1 :
             <<p[u], p[earlier]>> \in problem.compatible
    BY PartialType DEF SearchInv
  <2>2. ASSUME Behind(p, n) PROVE Behind(p, n)'
    <3>1. CASE n <= depth /\ Agree(p, selected, n)
      BY <1>2, <3>1 DEF Behind, Agree
    <3>2. ASSUME NEW u \in 0..n - 1, u <= depth, Agree(p, selected, u),
                 u < depth => p[u] < selected[u], u = depth => p[u] < from[u]
          PROVE  Behind(p, n)'
      <4>1. u = depth => p[u] < from'[u]
        BY <1>2, <1>3, <2>1, <3>2
      <4> QED BY <1>2, <3>2, <4>1 DEF Behind, Agree
    <3> QED BY <2>2, <3>1, <3>2 DEF Behind
  <2>3. ASSUME p = Look PROVE Behind(p, n)'
    <3>1. 0..n - 1 = 0..depth
      BY <2>1, <2>3 DEF Look
    <3>2. depth \in 0..n - 1
      BY <1>2, <3>1
    <3>3. Agree(p, selected, depth) /\ p[depth] = Candidate
      BY <1>2, <2>3 DEF Agree, Look
    <3>4. p[depth] < from'[depth]
      BY <1>2, <1>3, <3>3
    <3> QED BY <1>2, <3>2, <3>3, <3>4 DEF Behind, Agree
  <2>4. ASSUME Behind(p, n)', ~Behind(p, n) PROVE p = Look
    <3>1. ~ (n <= depth /\ Agree(p, selected, n))'
      BY <1>2, <2>4 DEF Behind, Agree
    <3>2. PICK u \in 0..n - 1 : /\ u <= depth /\ Agree(p, selected, u)
                                /\ u < depth => p[u] < selected[u]
                                /\ u = depth => p[u] < from'[u]
      BY <1>2, <2>4, <3>1 DEF Behind, Agree
    <3>3. u = depth /\ ~ (p[depth] < from[depth])
      BY <1>2, <2>4, <3>2 DEF Behind
    <3>4. p[depth] = Candidate
      BY <1>2, <1>3, <2>1, <3>2, <3>3
    <3>5. n = depth + 1
      <4> SUFFICES ASSUME n # depth + 1 PROVE FALSE
        OBVIOUS
      <4>1. depth \in 0..n - 2
        BY <1>2, <2>1, <3>2, <3>3
      <4>2. \A earlier \in 0..depth - 1 :
              <<Candidate, selected[earlier]>> \in problem.compatible
        BY <2>1, <3>2, <3>3, <3>4, <4>1 DEF Agree
      <4> QED BY <1>1, <4>2 DEF Allowed
    <3> QED BY <1>1, <3>2, <3>3, <3>4, <3>5, LookIsLast
  <2> QED BY <2>2, <2>3, <2>4
<1>6. depth + 1 \in 1..problem.units /\ Look \in Partial(depth + 1)
  BY <1>1, LookIsNew
<1> QED BY <1>2, <1>4, <1>5, <1>6 DEF Looked

\* A selected candidate is one look.
LEMMA SelectLooks ==
  ASSUME SearchInv, Select
  PROVE  Looked' = Looked \cup {Look}
<1>1. AtCandidate /\ stage = "visit" /\ depth < problem.units
  BY DEF Select, AtCandidate
<1>2. /\ problem' = problem /\ depth' = depth + 1 /\ from' = NextColumns
      /\ selected' = [selected EXCEPT ![depth] = Candidate]
      /\ selected \in [Row -> Nat]
      /\ from \in [Row -> Nat] /\ depth \in Row /\ depth \in Nat
      /\ Candidate \in Nat /\ Candidate >= from[depth]
      /\ \A c \in problem.eligible[depth] : c >= from[depth] => c >= Candidate
  BY <1>1, CandidateIsLeast DEF Select, SearchInv, SearchTypeOK
<1>3. /\ selected'[depth] = Candidate /\ from[depth] \in Nat
      /\ \A u \in 0..depth - 1 : selected'[u] = selected[u]
      /\ depth + 1 < problem.units => from'[depth + 1] = 0
  <2>1. depth + 1 < problem.units => depth + 1 \in Row
    BY <1>1, <1>2, VisitType DEF Row
  <2> QED BY <1>2, <2>1 DEF NextColumns
<1>4. \A n : Partial(n)' = Partial(n)
  BY <1>2 DEF Partial, Placements, Consistent
<1>5. ASSUME NEW n \in 1..problem.units, NEW p \in Partial(n)
      PROVE  Behind(p, n)' <=> Behind(p, n) \/ p = Look
  <2>1. /\ n \in Nat /\ n >= 1 /\ n <= problem.units
        /\ \A u \in 0..n - 1 : p[u] \in Nat /\ p[u] \in problem.eligible[u]
    BY PartialType DEF SearchInv
  <2>2. ASSUME Behind(p, n) PROVE Behind(p, n)'
    <3>1. CASE n <= depth /\ Agree(p, selected, n)
      <4>1. n <= depth' /\ Agree(p, selected', n)
        BY <1>2, <1>3, <2>1, <3>1 DEF Agree
      <4> QED BY <4>1 DEF Behind, Agree
    <3>2. ASSUME NEW u \in 0..n - 1, u <= depth, Agree(p, selected, u),
                 u < depth => p[u] < selected[u], u = depth => p[u] < from[u]
          PROVE  Behind(p, n)'
      <4>1. Agree(p, selected', u)
        BY <1>2, <1>3, <2>1, <3>2 DEF Agree
      <4>2. p[u] < selected'[u]
        BY <1>2, <1>3, <2>1, <3>2
      <4>3. u <= depth' /\ u # depth'
        BY <1>2, <3>2
      <4> QED BY <4>1, <4>2, <4>3 DEF Behind, Agree
    <3> QED BY <2>2, <3>1, <3>2 DEF Behind
  <2>3. ASSUME p = Look PROVE Behind(p, n)'
    <3>1. p \in [0..n - 1 -> Column]
      BY PartialType DEF SearchInv
    <3>2. 0..n - 1 = 0..depth
      BY <2>3, <3>1 DEF Look
    <3>3. n = depth + 1
      BY <1>2, <2>1, <3>2
    <3>4. Agree(p, selected', n)
      BY <1>2, <1>3, <2>3, <3>3 DEF Agree, Look
    <3> QED BY <1>2, <3>3, <3>4 DEF Behind, Agree
  <2>4. ASSUME Behind(p, n)', ~Behind(p, n) PROVE p = Look
    <3>1. CASE n <= depth' /\ Agree(p, selected', n)
      <4>1. n = depth + 1
        BY <1>2, <1>3, <2>1, <2>4, <3>1 DEF Behind, Agree
      <4>2. Agree(p, selected, depth) /\ p[depth] = Candidate
        BY <1>2, <1>3, <3>1, <4>1 DEF Agree
      <4> QED BY <1>1, <4>1, <4>2, LookIsLast
    <3>2. ASSUME NEW u \in 0..n - 1, u <= depth', Agree(p, selected', u),
                 u < depth' => p[u] < selected'[u], u = depth' => p[u] < from'[u]
          PROVE  FALSE
      <4>1. u # depth'
        <5> SUFFICES ASSUME u = depth + 1 PROVE FALSE
          BY <1>2
        <5>1. u \in Nat /\ depth + 1 < problem.units
          BY <1>1, <1>2, <2>1, VisitType
        <5> QED BY <1>2, <1>3, <2>1, <3>2, <5>1
      <4>2. u <= depth /\ p[u] < selected'[u] /\ Agree(p, selected, u)
        BY <1>2, <1>3, <2>1, <3>2, <4>1 DEF Agree
      <4>3. u < depth => p[u] < selected[u]
        BY <1>2, <1>3, <4>2
      <4>4. u = depth => p[u] < from[u]
        BY <1>2, <1>3, <2>1, <4>2
      <4> QED BY <2>4, <4>2, <4>3, <4>4 DEF Behind
    <3> QED BY <2>4, <3>1, <3>2 DEF Behind, Agree
  <2> QED BY <2>2, <2>3, <2>4
<1>6. depth + 1 \in 1..problem.units /\ Look \in Partial(depth + 1)
  BY <1>1, LookIsNew
<1> QED BY <1>2, <1>4, <1>5, <1>6 DEF Looked

\* Going back looks at nothing and forgets nothing.
LEMMA BacktrackLooks ==
  ASSUME SearchInv, Backtrack
  PROVE  Looked' = Looked
<1>1. /\ stage = "visit" /\ depth < problem.units /\ depth > 0 /\ depth \in Nat
      /\ problem' = problem /\ depth' = depth - 1 /\ selected' = selected /\ from' = from
      /\ from[depth] \in Nat /\ depth \in Row
      /\ \A u \in 0..depth - 1 : selected[u] \in Nat /\ from[u] = selected[u] + 1
  BY VisitType DEF Backtrack, DeadEnd, result
<1>2. \A c \in problem.eligible[depth] : c \in Nat /\ c < from[depth]
  <2>1. problem.eligible[depth] \subseteq Nat
    BY <1>1, ProblemType DEF SearchInv
  <2> QED BY <1>1, <2>1 DEF Backtrack, DeadEnd, Left
<1>3. \A n : Partial(n)' = Partial(n)
  BY <1>1 DEF Partial, Placements, Consistent
<1>4. ASSUME NEW n \in 1..problem.units, NEW p \in Partial(n)
      PROVE  Behind(p, n)' <=> Behind(p, n)
  <2>1. /\ n \in Nat /\ n >= 1 /\ n <= problem.units
        /\ \A u \in 0..n - 1 : p[u] \in Nat /\ p[u] \in problem.eligible[u]
    BY PartialType DEF SearchInv
  <2>2. \A k : Agree(p, selected, k)' <=> Agree(p, selected, k)
    BY <1>1 DEF Agree
  <2>3. ASSUME n >= depth, Agree(p, selected, depth) PROVE Behind(p, n) /\ Behind(p, n)'
    <3>1. Behind(p, n)
      <4>1. CASE n = depth
        BY <1>1, <2>3, <4>1 DEF Behind
      <4>2. CASE n # depth
        <5>1. depth \in 0..n - 1
          BY <1>1, <2>1, <2>3, <4>2
        <5> QED BY <1>1, <1>2, <2>1, <2>3, <5>1 DEF Behind
      <4> QED BY <4>1, <4>2
    <3>2. depth - 1 \in 0..n - 1 /\ p[depth - 1] = selected[depth - 1]
      BY <1>1, <2>1, <2>3 DEF Agree
    <3>3. p[depth - 1] < from[depth - 1] /\ Agree(p, selected, depth - 1)
      BY <1>1, <2>3, <3>2 DEF Agree
    <3> QED BY <1>1, <2>2, <3>1, <3>2, <3>3 DEF Behind
  <2>4. ASSUME Behind(p, n), ~ (n >= depth /\ Agree(p, selected, depth))
        PROVE  Behind(p, n)'
    <3>1. CASE n <= depth /\ Agree(p, selected, n)
      BY <1>1, <2>1, <2>2, <2>4, <3>1 DEF Behind
    <3>2. ASSUME NEW u \in 0..n - 1, u <= depth, Agree(p, selected, u),
                 u < depth => p[u] < selected[u]
          PROVE  Behind(p, n)'
      <4>1. u < depth
        BY <1>1, <2>1, <2>4, <3>2
      <4>2. p[u] < from[u]
        BY <1>1, <2>1, <3>2, <4>1
      <4> QED BY <1>1, <2>2, <3>2, <4>1, <4>2 DEF Behind
    <3> QED BY <2>4, <3>1, <3>2 DEF Behind
  <2>5. ASSUME Behind(p, n)', ~ (n >= depth /\ Agree(p, selected, depth))
        PROVE  Behind(p, n)
    <3>1. CASE n <= depth' /\ Agree(p, selected, n)
      BY <1>1, <2>1, <3>1 DEF Behind
    <3>2. ASSUME NEW u \in 0..n - 1, u <= depth', Agree(p, selected, u),
                 u < depth' => p[u] < selected[u], u = depth' => p[u] < from[u]
          PROVE  Behind(p, n)
      <4>1. u < depth /\ u <= depth /\ u # depth
        BY <1>1, <2>1, <3>2
      <4>2. CASE p[u] < selected[u]
        BY <3>2, <4>1, <4>2 DEF Behind
      <4>3. CASE ~ (p[u] < selected[u])
        <5>1. u = depth - 1 /\ p[u] = selected[u]
          BY <1>1, <2>1, <3>2, <4>3
        <5>2. n >= depth /\ Agree(p, selected, depth)
          BY <1>1, <2>1, <3>2, <5>1 DEF Agree
        <5> QED BY <2>5, <5>2
      <4> QED BY <4>2, <4>3
    <3> QED BY <1>1, <2>5, <3>1, <3>2 DEF Behind, Agree
  <2> QED BY <2>3, <2>4, <2>5
<1> QED BY <1>1, <1>3, <1>4 DEF Looked

LEMMA BeginLooks ==
  ASSUME SearchInv, Begin
  PROVE  Looked' = {}
<1>1. /\ problem' = problem /\ depth' = 0 /\ from' = Zeros /\ selected' = selected
      /\ problem.units \in Nat /\ problem.units <= R /\ R \in Nat
  BY ProblemType DEF Begin, SearchInv, CallInv, result
<1>2. \A n : Partial(n)' = Partial(n)
  BY <1>1 DEF Partial, Placements, Consistent
<1>3. ASSUME NEW n \in 1..problem.units, NEW p \in Partial(n) PROVE ~Behind(p, n)'
  <2>1. n \in Nat /\ n >= 1 /\ \A u \in 0..n - 1 : p[u] \in Nat
    BY PartialType DEF SearchInv
  <2>2. from'[0] = 0
    BY <1>1, <2>1 DEF Zeros, Row
  <2> QED BY <1>1, <2>1, <2>2 DEF Behind
<1> QED BY <1>1, <1>2, <1>3 DEF Looked

-----------------------------------------------------------------------------
(* All looks of a search without budget. *)

\* Placements that agree up to u and have columns in order there are in order.
LEMMA InOrder ==
  ASSUME NEW n \in Nat, NEW p, NEW q, NEW u \in Nat, Agree(p, q, u),
         \A w \in 0..n - 1 : p[w] \in Nat /\ q[w] \in Nat,
         u < n => p[u] < q[u]
  PROVE  NotAfter(p, q, n)
<1> SUFFICES ASSUME NEW w \in 0..n - 1, p[w] > q[w]
             PROVE  \E earlier \in 0..w - 1 : p[earlier] < q[earlier]
  BY DEF NotAfter
<1>1. ~ (w < u) /\ w # u
  BY DEF Agree
<1> QED BY <1>1

\* The search without budget looks at all the search has looked at.
LEMMA LookedIsLooks ==
  ASSUME SearchInv, stage = "visit"
  PROVE  Looked \subseteq Looks
<1> SUFFICES ASSUME NEW n \in 1..problem.units, NEW p \in Partial(n), Behind(p, n),
                    Solutions # {}
             PROVE  NotAfter(p, First(Solutions), n)
  BY DEF Looked, Looks, Partial
<1> DEFINE q == First(Solutions)
<1>1. q \in Solutions /\ Ahead(q) /\ depth \in Nat /\ problem.units \in Nat
  BY FirstExists, VisitType DEF SearchInv, VisitInv
<1> HIDE DEF q
<1>2. /\ n \in Nat /\ n >= 1 /\ n <= problem.units
      /\ \A w \in 0..n - 1 : p[w] \in Nat
  BY PartialType DEF SearchInv
<1>3. \A w \in 0..problem.units - 1 : q[w] \in Nat
  BY <1>1, SolutionType DEF SearchInv
<1>4. \A w \in 0..n - 1 : q[w] \in Nat
  BY <1>1, <1>2, <1>3
<1>5. PICK a \in 0..depth :
        /\ Agree(q, selected, a)
        /\ a < depth => q[a] > selected[a]
        /\ (a = depth /\ a < problem.units) => q[a] >= from[a]
  BY <1>1 DEF Ahead
<1>6. CASE n <= depth /\ Agree(p, selected, n)
  <2>1. CASE a < n
    <3>1. Agree(p, q, a) /\ p[a] < q[a]
      BY <1>1, <1>2, <1>4, <1>5, <1>6, <2>1 DEF Agree
    <3> QED BY <1>1, <1>2, <1>4, <1>5, <3>1, InOrder DEF q
  <2>2. CASE ~ (a < n)
    <3>1. Agree(p, q, n)
      BY <1>1, <1>2, <1>5, <1>6, <2>2 DEF Agree
    <3> QED BY <1>2, <1>4, <3>1, InOrder DEF q
  <2> QED BY <2>1, <2>2
<1>7. ASSUME NEW u \in 0..n - 1, u <= depth, Agree(p, selected, u),
             u < depth => p[u] < selected[u], u = depth => p[u] < from[u]
      PROVE  NotAfter(p, q, n)
  <2>1. u \in Nat /\ a \in Nat
    BY <1>1, <1>2
  <2>2. CASE a < u
    <3>1. Agree(p, q, a) /\ p[a] < q[a]
      BY <1>1, <1>2, <1>4, <1>5, <1>7, <2>1, <2>2 DEF Agree
    <3> QED BY <1>2, <1>4, <2>1, <3>1, InOrder
  <2>3. CASE u <= a
    <3>1. Agree(p, q, u)
      BY <1>5, <1>7, <2>1, <2>3 DEF Agree
    <3>2. CASE u < a
      <4>1. q[u] = selected[u] /\ u < depth
        BY <1>1, <1>5, <2>1, <3>2 DEF Agree
      <4> QED BY <1>2, <1>4, <1>7, <2>1, <3>1, <4>1, InOrder
    <3>3. CASE u = a
      <4>1. u < problem.units /\ p[u] \in Nat /\ q[u] \in Nat
        BY <1>1, <1>2, <1>4, <1>7
      <4>2. u < depth => selected[u] \in Nat
        BY <2>1, VisitType
      <4>3. u = depth => from[u] \in Nat
        BY <4>1, VisitType
      <4>4. p[u] < q[u]
        BY <1>1, <1>5, <1>7, <3>3, <4>1, <4>2, <4>3
      <4> QED BY <1>2, <1>4, <2>1, <3>1, <4>4, InOrder
    <3> QED BY <2>1, <2>3, <3>2, <3>3
  <2> QED BY <2>1, <2>2, <2>3
<1> QED BY <1>6, <1>7 DEF Behind, q

\* It also looks at the next candidate.
LEMMA LookIsLooks ==
  ASSUME SearchInv, AtCandidate
  PROVE  Look \in Looks
<1>1. depth + 1 \in 1..problem.units /\ Look \in Partial(depth + 1)
  BY LookIsNew
<1> SUFFICES ASSUME Solutions # {} PROVE NotAfter(Look, First(Solutions), depth + 1)
  BY <1>1 DEF Looks, Partial
<1> DEFINE q == First(Solutions)
<1>2. /\ q \in Solutions /\ Ahead(q) /\ depth \in Nat /\ problem.units \in Nat
      /\ depth < problem.units /\ stage = "visit"
  BY FirstExists, VisitType DEF SearchInv, VisitInv, AtCandidate
<1> HIDE DEF q
<1>3. \A w \in 0..depth : Look[w] \in Nat /\ q[w] \in Nat
  <2>1. \A w \in 0..(depth + 1) - 1 : Look[w] \in Nat
    BY <1>1, PartialType DEF SearchInv
  <2>2. \A w \in 0..problem.units - 1 : q[w] \in Nat
    BY <1>2, SolutionType DEF SearchInv
  <2> QED BY <1>2, <2>1, <2>2
<1>4. PICK a \in 0..depth :
        /\ Agree(q, selected, a)
        /\ a < depth => q[a] > selected[a]
        /\ a = depth => q[a] >= from[a]
  BY <1>2 DEF Ahead
<1>5. Agree(Look, q, a)
  BY <1>2, <1>4 DEF Agree, Look
<1>6. CASE a < depth
  <2>1. Look[a] < q[a]
    BY <1>2, <1>3, <1>4, <1>6 DEF Look
  <2> QED BY <1>2, <1>3, <1>5, <2>1, InOrder DEF q
<1>7. CASE a = depth
  <2>1. q[depth] \in problem.eligible[depth]
    BY <1>2, SolutionType DEF SearchInv, Consistent
  <2>2. q[depth] >= Look[depth]
    BY <1>2, <1>4, <1>7, <2>1, CandidateIsLeast DEF Look, SearchInv
  <2>3. NotAfter(Look, q, depth + 1)
    BY <1>2, <1>3, <1>5, <1>7, <2>2 DEF Agree, NotAfter
  <2> QED BY <2>3 DEF q
<1> QED BY <1>2, <1>6, <1>7

\* When the search has found a placement it has looked at all of them, ...
LEMMA FoundLooks ==
  ASSUME SearchInv, Found
  PROVE  Looks = Looked
<1>1. /\ stage = "visit" /\ depth = problem.units /\ depth \in Nat
      /\ \A u \in 0..depth - 1 : selected[u] \in Nat
      /\ Consistent(selected, depth)
  BY VisitType DEF Found
<1> SUFFICES ASSUME NEW n \in 1..problem.units, NEW p \in Partial(n),
                    Solutions # {} => NotAfter(p, First(Solutions), n)
             PROVE  Behind(p, n)
  BY <1>1, LookedIsLooks DEF Looks, Looked, Partial
<1>2. n \in Nat /\ n <= depth /\ \A u \in 0..n - 1 : p[u] \in Nat
  BY <1>1, PartialType DEF SearchInv
<1>3. NotAfter(p, selected, n)
  <2> DEFINE s == [u \in 0..problem.units - 1 |-> selected[u]]
             q == First(Solutions)
  <2>1. s \in Solutions
    BY <1>1, VisitType DEF Solutions, Placements, Consistent
  <2>2. /\ q \in Solutions /\ NotAfter(q, s, problem.units)
        /\ \A w \in Solutions : NotAfter(q, w, problem.units)
    BY <2>1, FirstExists DEF SearchInv
  <2>3. NotAfter(selected, q, problem.units)
    BY <2>2, FoundIsFirst DEF SearchInv, VisitInv, Found
  <2>4. NotAfter(q, selected, problem.units)
    <3>1. \A u \in 0..problem.units - 1 : s[u] = selected[u]
      OBVIOUS
    <3> HIDE DEF s, q
    <3> QED BY <1>1, <2>2, <3>1 DEF NotAfter
  <2>5. \A u \in 0..problem.units - 1 : q[u] \in Nat
    BY <2>2, SolutionType DEF SearchInv
  <2> HIDE DEF q
  <2>6. Agree(q, selected, problem.units)
    BY <1>1, <2>3, <2>4, <2>5, SamePlacement
  <2>7. NotAfter(p, q, n)
    BY <2>1 DEF q
  <2> QED BY <1>1, <1>2, <2>6, <2>7 DEF NotAfter, Agree
<1>4. CASE Agree(p, selected, n)
  BY <1>2, <1>4 DEF Behind
<1>5. CASE ~Agree(p, selected, n)
  <2>1. PICK u \in 0..n - 1 : p[u] # selected[u] /\ Agree(p, selected, u)
    BY <1>2, <1>5, FirstDifference
  <2>2. p[u] < selected[u] /\ u < depth
    <3>1. u < depth /\ u \in Nat /\ p[u] \in Nat /\ selected[u] \in Nat
      BY <1>1, <1>2
    <3>2. ~ (p[u] > selected[u])
      <4>1. \A e \in 0..u - 1 : p[e] = selected[e] /\ p[e] \in Nat
        BY <1>2, <2>1, <3>1 DEF Agree
      <4> QED BY <1>3, <4>1 DEF NotAfter
    <3> QED BY <2>1, <3>1, <3>2
  <2> QED BY <1>1, <2>1, <2>2 DEF Behind
<1> QED BY <1>4, <1>5

\* ... and also when it gives up.
LEMMA GiveUpLooks ==
  ASSUME SearchInv, GiveUp
  PROVE  Looks = Looked
<1>1. /\ stage = "visit" /\ depth = 0 /\ depth \in Row /\ from[0] \in Nat
      /\ \A c \in problem.eligible[0] : ~ (c >= from[0])
  BY VisitType DEF GiveUp, DeadEnd, Left
<1> SUFFICES ASSUME NEW n \in 1..problem.units, NEW p \in Partial(n) PROVE Behind(p, n)
  BY <1>1, LookedIsLooks DEF Looks, Looked, Partial
<1>2. n \in Nat /\ 0 \in 0..n - 1 /\ p[0] \in Nat /\ p[0] \in problem.eligible[0]
  BY PartialType DEF SearchInv
<1>3. p[0] < from[0]
  BY <1>1, <1>2
<1> QED BY <1>1, <1>2, <1>3 DEF Behind, Agree

-----------------------------------------------------------------------------
(* The budget. *)

LEMMA LeastOfTwo ==
  ASSUME NEW m \in Nat, NEW n \in Nat
  PROVE  Min({m, n}) = IF m <= n THEN m ELSE n
<1>1. Min({m, n}) \in {m, n} /\ Min({m, n}) <= m /\ Min({m, n}) <= n
  BY LeastNatural
<1> QED BY <1>1

LEMMA BudgetInit == Init => BudgetInv
BY DEF Init, BudgetInv, BudgetIsExact, Answered

\* One look more is charged to the budget.
LEMMA BudgetCharged ==
  ASSUME SearchInv, BudgetInv, Refuse \/ Select, Looked' = Looked \cup {Look}
  PROVE  /\ visited' = Cardinality(Looked') /\ visited' <= problem.budget
         /\ stage' = "visit"
<1>1. /\ AtCandidate /\ stage = "visit" /\ stage' = "visit" /\ visited' = visited + 1
      /\ visited # problem.budget
  BY DEF Refuse, Select, AtCandidate, BudgetSpent
<1>2. visited = Cardinality(Looked) /\ visited <= problem.budget /\ visited \in Nat
  BY <1>1 DEF BudgetInv, SearchInv, SearchTypeOK
<1>3. Cardinality(Looked \cup {Look}) = Cardinality(Looked) + 1
  BY <1>1, LookIsNew, LooksFinite, FS_AddElement DEF SearchInv
<1>4. problem.budget \in Nat
  BY ProblemType DEF SearchInv
<1> QED BY <1>1, <1>2, <1>3, <1>4

\* The search ends without having been cut short.
LEMMA BudgetSuffices ==
  ASSUME SearchInv, BudgetInv, Found \/ GiveUp, Looks = Looked
  PROVE  BudgetInv'
<1>1. /\ stage = "visit" /\ stage' = "done" /\ ~exhausted' /\ problem' = problem
      /\ visited' = visited
  BY DEF Found, GiveUp, DeadEnd, SearchInv, AnswerInv
<1>2. /\ visited = Cardinality(Looks) /\ visited <= problem.budget
      /\ visited \in Nat /\ problem.budget \in Nat
  BY <1>1, ProblemType DEF BudgetInv, SearchInv, SearchTypeOK
<1>3. Looks' = Looks
  BY <1>1 DEF Looks, Placements, Consistent, Solutions, First, NotAfter
<1>4. visited' = Min({Cardinality(Looks'), problem'.budget})
  BY <1>1, <1>2, <1>3, LeastOfTwo
<1>5. ~ (Cardinality(Looks') > problem'.budget)
  BY <1>1, <1>2, <1>3
<1>6. BudgetIsExact'
  BY <1>1, <1>4, <1>5 DEF BudgetIsExact
<1> QED BY <1>1, <1>6 DEF BudgetInv

LEMMA BudgetStep == SearchInv /\ BudgetInv /\ [Next]_vars => BudgetInv'
<1> SUFFICES ASSUME SearchInv, BudgetInv, [Next]_vars PROVE BudgetInv'
  OBVIOUS
<1>a. problem' = problem /\ problem.units \in Nat /\ problem.budget \in Nat /\ R \in Nat
  BY ProblemFixed, ProblemType DEF SearchInv
<1>1. CASE TooManyUnits
  <2>1. stage' = "done" /\ ~ (problem'.units <= R)
    BY <1>1, <1>a DEF TooManyUnits
  <2> QED BY <2>1 DEF BudgetInv, BudgetIsExact, Answered
<1>2. CASE Begin
  <2>1. stage' = "visit" /\ visited' = 0 /\ Cardinality(Looked') = 0
    BY <1>2, BeginLooks, FS_EmptySet DEF Begin, result, BudgetInv
  <2> QED BY <1>a, <2>1 DEF BudgetInv, BudgetIsExact, Answered
<1>3. CASE Refuse \/ Select
  <2>1. /\ visited' = Cardinality(Looked') /\ visited' <= problem.budget
        /\ stage' = "visit"
    BY <1>3, RefuseLooks, SelectLooks, BudgetCharged
  <2> QED BY <1>a, <2>1 DEF BudgetInv, BudgetIsExact, Answered
<1>4. CASE Backtrack
  <2>1. stage = "visit" /\ stage' = "visit" /\ visited' = visited /\ Looked' = Looked
    BY <1>4, BacktrackLooks DEF Backtrack, DeadEnd, result
  <2> QED BY <1>a, <2>1 DEF BudgetInv, BudgetIsExact, Answered
<1>5. CASE Found
  BY <1>5, FoundLooks, BudgetSuffices
<1>6. CASE GiveUp
  BY <1>6, GiveUpLooks, BudgetSuffices
<1>7. CASE Exhaust
  <2>1. /\ AtCandidate /\ stage = "visit" /\ stage' = "done" /\ exhausted'
        /\ visited' = visited /\ visited = problem.budget
    BY <1>7 DEF Exhaust, AtCandidate, BudgetSpent
  <2>2. visited = Cardinality(Looked) /\ visited \in Nat
    BY <2>1 DEF BudgetInv, SearchInv, SearchTypeOK
  <2>3. Cardinality(Looked \cup {Look}) = visited + 1
    BY <2>1, <2>2, LookIsNew, LooksFinite, FS_AddElement DEF SearchInv
  <2>4. Looked \cup {Look} \subseteq Looks
    BY <2>1, LookedIsLooks, LookIsLooks
  <2>5. Cardinality(Looks) \in Nat /\ Cardinality(Looks) > problem.budget
    BY <2>1, <2>2, <2>3, <2>4, LooksFinite, FS_Subset, FS_CardinalityType DEF SearchInv
  <2>6. Looks' = Looks
    BY <1>a DEF Looks, Placements, Consistent, Solutions, First, NotAfter
  <2>7. visited' = Min({Cardinality(Looks'), problem'.budget})
    BY <1>a, <2>1, <2>5, <2>6, LeastOfTwo
  <2>8. BudgetIsExact'
    BY <1>a, <2>1, <2>5, <2>6, <2>7 DEF BudgetIsExact
  <2> QED BY <2>1, <2>8 DEF BudgetInv
<1>8. CASE UNCHANGED vars
  <2>1. /\ stage' = stage /\ visited' = visited /\ exhausted' = exhausted
        /\ selected' = selected /\ depth' = depth /\ from' = from
    BY <1>8 DEF vars, result
  <2>2. Looks' = Looks
    BY <1>a DEF Looks, Placements, Consistent, Solutions, First, NotAfter
  <2>3. Looked' = Looked
    BY <1>a, <2>1 DEF Looked, Partial, Placements, Consistent, Behind, Agree
  <2> QED BY <1>a, <2>1, <2>2, <2>3 DEF BudgetInv, BudgetIsExact, Answered
<1> QED BY <1>1, <1>2, <1>3, <1>4, <1>5, <1>6, <1>7, <1>8 DEF Next

\* The budget is charged once per candidate looked at and cuts the search exactly when
\* one more look was needed (search.hpp:28-29).
THEOREM BudgetExact == Spec => []BudgetIsExact
<1>1. BudgetInv => BudgetIsExact
  BY DEF BudgetInv
<1> QED BY <1>1, BudgetInit, BudgetStep, SearchInvariant, PTL DEF Spec
=============================================================================
