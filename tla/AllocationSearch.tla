--------------------------- MODULE AllocationSearch ---------------------------
(***************************************************************************)
(* grevir::allocation::search (src/grevir/core/allocation/search.hpp): the *)
(* backtracking search that gives every ownership unit (a row) a candidate *)
(* (a column) it is eligible for, pairwise compatible, under a budget of   *)
(* candidates looked at.                                                   *)
(*                                                                         *)
(* The recursion of visit() is unrolled into a depth and, per depth, the   *)
(* column its loop goes on with; one action per candidate and per return.  *)
(* The compatibility test is the caller's policy and may be any relation,  *)
(* symmetric or not.  visited never passes a uint32_t budget, so the model *)
(* gives it no width.                                                      *)
(***************************************************************************)
EXTENDS Naturals, FiniteSets, FiniteSetsExt

CONSTANTS
  R,        \* rows of the eligibility table
  C,        \* its columns
  Units,    \* the numbers of units to place
  Budgets   \* the budgets to search with

ASSUME TableAssumption == R \in Nat /\ C \in Nat
ASSUME InputAssumption == Units \subseteq Nat /\ Budgets \subseteq Nat

Row == 0..R - 1
Column == 0..C - 1

VARIABLES
  problem,    \* the arguments of search()
  selected,   \* result.selected
  visited,    \* result.visited
  success,    \* result.success
  exhausted,  \* result.exhausted
  depth,      \* u of the innermost visit()
  from,       \* the first column each visit() has still to look at
  stage       \* "call", "visit" or "done"

result == <<selected, visited, success, exhausted>>
vars == <<problem, result, depth, from, stage>>

Problem ==
  [eligible : [Row -> SUBSET Column], compatible : SUBSET (Column \X Column),
   units : Units, budget : Budgets]

Zeros == [u \in Row |-> 0]

Init ==
  /\ problem \in Problem
  /\ selected = Zeros
  /\ visited = 0
  /\ success = FALSE
  /\ exhausted = FALSE
  /\ depth = 0
  /\ from = Zeros
  /\ stage = "call"

\* More units than rows: the result is returned as it was constructed.
TooManyUnits ==
  /\ stage = "call"
  /\ problem.units > R
  /\ stage' = "done"
  /\ UNCHANGED <<problem, result, depth, from>>

Begin ==
  /\ stage = "call"
  /\ problem.units <= R
  /\ stage' = "visit"
  /\ UNCHANGED <<problem, result, depth, from>>

Left == { c \in problem.eligible[depth] : c >= from[depth] }
Candidate == Min(Left)

AtCandidate == stage = "visit" /\ depth < problem.units /\ Left # {}

\* Mutant: only the row above is asked.
AllowedByLast(c) ==
  \A above \in Row : above + 1 = depth =>
    <<c, selected[above]>> \in problem.compatible

\* Mutant: every row of the result is asked, also those of abandoned branches.
AllowedByAll(c) ==
  \A u \in Row \ {depth} : <<c, selected[u]>> \in problem.compatible

Allowed(c) ==
  \A earlier \in 0..depth - 1 : <<c, selected[earlier]>> \in problem.compatible

Found ==
  /\ stage = "visit"
  /\ depth = problem.units
  /\ success' = TRUE
  /\ stage' = "done"
  /\ UNCHANGED <<problem, selected, visited, exhausted, depth, from>>

\* Mutant: the budget is one candidate long.
BudgetSpentLate == visited > problem.budget

\* Mutant: the budget is one candidate short.
BudgetSpentEarly == visited + 1 >= problem.budget

BudgetSpent == visited = problem.budget

\* Every visit() on the stack returns false.
Exhaust ==
  /\ AtCandidate
  /\ BudgetSpent
  /\ exhausted' = TRUE
  /\ selected' = Zeros
  /\ stage' = "done"
  /\ UNCHANGED <<problem, visited, success, depth, from>>

Refuse ==
  /\ AtCandidate
  /\ ~BudgetSpent
  /\ ~Allowed(Candidate)
  /\ visited' = visited + 1
  /\ from' = [from EXCEPT ![depth] = Candidate + 1]
  /\ UNCHANGED <<problem, selected, success, exhausted, depth, stage>>

\* Mutant: the next visit() goes on with the column the last one stopped at.
KeepColumns == [from EXCEPT ![depth] = Candidate + 1]

\* The next visit() starts its loop at the first column.
NextColumns ==
  [u \in Row |-> IF u = depth THEN Candidate + 1
                 ELSE IF u = depth + 1 THEN 0 ELSE from[u]]

Select ==
  /\ AtCandidate
  /\ ~BudgetSpent
  /\ Allowed(Candidate)
  /\ visited' = visited + 1
  /\ selected' = [selected EXCEPT ![depth] = Candidate]
  /\ from' = NextColumns
  /\ depth' = depth + 1
  /\ UNCHANGED <<problem, success, exhausted, stage>>

DeadEnd == stage = "visit" /\ depth < problem.units /\ Left = {}

Backtrack ==
  /\ DeadEnd
  /\ depth > 0
  /\ depth' = depth - 1
  /\ UNCHANGED <<problem, result, from, stage>>

GiveUp ==
  /\ DeadEnd
  /\ depth = 0
  /\ selected' = Zeros
  /\ stage' = "done"
  /\ UNCHANGED <<problem, visited, success, exhausted, depth, from>>

Next ==
  \/ TooManyUnits \/ Begin
  \/ Found \/ Exhaust \/ Refuse \/ Select \/ Backtrack \/ GiveUp

Spec == Init /\ [][Next]_vars

-----------------------------------------------------------------------------
(* The answer, defined without a search. *)

Placements(n) == [0..n - 1 -> Column]

\* The first n units hold p: each eligible, each compatible with those before it.
Consistent(p, n) ==
  /\ \A u \in 0..n - 1 : p[u] \in problem.eligible[u]
  /\ \A u \in 0..n - 1 : \A earlier \in 0..u - 1 :
       <<p[u], p[earlier]>> \in problem.compatible

Solutions ==
  { p \in Placements(problem.units) : Consistent(p, problem.units) }

\* p and q agree up to n, or differ first where p has the smaller column.
NotAfter(p, q, n) ==
  \A u \in 0..n - 1 :
    p[u] > q[u] => \E earlier \in 0..u - 1 : p[earlier] < q[earlier]

First(S) == CHOOSE p \in S : \A q \in S : NotAfter(p, q, problem.units)

\* The partial placements whose last candidate a search without budget looks at.
Looks ==
  UNION { { p \in Placements(n) :
              /\ Consistent(p, n - 1)
              /\ p[n - 1] \in problem.eligible[n - 1]
              /\ Solutions # {} => NotAfter(p, First(Solutions), n) }
          : n \in 1..problem.units }

-----------------------------------------------------------------------------
(* Properties. *)

Answered == stage = "done" /\ problem.units <= R

\* The rows above the current depth always hold a consistent partial placement,
\* whatever abandoned branches left in selected (search.hpp:31-36).
PrefixIsCompatible == stage = "visit" => Consistent(selected, depth)

\* A search that was not cut short says "no" only to a problem without solution and
\* leaves no half-made choice in its result (search.hpp:28,40-43).
VerdictIsRight ==
  /\ Answered /\ ~exhausted => (success <=> Solutions # {})
  /\ stage = "done" /\ ~success => selected = Zeros

\* The placement found is the first one in the order of rows and columns, so the
\* same inputs always give the same allocation (search.hpp:26,33).
FirstSolution ==
  stage = "done" /\ success =>
    \A u \in 0..problem.units - 1 : selected[u] = First(Solutions)[u]

\* The budget is charged once per candidate looked at and cuts the search exactly
\* when one more look was needed: a budget of that very size still succeeds
\* (search.hpp:28-29).
BudgetIsExact ==
  Answered =>
    /\ exhausted <=> Cardinality(Looks) > problem.budget
    /\ visited = Min({Cardinality(Looks), problem.budget})
=============================================================================
