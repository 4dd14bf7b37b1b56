----------------------------- MODULE MCPlanner -----------------------------
EXTENDS Planner

Edges == {<<1, 3>>, <<1, 4>>, <<2, 3>>, <<2, 4>>, <<3, 4>>, <<4, 3>>, <<3, 5>>, <<4, 5>>}

\* Edges that are not chosen are declared and refuted; two of them are known by rumour only.
EvidenceOf(chosen) ==
  [e \in Edges |-> IF e \notin chosen THEN "Refuted"
                   ELSE IF e \in {<<3, 4>>, <<4, 5>>} THEN "Unknown" ELSE "Proven"]

Topo(n, evidence, containable, protected, weight, incomplete) ==
  [nodes |-> 1..n, evidence |-> evidence, weight |-> weight,
   containable |-> containable \ protected, protected |-> protected,
   complete |-> (1..n) \ incomplete]

Even == <<1, 1, 1, 1, 1>>
Uneven == <<3, 1, 2, 2, 1>>

Policy(require, allow, minimize, weight, members, limit, budget) ==
  [require |-> require, allow |-> allow, minimize |-> minimize,
   max_weight |-> weight, max_members |-> members, exact_limit |-> limit,
   exact_budget |-> budget, heuristic_budget |-> budget]

Policies ==
  {Policy(TRUE, FALSE, TRUE, 99, 9, 9, 99),      \* the default: exact, no limit that binds
   Policy(FALSE, FALSE, TRUE, 99, 9, 9, 99),
   Policy(FALSE, TRUE, FALSE, 3, 2, 9, 99),      \* obligations like any other, limits bind
   Policy(FALSE, FALSE, TRUE, 99, 9, 9, 2),      \* the search ends early, before a set is found
   Policy(FALSE, FALSE, TRUE, 99, 9, 9, 4),      \* or after the first
   Policy(FALSE, TRUE, FALSE, 99, 9, 1, 99),     \* greedy growth
   Policy(FALSE, FALSE, TRUE, 99, 9, 1, 99),
   Policy(FALSE, FALSE, TRUE, 4, 2, 1, 3)}       \* greedy growth, limits bind

\* Every graph over these edges but 2 -> 4 with one obligation, under every policy.
Searches ==
  {[topology |-> Topo(5, EvidenceOf(c), kw[1], {5}, kw[2], {}), policy |-> q] :
     c \in SUBSET (Edges \ {<<2, 4>>}), q \in Policies,
     kw \in {<<{1, 3, 4}, Even>>, <<{1, 3, 4}, Uneven>>, <<{2, 3}, Uneven>>}}

\* No obligation, or one on the way to another; adjacency not complete somewhere.
Frontiers ==
  {[topology |-> Topo(5, EvidenceOf(c), {1, 2, 3}, b, Uneven, i), policy |-> q] :
     c \in SUBSET (Edges \ {<<2, 3>>, <<4, 3>>}), b \in {{}, {5}, {4, 5}}, i \in {{3}, {4}},
     q \in {Policy(TRUE, FALSE, TRUE, 99, 9, 9, 99), Policy(FALSE, TRUE, TRUE, 99, 9, 9, 99)}}

\* More resources on the way: branches below branches, where the bound prunes.
DeepEdges == {<<1, 2>>, <<2, 6>>, <<2, 5>>, <<1, 3>>, <<1, 4>>, <<3, 5>>, <<4, 5>>}

Deep ==
  {[topology |-> Topo(6, [e \in c |-> "Proven"], 1..5, {6}, w, {}), policy |-> q] :
     c \in {{<<5, 6>>} \cup d : d \in SUBSET DeepEdges}, w \in {<<5, 2, 2, 2, 2, 3>>, <<3, 1, 2, 2, 3, 3>>},
     q \in {Policy(FALSE, FALSE, TRUE, 99, 9, 9, 99), Policy(FALSE, TRUE, FALSE, 99, 9, 9, 99)}}

AllDefinitions == Searches \cup Frontiers \cup Deep
=============================================================================
