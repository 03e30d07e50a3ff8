----------------------------- MODULE CallGraph ------------------------------
(***************************************************************************)
(* The call graph and what is computed from it (app/indexer_callgraph.go). *)
(* A graph is the sequence of the references added to it.  A rank is an    *)
(* integer, in parts of Scale, rounded down; the scores that only order    *)
(* answers are left out.                                                   *)
(***************************************************************************)
EXTENDS Integers, SequencesExt

\* The elements of a sequence that are in a set, in their order.
Only(seq, set) == FoldLeft(LAMBDA kept, x : IF x \in set THEN Append(kept, x) ELSE kept, <<>>, seq)

FindCallers(refs, symbol) == Only(refs, {r \in ToSet(refs) : r.symbol = symbol})
FindCallees(refs, caller) == Only(refs, {r \in ToSet(refs) : r.caller = caller})

-----------------------------------------------------------------------------
\* Mutant of Reached: a symbol met again at the same depth is taken again.
ReachedDeeper(found, symbol, depth) ==
  \E i \in DOMAIN found : found[i].symbol = symbol /\ found[i].depth < depth

\* The search has met the symbol, no deeper than this.
Reached(found, symbol, depth) ==
  \E i \in DOMAIN found : found[i].symbol = symbol /\ found[i].depth <= depth

\* One reference to the symbol the search is at.
Visit(search, ref, depth, maxDepth) ==
  IF ref.caller = "" \/ depth > maxDepth \/ Reached(search.found, ref.caller, depth)
    THEN search
    ELSE [found |-> Append(search.found, [symbol |-> ref.caller, file |-> ref.file,
                                          line |-> ref.line, depth |-> depth]),
          queue |-> Append(search.queue, [symbol |-> ref.caller, depth |-> depth])]

\* The references to the head of the queue, as long as there is one.
Turn(refs, search, maxDepth) ==
  IF search.queue = <<>> THEN search
  ELSE LET current == Head(search.queue)
       IN FoldLeft(LAMBDA s, r : Visit(s, r, current.depth + 1, maxDepth),
                   [search EXCEPT !.queue = Tail(@)], FindCallers(refs, current.symbol))

\* Breadth first.  A caller is queued once, so the queue is empty after as
\* many turns as there are references, and one.
SearchCallers(refs, symbol, maxDepth) ==
  FoldLeft(LAMBDA search, turn : Turn(refs, search, maxDepth),
           [found |-> <<>>, queue |-> <<[symbol |-> symbol, depth |-> 0]>>],
           [turn \in 1 .. Len(refs) + 1 |-> turn])

\* The dependents of a symbol, with their depths; the default depth is 5.
GetBlastRadius(refs, symbol, maxDepth) ==
  SearchCallers(refs, symbol, IF maxDepth <= 0 THEN 5 ELSE maxDepth).found

-----------------------------------------------------------------------------
HasCallers(refs, name) == FindCallers(refs, name) # <<>>

\* The symbols that nothing seems to call, entry points excepted.
FindDeadCode(refs, symbols, entryPoints) ==
  {s \in ToSet(symbols) : s.name \notin entryPoints /\ ~HasCallers(refs, s.name)}

-----------------------------------------------------------------------------
Scale == 10000
RankCap == 100 * Scale  \* bound: ranks are cut here
Iterations == 20

\* The keys of both tables; the empty name is one, if a file calls at its
\* top level.
Nodes(refs) == {r.symbol : r \in ToSet(refs)} \cup {r.caller : r \in ToSet(refs)}

InDegree(refs, symbol) == Len(FindCallers(refs, symbol))
OutDegree(refs, caller) == Cardinality({r.symbol : r \in ToSet(FindCallees(refs, caller))})

Score(rank, symbol) == (CHOOSE r \in rank : r.symbol = symbol).score

\* What a caller gives of its rank, 85 %, to one reference.
Share(refs, rank, ref) ==
  IF ref.caller = "" THEN 0 ELSE (17 * Score(rank, ref.caller)) \div (20 * OutDegree(refs, ref.caller))

\* What everybody has from the random jumps, 15 % of all.
BaseRank(refs) == (3 * Scale) \div (20 * Cardinality(Nodes(refs)))

NewRank(refs, rank, symbol) ==
  Min({RankCap, FoldLeft(LAMBDA sum, ref : sum + Share(refs, rank, ref), BaseRank(refs),
                         FindCallers(refs, symbol))})

\* computePageRankLocked.  Its early end, when no rank moves by 0.0001 any
\* more, is a unit of Scale: the iterations left out would change nothing.
PageRank(refs) ==
  FoldLeft(LAMBDA rank, iter : {[symbol |-> s, score |-> NewRank(refs, rank, s)] : s \in Nodes(refs)},
           {[symbol |-> s, score |-> Scale \div Cardinality(Nodes(refs))] : s \in Nodes(refs)},
           [iter \in 1 .. Iterations |-> iter])

\* GetCentrality and ComputeCentrality.
Centrality(refs, symbol) ==
  [symbol |-> symbol, in |-> InDegree(refs, symbol), out |-> OutDegree(refs, symbol),
   score |-> IF symbol \in Nodes(refs) THEN Score(PageRank(refs), symbol) ELSE 0]
=============================================================================
