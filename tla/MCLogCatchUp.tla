---------------------------- MODULE MCLogCatchUp ----------------------------
(* Instances of LogCatchUp for TLC, and the loops of the source next to the *)
(* definitions of SyncHeads.                                                *)
EXTENDS LogCatchUp, SequencesExt

CONSTANTS a, b

Ranks == (a :> 1) @@ (b :> 2)

\* A hole that may never fill, an entry above it, and one that does not fit
\* on the same page.
HoleAndTail == {<<a, 0>>, <<a, 1>>, <<b, 0>>}
Crowded     == {<<b, 0>>}
NoEntries   == {}

Symmetry == Permutations(Run)

-----------------------------------------------------------------------------
\* strictContiguousHead: the body of the loop over the sorted list.
StrictLoop(sorted) ==
    FoldLeft(LAMBDA acc, s :
                IF acc.stop THEN acc
                ELSE IF s = acc.head + 1 THEN [acc EXCEPT !.head = s]
                ELSE IF s > acc.head + 1 THEN [acc EXCEPT !.stop = TRUE] ELSE acc,
             [head |-> -1, stop |-> FALSE], sorted).head

\* contiguousHeadAbove: -1 stands for null.
AboveLoop(sorted, first) ==
    LET r == FoldLeft(LAMBDA acc, s :
                IF acc.stop \/ s < first THEN acc
                ELSE IF acc.head = -1 \/ s = acc.head + 1 THEN [acc EXCEPT !.head = s]
                ELSE IF s > acc.head + 1 THEN [acc EXCEPT !.stop = TRUE] ELSE acc,
             [head |-> -1, stop |-> FALSE], sorted)
    IN IF r.head = -1 THEN first - 1 ELSE r.head

\* getSyncRequestHeads: the skipped holes in ascending order.
WireLoop(sorted, holes) ==
    FoldLeft(LAMBDA head, f : IF f = head + 1 THEN AboveLoop(sorted, f) ELSE head,
             StrictLoop(sorted), holes)

Asc(S) == SetToSortSeq(S, <)

(* For every set of stored numbers and every choice of skipped holes:        *)
(* strictContiguousHead returns the head below which nothing is missing,     *)
(* contiguousHeadAbove jumps over one hole of any length and stops before    *)
(* the next, and the cursor of getSyncRequestHeads, with holes skipped in    *)
(* any order, stacked, or filled meanwhile, stops below the first hole that  *)
(* is not skipped.                                                           *)
ASSUME HeadsAreTheLoops ==
    \A S, F \in SUBSET (0 .. 5) :
        /\ StrictHead(S) = StrictLoop(Asc(S))
        /\ \A f \in HoleStarts(S) : HeadAbove(S, f) = AboveLoop(Asc(S), f)
        /\ WireHead(S, F) = WireLoop(Asc(S), Asc(F))

=============================================================================
