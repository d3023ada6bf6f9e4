----------------------------- MODULE SyncHeads -----------------------------
(***************************************************************************)
(* The heads a replica derives from the sequence numbers it stores for one *)
(* device: the strict head (no hole below), the head of the run above a    *)
(* hole, and the wire cursor, which passes over the holes that were        *)
(* declared skipped.                                                       *)
(*                                                                         *)
(* Code: strictContiguousHead and contiguousHeadAbove                      *)
(* (InMemoryDocLogStore.ts), getKnownHeads and getSyncRequestHeads         *)
(* (IndexedDBDocLogStore.ts).  The code walks over a sorted list; here a   *)
(* head is described by what it is.  MCLogCatchUp compares them.           *)
(*                                                                         *)
(* S is a finite set of sequence numbers, F the set of first missing       *)
(* numbers of the skipped holes.                                           *)
(***************************************************************************)
EXTENDS Integers

\* The largest stored number; -1 for a device that is not known.
KnownHead(S) == IF S = {} THEN -1 ELSE CHOOSE n \in S : \A m \in S : m <= n

\* Everything up to the strict head is stored, its successor is not.
StrictHead(S) == CHOOSE n \in S \cup {-1} : 0 .. n \subseteq S /\ n + 1 \notin S

\* The end of the run that begins with the first number stored above a hole.
HeadAbove(S, first) ==
    LET above == {m \in S : m >= first} IN
    IF above = {} THEN first - 1
    ELSE CHOOSE n \in above : /\ n + 1 \notin S
                              /\ \E m \in above : (\A k \in above : m <= k) /\ m .. n \subseteq S

\* The numbers that are missing directly above a stored one (or above nothing).
HoleStarts(S) == {m \in {0} \cup {n + 1 : n \in S} : m \notin S}

\* The wire cursor stops below the first hole that is not skipped.
WireHead(S, F) ==
    LET stops == {h \in HoleStarts(S) : h \notin F \/ \A m \in S : m < h}
    IN (CHOOSE h \in stops : \A k \in stops : h <= k) - 1

=============================================================================
