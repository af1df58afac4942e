---------------------------- MODULE MCResponseStream ----------------------------
(***************************************************************************)
(* ResponseStream for two indexes.  The events: nothing but usage, text,   *)
(* reasoning, both, a fragment of each kind, text or reasoning with a      *)
(* fragment, and two fragments at once.                                    *)
(***************************************************************************)
EXTENDS ResponseStream

Only(f) == [reasoning |-> FALSE, content |-> FALSE, calls |-> <<f>>]
Head0 == [index |-> 0, head |-> TRUE, args |-> FALSE]
Part0 == [index |-> 0, head |-> FALSE, args |-> TRUE]
Part1 == [index |-> 1, head |-> FALSE, args |-> TRUE]
Whole1 == [index |-> 1, head |-> TRUE, args |-> TRUE]

MCEvents ==
    {[reasoning |-> r, content |-> c, calls |-> <<>>] : r, c \in BOOLEAN}
    \cup {Only(f) : f \in {Head0, Part0, Part1, Whole1}}
    \cup {[reasoning |-> FALSE, content |-> TRUE, calls |-> <<Head0>>],
          [reasoning |-> TRUE, content |-> FALSE, calls |-> <<Whole1>>],
          [reasoning |-> FALSE, content |-> FALSE, calls |-> <<Head0, Whole1>>],
          [reasoning |-> FALSE, content |-> FALSE, calls |-> <<Part1, Part0>>]}

=============================================================================
