------------------------------ MODULE MCDMThin -------------------------------
(***************************************************************************)
(* Two volumes that are given and one that is written to, in one pool or   *)
(* in two; and a volume that was made smaller than what is mapped.         *)
(***************************************************************************)
EXTENDS DMThin

CONSTANTS p1, p2

n == Nothing

OnePool(layout, list) ==
    [pool |-> <<p1, p1, p1>>, size |-> <<6, 5, 2>>, shape |-> layout, args |-> list,
     maps |-> <<[b \in Block |-> <<0, n, 1>>[b + 1]], [b \in Block |-> <<0, 2, 1>>[b + 1]],
                [b \in Block |-> <<0, n, n>>[b + 1]]>>]

TwoPools(layout, list) ==
    [pool |-> <<p1, p2, p1>>, size |-> <<6, 6, 2>>, shape |-> layout, args |-> list,
     maps |-> <<[b \in Block |-> <<1, 2, n>>[b + 1]], [b \in Block |-> <<n, 1, 2>>[b + 1]],
                [b \in Block |-> <<1, n, n>>[b + 1]]>>]

\* Of the first volume all blocks are mapped, and two of them are cut off: the
\* second begins where the volume now ends, the third behind it.
Shrunk(layout, list) ==
    [pool |-> <<p1, p1, p1>>, size |-> <<2, 5, 2>>, shape |-> layout, args |-> list,
     maps |-> <<[b \in Block |-> <<0, 2, 1>>[b + 1]], [b \in Block |-> <<2, n, 0>>[b + 1]],
                [b \in Block |-> <<0, n, n>>[b + 1]]>>]

Small == [room |-> 1, low |-> FALSE]
Low   == [room |-> 1, low |-> TRUE]
Large == [room |-> 6, low |-> FALSE]

MCCases == {OnePool(Small, <<1, 2>>), OnePool(Low, <<2, 1>>), OnePool(Large, <<1, 2>>),
            TwoPools(Low, <<1, 2>>), Shrunk(Large, <<2, 1>>)}
==============================================================================
