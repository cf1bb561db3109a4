------------------------------- MODULE MCStream ------------------------------
(***************************************************************************)
(* Transfers of one or two files that share, merge, cut and copy.          *)
(***************************************************************************)
EXTENDS Stream

CONSTANTS d1, d2  \* what is shared, and what is not

Shared(p, l, n)  == Extent("DATA", TRUE, d1, p, l, n, 0, 0)
Private(p, l, n) == Extent("DATA", FALSE, d2, p, l, n, 0, 0)
Same(l, n, m)    == Extent("COPY", FALSE, d2, 0, l, n, 1, m)

Reg(es) == [mode |-> "REG", size |-> 3, extents |-> es, metas |-> <<>>]
Ref(es) == [mode |-> "REF", size |-> 3, extents |-> es, metas |-> <<>>]

First == {
    <<Shared(0, 0, 1), Shared(2, 1, 1)>>,
    <<Shared(2, 0, 1), Shared(0, 1, 2)>>,
    <<Shared(0, 0, 1), Shared(0, 1, 1)>>,
    <<Shared(1, 1, 3)>>,
    <<Extent("ZERO", FALSE, d2, 0, 1, 1, 0, 0), Private(0, 2, 2)>> }

Second == {
    <<Shared(0, 0, 3)>>,
    <<Shared(1, 0, 1), Shared(2, 1, 1), Shared(3, 2, 1)>>,
    <<Shared(1, 0, 1), Shared(2, 1, 2)>>,
    <<Same(0, 1, 1), Private(3, 1, 1), Same(2, 1, 0)>> }

MCPlans ==
    {<<Reg(es), Reg(gs)>> : es \in First, gs \in Second}
      \cup {<<Ref(es), Reg(gs)>> : es \in First, gs \in Second}
      \cup {<<Reg(<<Shared(1, 1, 1)>>), [mode |-> "HARD", of |-> 1, size |-> 3]>>}
==============================================================================
