---------------------------- MODULE MCFiesWriter -----------------------------
(***************************************************************************)
(* The writer over small plans: files of three bytes whose extents are     *)
(* shared within and between files in every arrangement that matters to    *)
(* the code: adjacent (merged), overlapping, in another order, reaching    *)
(* past the end, with holes before, between and after.                     *)
(***************************************************************************)
EXTENDS FiesWriter

CONSTANTS d1, d2  \* what is shared, and what is not

Shared(p, l, n)  == Extent("DATA", TRUE, d1, p, l, n, 0, 0)
Private(p, l, n) == Extent("DATA", FALSE, d2, p, l, n, 0, 0)
Unwritten(l, n)  == Extent("ZERO", FALSE, d2, 0, l, n, 0, 0)
Same(l, n, m)    == Extent("COPY", FALSE, d2, 0, l, n, 1, m)  \* of the plan's first file

Reg(es) == [mode |-> "REG", size |-> 3, extents |-> es, metas |-> IF es = <<>> THEN <<>> ELSE <<"OWNER">>]
Ref(es)  == [mode |-> "REF", size |-> 3, extents |-> es, metas |-> <<>>]
Empty    == [mode |-> "REG", size |-> 0, extents |-> <<>>, metas |-> <<>>]
Dir      == [mode |-> "DIR", size |-> 1, extents |-> <<>>, metas |-> <<"OWNER", "TIME">>]
Hard     == [mode |-> "HARD", of |-> 1, size |-> 3]

FirstLayouts == {
    <<Shared(0, 0, 3)>>,
    <<Shared(0, 0, 1), Shared(1, 1, 1)>>,
    <<Shared(0, 0, 1), Shared(2, 1, 1)>>,
    <<Shared(2, 0, 1), Shared(0, 1, 2)>>,
    <<Shared(1, 1, 3)>>,
    <<Shared(0, 0, 2), Shared(0, 2, 1)>>,
    <<Private(0, 0, 1), Shared(1, 2, 1)>>,
    <<Unwritten(1, 1), Private(0, 2, 2)>>,
    <<>> }

SecondLayouts == {
    <<Shared(0, 0, 3)>>,
    <<Shared(1, 0, 1), Shared(2, 1, 1), Shared(3, 2, 1)>>,
    <<Shared(2, 0, 1), Shared(1, 2, 1)>>,
    <<Shared(1, 0, 2), Private(2, 2, 1)>>,
    <<Same(0, 1, 1), Private(3, 1, 1), Same(2, 1, 2)>> }

Written(layouts) == {Reg(l) : l \in layouts}
References       == {Ref(l) : l \in FirstLayouts}

MCPlans ==
    {<<f, g>> : f \in Written(FirstLayouts) \cup References, g \in Written(SecondLayouts)}
      \cup {<<Reg(<<Shared(0, 0, 3)>>), Hard, f>> : f \in Written(SecondLayouts)}
      \cup {<<f, g>> : f \in {Empty, Dir}, g \in Written(FirstLayouts)}
      \cup {<<Ref(<<Shared(0, 1, 2)>>), Reg(<<Shared(1, 0, 2)>>), Reg(<<Shared(0, 0, 3)>>)>>}
==============================================================================
