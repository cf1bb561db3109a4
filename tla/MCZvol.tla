-------------------------------- MODULE MCZvol --------------------------------
(***************************************************************************)
(* Volumes of five blocks with snapshots, in one pool or in two, their     *)
(* trees of one to three levels, however they are asked for.               *)
(***************************************************************************)
EXTENDS Zvol, TLC

At(vdev, o) == [vdev |-> vdev, offset |-> o]
Block(dvas)    == [dvas |-> dvas, plain |-> TRUE, asize |-> BlockSize, birth |-> 0]
Nowhere(birth) == [dvas |-> <<At(0, 0)>>, plain |-> FALSE, asize |-> 0, birth |-> birth]
Half(o)        == [dvas |-> <<At(0, o)>>, plain |-> TRUE, asize |-> 1, birth |-> 0]

P(o) == Block(<<At(0, o)>>)
Q(o) == Block(<<At(1, o)>>)
h == Hole

M(bps) == [b \in 0 .. Len(bps) - 1 |-> bps[b + 1]]

Volume(pool, snaps, maps, ro, shape) ==
    [pool |-> pool, snaps |-> snaps, maps |-> maps, readonly |-> ro,
     nlevels |-> shape[1], nblkptr |-> shape[2]]

\* Levels and block pointers of the dnode, for at most eight blocks.
Shapes == {<<1, 6>>, <<2, 3>>, <<3, 2>>, <<4, 1>>}

\* Contiguous, on two vdevs, with copies, embedded, holes, and a short last state.
Changing(ro, s) ==
    Volume("p", <<"a", "b">>,
           <<M(<<P(2), P(4), h, Q(6), Nowhere(1)>>),
             M(<<P(2), Q(4), h, Q(6), Nowhere(2), Nowhere(3)>>),
             M(<<h, Q(4), Q(6), Block(<<At(1, 8), At(0, 8)>>)>>)>>, ro, s)
\* A clone of its first snapshot, and what is in another pool.
Clone(ro, s) ==
    Volume("p", <<>>, <<M(<<P(2), P(0), h, Q(6), h>>)>>, ro, s)
Elsewhere(s) ==
    Volume("q", <<"a">>, <<M(<<P(2), h, P(4)>>), M(<<P(2), P(0)>>)>>, TRUE, s)
Packed(s) ==
    Volume("p", <<"a">>, <<M(<<Half(0), Half(1)>>), M(<<Half(0), Half(1), Half(3)>>)>>, TRUE, s)

\* It is writable, and after it was sent its compressed blocks are overwritten.
Shrinking == Volume("p", <<>>, <<M(<<Half(0), Half(1)>>)>>, FALSE, <<2, 2>>)

N(v, s) == [vol |-> v, snap |-> s]

Base == [snapshots |-> TRUE, set_ro |-> FALSE, rw |-> FALSE, from |-> None, to |-> None,
         args |-> <<N(1, Self)>>]

Call(volumes, o) == [volume |-> volumes, opts |-> o]

Lists == {<<N(1, Self), N(2, Self)>>, <<N(1, "b"), N(1, Self), N(1, "b")>>,
          <<N(2, Self), N(1, "a"), N(1, Missing)>>}

MCCases ==
    {Call(<<Changing(TRUE, s), Clone(FALSE, s)>>, Base) : s \in Shapes}
    \cup {Call(<<Changing(TRUE, <<2, 3>>), Clone(ro, <<3, 2>>)>>, [Base EXCEPT !.from = f, !.to = t]) :
            ro \in {TRUE}, f \in {None, "a", "b", Missing, Empty}, t \in {None, "a", "b", Missing, Empty}}
    \cup {Call(<<Changing(FALSE, <<2, 3>>), Clone(r, <<3, 2>>)>>,
               [Base EXCEPT !.set_ro = x, !.rw = w, !.snapshots = k, !.args = l]) :
            x \in BOOLEAN, w \in BOOLEAN, k \in BOOLEAN, r \in BOOLEAN, l \in Lists}
    \cup {Call(<<Changing(TRUE, <<3, 2>>), Elsewhere(<<2, 2>>)>>, [Base EXCEPT !.args = l]) : l \in Lists}
    \cup {Call(<<Packed(<<2, 2>>)>>, Base), Call(<<Shrinking>>, [Base EXCEPT !.set_ro = TRUE]),
          Call(<<Changing(TRUE, <<2, 3>>)>>,
               [Base EXCEPT !.snapshots = FALSE, !.from = "a"])}
    \cup {Call(<<Changing(TRUE, <<2, 3>>)>>, [Base EXCEPT !.from = "a", !.args = <<N(1, "a")>>])}
==============================================================================
