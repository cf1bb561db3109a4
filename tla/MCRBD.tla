-------------------------------- MODULE MCRBD --------------------------------
(***************************************************************************)
(* An image of three versions beside one that has a snapshot, however they *)
(* are asked for; an image that has grown; and all small images.           *)
(***************************************************************************)
EXTENDS RBD

z == Zero

\* The versions of an image; the last of them is its last state.
V(name, blocks) ==
    [name |-> name, size |-> Len(blocks), blocks |-> [b \in 0 .. Len(blocks) - 1 |-> blocks[b + 1]]]

\* Written, discarded and written again; it has shrunk once.
Changing == <<V("a", <<1, z, 1, 1, z>>), V("b", <<z, 2, 1, 2>>), V(Self, <<3, 2, z, 3>>)>>
\* Untouched but for its ends.
Sparse == <<V("a", <<1, 1, z, z, z>>), V("b", <<1, 1, z, z, 2>>), V("c", <<1, 1, z, z, z>>),
            V(Self, <<z, 1, z, z, 4>>)>>
Grown  == <<V("a", <<1, z>>), V("b", <<1, z, z, 2>>), V(Self, <<1, z, z, z, z>>)>>
Other  == <<V("a", <<1>>), V(Self, <<z>>)>>

All(x) == ("i" :> x @@ "j" :> Other)

Arg(m, snap) == [image |-> m, snap |-> snap]

Call(x, snapshots, from, to, list) ==
    [image |-> All(x), snapshots |-> snapshots, from |-> from, to |-> to, args |-> list]

Lists == {<<Arg("i", Self)>>, <<Arg("i", Self), Arg("j", Self)>>, <<Arg("j", "a"), Arg("i", "b")>>,
          <<Arg("i", "a"), Arg("i", "b")>>, <<Arg("i", "b"), Arg("j", Missing)>>}

\* All images of four blocks and one snapshot.
Pairs ==
    {<<V("a", x), V(Self, y)>> :
       x \in [1 .. 4 -> {1, z}], y \in [1 .. 4 -> {1, 2, z}]}

MCCases ==
    {Call(x, TRUE, None, None, <<Arg("i", Self)>>) : x \in Pairs}
    \cup {Call(x, s, None, None, l) : x \in {Changing, Sparse, Grown}, s \in BOOLEAN, l \in Lists}
    \cup {Call(x, TRUE, f, t, <<Arg("i", Self)>>) :
            x \in {Changing, Sparse}, f \in {None, "a", "b", Missing, Empty},
            t \in {None, "a", "b", Missing, Empty}}
    \cup {Call(Changing, s, "a", None, l) : s \in BOOLEAN, l \in Lists}
    \cup {Call(Changing, TRUE, "a", "b", <<Arg("i", "b")>>)}
==============================================================================
