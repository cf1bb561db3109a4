------------------------------ MODULE MCRestore ------------------------------
(***************************************************************************)
(* Histories of one to three states of a volume of two blocks, with every  *)
(* assignment of two pieces of data and holes to them, and those where the *)
(* volume has shrunk.                                                      *)
(***************************************************************************)
EXTENDS Restore

CONSTANT d

Datum(p) == [device |-> d, physical |-> p]
Blocks   == {f \in [Log -> {Datum(p) : p \in Phys} \cup {Zero}] :
               \A l, m \in Log : f[l] = f[m] => l = m \/ f[l] = Zero}
State(n) == [size : {n}, blocks : Blocks]

MCHistories ==
    UNION {[1 .. n -> State(LogSize)] : n \in 1 .. 3}
      \cup {<<s, t>> : s \in State(LogSize), t \in State(1)}
==============================================================================
