----------------------------- MODULE ExtentOwner -----------------------------
(***************************************************************************)
(* What lib/emap.c promises its caller, the writer, without lists, indices *)
(* or searches: every byte of a device is owned by at most one byte of one *)
(* file, the first one that was asked to be written there.                 *)
(*                                                                         *)
(* A request names a run of physical bytes and the file and the logical    *)
(* position they back.  It is answered piece by piece and in order: bytes  *)
(* nobody owns are sent and become owned by the requesting file, bytes     *)
(* somebody owns are copied from their owner.  "content" is what a reader  *)
(* of the pieces ends up with in each file: for a sent byte the physical   *)
(* byte itself, for a copied one whatever the reader holds at the copy's   *)
(* source.  "want" is what the requests asked for.                         *)
(***************************************************************************)
EXTENDS Extents

VARIABLES owner,    \* who owns each physical byte
          todo,     \* what is left of the current request
          content,  \* what the reader holds
          want      \* what was asked for

vars == <<owner, todo, content, want>>

Shifted(r, n) == [r EXCEPT !.physical = @ + n, !.logical = @ + n, !.length = @ - n]
------------------------------------------------------------------------------
Init ==
    /\ owner   = [d \in Device |-> [p \in Phys |-> Nothing]]
    /\ content = [f \in File |-> [l \in Log |-> Nothing]]
    /\ want    = [f \in File |-> [l \in Log |-> Nothing]]
    /\ todo.length = 0

\* A caller asks for a run of bytes that it has not asked for before.
Ask(d, p, l, n, f) ==
    /\ todo.length = 0
    /\ n > 0 /\ p + n <= PhysSize /\ l + n <= LogSize
    /\ \A x \in l .. l + n - 1 : want[f][x] = Nothing
    /\ todo' = [device |-> d, physical |-> p, logical |-> l, length |-> n, file |-> f]
    /\ want' = [want EXCEPT ![f] =
                  Overwrite(@, l, n, LAMBDA k : [device |-> d, physical |-> p + k])]
    /\ UNCHANGED <<owner, content>>

\* The next n bytes have no owner: they are sent, and owned from now on.
Send(n) ==
    LET p == todo.physical  l == todo.logical  d == todo.device  f == todo.file IN
    /\ \A x \in p .. p + n - 1 : owner[d][x] = Nothing
    /\ owner' = [owner EXCEPT ![d] =
                   Overwrite(@, p, n, LAMBDA k : [file |-> f, logical |-> l + k])]
    /\ content' = [content EXCEPT ![f] =
                     Overwrite(@, l, n, LAMBDA k : [device |-> d, physical |-> p + k])]
    /\ todo' = Shifted(todo, n)
    /\ UNCHANGED want

\* The next n bytes are owned by n consecutive bytes of file g from m on: the
\* reader is told to copy those.
Copy(n, g, m) ==
    LET p == todo.physical  l == todo.logical  d == todo.device  f == todo.file IN
    /\ \A k \in 0 .. n - 1 : owner[d][p + k] = [file |-> g, logical |-> m + k]
    /\ content' = [content EXCEPT ![f] = Overwrite(@, l, n, LAMBDA k : content[g][m + k])]
    /\ todo' = Shifted(todo, n)
    /\ UNCHANGED <<owner, want>>

\* A piece could not be delivered: the rest of the request is given up.
GiveUp ==
    /\ todo.length > 0
    /\ todo' = [todo EXCEPT !.length = 0]
    /\ want' = [want EXCEPT ![todo.file] =
                  Overwrite(@, todo.logical, todo.length, LAMBDA k : Nothing)]
    /\ UNCHANGED <<owner, content>>

Next ==
    \/ \E d \in Device, f \in File, p \in Phys, l \in Log, n \in 1 .. PhysSize :
          Ask(d, p, l, n, f)
    \/ \E n \in 1 .. todo.length :
          \/ Send(n)
          \/ \E g \in File, m \in Log : Copy(n, g, m)
    \/ GiveUp

Spec == Init /\ [][Next]_vars
==============================================================================
