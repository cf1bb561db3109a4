------------------------------- MODULE Extents -------------------------------
(***************************************************************************)
(* The vocabulary of the extent map and of its abstract specification:     *)
(* positions on devices and in files, and what is asked of the map.        *)
(***************************************************************************)
EXTENDS Naturals

CONSTANTS Device,    \* the devices extents live on
          File,      \* the file ids of the stream
          PhysSize,  \* bound: bytes of a device
          LogSize,   \* bound: bytes of a file
          Nothing    \* no owner, no content

Phys   == 0 .. PhysSize - 1
Log    == 0 .. LogSize - 1
Place  == [device : Device, physical : Phys]   \* a byte of a device
Holder == [file : File, logical : Log]         \* a byte of a file

ASSUME SizeAssumption == PhysSize \in Nat /\ LogSize \in Nat
ASSUME NothingAssumption == Nothing \notin Place \cup Holder
\* Nor is Nothing a byte behind these bounds.
ASSUME NobodyAssumption ==
    Nothing \notin [device : Device, physical : Nat] \cup [file : File, logical : Nat]

\* f with the n positions from l on replaced by place(0), place(1), ...
Overwrite(f, l, n, place(_)) ==
    [x \in DOMAIN f |-> IF x \in l .. l + n - 1 THEN place(x - l) ELSE f[x]]
==============================================================================
