-------------------------------- MODULE MCCli --------------------------------
(***************************************************************************)
(* Small trees on two devices with hard links, shared bytes, holes and a   *)
(* symbolic link, written into empty and into other trees; and streams of  *)
(* other programs that copy between and across blocks.                     *)
(***************************************************************************)
EXTENDS Cli, TLC

D == Directory

a == <<"a">>  b == <<"b">>  d == <<"d">>  n == <<"n">>  r == <<"r">>  y == <<"y">>
da == <<"d", "a">>  db == <<"d", "b">>  dl == <<"d", "l">>  dx == <<"d", "x">>
de == <<"d", "e">>  dec == <<"d", "e", "c">>

\* Device "v" may use the same numbers as device "w".
Names ==
    a :> <<"w", 1>> @@ b :> <<"v", 1>> @@ n :> <<"w", 7>> @@
    d :> <<"w", 2>> @@ da :> <<"w", 1>> @@ dl :> <<"w", 4>> @@ dx :> <<"v", 3>> @@
    de :> <<"w", 5>> @@ dec :> <<"w", 3>>

At(p, fe) == [physical |-> p, fe |-> fe]
Hole      == At(Zero, {})

Inodes ==
    LET Of(type, map, target) == [type |-> type, map |-> map, target |-> target]
        s == {"SHARED"}
        File(bytes) == Of("REG", [l \in 0 .. Len(bytes) - 1 |-> bytes[l + 1]], None)
        dir == Of("DIR", <<>>, None)
    IN  <<"w", 1>> :> File(<<At(1, s), At(2, s), Hole, At(4, {}), At(1, s)>>) @@
        <<"w", 3>> :> File(<<At(5, {"UNWRITTEN"}), At(1, s), At(2, s), At(6, {})>>) @@
        <<"v", 1>> :> File(<<At(1, s), Hole>>) @@
        <<"v", 3>> :> File(<<At(1, s \cup {"INLINE", "NOT_ALIGNED"}), At(9, {})>>) @@
        <<"w", 2>> :> dir @@ <<"w", 5>> :> dir @@
        <<"w", 4>> :> Of("LNK", <<>>, "where") @@ <<"w", 7>> :> Of("NOD", <<>>, None)

Base ==
    [names |-> Names, inodes |-> Inodes, tree |-> <<>>, nodes |-> <<>>, stream |-> <<>>,
     include |-> {}, exclude |-> {}, noxdev |-> FALSE, hardlinks |-> TRUE, recurse |-> TRUE,
     refs |-> <<>>, list |-> <<>>, args |-> <<b, a, d>>, max_fds |-> 9,
     mode |-> "x", xinclude |-> {}, xexclude |-> {}, clone |-> "AUTO", clones |-> TRUE,
     eio |-> FALSE, times |-> {"yes"}]

\* Other names of files that will be replaced, and what is no directory.
Old(v) == [type |-> "REG", bytes |-> 0 :> v @@ 1 :> v, target |-> None, restored |-> "no"]
Full == [Base EXCEPT !.tree = a :> 1 @@ y :> 1 @@ d :> D @@ da :> 2 @@ <<"d", "z">> :> 2 @@ dl :> 3,
                     !.nodes = <<Old("o"), Old("p"), Old("q")>>]
Blocked == [Full EXCEPT !.tree = d :> 1 @@ y :> 1 @@ a :> D]
Covered == [Full EXCEPT !.tree = d :> D @@ y :> 1 @@ dl :> D @@ n :> D]

\* Nothing of another device, and no directory, in the directory.
Less == [Base EXCEPT !.names = Restrict(Names, DOMAIN Names \ {dx, de, dec}), !.args = <<b, a, d>>]

Calls(x) == {
    x, [x EXCEPT !.hardlinks = FALSE], [x EXCEPT !.noxdev = TRUE], [x EXCEPT !.mode = "t"],
    [x EXCEPT !.exclude = {<<"a">>}], [x EXCEPT !.include = {<<"d">>}, !.args = <<a, b, d>>],
    [x EXCEPT !.recurse = FALSE], [x EXCEPT !.max_fds = 2], [x EXCEPT !.max_fds = 3],
    [x EXCEPT !.xexclude = {a}], [x EXCEPT !.xexclude = {d}], [x EXCEPT !.xinclude = {d}],
    [x EXCEPT !.xexclude = {da, dl}, !.mode = "t"], [x EXCEPT !.xexclude = {a}, !.mode = "t"],
    [x EXCEPT !.args = <<n, a>>, !.list = <<b, d>>], [x EXCEPT !.args = <<de, a>>], [x EXCEPT !.args = <<d>>],
    [x EXCEPT !.args = <<b, n, a, d>>, !.clones = FALSE],
    [x EXCEPT !.list = <<a, Blank, d>>, !.args = <<>>], [x EXCEPT !.args = <<a, a>>],
    [x EXCEPT !.args = <<r>>],
    [x EXCEPT !.refs = <<a>>, !.args = <<b, d>>], [x EXCEPT !.refs = <<d>>]}

\* Calls that fail and do not end the program.
Failing(x) == {[x EXCEPT !.eio = TRUE], [x EXCEPT !.times = {"yes", "warned"}],
               [x EXCEPT !.args = <<d>>, !.eio = TRUE, !.times = {"warned"}]}

\* A reference file, and files that copy from it, from each other and themselves.
Data(o, v)       == [offset |-> o, length |-> 1, flags |-> "DATA",
                     bytes |-> o :> [flags |-> "DATA", byte |-> v]]
Copy(o, f, s, k) == [offset |-> o, length |-> k, flags |-> "COPY",
                     bytes |-> [l \in o .. o + k - 1 |->
                                  [flags |-> "COPY", file |-> f, offset |-> s + l - o]]]
Rest(o, k)       == [offset |-> o, length |-> k, flags |-> "ZERO",
                     bytes |-> [l \in o .. o + k - 1 |-> [flags |-> "ZERO"]]]
Known_bytes == [l \in 0 .. 7 |-> <<"ref", l>>]
Ref == [kind |-> "REF", path |-> r, id |-> 0, target |-> None, size |-> 8, bytes |-> Known_bytes]
Reg(id, p, es) ==
    [kind |-> "REG", path |-> p, id |-> id, target |-> None,
     size |-> Last(es).offset + Last(es).length, extents |-> es]

Streams == {
    <<Reg(1, a, <<Data(0, "v"), Copy(1, 0, 1, 7)>>), Reg(2, da, <<Copy(0, 1, 1, 6)>>)>>,
    <<Reg(1, a, <<Data(0, "v"), Copy(1, 0, 0, 6), Rest(7, 1)>>), Reg(2, b, <<Copy(0, 1, 0, 8)>>)>>,
    <<Reg(1, a, <<Copy(0, 0, 0, 8)>>), Reg(2, b, <<Copy(0, 0, 3, 4), Copy(4, 2, 1, 2)>>)>>,
    <<Reg(1, a, <<Data(0, "v"), Copy(1, 0, 1, 1), Rest(2, 1)>>)>>,
    <<Reg(1, a, <<Copy(0, 9, 0, 1)>>), Reg(2, b, <<Data(0, "v")>>)>> }

\* What is referenced is there, is too short, or is missing.
Foreign ==
    {[Base EXCEPT !.stream = <<Ref>> \o s, !.args = <<>>, !.tree = t, !.clone = c, !.clones = k,
                  !.nodes = <<[Old("o") EXCEPT !.bytes = [l \in 0 .. m |-> Known_bytes[l]]]>>] :
       s \in Streams, c \in {"AUTO", "NEVER", "FORCE"}, k \in BOOLEAN, m \in {4, 7},
       t \in {r :> 1 @@ y :> 1, y :> 1}}
    \cup {[Base EXCEPT !.stream = <<Ref, Reg(1, a, <<Data(0, "v")>>)>>, !.args = <<>>, !.mode = "t"]}

MCCases == Calls(Base) \cup Calls(Full) \cup Calls(Blocked) \cup Calls(Covered) \cup
            Calls(Less) \cup Failing(Base) \cup Failing(Full) \cup Foreign

\* The calls with --one-file-system alone.
MCOneFileSystem == {[Less EXCEPT !.noxdev = TRUE]}

\* A device in a directory that has a directory of the same name (see do_mknod).
MCDoubled ==
    {[Base EXCEPT !.stream = <<[kind |-> "NOD", path |-> <<"d", "n">>, id |-> 1, target |-> None,
                                size |-> 0, extents |-> <<>>]>>,
                  !.args = <<>>, !.nodes = <<Old("o")>>,
                  !.tree = d :> D @@ <<"d", "d">> :> D @@ <<"d", "d", "n">> :> 1]}
==============================================================================
