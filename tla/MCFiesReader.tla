---------------------------- MODULE MCFiesReader -----------------------------
(***************************************************************************)
(* The reader over every stream of two packets from a menu behind the      *)
(* announcement of a file, most of which it has to refuse, some of which   *)
(* it should refuse and takes because their ends wrap, and over two longer *)
(* ones of the kind the writer makes.                                      *)
(***************************************************************************)
EXTENDS FiesReader

CONSTANTS d1

At(ps)        == [k \in 0 .. Len(ps) - 1 |-> [device |-> d1, physical |-> ps[k + 1]]]
Data(f, l, ps) == DataPacket(f, l, Len(ps), At(ps))

Menu == {
    Header,
    FilePacket(1, "REG", 1), FilePacket(1, "REF", 3), FilePacket(0, "HARD", 2),
    MetaPacket(0, "OWNER"), MetaPacket(0, "END"), MetaPacket(1, "END"),
    EndPacket(0), EndPacket(1), SnapshotPacket(1),
    Data(0, 0, <<0, 1>>), Data(0, 1, <<2>>), Data(0, 0, <<>>), Data(0, 1, <<1, 2>>),
    EmptyPacket(0, "ZERO", 0, 2), EmptyPacket(0, "HOLE", 1, 1), EmptyPacket(0, "HOLE", 2, 1),
    CopyPacket(0, 0, 1, 1, 2), CopyPacket(0, 0, 1, 0, 1),
    Data(0, 3, <<0, 1>>), EmptyPacket(0, "ZERO", 3, 2), EmptyPacket(0, "HOLE", 3, 3),
    [type |-> "END", file |-> 0] }

Begun == {
    <<Header, FilePacket(0, "REG", 2)>>,
    <<Header, FilePacket(0, "REG", 2), MetaPacket(0, "END")>>,
    <<Header, FilePacket(1, "REF", 3), FilePacket(0, "REG", 2), MetaPacket(0, "END")>> }

Short == {b \o s : b \in Begun, s \in [1 .. 2 -> Menu]}

Whole == <<
    Header, FilePacket(0, "REG", 3), MetaPacket(0, "OWNER"), MetaPacket(0, "END"),
    Data(0, 0, <<0, 1>>), EmptyPacket(0, "ZERO", 2, 1), EndPacket(0), SnapshotPacket(0),
    FilePacket(1, "REG", 3), MetaPacket(1, "END"),
    CopyPacket(1, 0, 2, 0, 1), Data(1, 2, <<2>>), EndPacket(1), FilePacket(0, "HARD", 3) >>

Incremental == <<
    Header, FilePacket(1, "REF", 3), EndPacket(1), FilePacket(0, "REG", 3), MetaPacket(0, "END"),
    Data(0, 0, <<3>>), CopyPacket(0, 1, 1, 1, 0), EmptyPacket(0, "HOLE", 2, 1), EndPacket(0) >>

MCStreams == Short \cup {Whole, Incremental, <<EndPacket(0)>>}
==============================================================================
