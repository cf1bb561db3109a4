---------------------------- MODULE Restore_proofs ----------------------------
(***************************************************************************)
(* What fies-restore makes of a stream, for all histories of a volume and  *)
(* wherever the stream ends, breaks or a command fails.                    *)
(***************************************************************************)
EXTENDS Restore, WellFoundedInduction, NaturalsInduction, SequenceTheorems, TLAPS

\* The packets up to the end of file k, and file k as the volume's state it is.
Count(k)     == Len(UpTo[k])
IsWritten(k) == ~ (reference /\ k = 1)

\* Of a volume like that every snapshot is right.
Faithful == Linear /\ zeroes

\* The types of the variables, and how the program comes to its end.
RestoreType ==
    /\ TypeOK /\ history \in Histories
    /\ rc = "more" => exit = Nothing
    /\ exit = 0 => rc = "end"
    /\ taken \in Seq([name : States, blocks : [Log -> Place \cup {Zero, Nothing}]])

\* Where the program is in the stream: behind its header, in the file that is
\* referred to, or in one that is written.
AtHeader ==
    /\ pos = 1 /\ lastname = Nothing /\ cur = 0 /\ ~ cur_done
    /\ handle = [f \in {} |-> 0]

InReference ==
    /\ reference /\ pos \in Count(0) + 1 .. Count(1)
    /\ lastname = Nothing /\ cur = 0 /\ ~ cur_done
    /\ DOMAIN handle = {1} /\ handle[1] = 0

InFile(k) ==
    /\ IsWritten(k) /\ pos \in Count(k - 1) + 1 .. Count(k)
    /\ lastname = k /\ size = history[k].size /\ (cur_done <=> pos = Count(k))
    /\ DOMAIN handle = 1 .. k /\ handle[k] = cur /\ cur > 0
    /\ \A j \in 1 .. k - 1 : handle[j] \in 0 .. cur - 1

IsSomewhere == AtHeader \/ InReference \/ \E k \in States : InFile(k)

\* What the output holds: the blocks of the current file that were read, and
\* of the state before it the others.
HasRead(k, read) ==
    \A l \in 0 .. history[k].size - 1 :
      /\ l < read => output[l] = history[k].blocks[l]
      /\ l >= read /\ k > 1 => output[l] = history[k - 1].blocks[l]

OutputIsKnown ==
    /\ lastname = Nothing /\ reference => \A l \in Log : output[l] = history[1].blocks[l]
    /\ \A k \in States : lastname = k => HasRead(k, pos - Count(k - 1) - 1)

\* The states that a sequence of snapshots names.
NamesOf(t) == {t[i].name : i \in DOMAIN t}

\* The snapshots made are those of the states in S, but for those whose command
\* was killed.
TakenOf(S) ==
    /\ NamesOf(taken) \cup killed = S
    /\ \A i, j \in DOMAIN taken : i < j => taken[i].name < taken[j].name

TakenSoFar ==
    TakenOf(IF lastname = Nothing THEN {} ELSE {k \in 1 .. lastname - 1 : Asked(k)})

\* One that is not right was made at the end.
SnapshotsSoFar ==
    \A i \in DOMAIN taken :
      IsRight(taken[i]) \/ (i = Len(taken) /\ ~ cur_done /\ exit # Nothing)

Restoring ==
    /\ RestoreType
    /\ rc # "error" => IsSomewhere
    /\ rc # "error" /\ Faithful => OutputIsKnown
    /\ Faithful /\ lastname # Nothing /\ cur_done => IsRight(Snapshot)
    /\ Faithful => SnapshotsSoFar
    /\ rc # "error" /\ exit = Nothing => TakenSoFar
    /\ NoneIsLeftOut
-------------------------------------------------------------------------------
LEMMA LeastOf ==
    ASSUME NEW T, T \subseteq Nat, T # {}
    PROVE  \E x \in T : \A y \in T : x <= y
<1>1. PICK x \in T : \A y \in T : ~ (<<y, x>> \in OpToRel(<, Nat))
  BY NatLessThanWellFounded, WFMin
<1>2. \A y \in T : ~ (y < x)
  BY <1>1 DEF OpToRel
<1> QED
  BY <1>2

\* A history is a sequence of at least one state.
LEMMA HistoryIs ==
    ASSUME history \in Histories
    PROVE  /\ Len(history) \in Nat /\ Len(history) > 0
           /\ States = 1 .. Len(history) /\ States \subseteq File /\ Nothing \notin States
           /\ \A k \in States : /\ history[k].size \in Nat /\ history[k].size <= LogSize
                                /\ history[k].blocks \in [Log -> Place \cup {Zero}]
                                /\ 0 .. history[k].size - 1 \subseteq Log
<1>1. history \in Seq([size : 0 .. LogSize, blocks : [Log -> Place \cup {Zero}]]) /\ history # <<>>
      /\ States \subseteq File
  BY HistoriesAssumption DEF States
<1>2. Len(history) \in Nat /\ Len(history) > 0 /\ States = 1 .. Len(history)
  BY <1>1, EmptySeq, LenProperties DEF States
<1>3. \A k \in States : history[k] \in [size : 0 .. LogSize, blocks : [Log -> Place \cup {Zero}]]
  BY <1>1, <1>2, ElementOfSeq
<1>4. \A k \in States : /\ history[k].size \in 0 .. LogSize
                        /\ history[k].blocks \in [Log -> Place \cup {Zero}]
  BY <1>3
<1>5. Nothing \notin States
  BY <1>1, HistoriesAssumption
<1>6. LogSize \in Nat
  BY SizeAssumption
<1> QED
  BY <1>1, <1>2, <1>4, <1>5, <1>6 DEF Log

LEMMA Single ==
    ASSUME NEW S, NEW x \in S
    PROVE  <<x>> \in Seq(S) /\ Len(<<x>>) = 1 /\ <<x>>[1] = x
OBVIOUS

LEMMA Joined ==
    ASSUME NEW S, NEW s \in Seq(S), NEW t \in Seq(S)
    PROVE  /\ s \o t \in Seq(S) /\ Len(s \o t) = Len(s) + Len(t)
           /\ Len(s) \in Nat /\ Len(t) \in Nat
           /\ \A i \in 1 .. Len(s) : (s \o t)[i] = s[i]
           /\ \A i \in 1 .. Len(t) : (s \o t)[Len(s) + i] = t[i]
<1>1. Len(s) \in Nat /\ Len(t) \in Nat
  BY LenProperties
<1>2. /\ s \o t \in Seq(S) /\ Len(s \o t) = Len(s) + Len(t)
      /\ \A i \in 1 .. Len(s) + Len(t) : (s \o t)[i] = IF i <= Len(s) THEN s[i] ELSE t[i - Len(s)]
  BY ConcatProperties
<1>3. ASSUME NEW i \in 1 .. Len(t) PROVE (s \o t)[Len(s) + i] = t[i]
  <2>1. Len(s) + i \in 1 .. Len(s) + Len(t) /\ ~ (Len(s) + i <= Len(s)) /\ Len(s) + i - Len(s) = i
    BY <1>1
  <2> QED
    BY <1>2, <2>1
<1>4. ASSUME NEW i \in 1 .. Len(s) PROVE (s \o t)[i] = s[i]
  BY <1>1, <1>2
<1> QED
  BY <1>1, <1>2, <1>3, <1>4

\* The packets of a file that is written, one by one.
LEMMA PacketsOfWritten ==
    ASSUME history \in Histories, NEW k \in States, IsWritten(k)
    PROVE  LET n == history[k].size  P == FilePackets(k) IN
           /\ P \in Seq({P[r] : r \in 1 .. n + 2}) /\ Len(P) = n + 2
           /\ P[1] = FilePacket(k, "REG", n)
           /\ \A l \in 0 .. n - 1 : P[l + 2] = BlockPacket(k, l)
           /\ P[n + 2] = EndPacket(k)
<1> DEFINE n == history[k].size
           P == FilePackets(k)
           b == [l \in 1 .. n |-> BlockPacket(k, l - 1)]
           f == <<FilePacket(k, "REG", n)>>
           e == <<EndPacket(k)>>
           S == {FilePacket(k, "REG", n), EndPacket(k)} \cup {BlockPacket(k, l - 1) : l \in 1 .. n}
<1>1. n \in Nat
  BY HistoryIs
<1>2. P = f \o b \o e
  BY DEF FilePackets, IsWritten
<1>3. b \in [1 .. n -> S]
  OBVIOUS
<1>4. b \in Seq(S) /\ Len(b) = n
  <2> HIDE DEF b, S, n
  <2> QED
    BY <1>1, <1>3, SeqDef
<1>5. f \in Seq(S) /\ Len(f) = 1 /\ f[1] = FilePacket(k, "REG", n)
  <2>1. FilePacket(k, "REG", n) \in S
    OBVIOUS
  <2> HIDE DEF S, n
  <2> QED
    BY <2>1, Single
<1>6. e \in Seq(S) /\ Len(e) = 1 /\ e[1] = EndPacket(k)
  <2>1. EndPacket(k) \in S
    OBVIOUS
  <2> HIDE DEF S
  <2> QED
    BY <2>1, Single
<1>7. \A l \in 1 .. n : b[l] = BlockPacket(k, l - 1)
  OBVIOUS
<1> HIDE DEF b, f, e, S, P, n
<1>8. /\ f \o b \in Seq(S) /\ Len(f \o b) = Len(f) + Len(b)
      /\ \A i \in 1 .. Len(f) : (f \o b)[i] = f[i]
      /\ \A i \in 1 .. Len(b) : (f \o b)[Len(f) + i] = b[i]
  <2>1. f \in Seq(S) /\ b \in Seq(S)
    BY <1>4, <1>5
  <2>2. f \o b \in Seq(S) /\ Len(f \o b) = Len(f) + Len(b)
    BY <2>1, Joined
  <2>3. \A i \in 1 .. Len(f) : (f \o b)[i] = f[i]
    BY <2>1, Joined
  <2>4. \A i \in 1 .. Len(b) : (f \o b)[Len(f) + i] = b[i]
    BY <2>1, Joined
  <2> QED
    BY <2>2, <2>3, <2>4
<1>9. /\ f \o b \o e \in Seq(S) /\ Len(f \o b \o e) = Len(f \o b) + Len(e)
      /\ \A i \in 1 .. Len(f \o b) : (f \o b \o e)[i] = (f \o b)[i]
      /\ \A i \in 1 .. Len(e) : (f \o b \o e)[Len(f \o b) + i] = e[i]
  <2> DEFINE g == f \o b
  <2>0. g \in Seq(S)
    BY <1>8
  <2> HIDE DEF g
  <2>1. g \in Seq(S) /\ e \in Seq(S)
    BY <1>6, <2>0
  <2>2. g \o e \in Seq(S) /\ Len(g \o e) = Len(g) + Len(e)
    BY <2>1, Joined
  <2>3. \A i \in 1 .. Len(g) : (g \o e)[i] = g[i]
    BY <2>1, Joined
  <2>4. \A i \in 1 .. Len(e) : (g \o e)[Len(g) + i] = e[i]
    BY <2>1, Joined
  <2> QED
    BY <2>2, <2>3, <2>4 DEF g
<1>10. P \in Seq(S) /\ Len(P) = n + 2
  BY <1>1, <1>2, <1>4, <1>5, <1>6, <1>8, <1>9
<1>11. P \in Seq({P[r] : r \in 1 .. n + 2})
  <2> DEFINE R == {P[r] : r \in 1 .. n + 2}
  <2>1. P \in [1 .. n + 2 -> S]
    BY <1>10, LenProperties
  <2>2. P \in [1 .. n + 2 -> R]
    BY <2>1
  <2>3. n + 2 \in Nat
    BY <1>1
  <2> HIDE DEF R
  <2> QED
    BY <2>2, <2>3, SeqDef
<1>12. P[1] = FilePacket(k, "REG", n)
  <2>1. 1 \in 1 .. Len(f) /\ 1 \in 1 .. Len(f \o b)
    BY <1>1, <1>4, <1>5, <1>8
  <2> QED
    BY <1>2, <1>5, <1>8, <1>9, <2>1
<1>13. P[n + 2] = EndPacket(k)
  <2>1. Len(f \o b) + 1 = n + 2 /\ 1 \in 1 .. Len(e)
    BY <1>1, <1>4, <1>5, <1>6, <1>8
  <2>2. (f \o b \o e)[Len(f \o b) + 1] = e[1]
    BY <1>9, <2>1
  <2> QED
    BY <1>2, <1>6, <2>1, <2>2
<1>14. ASSUME NEW l \in 0 .. n - 1 PROVE P[l + 2] = BlockPacket(k, l)
  <2>1. /\ l + 1 \in 1 .. Len(b) /\ l + 1 \in 1 .. n /\ l + 1 - 1 = l /\ Len(f) + (l + 1) = l + 2
        /\ l + 2 \in 1 .. Len(f \o b)
    BY <1>1, <1>4, <1>5, <1>8
  <2>2. (f \o b \o e)[l + 2] = (f \o b)[l + 2] /\ (f \o b)[Len(f) + (l + 1)] = b[l + 1]
    BY <1>8, <1>9, <2>1
  <2>3. b[l + 1] = BlockPacket(k, l + 1 - 1)
    BY <1>7, <2>1
  <2> QED
    BY <1>2, <2>1, <2>2, <2>3
<1> QED
  BY <1>10, <1>11, <1>12, <1>13, <1>14 DEF P, n

\* And of one that is only referred to.
LEMMA PacketsOfReference ==
    ASSUME history \in Histories, NEW k \in States, ~ IsWritten(k)
    PROVE  LET P == FilePackets(k) IN
           /\ P \in Seq({P[r] : r \in 1 .. 2}) /\ Len(P) = 2
           /\ P[1] = FilePacket(k, "REF", history[k].size) /\ P[2] = EndPacket(k)
<1> DEFINE a == FilePacket(k, "REF", history[k].size)
           e == EndPacket(k)
           P == FilePackets(k)
<1>1. P = <<a, e>>
  BY DEF FilePackets, IsWritten
<1> HIDE DEF a, e, P
<1>2. P[1] = a /\ P[2] = e /\ Len(P) = 2 /\ P \in [1 .. 2 -> {P[r] : r \in 1 .. 2}]
  BY <1>1
<1>3. P \in Seq({P[r] : r \in 1 .. 2})
  BY <1>1, <1>2
<1> QED
  BY <1>2, <1>3 DEF a, e, P

\* The packets there are.
Packet == {Header} \cup UNION {{FilePackets(k)[r] : r \in 1 .. Len(FilePackets(k))} : k \in States}

LEMMA FileIsPackets ==
    ASSUME history \in Histories, NEW k \in States
    PROVE  FilePackets(k) \in Seq(Packet) /\ Len(FilePackets(k)) \in Nat /\ Len(FilePackets(k)) >= 2
<1> DEFINE P == FilePackets(k)
           n == IF IsWritten(k) THEN history[k].size + 2 ELSE 2
<1>1. n \in Nat /\ n >= 2
  BY HistoryIs
<1>2. P \in Seq({P[r] : r \in 1 .. n}) /\ Len(P) = n
  BY PacketsOfWritten, PacketsOfReference
<1>3. {P[r] : r \in 1 .. n} \subseteq Packet
  BY <1>2 DEF Packet
<1> HIDE DEF P, n
<1>4. P \in Seq(Packet)
  BY <1>2, <1>3, SeqMonotonic
<1> QED
  BY <1>1, <1>2, <1>4 DEF P

\* The definition of UpTo for the first m files, as a formula about a function.
Streams(h, m) ==
    h = [k \in 0 .. m |-> IF k = 0 THEN <<Header>> ELSE h[k - 1] \o FilePackets(k)]

LEMMA StreamsExist ==
    ASSUME history \in Histories
    PROVE  \E h : Streams(h, Len(history))
<1>1. Len(history) \in Nat
  BY HistoryIs
<1> DEFINE T == {m \in 0 .. Len(history) : ~ \E h : Streams(h, m)}
<1> SUFFICES ASSUME T # {} PROVE FALSE
  BY <1>1
<1>2. PICK m \in T : \A y \in T : m <= y
  <2>1. T \subseteq Nat
    BY <1>1
  <2> QED
    BY <2>1, LeastOf
<1>3. /\ m \in 0 .. Len(history) /\ m \in Nat /\ ~ \E h : Streams(h, m)
      /\ \A y \in 0 .. Len(history) : y < m => \E h : Streams(h, y)
  BY <1>1, <1>2
<1> HIDE DEF T
<1>4. CASE m = 0
  <2> DEFINE h == [k \in 0 .. 0 |-> <<Header>>]
  <2>1. \A k \in 0 .. 0 : k = 0
    OBVIOUS
  <2>2. h = [k \in 0 .. 0 |-> IF k = 0 THEN <<Header>> ELSE h[k - 1] \o FilePackets(k)]
    BY <2>1
  <2>3. Streams(h, 0)
    BY <2>2 DEF Streams
  <2> QED
    BY <1>3, <1>4, <2>3
<1>5. CASE m > 0
  <2>1. m - 1 \in 0 .. Len(history) /\ m - 1 < m /\ m \notin 0 .. m - 1
    BY <1>1, <1>3, <1>5
  <2>2. PICK g : Streams(g, m - 1)
    BY <1>3, <2>1
  <2> DEFINE last_ == g[m - 1] \o FilePackets(m)
             h == [k \in 0 .. m |-> IF k = m THEN last_ ELSE g[k]]
  <2>3. \A k \in 0 .. m - 1 : g[k] = IF k = 0 THEN <<Header>> ELSE g[k - 1] \o FilePackets(k)
    BY <2>2 DEF Streams
  <2>4. h[m] = last_ /\ \A k \in 0 .. m - 1 : h[k] = g[k]
    BY <1>3, <1>5, <2>1
  <2>5. h = [k \in 0 .. m |-> h[k]]
    OBVIOUS
  <2> HIDE DEF h
  <2>6. \A k \in 0 .. m : h[k] = IF k = 0 THEN <<Header>> ELSE h[k - 1] \o FilePackets(k)
    <3> SUFFICES ASSUME NEW k \in 0 .. m
                 PROVE  h[k] = IF k = 0 THEN <<Header>> ELSE h[k - 1] \o FilePackets(k)
      OBVIOUS
    <3>1. k > 0 => k - 1 \in 0 .. m - 1
      BY <1>3
    <3>2. k = m \/ k \in 0 .. m - 1
      BY <1>3
    <3>3. k > 0 => h[k - 1] = g[k - 1]
      BY <2>4, <3>1
    <3>4. CASE k = m
      <4>1. k # 0 /\ h[k] = g[k - 1] \o FilePackets(k) /\ h[k - 1] = g[k - 1]
        BY <1>5, <2>4, <3>3, <3>4
      <4> QED
        BY <4>1, Zenon
    <3>5. CASE k \in 0 .. m - 1
      <4>1. h[k] = g[k] /\ g[k] = IF k = 0 THEN <<Header>> ELSE g[k - 1] \o FilePackets(k)
        BY <2>3, <2>4, <3>5
      <4>2. k # 0 => h[k - 1] = g[k - 1]
        BY <1>3, <3>3
      <4> QED
        BY <4>1, <4>2, Zenon
    <3> QED
      BY <3>2, <3>4, <3>5
  <2>7. Streams(h, m)
    BY <2>5, <2>6 DEF Streams
  <2> QED
    BY <1>3, <2>7
<1> QED
  BY <1>3, <1>4, <1>5

\* So that UpTo is what its definition says.
LEMMA UpToIs ==
    ASSUME history \in Histories
    PROVE  /\ UpTo[0] = <<Header>>
           /\ \A k \in States : UpTo[k] = UpTo[k - 1] \o FilePackets(k)
<1>1. Len(history) \in Nat /\ States = 1 .. Len(history)
  BY HistoryIs
<1>2. Streams(UpTo, Len(history))
  BY StreamsExist DEF UpTo, Streams
<1> DEFINE U == UpTo
<1>3. U = [k \in 0 .. Len(history) |-> IF k = 0 THEN <<Header>> ELSE U[k - 1] \o FilePackets(k)]
  BY <1>2 DEF Streams
<1> HIDE DEF U
<1>4. \A k \in 0 .. Len(history) : U[k] = IF k = 0 THEN <<Header>> ELSE U[k - 1] \o FilePackets(k)
  BY <1>3
<1>5. U[0] = <<Header>>
  BY <1>1, <1>4
<1>6. ASSUME NEW k \in States PROVE U[k] = U[k - 1] \o FilePackets(k)
  <2>1. k \in 0 .. Len(history) /\ k # 0
    BY <1>1
  <2> QED
    BY <1>4, <2>1, Zenon
<1> QED
  BY <1>5, <1>6 DEF U

LEMMA UpToType ==
    ASSUME history \in Histories, NEW k \in 0 .. Len(history)
    PROVE  UpTo[k] \in Seq(Packet)
<1>1. Len(history) \in Nat /\ States = 1 .. Len(history)
  BY HistoryIs
<1> DEFINE T == {m \in 0 .. Len(history) : UpTo[m] \notin Seq(Packet)}
<1> SUFFICES ASSUME T # {} PROVE FALSE
  OBVIOUS
<1>2. PICK m \in T : \A y \in T : m <= y
  <2>1. T \subseteq Nat
    BY <1>1
  <2> QED
    BY <2>1, LeastOf
<1>3. /\ m \in 0 .. Len(history) /\ m \in Nat /\ UpTo[m] \notin Seq(Packet)
      /\ \A y \in 0 .. Len(history) : y < m => UpTo[y] \in Seq(Packet)
  BY <1>1, <1>2
<1>4. m # 0
  <2>1. Header \in Packet
    BY DEF Packet
  <2>2. <<Header>> \in Seq(Packet)
    BY <2>1, Single
  <2> QED
    BY <1>3, <2>2, UpToIs
<1>5. m \in States /\ m - 1 \in 0 .. Len(history) /\ m - 1 < m
  BY <1>1, <1>3, <1>4
<1>6. UpTo[m - 1] \in Seq(Packet) /\ FilePackets(m) \in Seq(Packet)
  BY <1>3, <1>5, FileIsPackets
<1>7. UpTo[m - 1] \o FilePackets(m) \in Seq(Packet)
  BY <1>6, Joined
<1> QED
  BY <1>3, <1>5, <1>7, UpToIs

\* Where the packets of a file are.
LEMMA CountIs ==
    ASSUME history \in Histories
    PROVE  /\ Count(0) = 1 /\ Len(stream) = Count(Len(history))
           /\ \A k \in 0 .. Len(history) : Count(k) \in Nat
           /\ \A k \in States :
                /\ Count(k) = Count(k - 1) + Len(FilePackets(k))
                /\ \A p \in 1 .. Count(k - 1) : UpTo[k][p] = UpTo[k - 1][p]
                /\ \A r \in 1 .. Len(FilePackets(k)) :
                     UpTo[k][Count(k - 1) + r] = FilePackets(k)[r]
<1>1. Len(history) \in Nat /\ States = 1 .. Len(history)
  BY HistoryIs
<1>2. \A k \in 0 .. Len(history) : Count(k) \in Nat
  BY UpToType, LenProperties DEF Count
<1>3. Count(0) = 1
  <2>1. Len(<<Header>>) = 1
    BY Single
  <2> QED
    BY <2>1, UpToIs DEF Count
<1>4. ASSUME NEW k \in States
      PROVE  /\ Count(k) = Count(k - 1) + Len(FilePackets(k))
             /\ \A p \in 1 .. Count(k - 1) : UpTo[k][p] = UpTo[k - 1][p]
             /\ \A r \in 1 .. Len(FilePackets(k)) :
                  UpTo[k][Count(k - 1) + r] = FilePackets(k)[r]
  <2> DEFINE s == UpTo[k - 1]
             t == FilePackets(k)
  <2>1. s \in Seq(Packet) /\ t \in Seq(Packet) /\ UpTo[k] = s \o t
    BY <1>1, UpToType, UpToIs, FileIsPackets
  <2> HIDE DEF s, t
  <2>2. Len(s \o t) = Len(s) + Len(t)
    BY <2>1, Joined
  <2>3. \A i \in 1 .. Len(s) : (s \o t)[i] = s[i]
    BY <2>1, Joined
  <2>4. \A i \in 1 .. Len(t) : (s \o t)[Len(s) + i] = t[i]
    BY <2>1, Joined
  <2>5. Count(k) = Len(s \o t) /\ Count(k - 1) = Len(s)
    BY <2>1 DEF Count, s
  <2> DEFINE u == s \o t
  <2>6. UpTo[k] = u /\ Len(u) = Len(s) + Len(t) /\ (\A i \in 1 .. Len(s) : u[i] = s[i])
        /\ (\A i \in 1 .. Len(t) : u[Len(s) + i] = t[i]) /\ Count(k) = Len(u)
    BY <2>1, <2>2, <2>3, <2>4, <2>5
  <2> HIDE DEF u
  <2> QED
    BY <2>5, <2>6 DEF s, t
<1>5. Len(stream) = Count(Len(history))
  BY DEF stream, Count
<1> QED
  BY <1>2, <1>3, <1>4, <1>5

\* The files follow each other.
LEMMA CountGrows ==
    ASSUME history \in Histories, NEW j \in 0 .. Len(history), NEW k \in j .. Len(history)
    PROVE  /\ Count(j) <= Count(k) /\ (j < k => Count(j) < Count(k))
           /\ \A p \in 1 .. Count(j) : UpTo[k][p] = UpTo[j][p]
<1> DEFINE Goes(m) == /\ Count(j) <= Count(m) /\ (j < m => Count(j) < Count(m))
                      /\ \A p \in 1 .. Count(j) : UpTo[m][p] = UpTo[j][p]
           T == {m \in j .. Len(history) : ~ Goes(m)}
<1>1. Len(history) \in Nat /\ States = 1 .. Len(history) /\ j \in Nat
  BY HistoryIs
<1> SUFFICES ASSUME T # {} PROVE FALSE
  OBVIOUS
<1>2. PICK m \in T : \A y \in T : m <= y
  <2>1. T \subseteq Nat
    BY <1>1
  <2> QED
    BY <2>1, LeastOf
<1>3. m \in j .. Len(history) /\ ~ Goes(m) /\ \A y \in j .. Len(history) : y < m => Goes(y)
  BY <1>1, <1>2
<1>4. Count(j) \in Nat /\ Count(m) \in Nat
  BY <1>1, <1>3, CountIs
<1>5. m # j
  BY <1>3, <1>4
<1>6. m \in States /\ m - 1 \in j .. Len(history) /\ m - 1 < m
  BY <1>1, <1>3, <1>5
<1>7. Goes(m - 1) /\ Count(m - 1) \in Nat
  BY <1>1, <1>3, <1>6, CountIs
<1>8. /\ Count(m) = Count(m - 1) + Len(FilePackets(m)) /\ Len(FilePackets(m)) \in Nat
      /\ Len(FilePackets(m)) >= 2
      /\ \A p \in 1 .. Count(m - 1) : UpTo[m][p] = UpTo[m - 1][p]
  BY <1>6, CountIs, FileIsPackets
<1>9. Count(j) <= Count(m) /\ Count(j) < Count(m)
  BY <1>4, <1>7, <1>8
<1>10. ASSUME NEW p \in 1 .. Count(j) PROVE UpTo[m][p] = UpTo[j][p]
  <2>1. p \in 1 .. Count(m - 1)
    BY <1>4, <1>7
  <2> QED
    BY <1>7, <1>8, <2>1
<1> QED
  BY <1>3, <1>9, <1>10

\* A packet of the stream is one of the file that it is in.
LEMMA PacketIs ==
    ASSUME history \in Histories, NEW k \in States, pos \in Count(k - 1) .. Count(k) - 1
    PROVE  /\ pkt = FilePackets(k)[pos - Count(k - 1) + 1] /\ pos < Len(stream)
           /\ Count(k - 1) \in Nat /\ Count(k) \in Nat /\ Count(k) = Count(k - 1) + Len(FilePackets(k))
           /\ Len(FilePackets(k)) \in Nat /\ pos \in Nat
<1>1. Len(history) \in Nat /\ States = 1 .. Len(history) /\ Len(history) \in k .. Len(history)
      /\ k \in 0 .. Len(history) /\ k - 1 \in 0 .. Len(history)
  BY HistoryIs
<1>2. /\ Count(k - 1) \in Nat /\ Count(k) \in Nat /\ Count(k) = Count(k - 1) + Len(FilePackets(k))
      /\ Len(FilePackets(k)) \in Nat
  BY <1>1, CountIs, FileIsPackets
<1>3. Count(k) <= Len(stream) /\ \A p \in 1 .. Count(k) : stream[p] = UpTo[k][p]
  BY <1>1, CountIs, CountGrows DEF stream
<1> DEFINE r == pos - Count(k - 1) + 1
<1>4. r \in 1 .. Len(FilePackets(k)) /\ pos + 1 = Count(k - 1) + r /\ pos + 1 \in 1 .. Count(k) /\ pos \in Nat
  BY <1>2
<1>5. pkt = UpTo[k][Count(k - 1) + r]
  BY <1>3, <1>4 DEF pkt
<1>6. UpTo[k][Count(k - 1) + r] = FilePackets(k)[r]
  BY <1>4, CountIs
<1>7. pos < Len(stream)
  <2>1. Len(stream) \in Nat
    BY <1>1, CountIs
  <2> QED
    BY <1>2, <1>3, <1>4, <2>1
<1> QED
  BY <1>2, <1>4, <1>5, <1>6, <1>7

\* Before the first packet of file k, and before another one of it.
IsBefore(k) == IF k = 1 THEN AtHeader ELSE (k = 2 /\ InReference) \/ InFile(k - 1)
IsWithin(k) == (k = 1 /\ InReference) \/ InFile(k)

\* The file that the next packet is of.
LEMMA NextFile ==
    ASSUME RestoreType, IsSomewhere, pos < Len(stream)
    PROVE  \E k \in States : /\ pos \in Count(k - 1) .. Count(k) - 1
                             /\ pos = Count(k - 1) => IsBefore(k)
                             /\ pos > Count(k - 1) => IsWithin(k)
<1>1. /\ history \in Histories /\ Len(history) \in Nat /\ Len(history) > 0 /\ States = 1 .. Len(history)
      /\ Nothing \notin States
  BY HistoryIs DEF RestoreType
<1>2. /\ Count(0) = 1 /\ Len(stream) = Count(Len(history))
      /\ \A k \in 0 .. Len(history) : Count(k) \in Nat
      /\ \A k \in States : Count(k) = Count(k - 1) + Len(FilePackets(k))
      /\ \A k \in States : Len(FilePackets(k)) \in Nat /\ Len(FilePackets(k)) >= 2
  BY <1>1, CountIs, FileIsPackets
<1>3. CASE AtHeader
  <2>1. 1 \in States /\ 1 - 1 = 0 /\ Count(1) >= 3 /\ Count(1) \in Nat
    BY <1>1, <1>2
  <2>2. pos = 1 /\ pos \in Count(1 - 1) .. Count(1) - 1 /\ pos = Count(1 - 1) /\ IsBefore(1)
    BY <1>2, <1>3, <2>1 DEF AtHeader, IsBefore
  <2> QED
    BY <1>2, <2>1, <2>2
<1>4. ASSUME NEW k \in States, pos \in Count(k - 1) + 1 .. Count(k), IsWithin(k)
      PROVE  \E j \in States : /\ pos \in Count(j - 1) .. Count(j) - 1
                               /\ pos = Count(j - 1) => IsBefore(j)
                               /\ pos > Count(j - 1) => IsWithin(j)
  <2>1. Count(k - 1) \in Nat /\ Count(k) \in Nat /\ k \in Nat /\ k >= 1
    BY <1>1, <1>2
  <2>2. CASE pos < Count(k)
    <3>1. pos \in Count(k - 1) .. Count(k) - 1 /\ pos # Count(k - 1)
      BY <2>1, <2>2, <1>4
    <3> QED
      BY <1>4, <3>1
  <2>3. CASE pos = Count(k)
    <3>1. k # Len(history)
      BY <1>1, <1>2, <2>1, <2>3
    <3>2. PICK j \in States : j - 1 = k /\ j # 1 /\ (k = 1 <=> j = 2)
      <4> DEFINE j == k + 1
      <4>1. j \in States /\ j - 1 = k /\ j # 1 /\ (k = 1 <=> j = 2)
        BY <1>1, <3>1
      <4> HIDE DEF j
      <4> QED
        BY <4>1
    <3>3. Count(j) = Count(k) + Len(FilePackets(j)) /\ Len(FilePackets(j)) \in Nat
          /\ Len(FilePackets(j)) >= 2
      BY <1>2, <3>2
    <3>4. pos \in Count(j - 1) .. Count(j) - 1 /\ pos = Count(j - 1) /\ ~ (pos > Count(j - 1))
      BY <2>1, <2>3, <3>2, <3>3
    <3>5. IsBefore(j)
      BY <1>4, <3>2 DEF IsBefore, IsWithin
    <3> QED
      BY <3>4, <3>5
  <2> QED
    BY <1>4, <2>1, <2>2, <2>3
<1>5. CASE InReference
  <2>1. 1 \in States /\ 1 - 1 = 0 /\ IsWithin(1)
    BY <1>1, <1>5 DEF IsWithin
  <2> QED
    BY <1>4, <1>5, <2>1 DEF InReference
<1>6. CASE \E k \in States : InFile(k)
  <2>1. PICK k \in States : InFile(k)
    BY <1>6
  <2>2. pos \in Count(k - 1) + 1 .. Count(k) /\ IsWithin(k)
    BY <2>1 DEF InFile, IsWithin
  <2> QED
    BY <1>4, <2>2
<1> QED
  BY <1>3, <1>5, <1>6 DEF IsSomewhere

\* What a block's packet says.
LEMMA BlockIs ==
    ASSUME history \in Histories, NEW k \in States, NEW l \in 0 .. history[k].size - 1
    PROVE  LET p == BlockPacket(k, l)  b == history[k].blocks[l] IN
           /\ p.type = "EXTENT" /\ p.file = k /\ p.offset = l /\ p.flags \in {"HOLE", "DATA", "COPY"}
           /\ p.flags = "HOLE" => b = Zero
           /\ p.flags = "DATA" => p.data[0] = b
           /\ p.flags = "COPY" => b # Zero /\ \E h \in Sources(k, l) : p.source = h.file
<1> DEFINE b == history[k].blocks[l]
           from == Sources(k, l)
           p == BlockPacket(k, l)
<1>1. CASE b = Zero
  <2>1. p = EmptyPacket(k, "HOLE", l, 1)
    BY <1>1 DEF BlockPacket
  <2> QED
    BY <1>1, <2>1 DEF EmptyPacket
<1>2. CASE b # Zero /\ from = {}
  <2>1. p = DataPacket(k, l, 1, [i \in {0} |-> b])
    BY <1>2 DEF BlockPacket
  <2> QED
    BY <1>2, <2>1 DEF DataPacket
<1>3. CASE b # Zero /\ from # {}
  <2> DEFINE Least(h) == \A g \in from : h.file <= g.file
             c == CHOOSE h \in from : Least(h)
  <2>1. \E h \in from : Least(h)
    <3> DEFINE T == {h.file : h \in from}
    <3>1. T \subseteq Nat /\ T # {}
      <4>1. \A h \in from : h.file \in 1 .. k - 1
        BY DEF Sources
      <4> QED
        BY <1>3, <4>1
    <3> HIDE DEF T
    <3>2. PICK x \in T : \A y \in T : x <= y
      BY <3>1, LeastOf
    <3> QED
      BY <3>2 DEF T
  <2>2. c \in from
    BY <2>1
  <2>3. p = CopyPacket(k, l, 1, c.file, c.logical)
    BY <1>3 DEF BlockPacket
  <2> HIDE DEF c, from, b, p
  <2>4. p.type = "EXTENT" /\ p.file = k /\ p.offset = l /\ p.flags = "COPY" /\ p.source = c.file
    BY <2>3 DEF CopyPacket
  <2> QED
    BY <1>3, <2>2, <2>4 DEF from, b, p
<1> QED
  BY <1>1, <1>2, <1>3

\* What the type of the next packet tells.
LEMMA PacketTells ==
    ASSUME history \in Histories, NEW k \in States, pos \in Count(k - 1) .. Count(k) - 1
    PROVE  /\ pkt.type = "FILE" =>
                /\ pos = Count(k - 1) /\ pkt.file = k /\ pkt.size = history[k].size
                /\ pkt.mode = IF IsWritten(k) THEN "REG" ELSE "REF"
           /\ pkt.type = "FILE_END" => pos = Count(k) - 1 /\ pos > Count(k - 1) /\ pkt.file = k
           /\ pkt.type = "EXTENT" =>
                /\ IsWritten(k) /\ pos > Count(k - 1) /\ pos < Count(k) - 1
                /\ pos - Count(k - 1) - 1 \in 0 .. history[k].size - 1
                /\ pkt = BlockPacket(k, pos - Count(k - 1) - 1)
           /\ IsWritten(k) => Count(k) = Count(k - 1) + history[k].size + 2
<1> DEFINE r == pos - Count(k - 1)
           n == history[k].size
           P == FilePackets(k)
<1>1. /\ pkt = P[r + 1] /\ Count(k) = Count(k - 1) + Len(P) /\ Count(k - 1) \in Nat /\ pos \in Nat
      /\ Len(P) \in Nat /\ r \in 0 .. Len(P) - 1 /\ n \in Nat
  <2> DEFINE a == Count(k - 1)
  <2>1. /\ pkt = P[pos - a + 1] /\ Count(k) = a + Len(P) /\ a \in Nat /\ pos \in Nat
        /\ Len(P) \in Nat
    BY PacketIs
  <2>2. n \in Nat
    BY HistoryIs
  <2>3. pos \in a .. Count(k) - 1 /\ r = pos - a
    OBVIOUS
  <2> HIDE DEF a, r, n, P
  <2>4. r \in 0 .. Len(P) - 1
    BY <2>1, <2>3
  <2>5. pkt = P[r + 1]
    BY <2>1, <2>3
  <2> QED
    BY <2>1, <2>2, <2>4, <2>5 DEF a
<1>2. CASE ~ IsWritten(k)
  <2>1. Len(P) = 2 /\ P[1] = FilePacket(k, "REF", n) /\ P[2] = EndPacket(k)
    BY <1>2, PacketsOfReference
  <2> HIDE DEF P
  <2>2. CASE r = 0
    <3>1. pkt = FilePacket(k, "REF", n) /\ pos = Count(k - 1)
      BY <1>1, <2>1, <2>2
    <3> QED
      BY <1>2, <3>1 DEF FilePacket
  <2>3. CASE r = 1
    <3>1. pkt = EndPacket(k) /\ pos = Count(k) - 1 /\ pos > Count(k - 1)
      BY <1>1, <2>1, <2>3
    <3> QED
      BY <1>2, <3>1 DEF EndPacket
  <2> QED
    BY <1>1, <2>1, <2>2, <2>3
<1>3. CASE IsWritten(k)
  <2>1. /\ Len(P) = n + 2 /\ P[1] = FilePacket(k, "REG", n) /\ P[n + 2] = EndPacket(k)
        /\ \A l \in 0 .. n - 1 : P[l + 2] = BlockPacket(k, l)
    BY <1>3, PacketsOfWritten
  <2>2. r = pos - Count(k - 1)
    OBVIOUS
  <2> HIDE DEF P, r
  <2>3. CASE r = 0
    <3>1. pkt = FilePacket(k, "REG", n) /\ pos = Count(k - 1)
      <4>1. pkt = P[r + 1] /\ r + 1 = 1
        BY <1>1, <2>3
      <4>2. P[1] = FilePacket(k, "REG", n)
        BY <2>1
      <4>3. pos = Count(k - 1)
        BY <1>1, <2>2, <2>3
      <4> QED
        BY <4>1, <4>2, <4>3
    <3> QED
      BY <1>1, <1>3, <2>1, <3>1 DEF FilePacket
  <2>4. CASE r = n + 1
    <3>1. r + 1 = n + 2 /\ pos = Count(k) - 1 /\ pos > Count(k - 1)
      <4> HIDE DEF n
      <4>1. Len(P) = n + 2
        BY <2>1
      <4>2. pos = Count(k - 1) + n + 1
        BY <1>1, <2>2, <2>4
      <4>3. Count(k) = Count(k - 1) + n + 2
        BY <1>1, <4>1
      <4> QED
        BY <1>1, <2>4, <4>2, <4>3
    <3>2. pkt = EndPacket(k)
      BY <1>1, <2>1, <3>1
    <3>3. Count(k) = Count(k - 1) + n + 2
      <4> HIDE DEF n
      <4> QED
        BY <1>1, <2>1
    <3> QED
      BY <1>3, <3>1, <3>2, <3>3 DEF EndPacket
  <2>5. CASE r \in 1 .. n
    <3>1. r - 1 \in 0 .. n - 1 /\ r - 1 + 2 = r + 1 /\ pos > Count(k - 1) /\ pos < Count(k) - 1
          /\ r - 1 = pos - Count(k - 1) - 1
      <4> HIDE DEF n
      <4> QED
        BY <1>1, <2>1, <2>2, <2>5
    <3>2. pkt = BlockPacket(k, r - 1)
      BY <1>1, <2>1, <3>1
    <3>3. pkt.type = "EXTENT"
      BY <3>1, <3>2, BlockIs
    <3>4. pkt = BlockPacket(k, pos - Count(k - 1) - 1)
      BY <3>1, <3>2
    <3>5. Count(k) = Count(k - 1) + n + 2
      <4> HIDE DEF n
      <4> QED
        BY <1>1, <2>1
    <3> QED
      BY <1>3, <3>1, <3>3, <3>4, <3>5
  <2>6. r = 0 \/ r = n + 1 \/ r \in 1 .. n
    <3> HIDE DEF n
    <3> QED
      BY <1>1, <2>1
  <2> QED
    BY <2>3, <2>4, <2>5, <2>6
<1> QED
  BY <1>2, <1>3

\* Neither the volume's history nor the options change while the program runs.
LEMMA OptionsStay ==
    ASSUME UNCHANGED options
    PROVE  /\ history' = history /\ reference' = reference /\ zeroes' = zeroes /\ final' = final
           /\ excluded' = excluded /\ stream' = stream /\ Faithful' = Faithful /\ States' = States
           /\ \A k : Count(k)' = Count(k) /\ IsWritten(k)' = IsWritten(k) /\ Asked(k)' = Asked(k)
<1>1. /\ history' = history /\ reference' = reference /\ zeroes' = zeroes /\ final' = final
      /\ excluded' = excluded
  BY DEF options
<1>2. States' = States
  BY <1>1 DEF States
<1>3. \A k, l : Sources(k, l)' = Sources(k, l)
  BY <1>1 DEF Sources
<1>4. \A k, l : BlockPacket(k, l)' = BlockPacket(k, l)
  BY <1>1 DEF BlockPacket, Sources, CopyPacket, EmptyPacket, DataPacket
<1>5. \A k : FilePackets(k)' = FilePackets(k)
  BY <1>1, <1>4, Zenon DEF FilePackets
<1>6. UpTo' = UpTo
  BY <1>1, <1>5, Zenon DEF UpTo
<1>7. stream' = stream
  BY <1>1, <1>6 DEF stream
<1>8. Linear' = Linear
  BY <1>1, <1>2, <1>3 DEF Linear
<1>9. \A k : Count(k)' = Count(k) /\ IsWritten(k)' = IsWritten(k) /\ Asked(k)' = Asked(k)
  BY <1>1, <1>6 DEF Count, IsWritten, Asked
<1> QED
  BY <1>1, <1>2, <1>7, <1>8, <1>9 DEF Faithful

\* A packet that was read: what is known of where the program is.
LEMMA Reading ==
    ASSUME Restoring, rc = "more", pos < Len(stream), pos' = pos + 1
    PROVE  /\ exit = Nothing /\ exit # 0 /\ pos' \in 1 .. Len(stream)
           /\ IsSomewhere /\ TakenSoFar /\ (Faithful => OutputIsKnown)
           /\ Faithful => \A i \in DOMAIN taken : IsRight(taken[i])
<1>1. exit = Nothing /\ exit # 0
  BY HistoriesAssumption DEF Restoring, RestoreType
<1>2. Len(stream) \in Nat
  <2>1. history \in Histories
    BY DEF Restoring, RestoreType
  <2>2. Len(history) \in Nat /\ Len(history) \in 0 .. Len(history)
    BY <2>1, HistoryIs
  <2> QED
    BY <2>1, <2>2, CountIs
<1>3. pos' \in 1 .. Len(stream)
  BY <1>2 DEF Restoring, RestoreType, TypeOK
<1> QED
  BY <1>1, <1>3 DEF Restoring, SnapshotsSoFar

\* A step that leaves the snapshots, the names and the options alone.
LEMMA TakenStays ==
    ASSUME UNCHANGED <<options, taken, killed, lastname>>
    PROVE  /\ TakenSoFar' = TakenSoFar
           /\ (\A i \in DOMAIN taken : IsRight(taken[i])) => (\A i \in DOMAIN taken' : IsRight(taken[i])')
<1>1. history' = history /\ \A k : Asked(k)' = Asked(k)
  BY OptionsStay
<1> QED
  BY <1>1 DEF TakenSoFar, TakenOf, NamesOf, IsRight

\* The three kinds of extents: the block of the state that is read, or an error.
LEMMA ExtentSteps ==
    ASSUME Restoring, Write \/ PunchHole \/ Clone
    PROVE  /\ rc = "more" /\ pos < Len(stream) /\ pos' = pos + 1 /\ rc' \in {"more", "error"}
           /\ UNCHANGED <<options, lastname, size, handle, cur, taken, killed, exit, cur_done>>
           /\ output' \in [Log -> Place \cup {Zero, Nothing}]
           /\ \E k \in States :
                LET l == pos - Count(k - 1) - 1 IN
                /\ InFile(k) /\ pos < Count(k) - 1 /\ l \in 0 .. size - 1
                /\ rc' = "more" /\ Faithful =>
                     output' = [output EXCEPT ![l] = history[k].blocks[l]]
<1>1. /\ rc = "more" /\ pos < Len(stream) /\ pos' = pos + 1 /\ rc' \in {"more", "error"}
      /\ UNCHANGED <<options, lastname, size, handle, cur, taken, killed, exit, cur_done>>
      /\ pkt.type = "EXTENT"
  BY Zenon DEF Write, PunchHole, Clone, Extent, Callback, Becomes, Error, Unchanged
<1>2. history \in Histories /\ RestoreType /\ IsSomewhere /\ (Faithful => OutputIsKnown)
      /\ output \in [Log -> Place \cup {Zero, Nothing}]
  BY <1>1 DEF Restoring, RestoreType, TypeOK
<1>3. PICK k \in States : /\ pos \in Count(k - 1) .. Count(k) - 1
                          /\ pos = Count(k - 1) => IsBefore(k)
                          /\ pos > Count(k - 1) => IsWithin(k)
  BY <1>1, <1>2, NextFile
<1> DEFINE l == pos - Count(k - 1) - 1
           b == history[k].blocks[l]
<1>4. /\ IsWritten(k) /\ pos > Count(k - 1) /\ pos < Count(k) - 1
      /\ l \in 0 .. history[k].size - 1 /\ pkt = BlockPacket(k, l)
  BY <1>1, <1>2, <1>3, PacketTells
<1>5. InFile(k)
  <2>1. ~ (k = 1 /\ InReference)
    BY <1>4 DEF IsWritten, InReference
  <2> QED
    BY <1>3, <1>4, <2>1 DEF IsWithin
<1>6. size = history[k].size /\ lastname = k
  BY <1>5 DEF InFile
<1>7. l \in Log /\ b \in Place \cup {Zero} /\ k \in Nat
  BY <1>2, <1>4, HistoryIs
<1>8. /\ pkt.file = k /\ pkt.offset = l
      /\ pkt.flags = "HOLE" => b = Zero
      /\ pkt.flags = "DATA" => pkt.data[0] = b
      /\ pkt.flags = "COPY" => b # Zero /\ \E h \in Sources(k, l) : pkt.source = h.file
  BY <1>2, <1>4, BlockIs
<1> HIDE DEF l, b
<1>9. output' \in [Log -> Place \cup {Zero, Nothing}]
  <2>1. CASE Write
    <3>1. pkt.flags = "DATA"
      BY <2>1 DEF Write, Extent
    <3>2. output' = output \/ output' = [output EXCEPT ![l] = b]
      BY <1>8, <2>1, <3>1 DEF Write, Becomes
    <3> QED
      BY <1>2, <1>7, <3>2
  <2>2. CASE PunchHole
    <3>1. output' = output \/ output' = [output EXCEPT ![l] = Zero] \/ output' = [output EXCEPT ![l] = output[l]]
      BY <1>8, <2>2 DEF PunchHole, Becomes
    <3> QED
      BY <1>2, <1>7, <3>1
  <2>3. CASE Clone
    BY <1>2, <2>3 DEF Clone
  <2> QED
    BY <2>1, <2>2, <2>3
<1>10. ASSUME rc' = "more", Faithful
       PROVE  output' = [output EXCEPT ![l] = b]
  <2>1. CASE Write
    <3>1. pkt.flags = "DATA"
      BY <2>1 DEF Write, Extent
    <3> QED
      BY <1>8, <1>10, <2>1, <3>1 DEF Write, Becomes, Error
  <2>2. CASE PunchHole
    <3>1. pkt.flags = "HOLE" /\ zeroes
      BY <1>10, <2>2 DEF PunchHole, Extent, Faithful
    <3> QED
      BY <1>8, <1>10, <2>2, <3>1 DEF PunchHole, Becomes, Error
  <2>3. CASE Clone
    <3>1. pkt.flags = "COPY" /\ output' = output
      BY <2>3 DEF Clone, Extent
    <3>2. PICK h \in Sources(k, l) : b # Zero
      BY <1>8, <3>1
    <3>3. h.file \in 1 .. k - 1 /\ \A i \in h.file .. k : history[i].blocks[l] = b
      <4>1. /\ l \in 0 .. history[k].size - 1 /\ history[k].blocks[l] # Zero
        BY <1>4, <3>2 DEF b
      <4>2. \A i \in h.file .. k : history[i].blocks[l] = history[k].blocks[l]
        BY <1>10, <3>2, <4>1 DEF Faithful, Linear
      <4> QED
        BY <4>2 DEF Sources, b
    <3>4. k > 1 /\ k - 1 \in h.file .. k
      BY <1>7, <3>3
    <3>5. history[k - 1].blocks[l] = b
      BY <3>3, <3>4
    <3>6. output[l] = history[k - 1].blocks[l]
      <4>1. HasRead(k, l)
        BY <1>2, <1>6, <1>10 DEF OutputIsKnown, l
      <4>2. l >= l /\ l \in 0 .. history[k].size - 1
        BY <1>4, <1>7 DEF l
      <4> QED
        BY <3>4, <4>1, <4>2 DEF HasRead
    <3>7. [output EXCEPT ![l] = b] = output
      BY <1>2, <3>5, <3>6
    <3> QED
      BY <3>1, <3>7
  <2> QED
    BY <2>1, <2>2, <2>3
<1> QED
  BY <1>1, <1>4, <1>5, <1>6, <1>9, <1>10 DEF l, b

\* Nothing is a snapshot's name, and none has been made of the last file yet.
LEMMA NotAtExit ==
    ASSUME exit' = Nothing
    PROVE  NoneIsLeftOut'
<1>1. exit' # 0
  BY HistoriesAssumption
<1> QED
  BY <1>1 DEF NoneIsLeftOut

\* What to show of the output after a step: nothing was announced yet, or k is
\* the current file and n blocks of it were read.
LEMMA OutputAtHeader ==
    ASSUME UNCHANGED <<options, output>>, history \in Histories, lastname' = Nothing,
           OutputIsKnown, lastname = Nothing
    PROVE  OutputIsKnown'
<1>1. /\ history' = history /\ States' = States /\ reference' = reference /\ output' = output
  BY OptionsStay
<1>2. Nothing \notin States
  BY HistoryIs
<1>3. \A k \in States' : lastname' # k
  BY <1>1, <1>2
<1>4. lastname' = Nothing /\ reference' => \A l \in Log : output'[l] = history'[1].blocks[l]
  BY <1>1 DEF OutputIsKnown
<1> QED
  BY <1>3, <1>4 DEF OutputIsKnown

LEMMA OutputInFile ==
    ASSUME UNCHANGED options, history \in Histories, NEW k \in States, lastname' = k,
           NEW n, pos' - Count(k - 1) - 1 = n,
           \A l \in 0 .. history[k].size - 1 :
             /\ l < n => output'[l] = history[k].blocks[l]
             /\ l >= n /\ k > 1 => output'[l] = history[k - 1].blocks[l]
    PROVE  OutputIsKnown'
<1>1. /\ history' = history /\ States' = States /\ \A j : Count(j)' = Count(j)
  BY OptionsStay
<1>2. lastname' # Nothing
  BY HistoryIs
<1>3. HasRead(k, n)'
  BY <1>1 DEF HasRead
<1>4. ASSUME NEW j \in States', lastname' = j
      PROVE  HasRead(j, pos - Count(j - 1) - 1)'
  <2>1. j = k
    BY <1>4
  <2>2. (pos - Count(j - 1) - 1)' = n
    BY <1>1, <2>1
  <2> QED
    BY <1>3, <2>1, <2>2 DEF HasRead
<1> QED
  BY <1>2, <1>4 DEF OutputIsKnown

LEMMA ExtentKeeps ==
    ASSUME Restoring, Write \/ PunchHole \/ Clone
    PROVE  Restoring'
<1>1. /\ rc = "more" /\ pos < Len(stream) /\ pos' = pos + 1 /\ rc' \in {"more", "error"}
      /\ UNCHANGED <<options, lastname, size, handle, cur, taken, killed, exit, cur_done>>
      /\ output' \in [Log -> Place \cup {Zero, Nothing}]
  BY ExtentSteps
<1>2. PICK k \in States :
        /\ InFile(k) /\ pos < Count(k) - 1 /\ pos - Count(k - 1) - 1 \in 0 .. size - 1
        /\ rc' = "more" /\ Faithful =>
             output' = [output EXCEPT ![pos - Count(k - 1) - 1] = history[k].blocks[pos - Count(k - 1) - 1]]
  BY ExtentSteps
<1>3. /\ exit = Nothing /\ pos' \in 1 .. Len(stream)
      /\ TakenSoFar /\ (Faithful => OutputIsKnown)
      /\ Faithful => \A i \in DOMAIN taken : IsRight(taken[i])
  BY <1>1, Reading
<1>4. /\ history' = history /\ stream' = stream /\ Faithful' = Faithful /\ States' = States
      /\ \A j : Count(j)' = Count(j) /\ IsWritten(j)' = IsWritten(j)
  BY <1>1, OptionsStay
<1>5. /\ history \in Histories /\ Len(history) \in Nat /\ k \in 1 .. Len(history)
      /\ Nothing \notin States /\ size = history[k].size /\ 0 .. size - 1 \subseteq Log /\ size \in Nat
  BY <1>2, HistoryIs DEF Restoring, RestoreType, InFile
<1>6. Count(k) \in Nat /\ Count(k - 1) \in Nat
  BY <1>5, CountIs
<1>7. RestoreType'
  BY <1>1, <1>3, <1>4 DEF Restoring, RestoreType, TypeOK
<1>8. InFile(k)'
  <2>1. pos' \in Count(k - 1) + 1 .. Count(k) /\ pos' # Count(k) /\ ~ cur_done
    BY <1>1, <1>2, <1>6 DEF InFile
  <2> QED
    BY <1>1, <1>2, <1>4, <2>1 DEF InFile
<1>9. rc' # "error" /\ Faithful' => OutputIsKnown'
  <2> SUFFICES ASSUME rc' = "more", Faithful PROVE OutputIsKnown'
    BY <1>1, <1>4
  <2> DEFINE n == pos - Count(k - 1) - 1
  <2>1. /\ output' = [output EXCEPT ![n] = history[k].blocks[n]] /\ n \in 0 .. size - 1
        /\ lastname = k /\ lastname # Nothing
    BY <1>2, <1>5 DEF InFile
  <2>2. HasRead(k, n)
    BY <1>3, <1>5, <2>1 DEF OutputIsKnown, States
  <2>3. DOMAIN output = Log
    BY DEF Restoring, RestoreType, TypeOK
  <2>4. pos' - Count(k - 1) - 1 = n + 1 /\ n \in Int
    BY <1>1, <1>2, <1>6 DEF InFile
  <2> HIDE DEF n
  <2>5. ASSUME NEW l \in 0 .. size - 1
        PROVE  /\ l < n + 1 => output'[l] = history[k].blocks[l]
               /\ l >= n + 1 /\ k > 1 => output'[l] = history[k - 1].blocks[l]
    <3>1. output'[l] = IF l = n THEN history[k].blocks[n] ELSE output[l]
      BY <1>5, <2>1, <2>3
    <3>2. /\ l < n => output[l] = history[k].blocks[l]
          /\ l >= n /\ k > 1 => output[l] = history[k - 1].blocks[l]
      BY <1>5, <2>2 DEF HasRead
    <3> QED
      BY <1>5, <2>1, <3>1, <3>2
  <2> QED
    BY <1>1, <1>5, <2>1, <2>4, <2>5, OutputInFile DEF States
<1>10. ~ cur_done'
  BY <1>1, <1>2, <1>6 DEF InFile
<1>11. TakenSoFar' /\ (Faithful' => SnapshotsSoFar')
  BY <1>1, <1>3, <1>4, TakenStays DEF SnapshotsSoFar
<1>12. NoneIsLeftOut'
  BY <1>1, <1>3, NotAtExit
<1> QED
  BY <1>4, <1>5, <1>7, <1>8, <1>9, <1>10, <1>11, <1>12 DEF Restoring, IsSomewhere

LEMMA FileDoneKeeps ==
    ASSUME Restoring, FileDone
    PROVE  Restoring'
<1>1. /\ rc = "more" /\ rc' = "more" /\ pos < Len(stream) /\ pos' = pos + 1 /\ pkt.type = "FILE_END"
      /\ UNCHANGED <<options, lastname, size, handle, cur, taken, killed, exit, output>>
      /\ cur_done' \in BOOLEAN /\ (cur_done' <=> cur_done \/ handle[pkt.file] # 0)
  BY Zenon DEF FileDone, Callback, Unchanged
<1>2. /\ exit = Nothing /\ pos' \in 1 .. Len(stream) /\ IsSomewhere
      /\ TakenSoFar /\ (Faithful => OutputIsKnown)
      /\ Faithful => \A i \in DOMAIN taken : IsRight(taken[i])
  BY <1>1, Reading
<1>3. /\ history' = history /\ stream' = stream /\ Faithful' = Faithful /\ States' = States
      /\ reference' = reference
      /\ \A j : Count(j)' = Count(j) /\ IsWritten(j)' = IsWritten(j)
  BY <1>1, OptionsStay
<1>4. RestoreType /\ history \in Histories
  BY DEF Restoring, RestoreType
<1>5. PICK k \in States : /\ pos \in Count(k - 1) .. Count(k) - 1
                          /\ pos > Count(k - 1) => IsWithin(k)
  BY <1>1, <1>2, <1>4, NextFile
<1>6. pos = Count(k) - 1 /\ pkt.file = k /\ IsWithin(k)
      /\ (IsWritten(k) => Count(k) = Count(k - 1) + history[k].size + 2)
  BY <1>1, <1>4, <1>5, PacketTells
<1>7. /\ Len(history) \in Nat /\ k \in 1 .. Len(history) /\ k \in Nat
      /\ Nothing \notin States /\ history[k].size \in Nat /\ Count(k) \in Nat /\ Count(k - 1) \in Nat
      /\ pos \in Nat
  BY <1>4, <1>5, HistoryIs, PacketIs
<1>8. RestoreType'
  BY <1>1, <1>2, <1>3, <1>4 DEF RestoreType, TypeOK
<1>9. CASE k = 1 /\ InReference
  <2>1. ~ cur_done' /\ pos' = Count(1) /\ lastname = Nothing
    BY <1>1, <1>6, <1>7, <1>9 DEF InReference
  <2>2. InReference'
    <3>1. pos' \in Count(0)' + 1 .. Count(1)'
      <4>1. Count(0)' = Count(0) /\ Count(1)' = Count(1) /\ Count(1) \in Nat
        BY <1>3, <1>7, <1>9
      <4>2. pos \in Count(0) + 1 .. Count(1) /\ Count(0) \in Nat
        <5>1. 0 \in 0 .. Len(history)
          BY <1>7
        <5> QED
          BY <1>4, <1>9, <5>1, CountIs DEF InReference
      <4> QED
        BY <1>1, <2>1, <4>1, <4>2
    <3> QED
      BY <1>1, <1>3, <1>9, <2>1, <3>1 DEF InReference
  <2>3. Faithful' => OutputIsKnown'
    BY <1>1, <1>2, <1>3, <1>4, <2>1, OutputAtHeader
  <2>4. TakenSoFar' /\ (Faithful' => SnapshotsSoFar')
    BY <1>1, <1>2, <1>3, TakenStays DEF SnapshotsSoFar
  <2>5. NoneIsLeftOut'
    BY <1>1, <1>2, NotAtExit
  <2> QED
    BY <1>1, <1>8, <2>1, <2>2, <2>3, <2>4, <2>5 DEF Restoring, IsSomewhere
<1>10. CASE InFile(k)
  <2>1. /\ IsWritten(k) /\ lastname = k /\ lastname # Nothing /\ size = history[k].size
        /\ handle[k] # 0
    BY <1>4, <1>7, <1>10 DEF InFile, RestoreType, TypeOK, States
  <2>2. cur_done'
    BY <1>1, <1>6, <2>1
  <2> DEFINE n == history[k].size
             a == Count(k - 1)
             c == Count(k)
  <2>3. c = a + n + 2 /\ a \in Nat /\ n \in Nat /\ pos = c - 1 /\ pos' = pos + 1
    BY <1>1, <1>6, <1>7, <2>1
  <2>4. pos' = c /\ pos - a - 1 = n /\ pos' - a - 1 = n + 1 /\ pos' \in a + 1 .. c
    <3> HIDE DEF n, a, c
    <3> QED
      BY <2>3
  <2>5. InFile(k)'
    BY <1>1, <1>3, <1>10, <2>2, <2>4 DEF InFile
  <2>6. Faithful => \A l \in 0 .. n - 1 : output[l] = history[k].blocks[l]
    <3> SUFFICES ASSUME Faithful, NEW l \in 0 .. n - 1 PROVE output[l] = history[k].blocks[l]
      OBVIOUS
    <3>1. HasRead(k, n)
      BY <1>2, <1>7, <2>1, <2>4 DEF OutputIsKnown, States
    <3>2. l < n
      BY <2>3
    <3> QED
      BY <3>1, <3>2 DEF HasRead
  <2>7. Faithful' => OutputIsKnown'
    <3> SUFFICES ASSUME Faithful PROVE OutputIsKnown'
      BY <1>3
    <3>1. \A l \in 0 .. n - 1 : ~ (l >= n + 1)
      BY <2>3
    <3>2. \A l \in 0 .. n - 1 : /\ l < n + 1 => output'[l] = history[k].blocks[l]
                                /\ l >= n + 1 /\ k > 1 => output'[l] = history[k - 1].blocks[l]
      BY <1>1, <2>6, <3>1
    <3>3. pos' - Count(k - 1) - 1 = n + 1 /\ lastname' = k
      BY <1>1, <2>1, <2>4
    <3> HIDE DEF n
    <3>4. \A l \in 0 .. history[k].size - 1 :
             /\ l < n + 1 => output'[l] = history[k].blocks[l]
             /\ l >= n + 1 /\ k > 1 => output'[l] = history[k - 1].blocks[l]
      BY <3>2 DEF n
    <3> QED
      BY <1>1, <1>4, <1>5, <3>3, <3>4, OutputInFile
  <2>8. Faithful' => IsRight(Snapshot)'
    BY <1>1, <1>3, <2>1, <2>6 DEF IsRight, Snapshot
  <2>9. TakenSoFar' /\ (Faithful' => SnapshotsSoFar')
    BY <1>1, <1>2, <1>3, TakenStays DEF SnapshotsSoFar
  <2>10. NoneIsLeftOut'
    BY <1>1, <1>2, NotAtExit
  <2> QED
    BY <1>1, <1>3, <1>5, <1>8, <2>5, <2>7, <2>8, <2>9, <2>10 DEF Restoring, IsSomewhere
<1> QED
  BY <1>6, <1>9, <1>10 DEF IsWithin

LEMMA ReferenceKeeps ==
    ASSUME Restoring, Reference
    PROVE  Restoring'
<1>1. /\ rc = "more" /\ rc' = "more" /\ pos < Len(stream) /\ pos' = pos + 1 /\ pkt.type = "FILE"
      /\ pkt.mode = "REF"
      /\ UNCHANGED <<options, lastname, size, cur, taken, killed, exit, output, cur_done>>
      /\ handle' = [f \in DOMAIN handle \cup {pkt.file} |-> IF f = pkt.file THEN 0 ELSE handle[f]]
  BY DEF Reference, Callback
<1>2. /\ exit = Nothing /\ pos' \in 1 .. Len(stream) /\ IsSomewhere
      /\ TakenSoFar /\ (Faithful => OutputIsKnown)
      /\ Faithful => \A i \in DOMAIN taken : IsRight(taken[i])
  BY <1>1, Reading
<1>3. /\ history' = history /\ stream' = stream /\ Faithful' = Faithful /\ States' = States
      /\ reference' = reference
      /\ \A j : Count(j)' = Count(j) /\ IsWritten(j)' = IsWritten(j)
  BY <1>1, OptionsStay
<1>4. RestoreType /\ history \in Histories
  BY DEF Restoring, RestoreType
<1>5. PICK k \in States : /\ pos \in Count(k - 1) .. Count(k) - 1
                          /\ pos = Count(k - 1) => IsBefore(k)
  BY <1>1, <1>2, <1>4, NextFile
<1>6. pos = Count(k - 1) /\ pkt.file = k /\ IsBefore(k) /\ reference /\ k = 1
  BY <1>1, <1>4, <1>5, PacketTells DEF IsWritten
<1>7. AtHeader
  BY <1>6 DEF IsBefore
<1>8. DOMAIN handle' = {1} /\ handle'[1] = 0
  BY <1>1, <1>6, <1>7 DEF AtHeader
<1>9. RestoreType'
  <2>1. DOMAIN handle' \subseteq States' /\ \A f \in DOMAIN handle' : handle'[f] \in 0 .. cur'
    BY <1>1, <1>3, <1>4, <1>6, <1>8 DEF RestoreType, TypeOK
  <2> QED
    BY <1>1, <1>2, <1>3, <1>4, <2>1 DEF RestoreType, TypeOK
<1>10. InReference'
  <2>1. 1 - 1 = 0 /\ Count(0) = 1 /\ Count(1) \in Nat /\ pos + 1 \in Count(0) + 1 .. Count(1)
    <3>1. Count(0) = 1 /\ pos = 1 /\ 1 - 1 = 0
      BY <1>4, <1>7, CountIs DEF AtHeader
    <3>2. Count(1) \in Nat /\ pos <= Count(1) - 1
      BY <1>4, <1>5, <1>6, PacketIs
    <3> QED
      BY <3>1, <3>2
  <2> QED
    BY <1>1, <1>3, <1>6, <1>7, <1>8, <2>1 DEF InReference, AtHeader
<1>11. Faithful' => OutputIsKnown'
  BY <1>1, <1>2, <1>3, <1>4, <1>7, OutputAtHeader DEF AtHeader
<1>12. TakenSoFar' /\ (Faithful' => SnapshotsSoFar')
  BY <1>1, <1>2, <1>3, TakenStays DEF SnapshotsSoFar
<1>13. NoneIsLeftOut'
  BY <1>1, <1>2, NotAtExit
<1>14. ~ cur_done'
  BY <1>1, <1>7 DEF AtHeader
<1> QED
  BY <1>1, <1>9, <1>10, <1>11, <1>12, <1>13, <1>14 DEF Restoring, IsSomewhere

\* What Taken makes of the snapshots: at most one more, of the output as it is.
Snapshots == [name : States, blocks : [Log -> Place \cup {Zero, Nothing}]]

LEMMA TakenIs ==
    ASSUME RestoreType, NEW isfinal \in BOOLEAN, NEW t, t = Taken(isfinal)
    PROVE  /\ t \in Seq(Snapshots)
           /\ ~ TakesOne(isfinal) => t = taken
           /\ TakesOne(isfinal) => /\ Len(t) = Len(taken) + 1 /\ Len(taken) \in Nat
                                  /\ t[Len(taken) + 1] = Snapshot
                                  /\ \A i \in 1 .. Len(taken) : t[i] = taken[i]
<1>1. taken \in Seq(Snapshots)
  BY DEF RestoreType, Snapshots
<1>2. CASE ~ TakesOne(isfinal)
  <2>1. t = taken
    BY <1>2 DEF TakesOne, Taken
  <2> QED
    BY <1>1, <1>2, <2>1
<1>3. CASE TakesOne(isfinal)
  <2>1. t = Append(taken, Snapshot)
    BY <1>3 DEF TakesOne, Taken
  <2>2. Snapshot \in Snapshots
    BY <1>3 DEF TakesOne, Snapshot, Snapshots, RestoreType, TypeOK
  <2> DEFINE s == Snapshot
  <2>3. s \in Snapshots
    BY <2>2
  <2>4. t = Append(taken, s)
    BY <2>1
  <2> HIDE DEF s
  <2>5. /\ t \in Seq(Snapshots) /\ Len(t) = Len(taken) + 1 /\ Len(taken) \in Nat
        /\ t[Len(taken) + 1] = s
        /\ \A i \in 1 .. Len(taken) : t[i] = taken[i]
    BY <1>1, <2>3, <2>4, AppendProperties, LenProperties
  <2> QED
    BY <1>3, <2>5 DEF s
<1> QED
  BY <1>2, <1>3

\* They are right as long as the file they are made of was read to its end.
LEMMA TakenAreRight ==
    ASSUME RestoreType, NEW isfinal \in BOOLEAN, NEW t, t = Taken(isfinal),
           \A i \in DOMAIN taken : IsRight(taken[i]),
           NEW i \in DOMAIN t
    PROVE  IsRight(t[i]) \/ (t[i] = Snapshot /\ i = Len(t) /\ lastname # Nothing)
<1>1. taken \in Seq(Snapshots)
  BY DEF RestoreType, Snapshots
<1>2. CASE ~ TakesOne(isfinal)
  <2>1. t = taken
    BY <1>2, TakenIs
  <2> QED
    BY <2>1
<1>3. CASE TakesOne(isfinal)
  <2>1. /\ Len(t) = Len(taken) + 1 /\ Len(taken) \in Nat /\ t[Len(taken) + 1] = Snapshot
        /\ (\A j \in 1 .. Len(taken) : t[j] = taken[j]) /\ t \in Seq(Snapshots)
    BY <1>3, TakenIs
  <2>2. i \in 1 .. Len(taken) + 1 /\ DOMAIN taken = 1 .. Len(taken)
    BY <1>1, <2>1, LenProperties
  <2>3. CASE i = Len(taken) + 1
    BY <1>3, <2>1, <2>3 DEF TakesOne
  <2>4. CASE i \in 1 .. Len(taken)
    <3>1. t[i] = taken[i] /\ IsRight(taken[i])
      BY <2>1, <2>2, <2>4
    <3> QED
      BY <3>1
  <2> QED
    BY <2>1, <2>2, <2>3, <2>4
<1> QED
  BY <1>2, <1>3

\* What snap_take_snapshot leaves, with a command killed or not.
MayLeave(isfinal, t, d) ==
    \/ t = Taken(isfinal) /\ d = killed
    \/ TakesOne(isfinal) /\ t \in {taken, Taken(isfinal)} /\ d = killed \cup {lastname}

LEMMA TakeLeaves ==
    ASSUME RestoreType, NEW isfinal \in BOOLEAN, Take(isfinal)
    PROVE  /\ MayLeave(isfinal, taken', killed')
           /\ taken' = taken \/ taken' = Taken(isfinal)
           /\ killed' \subseteq States
<1>1. MayLeave(isfinal, taken', killed')
  BY DEF Take, MayLeave
<1>2. killed \subseteq States /\ (TakesOne(isfinal) => lastname \in States)
  BY DEF RestoreType, TypeOK, TakesOne
<1> QED
  BY <1>1, <1>2 DEF MayLeave

\* And in the order of their names.
LEMMA TakenInOrder ==
    ASSUME RestoreType, NEW isfinal \in BOOLEAN, NEW t, NEW d, MayLeave(isfinal, t, d),
           NEW S, TakenOf(S), S \subseteq Nat,
           lastname # Nothing => lastname \in Nat /\ \A s \in S : s < lastname
    PROVE  /\ ~ TakesOne(isfinal) => NamesOf(t) \cup d = S
           /\ TakesOne(isfinal) => NamesOf(t) \cup d = S \cup {lastname}
           /\ \A i, j \in DOMAIN t : i < j => t[i].name < t[j].name
<1>1. taken \in Seq(Snapshots)
  BY DEF RestoreType, Snapshots
<1>2. CASE ~ TakesOne(isfinal)
  <2>1. t = taken /\ d = killed
    BY <1>2, TakenIs DEF MayLeave
  <2> QED
    BY <1>2, <2>1 DEF TakenOf
<1>3. CASE TakesOne(isfinal) /\ t = taken /\ d = killed \cup {lastname}
  BY <1>3 DEF TakenOf
<1>4. CASE TakesOne(isfinal) /\ t = Taken(isfinal) /\ d \in {killed, killed \cup {lastname}}
  <2> DEFINE n == Len(taken)
  <2>1. /\ Len(t) = n + 1 /\ n \in Nat /\ t[n + 1] = Snapshot
        /\ (\A j \in 1 .. n : t[j] = taken[j]) /\ t \in Seq(Snapshots)
    BY <1>4, TakenIs
  <2>2. DOMAIN t = 1 .. n + 1 /\ DOMAIN taken = 1 .. n
    BY <1>1, <2>1, LenProperties
  <2>3. t[n + 1].name = lastname /\ lastname # Nothing
    BY <1>4, <2>1 DEF Snapshot, TakesOne
  <2>4. \A j \in 1 .. n : t[j].name \in S
    BY <2>1, <2>2 DEF TakenOf, NamesOf
  <2>5. {t[i].name : i \in 1 .. n} = NamesOf(taken)
    BY <2>1, <2>2 DEF NamesOf
  <2> HIDE DEF n
  <2>6. NamesOf(t) = NamesOf(taken) \cup {lastname}
    <3>1. 1 .. n + 1 = 1 .. n \cup {n + 1}
      BY <2>1
    <3>2. {t[i].name : i \in 1 .. n + 1} = {t[i].name : i \in 1 .. n} \cup {lastname}
      BY <2>3, <3>1
    <3> QED
      BY <2>2, <2>5, <3>2 DEF NamesOf
  <2>7. NamesOf(t) \cup d = S \cup {lastname}
    <3>1. NamesOf(taken) \cup killed = S
      BY DEF TakenOf
    <3> QED
      BY <1>4, <2>6, <3>1
  <2>8. ASSUME NEW i \in 1 .. n + 1, NEW j \in 1 .. n + 1, i < j
        PROVE  t[i].name < t[j].name
    <3>1. CASE j \in 1 .. n
      <4>1. i \in 1 .. n /\ t[i] = taken[i] /\ t[j] = taken[j]
        BY <2>1, <2>8, <3>1
      <4> QED
        BY <2>2, <2>8, <3>1, <4>1 DEF TakenOf
    <3>2. CASE j = n + 1
      <4>1. i \in 1 .. n
        BY <2>1, <2>8, <3>2
      <4> QED
        BY <2>3, <2>4, <3>2, <4>1
    <3> QED
      BY <2>1, <3>1, <3>2
  <2> QED
    BY <1>4, <2>2, <2>7, <2>8
<1> QED
  BY <1>2, <1>3, <1>4 DEF MayLeave

\* snap_create where it may: where the program is then, and what it made.
LEMMA CreateSteps ==
    ASSUME Restoring, Create \/ CreateFails
    PROVE  /\ rc = "more" /\ pos < Len(stream) /\ pos' = pos + 1
           /\ UNCHANGED <<options, output, exit>>
           /\ Create => /\ rc' = "more" /\ cur_done' = FALSE /\ lastname' = pkt.file
                        /\ cur' = cur + 1
                        /\ handle' = [f \in DOMAIN handle \cup {pkt.file} |->
                                        IF f = pkt.file THEN cur + 1 ELSE handle[f]]
                        /\ CreateNext \/ CreateFirst
           /\ CreateFails => /\ rc' = "error" /\ UNCHANGED <<lastname, cur_done, handle, cur>>
                             /\ taken' = taken \/ (cur_done /\ taken' = Taken(FALSE))
                             /\ killed' \subseteq States
           /\ \E k \in States :
                /\ IsWritten(k) /\ pkt.file = k /\ pkt.size = history[k].size
                /\ pos = Count(k - 1) /\ IsBefore(k)
                /\ Count(k) = Count(k - 1) + history[k].size + 2
                /\ Count(k - 1) \in Nat /\ k \in Nat /\ k >= 1 /\ k <= Len(history)
                /\ history[k].size \in Nat /\ 0 .. history[k].size - 1 \subseteq Log
<1>1. /\ rc = "more" /\ pos < Len(stream) /\ pos' = pos + 1 /\ pkt.type = "FILE" /\ pkt.mode = "REG"
      /\ UNCHANGED <<options, output, exit>>
  BY DEF Create, CreateFails, Callback
<1>2. Create => /\ rc' = "more" /\ cur_done' = FALSE /\ lastname' = pkt.file
                /\ cur' = cur + 1
                /\ handle' = [f \in DOMAIN handle \cup {pkt.file} |->
                                IF f = pkt.file THEN cur + 1 ELSE handle[f]]
                /\ CreateNext \/ CreateFirst
  BY <1>1 DEF Create
<1>3. CreateFails => /\ rc' = "error" /\ UNCHANGED <<lastname, cur_done, handle, cur>>
                     /\ taken' = taken \/ (cur_done /\ taken' = Taken(FALSE))
                     /\ killed' \subseteq States
  <2>1. RestoreType /\ killed \subseteq States
    BY DEF Restoring, RestoreType, TypeOK
  <2>2. CreateNext => (taken' = taken \/ (cur_done /\ taken' = Taken(FALSE))) /\ killed' \subseteq States
    BY <2>1, TakeLeaves DEF CreateNext
  <2>3. CreateFirst => taken' = taken /\ killed' \subseteq States
    BY <2>1 DEF CreateFirst
  <2> QED
    BY <2>1, <2>2, <2>3 DEF CreateFails, Error
<1>4. IsSomewhere /\ RestoreType /\ history \in Histories
  BY <1>1 DEF Restoring, RestoreType
<1>5. PICK k \in States : /\ pos \in Count(k - 1) .. Count(k) - 1
                          /\ pos = Count(k - 1) => IsBefore(k)
  BY <1>1, <1>4, NextFile
<1>6. /\ IsWritten(k) /\ pkt.file = k /\ pkt.size = history[k].size /\ pos = Count(k - 1) /\ IsBefore(k)
      /\ Count(k) = Count(k - 1) + history[k].size + 2
  BY <1>1, <1>4, <1>5, PacketTells
<1>7. /\ Count(k - 1) \in Nat /\ k \in Nat /\ k >= 1 /\ k <= Len(history) /\ history[k].size \in Nat
      /\ 0 .. history[k].size - 1 \subseteq Log
  BY <1>4, <1>5, HistoryIs, PacketIs
<1> QED
  BY <1>1, <1>2, <1>3, <1>6, <1>7

\* Of the file before the new one all was read, and it became a snapshot if it
\* was asked for; so all that there are so far have.
LEMMA CreateTakes ==
    ASSUME Restoring, Create, NEW k \in States, IsWritten(k), pkt.size = history[k].size,
           pos = Count(k - 1), IsBefore(k), k \in Nat, k >= 1, k <= Len(history)
    PROVE  /\ taken' \in Seq(Snapshots)
           /\ NamesOf(taken') \cup killed' = {j \in 1 .. k - 1 : Asked(j)} /\ killed' \subseteq States
           /\ \A i, j \in DOMAIN taken' : i < j => taken'[i].name < taken'[j].name
           /\ Faithful => \A i \in DOMAIN taken' : IsRight(taken'[i])
           /\ size' = history[k].size
           /\ DOMAIN handle = 1 .. k - 1
           /\ Faithful /\ k > 1 =>
                \A l \in 0 .. history[k].size - 1 : l \in Log => output[l] = history[k - 1].blocks[l]
<1>1. /\ rc = "more" /\ pos < Len(stream) /\ pos' = pos + 1
      /\ CreateNext \/ CreateFirst
  BY CreateSteps
<1>2. /\ IsSomewhere /\ TakenSoFar /\ (Faithful => OutputIsKnown)
      /\ Faithful => \A i \in DOMAIN taken : IsRight(taken[i])
  BY <1>1, Reading
<1>3. /\ RestoreType /\ history \in Histories /\ taken \in Seq(Snapshots)
      /\ Faithful /\ lastname # Nothing /\ cur_done => IsRight(Snapshot)
  BY DEF Restoring, RestoreType, Snapshots
<1>4. Len(history) \in Nat /\ States = 1 .. Len(history) /\ Nothing \notin States /\ Count(k - 1) \in Nat
  BY <1>3, HistoryIs, CountIs
<1>5. CASE k = 1 \/ (k = 2 /\ InReference)
  <2>1. lastname = Nothing
    BY <1>5, Zenon DEF IsBefore, AtHeader, InReference
  <2>2. size' = history[k].size /\ taken' = taken /\ killed' = killed /\ killed \subseteq States
    BY <1>1, <1>3, <2>1 DEF CreateNext, CreateFirst, RestoreType, TypeOK
  <2>3. TakenOf({})
    BY <1>2, <2>1 DEF TakenSoFar
  <2>4. {j \in 1 .. k - 1 : Asked(j)} = {}
    <3>1. CASE k = 1
      BY <3>1
    <3>2. CASE k = 2 /\ InReference
      <4>1. reference /\ \A j \in 1 .. k - 1 : j = 1
        BY <3>2 DEF InReference
      <4> QED
        BY <4>1 DEF Asked
    <3> QED
      BY <1>5, <3>1, <3>2
  <2>5. DOMAIN handle = 1 .. k - 1
    <3>1. CASE k = 1
      <4>1. DOMAIN handle = {}
        BY <1>5, <3>1 DEF IsBefore, AtHeader
      <4> QED
        BY <3>1, <4>1
    <3>2. CASE k = 2 /\ InReference
      BY <3>2 DEF InReference
    <3> QED
      BY <1>5, <3>1, <3>2
  <2>6. ASSUME Faithful, k > 1
        PROVE  \A l \in 0 .. history[k].size - 1 : l \in Log => output[l] = history[k - 1].blocks[l]
    <3>1. InReference /\ k - 1 = 1 /\ reference
      BY <1>5, <2>6 DEF InReference
    <3> QED
      BY <1>2, <2>1, <2>6, <3>1 DEF OutputIsKnown
  <2> QED
    BY <1>2, <1>3, <2>2, <2>3, <2>4, <2>5, <2>6 DEF TakenOf
<1>6. CASE k > 1 /\ InFile(k - 1)
  <2> DEFINE j == k - 1
  <2>1. j \in States /\ j \in Nat /\ j >= 1 /\ j < Len(history) /\ k - 1 = j /\ j + 1 = k
    BY <1>4, <1>6
  <2>2. InFile(j) /\ pos = Count(j)
    BY <1>6
  <2> HIDE DEF j
  <2>3. lastname = j /\ lastname # Nothing /\ cur_done /\ size = history[j].size /\ DOMAIN handle = 1 .. j
        /\ IsWritten(j)
    BY <1>4, <2>1, <2>2 DEF InFile
  <2>4. Take(FALSE) /\ pkt.size = size /\ size' = size
    BY <1>1, <2>3 DEF CreateNext, CreateFirst
  <2> DEFINE S == {i \in 1 .. j - 1 : Asked(i)}
  <2>5. TakenOf(S) /\ S \subseteq Nat /\ \A s \in S : s < j
    BY <1>2, <2>1, <2>3 DEF TakenSoFar
  <2>6. TakesOne(FALSE) <=> Asked(j)
    <3>1. TakesOne(FALSE) <=> j \notin excluded
      BY <2>3 DEF TakesOne
    <3>2. Asked(j) <=> j \notin excluded
      BY <2>1, <2>3 DEF Asked, IsWritten
    <3> QED
      BY <3>1, <3>2
  <2> HIDE DEF S
  <2>7. /\ ~ TakesOne(FALSE) => NamesOf(taken') \cup killed' = S
        /\ TakesOne(FALSE) => NamesOf(taken') \cup killed' = S \cup {lastname}
        /\ \A i, m \in DOMAIN taken' : i < m => taken'[i].name < taken'[m].name
        /\ (taken' = taken \/ taken' = Taken(FALSE)) /\ killed' \subseteq States
    <3>1. lastname \in Nat /\ \A s \in S : s < lastname
      BY <2>1, <2>3, <2>5
    <3>2. PICK f \in BOOLEAN : f = FALSE
      OBVIOUS
    <3>3. Take(f) /\ RestoreType /\ TakenOf(S) /\ S \subseteq Nat
      BY <1>3, <2>4, <2>5, <3>2
    <3>4. MayLeave(f, taken', killed') /\ (taken' = taken \/ taken' = Taken(f)) /\ killed' \subseteq States
      BY <3>3, TakeLeaves
    <3>5. PICK t, d : t = taken' /\ d = killed'
      OBVIOUS
    <3>6. MayLeave(f, t, d)
      BY <3>4, <3>5
    <3>7. /\ ~ TakesOne(f) => NamesOf(t) \cup d = S
          /\ TakesOne(f) => NamesOf(t) \cup d = S \cup {lastname}
          /\ \A i, m \in DOMAIN t : i < m => t[i].name < t[m].name
      BY <3>1, <3>3, <3>6, TakenInOrder
    <3> QED
      BY <3>2, <3>4, <3>5, <3>7
  <2>8. /\ ~ TakesOne(FALSE) => S = {i \in 1 .. k - 1 : Asked(i)}
        /\ TakesOne(FALSE) => S \cup {lastname} = {i \in 1 .. k - 1 : Asked(i)}
    <3>1. 1 .. k - 1 = 1 .. j - 1 \cup {j}
      BY <2>1
    <3> QED
      BY <2>3, <2>6, <3>1 DEF S
  <2>9. taken' \in Seq(Snapshots)
    BY <1>3, <2>7, TakenIs
  <2>10. Faithful => \A i \in DOMAIN taken' : IsRight(taken'[i])
    <3>1. CASE taken' = taken
      BY <1>2, <3>1
    <3>2. CASE taken' = Taken(FALSE)
      BY <1>2, <1>3, <2>3, <3>2, TakenAreRight
    <3> QED
      BY <2>7, <3>1, <3>2
  <2>11. ASSUME Faithful
         PROVE  \A l \in 0 .. history[k].size - 1 : l \in Log => output[l] = history[j].blocks[l]
    <3>1. IsRight([name |-> j, blocks |-> output])
      BY <1>3, <2>3, <2>11 DEF Snapshot
    <3>2. history[k].size = history[j].size
      BY <2>3, <2>4
    <3> QED
      BY <3>1, <3>2 DEF IsRight
  <2>12. DOMAIN handle = 1 .. k - 1 /\ size' = history[k].size
    BY <2>1, <2>3, <2>4
  <2> QED
    BY <2>1, <2>7, <2>8, <2>9, <2>10, <2>11, <2>12
<1> QED
  BY <1>4, <1>5, <1>6 DEF IsBefore

LEMMA CreateKeeps ==
    ASSUME Restoring, Create
    PROVE  Restoring'
<1>1. /\ rc = "more" /\ pos < Len(stream) /\ pos' = pos + 1
      /\ UNCHANGED <<options, output, exit>>
      /\ rc' = "more" /\ cur_done' = FALSE /\ lastname' = pkt.file /\ cur' = cur + 1
      /\ handle' = [f \in DOMAIN handle \cup {pkt.file} |->
                      IF f = pkt.file THEN cur + 1 ELSE handle[f]]
  BY CreateSteps
<1>2. PICK k \in States :
        /\ IsWritten(k) /\ pkt.file = k /\ pkt.size = history[k].size
        /\ pos = Count(k - 1) /\ IsBefore(k)
        /\ Count(k) = Count(k - 1) + history[k].size + 2
        /\ Count(k - 1) \in Nat /\ k \in Nat /\ k >= 1 /\ k <= Len(history)
        /\ history[k].size \in Nat /\ 0 .. history[k].size - 1 \subseteq Log
  BY CreateSteps
<1>3. /\ taken' \in Seq(Snapshots)
      /\ NamesOf(taken') \cup killed' = {j \in 1 .. k - 1 : Asked(j)} /\ killed' \subseteq States
      /\ \A i, j \in DOMAIN taken' : i < j => taken'[i].name < taken'[j].name
      /\ Faithful => \A i \in DOMAIN taken' : IsRight(taken'[i])
      /\ size' = history[k].size
      /\ DOMAIN handle = 1 .. k - 1
      /\ Faithful /\ k > 1 =>
           \A l \in 0 .. history[k].size - 1 : l \in Log => output[l] = history[k - 1].blocks[l]
  BY <1>2, CreateTakes
<1>4. exit = Nothing /\ pos' \in 1 .. Len(stream)
  BY <1>1, Reading
<1>5. /\ history' = history /\ stream' = stream /\ Faithful' = Faithful /\ States' = States
      /\ reference' = reference
      /\ \A j : Count(j)' = Count(j) /\ IsWritten(j)' = IsWritten(j) /\ Asked(j)' = Asked(j)
  BY <1>1, OptionsStay
<1>6. RestoreType /\ history \in Histories /\ Nothing \notin States /\ cur \in Nat
      /\ \A f \in DOMAIN handle : handle[f] \in 0 .. cur
  BY HistoryIs DEF Restoring, RestoreType, TypeOK
<1>7. lastname' = k /\ lastname' # Nothing
  BY <1>1, <1>2, <1>6
<1>8. /\ DOMAIN handle' = 1 .. k /\ handle'[k] = cur' /\ cur' \in Nat /\ cur' > 0
      /\ \A j \in 1 .. k - 1 : handle'[j] \in 0 .. cur' - 1
  <2>1. DOMAIN handle' = 1 .. k
    <3>1. 1 .. k = (1 .. k - 1) \cup {k}
      BY <1>2
    <3> QED
      BY <1>1, <1>2, <1>3, <3>1
  <2>2. handle'[k] = cur + 1
    BY <1>1, <1>2
  <2>3. ASSUME NEW j \in 1 .. k - 1 PROVE handle'[j] \in 0 .. cur
    <3>1. j # k /\ j \in DOMAIN handle
      BY <1>2, <1>3
    <3> QED
      BY <1>1, <1>2, <1>6, <3>1
  <2>4. cur' = cur + 1 /\ cur \in Nat /\ cur' \in Nat /\ cur' > 0 /\ cur' - 1 = cur
    BY <1>1, <1>6
  <2> QED
    BY <2>1, <2>2, <2>3, <2>4
<1>9. RestoreType'
  <2>1. taken' \in Seq(Snapshots)'
    BY <1>3, <1>5 DEF Snapshots
  <2>2. \A f \in DOMAIN handle' : handle'[f] \in 0 .. cur'
    <3>1. \A f \in 1 .. k : f = k \/ f \in 1 .. k - 1
      BY <1>2
    <3> QED
      BY <1>8, <3>1
  <2>3. DOMAIN handle' \subseteq States
    <3>1. 1 .. k \subseteq 1 .. Len(history) /\ States = 1 .. Len(history)
      BY <1>2, <1>6, HistoryIs
    <3> QED
      BY <1>8, <3>1
  <2> QED
    BY <1>1, <1>3, <1>4, <1>5, <1>6, <1>7, <1>8, <2>1, <2>2, <2>3 DEF RestoreType, TypeOK, Snapshots
<1>10. InFile(k)'
  <2>1. pos' \in Count(k - 1) + 1 .. Count(k) /\ pos' # Count(k)
    <3> DEFINE a == Count(k - 1)
               n == history[k].size
               c == Count(k)
    <3>1. c = a + n + 2 /\ a \in Nat /\ n \in Nat /\ pos' = a + 1
      BY <1>1, <1>2
    <3> HIDE DEF a, n, c
    <3>2. pos' \in a + 1 .. c /\ pos' # c
      BY <3>1
    <3> QED
      BY <3>2 DEF a, c
  <2> QED
    BY <1>1, <1>2, <1>3, <1>5, <1>7, <1>8, <2>1 DEF InFile
<1>11. Faithful' => OutputIsKnown'
  <2> SUFFICES ASSUME Faithful PROVE OutputIsKnown'
    BY <1>5
  <2>1. pos' - Count(k - 1) - 1 = 0
    BY <1>1, <1>2
  <2>2. \A l \in 0 .. history[k].size - 1 :
             /\ l < 0 => output'[l] = history[k].blocks[l]
             /\ l >= 0 /\ k > 1 => output'[l] = history[k - 1].blocks[l]
    <3>1. \A l \in 0 .. history[k].size - 1 : ~ (l < 0) /\ l \in Log
      BY <1>2
    <3> QED
      BY <1>1, <1>3, <3>1
  <2> QED
    BY <1>1, <1>6, <1>7, <2>1, <2>2, OutputInFile
<1>12. TakenSoFar'
  BY <1>3, <1>5, <1>7 DEF TakenSoFar, TakenOf, NamesOf
<1>13. Faithful' => SnapshotsSoFar'
  BY <1>3, <1>5 DEF SnapshotsSoFar, IsRight
<1>14. NoneIsLeftOut'
  BY <1>1, <1>4, NotAtExit
<1> QED
  BY <1>1, <1>5, <1>9, <1>10, <1>11, <1>12, <1>13, <1>14 DEF Restoring, IsSomewhere

\* snap_create refuses or fails: the stream is read no further.
LEMMA CreateFailsKeeps ==
    ASSUME Restoring, CreateFails
    PROVE  Restoring'
<1>1. /\ rc = "more" /\ pos < Len(stream) /\ pos' = pos + 1
      /\ UNCHANGED <<options, output, exit, lastname, cur_done, handle, cur>>
      /\ rc' = "error"
      /\ taken' = taken \/ (cur_done /\ taken' = Taken(FALSE))
      /\ killed' \subseteq States
  BY CreateSteps
<1>2. PICK k \in States : pkt.size = history[k].size /\ history[k].size \in Nat
  BY CreateSteps
<1>3. /\ exit = Nothing /\ pos' \in 1 .. Len(stream)
      /\ Faithful => \A i \in DOMAIN taken : IsRight(taken[i])
  BY <1>1, Reading
<1>4. /\ history' = history /\ stream' = stream /\ Faithful' = Faithful /\ States' = States
  BY <1>1, OptionsStay
<1>5. /\ RestoreType /\ taken \in Seq(Snapshots)
      /\ Faithful /\ lastname # Nothing /\ cur_done => IsRight(Snapshot)
  BY DEF Restoring, RestoreType, Snapshots
<1>6. taken' \in Seq(Snapshots)
  BY <1>1, <1>5, TakenIs
<1>7. RestoreType'
  <2>1. taken' \in Seq(Snapshots)'
    BY <1>4, <1>6 DEF Snapshots
  <2> QED
    BY <1>1, <1>3, <1>4, <1>5, <2>1 DEF RestoreType, TypeOK, Snapshots
<1>8. Faithful => \A i \in DOMAIN taken' : IsRight(taken'[i])
  <2>1. CASE taken' = taken
    BY <1>3, <2>1
  <2>2. CASE cur_done /\ taken' = Taken(FALSE)
    <3> SUFFICES ASSUME Faithful, NEW i \in DOMAIN taken' PROVE IsRight(taken'[i])
      OBVIOUS
    <3>1. IsRight(taken'[i]) \/ (taken'[i] = Snapshot /\ lastname # Nothing)
      BY <1>3, <1>5, <2>2, TakenAreRight
    <3> QED
      BY <1>5, <2>2, <3>1
  <2> QED
    BY <1>1, <2>1, <2>2
<1>9. Faithful' => SnapshotsSoFar'
  BY <1>4, <1>8 DEF SnapshotsSoFar, IsRight
<1>10. Faithful' /\ lastname' # Nothing /\ cur_done' => IsRight(Snapshot)'
  BY <1>1, <1>4, <1>5 DEF IsRight, Snapshot
<1>11. NoneIsLeftOut'
  BY <1>1, <1>3, NotAtExit
<1> QED
  BY <1>1, <1>7, <1>9, <1>10, <1>11 DEF Restoring

\* Where the program is says nothing of the result, nor of the snapshots.
LEMMA PlaceStays ==
    ASSUME UNCHANGED <<options, output, pos, lastname, cur_done, size, handle, cur>>
    PROVE  /\ IsSomewhere' <=> IsSomewhere
           /\ OutputIsKnown' <=> OutputIsKnown
           /\ IsRight(Snapshot)' <=> IsRight(Snapshot)
<1>1. /\ history' = history /\ States' = States /\ reference' = reference
      /\ \A j : Count(j)' = Count(j) /\ IsWritten(j)' = IsWritten(j)
  BY OptionsStay
<1>2. AtHeader' <=> AtHeader
  BY DEF AtHeader
<1>3. InReference' <=> InReference
  BY <1>1 DEF InReference
<1>4. \A k \in States : InFile(k)' <=> InFile(k)
  BY <1>1 DEF InFile
<1>5. \A k, n : HasRead(k, n)' <=> HasRead(k, n)
  BY <1>1 DEF HasRead
<1>6. IsSomewhere' <=> IsSomewhere
  BY <1>1, <1>2, <1>3, <1>4 DEF IsSomewhere
<1>7. OutputIsKnown' <=> OutputIsKnown
  BY <1>1 DEF OutputIsKnown, HasRead
<1>8. IsRight(Snapshot)' <=> IsRight(Snapshot)
  BY <1>1 DEF IsRight, Snapshot
<1> QED
  BY <1>6, <1>7, <1>8

LEMMA ReaderStopsKeeps ==
    ASSUME Restoring, ReaderStops
    PROVE  Restoring'
<1>1. /\ rc = "more" /\ rc' \in {"end", "error"}
      /\ UNCHANGED <<options, output, pos, lastname, cur_done, size, handle, cur, taken, killed, exit>>
  BY DEF ReaderStops
<1>2. /\ exit = Nothing /\ exit # 0
      /\ IsSomewhere /\ TakenSoFar /\ (Faithful => OutputIsKnown)
      /\ Faithful => \A i \in DOMAIN taken : IsRight(taken[i])
  BY <1>1, HistoriesAssumption DEF Restoring, RestoreType, SnapshotsSoFar
<1>3. /\ history' = history /\ stream' = stream /\ Faithful' = Faithful /\ States' = States
  BY <1>1, OptionsStay
<1>4. RestoreType'
  BY <1>1, <1>2, <1>3 DEF Restoring, RestoreType, TypeOK
<1>5. /\ IsSomewhere' <=> IsSomewhere
      /\ OutputIsKnown' <=> OutputIsKnown
      /\ IsRight(Snapshot)' <=> IsRight(Snapshot)
  BY <1>1, PlaceStays
<1>6. TakenSoFar' /\ (Faithful' => SnapshotsSoFar')
  BY <1>1, <1>2, <1>3, TakenStays DEF SnapshotsSoFar
<1>7. NoneIsLeftOut'
  BY <1>1, <1>2, NotAtExit
<1> QED
  BY <1>1, <1>2, <1>3, <1>4, <1>5, <1>6, <1>7 DEF Restoring

\* When the whole stream was had, the current file is the last one, and what was
\* made with it are all that are asked for.
LEMMA AllAreTaken ==
    ASSUME Restoring, rc = "end", exit = Nothing, pos = Len(stream),
           NEW f \in BOOLEAN, f = TRUE, NEW t, NEW d, MayLeave(f, t, d)
    PROVE  /\ NamesOf(t) \cup d = {k \in States : Asked(k)}
           /\ \A i, j \in DOMAIN t : i < j => t[i].name < t[j].name
<1>1. IsSomewhere /\ TakenSoFar /\ RestoreType /\ history \in Histories
  BY DEF Restoring, RestoreType
<1>2. /\ Len(history) \in Nat /\ Len(history) > 0 /\ States = 1 .. Len(history) /\ Nothing \notin States
      /\ Len(stream) = Count(Len(history)) /\ Count(0) = 1
      /\ \A k \in 0 .. Len(history) : Count(k) \in Nat
  BY <1>1, HistoryIs, CountIs
<1>3. \A k \in 0 .. Len(history) : pos <= Count(k) => k = Len(history)
  <2> SUFFICES ASSUME NEW k \in 0 .. Len(history), pos <= Count(k), k # Len(history) PROVE FALSE
    OBVIOUS
  <2>1. Count(k) < Count(Len(history))
    <3>1. Len(history) \in k .. Len(history) /\ k < Len(history)
      BY <1>2
    <3> QED
      BY <1>1, <3>1, CountGrows
  <2> QED
    BY <1>2, <2>1
<1>4. TakesOne(f) <=> lastname # Nothing /\ lastname \notin excluded /\ final
  BY DEF TakesOne
<1>5. CASE AtHeader \/ InReference
  <2>1. lastname = Nothing
    BY <1>5, Zenon DEF AtHeader, InReference
  <2>2. t = taken /\ d = killed /\ TakenOf({})
    BY <1>1, <1>4, <2>1 DEF MayLeave, Taken, TakenSoFar
  <2>3. {k \in States : Asked(k)} = {}
    <3>1. CASE AtHeader
      <4>1. pos <= Count(0) /\ 0 \in 0 .. Len(history)
        BY <1>2, <3>1 DEF AtHeader
      <4> QED
        BY <1>2, <1>3, <4>1
    <3>2. CASE InReference
      <4>1. pos <= Count(1) /\ 1 \in 0 .. Len(history) /\ reference
        BY <1>2, <3>2 DEF InReference
      <4>2. \A k \in States : k = 1
        BY <1>2, <1>3, <4>1
      <4> QED
        BY <4>1, <4>2 DEF Asked
    <3> QED
      BY <1>5, <3>1, <3>2
  <2> QED
    BY <2>2, <2>3 DEF TakenOf, NamesOf
<1>6. CASE \E k \in States : InFile(k)
  <2>1. PICK n \in States : InFile(n)
    BY <1>6
  <2>2. n = Len(history) /\ n \in Nat /\ lastname = n /\ n # Nothing /\ IsWritten(n) /\ n >= 1
    <3>1. n \in 0 .. Len(history) /\ Count(n) \in Nat /\ Count(n - 1) \in Nat
      BY <1>2
    <3>2. pos <= Count(n) /\ lastname = n /\ IsWritten(n)
      BY <2>1, <3>1 DEF InFile
    <3> QED
      BY <1>2, <1>3, <3>1, <3>2
  <2> DEFINE S == {k \in 1 .. n - 1 : Asked(k)}
  <2>3. TakenOf(S) /\ S \subseteq Nat /\ \A s \in S : s < lastname
    BY <1>1, <2>2 DEF TakenSoFar
  <2>4. TakesOne(f) <=> Asked(n)
    BY <1>4, <2>2 DEF Asked, IsWritten
  <2> HIDE DEF S
  <2>5. /\ ~ TakesOne(f) => NamesOf(t) \cup d = S
        /\ TakesOne(f) => NamesOf(t) \cup d = S \cup {n}
        /\ \A i, j \in DOMAIN t : i < j => t[i].name < t[j].name
    <3>1. RestoreType /\ MayLeave(f, t, d) /\ TakenOf(S) /\ S \subseteq Nat
      BY <1>1, <1>4, <2>3
    <3>2. lastname \in Nat /\ \A s \in S : s < lastname
      BY <2>2, <2>3
    <3>3. /\ ~ TakesOne(f) => NamesOf(t) \cup d = S
          /\ TakesOne(f) => NamesOf(t) \cup d = S \cup {lastname}
          /\ \A i, j \in DOMAIN t : i < j => t[i].name < t[j].name
      BY <3>1, <3>2, TakenInOrder
    <3> QED
      BY <2>2, <3>3
  <2>6. States = 1 .. n - 1 \cup {n}
    BY <1>2, <2>2
  <2> QED
    BY <2>4, <2>5, <2>6 DEF S
<1> QED
  BY <1>1, <1>5, <1>6 DEF IsSomewhere

LEMMA TakeFinalKeeps ==
    ASSUME Restoring, TakeFinal
    PROVE  Restoring'
<1> PICK f \in BOOLEAN : f = TRUE
  OBVIOUS
<1>1. /\ rc # "more" /\ exit = Nothing /\ exit' \in {0, 1}
      /\ exit' = 0 => rc = "end" /\ MayLeave(f, taken', killed')
      /\ (taken' = taken \/ taken' = Taken(f)) /\ killed' \subseteq States
      /\ UNCHANGED <<options, output, pos, lastname, cur_done, size, handle, cur, rc>>
  <2>1. /\ rc # "more" /\ exit = Nothing
        /\ UNCHANGED <<options, output, pos, lastname, cur_done, size, handle, cur, rc>>
        /\ \/ Take(f) /\ exit' = (IF rc = "end" THEN 0 ELSE 1)
           \/ (Take(f) \/ UNCHANGED <<taken, killed>>) /\ exit' = 1
    BY DEF TakeFinal
  <2>2. RestoreType /\ killed \subseteq States
    BY DEF Restoring, RestoreType, TypeOK
  <2>3. ASSUME Take(f)
        PROVE  /\ MayLeave(f, taken', killed')
               /\ (taken' = taken \/ taken' = Taken(f)) /\ killed' \subseteq States
    BY <2>2, <2>3, TakeLeaves
  <2>4. ASSUME UNCHANGED <<taken, killed>>
        PROVE  taken' = taken /\ killed' \subseteq States
    BY <2>2, <2>4
  <2>5. (taken' = taken \/ taken' = Taken(f)) /\ killed' \subseteq States
    BY <2>1, <2>3, <2>4
  <2>6. exit' \in {0, 1}
    BY <2>1
  <2>7. exit' = 0 => rc = "end" /\ Take(f)
    <3>1. 0 # 1 /\ ((IF rc = "end" THEN 0 ELSE 1) = 0 => rc = "end")
      OBVIOUS
    <3> QED
      BY <2>1, <3>1, Zenon
  <2>8. exit' = 0 => rc = "end" /\ MayLeave(f, taken', killed')
    BY <2>3, <2>7
  <2> QED
    BY <2>1, <2>5, <2>6, <2>8
<1>2. /\ RestoreType /\ taken \in Seq(Snapshots) /\ exit # 0
      /\ Faithful /\ lastname # Nothing /\ cur_done => IsRight(Snapshot)
      /\ Faithful => \A i \in DOMAIN taken : IsRight(taken[i])
  BY <1>1, HistoriesAssumption DEF Restoring, RestoreType, Snapshots, SnapshotsSoFar
<1>3. exit' # Nothing
  BY <1>1, HistoriesAssumption
<1>4. /\ history' = history /\ stream' = stream /\ Faithful' = Faithful /\ States' = States
      /\ \A j : Asked(j)' = Asked(j)
  BY <1>1, OptionsStay
<1>5. taken' \in Seq(Snapshots)
  BY <1>1, <1>2, TakenIs
<1>6. RestoreType'
  <2>1. taken' \in Seq(Snapshots)'
    BY <1>4, <1>5 DEF Snapshots
  <2> QED
    BY <1>1, <1>2, <1>4, <2>1 DEF RestoreType, TypeOK, Snapshots
<1>7. /\ IsSomewhere' <=> IsSomewhere
      /\ OutputIsKnown' <=> OutputIsKnown
      /\ IsRight(Snapshot)' <=> IsRight(Snapshot)
  BY <1>1, PlaceStays
<1>8. Faithful => \A i \in DOMAIN taken' : IsRight(taken'[i]) \/ (i = Len(taken') /\ ~ cur_done)
  <2>1. CASE taken' = taken
    BY <1>2, <2>1
  <2>2. CASE taken' = Taken(f)
    <3> SUFFICES ASSUME Faithful, NEW i \in DOMAIN taken'
                 PROVE  IsRight(taken'[i]) \/ (i = Len(taken') /\ ~ cur_done)
      OBVIOUS
    <3>1. IsRight(taken'[i]) \/ (taken'[i] = Snapshot /\ i = Len(taken') /\ lastname # Nothing)
      BY <1>2, <2>2, TakenAreRight
    <3> QED
      BY <1>2, <3>1
  <2> QED
    BY <1>1, <2>1, <2>2
<1>9. Faithful' => SnapshotsSoFar'
  BY <1>1, <1>3, <1>4, <1>8 DEF SnapshotsSoFar, IsRight
<1>10. NoneIsLeftOut'
  <2> SUFFICES ASSUME exit' = 0, pos = Len(stream)
               PROVE  /\ NamesOf(taken') \cup killed' = {k \in States : Asked(k)}
                      /\ \A i, j \in DOMAIN taken' : i < j => taken'[i].name < taken'[j].name
    BY <1>1, <1>4 DEF NoneIsLeftOut, NamesOf
  <2> QED
    BY <1>1, AllAreTaken
<1> QED
  BY <1>1, <1>2, <1>3, <1>4, <1>6, <1>7, <1>9, <1>10 DEF Restoring

LEMMA StutterKeeps ==
    ASSUME Restoring, UNCHANGED vars
    PROVE  Restoring'
<1>1. /\ UNCHANGED <<options, output, pos, lastname, cur_done, size, handle, cur>>
      /\ UNCHANGED <<options, taken, killed, lastname>> /\ rc' = rc /\ exit' = exit
  BY DEF vars
<1>2. /\ history' = history /\ stream' = stream /\ Faithful' = Faithful /\ States' = States
      /\ \A j : Asked(j)' = Asked(j)
  BY <1>1, OptionsStay
<1>3. RestoreType'
  BY <1>1, <1>2 DEF Restoring, RestoreType, TypeOK
<1>4. /\ IsSomewhere' <=> IsSomewhere
      /\ OutputIsKnown' <=> OutputIsKnown
      /\ IsRight(Snapshot)' <=> IsRight(Snapshot)
      /\ TakenSoFar' = TakenSoFar
  BY <1>1, PlaceStays, TakenStays
<1>5. SnapshotsSoFar' <=> SnapshotsSoFar
  BY <1>1, <1>2 DEF SnapshotsSoFar, IsRight
<1>6. NoneIsLeftOut' <=> NoneIsLeftOut
  BY <1>1, <1>2 DEF NoneIsLeftOut
<1> QED
  BY <1>1, <1>2, <1>3, <1>4, <1>5, <1>6 DEF Restoring

LEMMA InitRestoring == Init => Restoring
<1> SUFFICES ASSUME Init PROVE Restoring
  OBVIOUS
<1>1. history \in Histories
  BY DEF Init
<1>2. /\ Len(history) \in Nat /\ Len(history) > 0 /\ States = 1 .. Len(history) /\ Nothing \notin States
      /\ history[1].blocks \in [Log -> Place \cup {Zero}]
  BY <1>1, HistoryIs
<1>3. Len(stream) \in Nat /\ Len(stream) >= 1
  <2>1. Len(history) \in 0 .. Len(history) /\ 0 \in 0 .. Len(history)
    BY <1>2
  <2> QED
    BY <1>1, <2>1, CountIs, CountGrows
<1>4. lastname = Nothing /\ exit = Nothing /\ rc = "more" /\ taken = <<>> /\ DOMAIN taken = {} /\ cur = 0
      /\ killed = {}
  BY DEF Init
<1>5. output \in [Log -> Place \cup {Zero, Nothing}]
  BY <1>2 DEF Init
<1>6. DOMAIN handle = {}
  BY DEF Init
<1>7. RestoreType
  <2>1. pos \in 1 .. Len(stream)
    BY <1>3 DEF Init
  <2>2. cur_done \in BOOLEAN /\ cur \in Nat
    BY DEF Init
  <2>3. DOMAIN handle \subseteq States /\ \A f \in DOMAIN handle : handle[f] \in 0 .. cur
    BY <1>6
  <2>4. TypeOK
    BY <1>4, <1>5, <2>1, <2>2, <2>3 DEF TypeOK
  <2>5. taken \in Seq(Snapshots)
    BY <1>4
  <2>6. exit # 0
    BY <1>4, HistoriesAssumption
  <2> QED
    BY <1>1, <1>4, <2>4, <2>5, <2>6 DEF RestoreType, Snapshots
<1>8. AtHeader
  BY DEF AtHeader, Init
<1>9. OutputIsKnown
  BY <1>2, <1>4 DEF OutputIsKnown, Init
<1>10. TakenSoFar
  BY <1>4 DEF TakenSoFar, TakenOf, NamesOf
<1>11. NoneIsLeftOut
  BY <1>4, HistoriesAssumption DEF NoneIsLeftOut
<1> QED
  BY <1>4, <1>7, <1>8, <1>9, <1>10, <1>11 DEF Restoring, IsSomewhere, SnapshotsSoFar
-------------------------------------------------------------------------------
\* The program is where the stream is, and its output and snapshots follow.
THEOREM AlwaysRestoring == Spec => []Restoring
<1>1. Init => Restoring
  BY InitRestoring
<1>2. Restoring /\ [Next]_vars => Restoring'
  BY CreateKeeps, CreateFailsKeeps, ReferenceKeeps, ExtentKeeps, FileDoneKeeps, ReaderStopsKeeps,
     TakeFinalKeeps, StutterKeeps DEF Next
<1> QED
  BY <1>1, <1>2, PTL DEF Spec

\* The types of the variables, whatever the history.
THEOREM RestoreTypeCorrect == Spec => []TypeOK
<1>1. Restoring => TypeOK
  BY DEF Restoring, RestoreType
<1> QED
  BY <1>1, AlwaysRestoring, PTL

\* Of a volume without rollbacks, and with a discard that zeroes, every snapshot
\* holds what the volume did under that name, although copies write nothing and
\* all are made of one output, unless it is the last one, made of a file
\* that did not come to its end.
THEOREM SnapshotsAreAlwaysRight == Spec => []SnapshotsAreRight
<1>1. Restoring => SnapshotsAreRight
  BY DEF Restoring, SnapshotsAreRight, SnapshotsSoFar, Faithful
<1> QED
  BY <1>1, AlwaysRestoring, PTL

\* A success with the whole stream means one snapshot of each state that one is
\* to be made of, and in the order of the states, unless a signal has ended the
\* command that makes it.
THEOREM NoneIsEverLeftOut == Spec => []NoneIsLeftOut
<1>1. Restoring => NoneIsLeftOut
  BY DEF Restoring
<1> QED
  BY <1>1, AlwaysRestoring, PTL
===============================================================================
