----------------------------- MODULE EMap_proofs -----------------------------
(***************************************************************************)
(* Proofs about the extent map of lib/emap.c for every number and size of  *)
(* devices and files: the lists stay sorted and the index right; what a    *)
(* reader of the map's callbacks holds is never anything but what was      *)
(* asked for, and all of it when no callback failed; and the lists         *)
(* implement the ownership of bytes, ExtentOwner.                          *)
(***************************************************************************)
EXTENDS EMap, TLAPS

\* What Vector_insert does to a list: one element more, at index i, those
\* behind it one further.
LEMMA InsertAtIsInsertion ==
  \A s \in Seq(FiesEMapExtent) : \A i \in 1 .. Len(s) + 1 : \A e \in FiesEMapExtent :
    /\ InsertAt(s, i, e) \in Seq(FiesEMapExtent)
    /\ Len(InsertAt(s, i, e)) = Len(s) + 1
    /\ \A j \in 1 .. Len(s) + 1 :
         InsertAt(s, i, e)[j] = IF j < i THEN s[j] ELSE IF j = i THEN e ELSE s[j - 1]
<1> DEFINE S == FiesEMapExtent
<1> HIDE DEF S
<1> SUFFICES ASSUME NEW s \in Seq(S), NEW i \in 1 .. Len(s) + 1, NEW e \in S
             PROVE  /\ InsertAt(s, i, e) \in Seq(S)
                    /\ Len(InsertAt(s, i, e)) = Len(s) + 1
                    /\ \A j \in 1 .. Len(s) + 1 :
                         InsertAt(s, i, e)[j] =
                           IF j < i THEN s[j] ELSE IF j = i THEN e ELSE s[j - 1]
  BY DEF S
<1> DEFINE front == SubSeq(s, 1, i - 1)
           back  == SubSeq(s, i, Len(s))
<1>1. /\ front \in Seq(S) /\ Len(front) = i - 1
      /\ \A j \in 1 .. i - 1 : front[j] = s[j]
  OBVIOUS
<1>2. /\ back \in Seq(S) /\ Len(back) = Len(s) - i + 1
      /\ \A j \in 1 .. Len(s) - i + 1 : back[j] = s[i + j - 1]
  OBVIOUS
<1> HIDE DEF front, back
<1>3. /\ front \o <<e>> \in Seq(S) /\ Len(front \o <<e>>) = i
      /\ \A j \in 1 .. i : (front \o <<e>>)[j] = IF j < i THEN s[j] ELSE e
  <2>1. /\ <<e>> \in Seq(S) /\ Len(<<e>>) = 1 /\ <<e>>[1] = e
    OBVIOUS
  <2> DEFINE one == <<e>>
  <2> HIDE DEF one
  <2>2. /\ front \o one \in Seq(S) /\ Len(front \o one) = i
        /\ \A j \in 1 .. i : (front \o one)[j] = IF j <= i - 1 THEN front[j] ELSE one[j - i + 1]
    BY <1>1, <2>1 DEF one
  <2>3. \A j \in 1 .. i : (front \o one)[j] = IF j < i THEN s[j] ELSE e
    BY <1>1, <2>1, <2>2 DEF one
  <2> QED  BY <2>2, <2>3 DEF one
<1> DEFINE upTo == front \o <<e>>
           ins  == upTo \o back
<1>4. InsertAt(s, i, e) = ins
  BY DEF InsertAt, front, back
<1> HIDE DEF upTo, ins
<1>5. ins \in Seq(S) /\ Len(ins) = Len(s) + 1
  BY <1>2, <1>3 DEF upTo, ins
<1>6. ASSUME NEW j \in 1 .. Len(s) + 1
      PROVE  ins[j] = IF j < i THEN s[j] ELSE IF j = i THEN e ELSE s[j - 1]
  <2>1. CASE j <= i
    <3>1. ins[j] = upTo[j]
      BY <1>2, <1>3, <2>1 DEF upTo, ins
    <3> QED  BY <3>1, <1>3, <2>1 DEF upTo
  <2>2. CASE j > i
    <3>1. ins[j] = back[j - i]
      BY <1>2, <1>3, <2>2 DEF upTo, ins
    <3>2. back[j - i] = s[j - 1]
      BY <1>2, <2>2
    <3> QED  BY <3>1, <3>2, <2>2
  <2> QED  BY <2>1, <2>2
<1> QED
  BY <1>4, <1>5, <1>6
\* An extent's fields are numbers, and so is its end.
LEMMA ExtentFields ==
  \A e \in FiesEMapExtent :
    /\ e.physical \in Nat /\ e.logical \in Nat /\ e.length \in Nat /\ e.file \in File
    /\ End(e) = e.physical + e.length /\ End(e) \in Nat
BY DEF FiesEMapExtent, End
------------------------------------------------------------------------------
\* The inductive invariant: the types, the order of the lists and where the
\* search and the loop stand in them.
IInv == TypeOK /\ ListsSorted /\ IndexInv

\* The invariant holds before the first call.
LEMMA InitInvariant == Init => IInv
<1> SUFFICES ASSUME Init PROVE IInv
  OBVIOUS
<1> USE SizeAssumption
<1>1. PICK f \in File : ex = [physical |-> 0, logical |-> 0, length |-> 0, file |-> f]
  BY DEF Init
<1>2. TypeOK
  BY <1>1 DEF Init, TypeOK, FiesEMapExtent
<1>3. ListsSorted
  <2>1. \A d \in Device : devices[d] = <<>>
    BY DEF Init
  <2>2. ASSUME NEW d \in Device PROVE DOMAIN devices[d] = {}
    BY <2>1
  <2> QED
    BY <2>2 DEF ListsSorted
<1>4. IndexInv
  BY <1>1 DEF Init, IndexInv, End
<1> QED
  BY <1>2, <1>3, <1>4 DEF IInv

\* A piece that fits into the gap before the index is inserted there: the
\* lists keep their types and their order, and the list of the device is the
\* old one with the piece at the index.
LEMMA InsertKeepsOrder ==
  ASSUME IInv, pc = "add", NEW n \in 1 .. ex.length, SentAndInserted(n),
         a < Len(list) => ex.physical + n <= it.physical
  PROVE  /\ devices' \in [Device -> Seq(FiesEMapExtent)]
         /\ content' \in [File -> [Log -> Place \cup {Nothing}]]
         /\ ListsSorted'
         /\ Len(devices'[dev]) = Len(list) + 1
         /\ \A j \in 1 .. Len(list) + 1 :
              devices'[dev][j] = IF j < a + 1 THEN list[j]
                                 ELSE IF j = a + 1 THEN [ex EXCEPT !.length = n]
                                 ELSE list[j - 1]
<1> DEFINE piece == [ex EXCEPT !.length = n]
           L     == devices'[dev]
<1> USE SizeAssumption
<1>1. /\ ex.physical \in Nat /\ ex.logical \in Nat /\ ex.length \in Nat /\ ex.file \in File
      /\ piece \in FiesEMapExtent
      /\ piece.physical = ex.physical /\ piece.logical = ex.logical
      /\ piece.length = n /\ piece.file = ex.file /\ n \in Nat /\ n <= ex.length
  <2>1. ex \in FiesEMapExtent
    BY DEF IInv, TypeOK
  <2>2. /\ ex.physical \in Nat /\ ex.logical \in Nat /\ ex.length \in Nat /\ ex.file \in File
    BY <2>1 DEF FiesEMapExtent
  <2>3. n \in Nat /\ n <= ex.length
    BY <2>2
  <2>4. piece = [physical |-> ex.physical, logical |-> ex.logical, length |-> n, file |-> ex.file]
    BY <2>1 DEF FiesEMapExtent
  <2> QED
    BY <2>2, <2>3, <2>4 DEF FiesEMapExtent
<1>2. /\ list \in Seq(FiesEMapExtent) /\ a \in 0 .. Len(list) /\ dev \in Device
      /\ devices \in [Device -> Seq(FiesEMapExtent)]
  BY DEF IInv, TypeOK, IndexInv, list
<1>3. devices' = [devices EXCEPT ![dev] = InsertAt(list, a + 1, piece)]
  BY DEF SentAndInserted, list
<1>4. L = InsertAt(list, a + 1, piece)
  BY <1>2, <1>3
<1>5. /\ L \in Seq(FiesEMapExtent) /\ Len(L) = Len(list) + 1
      /\ \A j \in 1 .. Len(list) + 1 :
           L[j] = IF j < a + 1 THEN list[j] ELSE IF j = a + 1 THEN piece ELSE list[j - 1]
  <2>1. a + 1 \in 1 .. Len(list) + 1
    BY <1>2
    <2>2. piece \in FiesEMapExtent /\ list \in Seq(FiesEMapExtent)
      BY <1>1, <1>2
    <2> HIDE DEF piece, L
    <2>3. /\ InsertAt(list, a + 1, piece) \in Seq(FiesEMapExtent)
          /\ Len(InsertAt(list, a + 1, piece)) = Len(list) + 1
          /\ \A j \in 1 .. Len(list) + 1 :
               InsertAt(list, a + 1, piece)[j] =
                 IF j < a + 1 THEN list[j] ELSE IF j = a + 1 THEN piece ELSE list[j - 1]
      BY <2>1, <2>2, InsertAtIsInsertion
    <2> QED
      BY <1>4, <2>3
<1>6. devices' \in [Device -> Seq(FiesEMapExtent)]
  BY <1>2, <1>3, <1>4, <1>5
<1>7. content' \in [File -> [Log -> Place \cup {Nothing}]]
  <2>1. \A k \in 0 .. n - 1 : [device |-> dev, physical |-> ex.physical + k] \in Place
    BY <1>1, <1>2 DEF IInv, IndexInv, End, Place, Phys
  <2> DEFINE new == Overwrite(content[ex.file], ex.logical, n,
                              LAMBDA k : [device |-> dev, physical |-> ex.physical + k])
  <2>2. content \in [File -> [Log -> Place \cup {Nothing}]] /\ content' = [content EXCEPT ![ex.file] = new]
    BY DEF SentAndInserted, IInv, TypeOK
  <2>3. new \in [Log -> Place \cup {Nothing}]
    <3>1. content[ex.file] \in [Log -> Place \cup {Nothing}]
      BY <1>1, <2>2
    <3>2. ASSUME NEW x \in Log
          PROVE  new[x] \in Place \cup {Nothing}
      <4>1. CASE x \in ex.logical .. ex.logical + n - 1
        <5>1. x - ex.logical \in 0 .. n - 1
          BY <1>1, <4>1
        <5> QED  BY <2>1, <3>1, <4>1, <5>1 DEF Overwrite
      <4>2. CASE x \notin ex.logical .. ex.logical + n - 1
        BY <3>1, <4>2 DEF Overwrite
      <4> QED  BY <4>1, <4>2
    <3> QED  BY <3>1, <3>2 DEF Overwrite
  <2> QED
    BY <1>1, <2>2, <2>3
<1>8. ListsSorted'
  <2> DEFINE Fine(e) == e.length > 0 /\ End(e) <= PhysSize /\ e.logical + e.length <= LogSize
  <2>1. /\ \A i \in 1 .. Len(list) : list[i] \in FiesEMapExtent /\ Fine(list[i])
        /\ \A i, j \in 1 .. Len(list) : i < j => End(list[i]) <= list[j].physical
        /\ \A i \in 1 .. a : End(list[i]) <= ex.physical
        /\ Fine(piece)
    <3>1. \A i \in 1 .. Len(list) : list[i] \in FiesEMapExtent /\ Fine(list[i])
      BY <1>2 DEF IInv, ListsSorted, list
    <3>2. \A i, j \in 1 .. Len(list) : i < j => End(list[i]) <= list[j].physical
      BY <1>2 DEF IInv, ListsSorted, list
    <3>3. \A i \in 1 .. a : End(list[i]) <= ex.physical
      BY DEF IInv, IndexInv
    <3>4. Fine(piece)
      BY <1>1 DEF IInv, IndexInv, End
    <3> QED
      BY <3>1, <3>2, <3>3, <3>4
  <2> HIDE DEF piece, L
  <2>2. ASSUME NEW i \in 1 .. Len(list) + 1
        PROVE  Fine(L[i])
    <3>1. CASE i < a + 1
      <4>1. L[i] = list[i] /\ i \in 1 .. Len(list)
        BY <1>2, <1>5, <3>1
      <4> QED  BY <2>1, <4>1
    <3>2. CASE i = a + 1
      <4>1. L[i] = piece
        BY <1>2, <1>5, <3>2
      <4> QED  BY <2>1, <4>1
    <3>3. CASE i > a + 1
      <4>1. L[i] = list[i - 1] /\ i - 1 \in 1 .. Len(list)
        BY <1>2, <1>5, <3>3
      <4> QED  BY <2>1, <4>1
    <3> QED  BY <1>2, <3>1, <3>2, <3>3
  <2>3. ASSUME NEW i \in 1 .. Len(list) + 1, NEW j \in 1 .. Len(list) + 1, i < j
        PROVE  End(L[i]) <= L[j].physical
    <3>1. CASE j < a + 1
      <4>1. L[i] = list[i] /\ L[j] = list[j] /\ i \in 1 .. Len(list) /\ j \in 1 .. Len(list)
        BY <1>2, <1>5, <2>3, <3>1
      <4> QED  BY <2>1, <2>3, <4>1
    <3>2. CASE j = a + 1
      <4>1. L[i] = list[i] /\ L[j] = piece /\ i \in 1 .. a
        BY <1>2, <1>5, <2>3, <3>2
      <4> QED  BY <1>1, <2>1, <4>1
    <3>3. CASE i = a + 1
      <4>1. /\ L[j] = list[j - 1] /\ L[i] = piece
            /\ j - 1 \in 1 .. Len(list) /\ a + 1 \in 1 .. Len(list) /\ a + 1 <= j - 1
        BY <1>2, <1>5, <2>3, <3>3
      <4>2. End(piece) <= list[a + 1].physical
        BY <1>1, <1>2, <4>1 DEF it, End
      <4>3. list[a + 1].physical <= list[j - 1].physical
        <5>1. CASE a + 1 = j - 1
          BY <2>1, <4>1, <5>1 DEF FiesEMapExtent
        <5>2. CASE a + 1 < j - 1
          <6>1. End(list[a + 1]) <= list[j - 1].physical
            BY <2>1, <4>1, <5>2
          <6>2. list[a + 1] \in FiesEMapExtent /\ list[j - 1] \in FiesEMapExtent
            BY <2>1, <4>1
          <6>3. list[a + 1].length >= 0
            BY <6>2, ExtentFields
          <6> QED  BY <6>1, <6>2, <6>3, ExtentFields
        <5> QED  BY <1>2, <4>1, <5>1, <5>2
      <4> QED
        <5>1. /\ End(piece) \in Nat /\ list[a + 1].physical \in Nat
              /\ list[j - 1].physical \in Nat
          BY <1>1, <2>1, <4>1, ExtentFields
        <5> QED  BY <4>1, <4>2, <4>3, <5>1
    <3>4. CASE i < a + 1 /\ a + 1 < j
      <4>1. /\ L[i] = list[i] /\ L[j] = list[j - 1]
            /\ i \in 1 .. Len(list) /\ j - 1 \in 1 .. Len(list) /\ i < j - 1
        BY <1>2, <1>5, <2>3, <3>4
      <4> QED  BY <2>1, <4>1
    <3>5. CASE a + 1 < i
      <4>1. /\ L[i] = list[i - 1] /\ L[j] = list[j - 1]
            /\ i - 1 \in 1 .. Len(list) /\ j - 1 \in 1 .. Len(list) /\ i - 1 < j - 1
        BY <1>2, <1>5, <2>3, <3>5
      <4> QED  BY <2>1, <4>1
    <3> QED
      BY <1>2, <2>3, <3>1, <3>2, <3>3, <3>4, <3>5
  <2>4. ASSUME NEW d \in Device, d # dev
        PROVE  devices'[d] = devices[d]
    BY <1>2, <1>3, <2>4
  <2>5. ASSUME NEW d \in Device
        PROVE  /\ \A i \in DOMAIN devices'[d] : Fine(devices'[d][i])
               /\ \A i, j \in DOMAIN devices'[d] :
                    i < j => End(devices'[d][i]) <= devices'[d][j].physical
    <3>1. CASE d = dev
      <4>1. devices'[d] = L /\ DOMAIN L = 1 .. Len(list) + 1
        BY <1>5, <3>1 DEF L
      <4> QED  BY <2>2, <2>3, <4>1
    <3>2. CASE d # dev
      BY <2>4, <3>2 DEF IInv, ListsSorted
    <3> QED  BY <3>1, <3>2
  <2> QED
    BY <2>5 DEF ListsSorted, End
<1> QED
  BY <1>5, <1>6, <1>7, <1>8
\* What the invariant says of the list a call works on.
LEMMA ListFacts ==
  ASSUME IInv
  PROVE  /\ dev \in Device /\ devices \in [Device -> Seq(FiesEMapExtent)]
         /\ list \in Seq(FiesEMapExtent) /\ Len(list) \in Nat /\ DOMAIN list = 1 .. Len(list)
         /\ a \in Nat /\ b \in Nat /\ ex \in FiesEMapExtent
         /\ \A i \in 1 .. Len(list) :
              /\ list[i] \in FiesEMapExtent
              /\ list[i].length > 0 /\ End(list[i]) <= PhysSize
              /\ list[i].physical < End(list[i])
              /\ list[i].logical + list[i].length <= LogSize
         /\ \A i, j \in 1 .. Len(list) : i < j => End(list[i]) <= list[j].physical
<1>1. /\ dev \in Device /\ devices \in [Device -> Seq(FiesEMapExtent)]
      /\ a \in Nat /\ b \in Nat /\ ex \in FiesEMapExtent
  BY DEF IInv, TypeOK
<1>2. list \in Seq(FiesEMapExtent) /\ Len(list) \in Nat /\ DOMAIN list = 1 .. Len(list)
  BY <1>1 DEF list
<1>3. \A i \in 1 .. Len(list) : list[i] \in FiesEMapExtent
  BY <1>2
<1>4. /\ \A i \in 1 .. Len(list) :
           /\ list[i].length > 0 /\ End(list[i]) <= PhysSize
           /\ list[i].logical + list[i].length <= LogSize
      /\ \A i, j \in 1 .. Len(list) : i < j => End(list[i]) <= list[j].physical
  BY <1>1, <1>2 DEF IInv, ListsSorted, list
<1>5. ASSUME NEW i \in 1 .. Len(list)
      PROVE  list[i].physical < End(list[i])
  BY <1>3, <1>4, ExtentFields
<1> QED
  BY <1>1, <1>2, <1>3, <1>4, <1>5

\* What is copied from an extent that covers it is content again.
LEMMA CopyKeepsType ==
  ASSUME IInv, NEW n \in 1 .. ex.length, a < Len(list),
         it.physical <= ex.physical, ex.physical + n <= End(it), CopiedFromOwner(n)
  PROVE  content' \in [File -> [Log -> Place \cup {Nothing}]]
<1> DEFINE src    == it.logical + (ex.physical - it.physical)
           new    == Overwrite(content[ex.file], ex.logical, n,
                               LAMBDA k : content[it.file][src + k])
<1> USE SizeAssumption
<1>1. /\ content \in [File -> [Log -> Place \cup {Nothing}]]
      /\ content' = [content EXCEPT ![ex.file] = new]
  BY DEF CopiedFromOwner, IInv, TypeOK
<1>2. /\ it \in FiesEMapExtent /\ it.logical + it.length <= LogSize
      /\ ex \in FiesEMapExtent
  BY ListFacts DEF it
<1>2a. /\ it.physical \in Nat /\ it.logical \in Nat /\ it.length \in Nat /\ it.file \in File
       /\ ex.physical \in Nat /\ ex.logical \in Nat /\ ex.length \in Nat /\ ex.file \in File
       /\ End(it) = it.physical + it.length
  BY <1>2, ExtentFields
<1>2b. n \in Nat /\ n <= ex.length
  BY <1>2a
<1>3. \A k \in 0 .. n - 1 : content[it.file][src + k] \in Place \cup {Nothing}
  <2>1. ASSUME NEW k \in 0 .. n - 1
        PROVE  src + k \in Log
    <3>1. k \in Int /\ 0 <= k /\ k < n
      BY <1>2b
    <3>2. ex.physical + n <= it.physical + it.length
      BY <1>2a
    <3>3. src \in Nat
      BY <1>2a
    <3>4. src + n <= LogSize
      BY <1>2, <1>2a, <1>2b, <3>2
    <3> HIDE DEF src
    <3> QED  BY <1>2b, <3>1, <3>3, <3>4 DEF Log
  <2> QED
    BY <1>1, <1>2, <2>1, ExtentFields
<1>4. content[ex.file] \in [Log -> Place \cup {Nothing}]
  BY <1>1, <1>2, ExtentFields
<1>5. ASSUME NEW x \in Log
      PROVE  new[x] \in Place \cup {Nothing}
  <2>1. CASE x \in ex.logical .. ex.logical + n - 1
    <3>1. x - ex.logical \in 0 .. n - 1
      BY <1>2a, <1>2b, <2>1 DEF Log
    <3> QED  BY <1>3, <1>4, <2>1, <3>1 DEF Overwrite
  <2>2. CASE x \notin ex.logical .. ex.logical + n - 1
    BY <1>4, <2>2 DEF Overwrite
  <2> QED  BY <2>1, <2>2
<1>6. new \in [Log -> Place \cup {Nothing}]
  BY <1>4, <1>5 DEF Overwrite
<1> QED
  BY <1>1, <1>2, <1>6, ExtentFields
\* A request that is shifted forward within its length stays in bounds.
LEMMA ShiftKeepsBounds ==
  ASSUME IInv, NEW n \in 0 .. ex.length
  PROVE  LET s == FiesEMapExtent_shift(ex, n) IN
         /\ s \in FiesEMapExtent /\ s.file = ex.file
         /\ s.physical = ex.physical + n /\ s.logical = ex.logical + n
         /\ s.length = ex.length - n
         /\ End(s) = End(ex) /\ End(s) <= PhysSize /\ s.logical + s.length <= LogSize
<1> DEFINE s == FiesEMapExtent_shift(ex, n)
<1>1. ex \in FiesEMapExtent
  BY DEF IInv, TypeOK
<1>2. /\ ex.physical \in Nat /\ ex.logical \in Nat /\ ex.length \in Nat /\ ex.file \in File
      /\ n \in Nat /\ n <= ex.length
  BY <1>1, ExtentFields
<1>3. s = [physical |-> ex.physical + n, logical |-> ex.logical + n,
           length |-> ex.length - n, file |-> ex.file]
  BY DEF FiesEMapExtent_shift
<1>4. /\ s.physical = ex.physical + n /\ s.logical = ex.logical + n
      /\ s.length = ex.length - n /\ s.file = ex.file
  BY <1>3
<1>5. s \in FiesEMapExtent
  BY <1>2, <1>3 DEF FiesEMapExtent
<1>6. End(s) = End(ex)
  BY <1>2, <1>4 DEF End
<1>7. End(ex) <= PhysSize /\ ex.logical + ex.length <= LogSize
  BY DEF IInv, IndexInv
<1>8. s.logical + s.length <= LogSize
  BY <1>2, <1>4, <1>7
<1> HIDE DEF s
<1>9. /\ s \in FiesEMapExtent /\ s.file = ex.file
      /\ s.physical = ex.physical + n /\ s.logical = ex.logical + n
      /\ s.length = ex.length - n
      /\ End(s) = End(ex) /\ End(s) <= PhysSize /\ s.logical + s.length <= LogSize
  BY <1>4, <1>5, <1>6, <1>7, <1>8
<1> QED
  BY <1>9 DEF s

\* A call begins.
LEMMA AddBeginKeepsInvariant ==
  ASSUME IInv, NEW d \in Device, NEW p \in Phys, NEW l \in Log, NEW n \in 1 .. PhysSize,
         NEW f \in File,
         AddBegin(d, [physical |-> p, logical |-> l, length |-> n, file |-> f])
  PROVE  IInv'
<1> DEFINE e   == [physical |-> p, logical |-> l, length |-> n, file |-> f]
           new == Overwrite(want[f], l, n, LAMBDA k : [device |-> d, physical |-> p + k])
<1> USE SizeAssumption
<1>0. /\ e.physical = p /\ e.logical = l /\ e.length = n /\ e.file = f
      /\ End(e) = p + n
  BY DEF End
<1>1. /\ p \in Nat /\ l \in Nat /\ n \in Nat /\ n > 0
      /\ p + n <= PhysSize /\ l + n <= LogSize
      /\ e \in FiesEMapExtent
  <2>1. p \in Nat /\ l \in Nat /\ n \in Nat /\ n > 0
    BY DEF Phys, Log
  <2>2. e \in FiesEMapExtent
    BY <2>1 DEF FiesEMapExtent
  <2> HIDE DEF e
  <2>3. End(e) <= PhysSize /\ e.logical + e.length <= LogSize
    BY DEF AddBegin, e
  <2> QED  BY <1>0, <2>1, <2>2, <2>3
<1>2. /\ devices' = devices /\ content' = content /\ pc' = "find" /\ dev' = d /\ ex' = e
      /\ a' = 0 /\ b' = Len(devices[d])
  BY DEF AddBegin, Overwrite
<1>2a. want' = [want EXCEPT ![f] = new]
  BY <1>0 DEF AddBegin, Overwrite
<1>3. /\ devices \in [Device -> Seq(FiesEMapExtent)]
      /\ content \in [File -> [Log -> Place \cup {Nothing}]]
      /\ want \in [File -> [Log -> Place \cup {Nothing}]]
  BY DEF IInv, TypeOK
<1>4. Len(devices[d]) \in Nat
  BY <1>3
<1>5. new \in [Log -> Place \cup {Nothing}]
  <2>1. \A k \in 0 .. n - 1 : [device |-> d, physical |-> p + k] \in Place
    BY <1>1 DEF Place, Phys
  <2>2. want[f] \in [Log -> Place \cup {Nothing}]
    BY <1>3
  <2>3. ASSUME NEW x \in Log
        PROVE  new[x] \in Place \cup {Nothing}
    <3>1. CASE x \in l .. l + n - 1
      <4>1. x - l \in 0 .. n - 1
        BY <1>1, <3>1
      <4> QED  BY <2>1, <2>2, <3>1, <4>1 DEF Overwrite
    <3>2. CASE x \notin l .. l + n - 1
      BY <2>2, <3>2 DEF Overwrite
    <3> QED  BY <3>1, <3>2
  <2> QED  BY <2>2, <2>3 DEF Overwrite
<1> HIDE DEF new
<1>6. TypeOK'
  BY <1>1, <1>2, <1>2a, <1>3, <1>4, <1>5 DEF TypeOK
<1>7. ListsSorted'
  BY <1>2 DEF IInv, ListsSorted, End
<1>8. list' = devices[d]
  BY <1>2 DEF list
<1>9. IndexInv'
  <2>1. ex'.length = n /\ End(ex') = p + n /\ ex'.logical + ex'.length = l + n
    BY <1>2 DEF End
  <2>2. End(ex') <= PhysSize /\ ex'.logical + ex'.length <= LogSize
    BY <1>1, <2>1
  <2>3. a' <= b' /\ b' <= Len(list')
    BY <1>2, <1>4, <1>8
  <2>4. \A i \in 1 .. a' : FALSE
    BY <1>2
  <2>5. \A i \in b' + 1 .. Len(list') : FALSE
    BY <1>2, <1>4, <1>8
  <2>6. pc' = "find" /\ ex'.length # 0
    BY <1>1, <1>2, <2>1
  <2> QED
    BY <2>2, <2>3, <2>4, <2>5, <2>6 DEF IndexInv, End
<1> QED
  BY <1>6, <1>7, <1>9 DEF IInv
\* A step of the binary search.
LEMMA FindKeepsInvariant ==
  ASSUME IInv, Find
  PROVE  IInv'
<1>1. /\ UNCHANGED <<devices, dev, ex, content, want>> /\ pc = "find"
      /\ list' = list
  BY DEF Find, FindLeft, FindRight, FindHit, FindEnd, list
<1>2. ListsSorted'
  BY <1>1 DEF IInv, ListsSorted, End
<1>3. /\ a <= b /\ b <= Len(list) /\ ex.length # 0
      /\ End(ex) <= PhysSize /\ ex.logical + ex.length <= LogSize
      /\ \A i \in 1 .. a : End(list[i]) <= ex.physical
      /\ \A i \in b + 1 .. Len(list) : ex.physical < list[i].physical
  BY <1>1 DEF IInv, IndexInv
<1>4. \A i \in 1 .. Len(list) : End(list[i]) \in Nat /\ list[i].physical \in Nat
  BY ListFacts, ExtentFields
<1>5. ex.physical \in Nat /\ a \in Nat /\ b \in Nat /\ Len(list) \in Nat
  BY ListFacts, ExtentFields
<1>6. ASSUME a # b
      PROVE  /\ mid \in Nat /\ a <= mid /\ mid < b
             /\ mid + 1 \in 1 .. Len(list) /\ elem = list[mid + 1]
  BY <1>3, <1>5, <1>6 DEF mid, elem
<1>7. CASE FindLeft
  <2>1. /\ a # b /\ ex.physical < elem.physical /\ b' = mid /\ a' = a /\ pc' = pc
    BY <1>7 DEF FindLeft
  <2>2. ASSUME NEW i \in mid + 1 .. Len(list)
        PROVE  ex.physical < list[i].physical
    <3>1. CASE i = mid + 1
      BY <1>6, <2>1, <3>1
    <3>2. CASE i > mid + 1
      <4>1. i \in 1 .. Len(list) /\ mid + 1 < i
        BY <1>6, <2>1, <3>2
      <4>2. End(list[mid + 1]) <= list[i].physical
        BY <1>6, <2>1, <4>1, ListFacts
      <4>3. list[mid + 1].physical <= End(list[mid + 1])
        BY <1>4, <1>6, <2>1, ListFacts
      <4> QED  BY <1>4, <1>5, <1>6, <2>1, <4>1, <4>2, <4>3
    <3> QED  BY <1>5, <1>6, <2>1, <3>1, <3>2
  <2>3. IndexInv'
    BY <1>1, <1>3, <1>5, <1>6, <2>1, <2>2 DEF IndexInv, End
  <2>4. TypeOK'
    BY <1>1, <1>6, <2>1 DEF IInv, TypeOK
  <2> QED  BY <1>2, <2>3, <2>4 DEF IInv
<1>8. CASE FindRight
  <2>1. /\ a # b /\ ex.physical >= End(elem) /\ a' = mid + 1 /\ b' = b /\ pc' = pc
    BY <1>8 DEF FindRight
  <2>2. ASSUME NEW i \in 1 .. mid + 1
        PROVE  End(list[i]) <= ex.physical
    <3>1. CASE i = mid + 1
      BY <1>4, <1>5, <1>6, <2>1, <3>1
    <3>2. CASE i < mid + 1
      <4>1. End(list[i]) <= list[mid + 1].physical /\ i \in 1 .. Len(list)
        BY <1>6, <2>1, <3>2, ListFacts
      <4>2. list[mid + 1].physical <= End(list[mid + 1])
        BY <1>4, <1>6, <2>1, ListFacts
      <4> QED  BY <1>4, <1>5, <1>6, <2>1, <4>1, <4>2
    <3> QED  BY <1>6, <2>1, <3>1, <3>2
  <2>3. IndexInv'
    BY <1>1, <1>3, <1>5, <1>6, <2>1, <2>2 DEF IndexInv, End
  <2>4. TypeOK'
    BY <1>1, <1>6, <2>1 DEF IInv, TypeOK
  <2> QED  BY <1>2, <2>3, <2>4 DEF IInv
<1>9. CASE FindHit
  <2>1. /\ a # b /\ elem.physical <= ex.physical /\ ex.physical < End(elem)
        /\ a' = mid /\ b' = mid /\ pc' = "add"
    BY <1>9 DEF FindHit
  <2>2. ASSUME NEW i \in 1 .. mid
        PROVE  End(list[i]) <= ex.physical
    <3>1. End(list[i]) <= list[mid + 1].physical /\ i \in 1 .. Len(list)
      BY <1>6, <2>1, ListFacts
    <3> QED  BY <1>4, <1>5, <1>6, <2>1, <3>1
  <2>3. it' = list[mid + 1]
    BY <1>1, <2>1 DEF it, list
  <2>4. IndexInv'
    BY <1>1, <1>3, <1>5, <1>6, <2>1, <2>2, <2>3 DEF IndexInv, End
  <2>5. TypeOK'
    BY <1>1, <1>6, <2>1 DEF IInv, TypeOK
  <2> QED  BY <1>2, <2>4, <2>5 DEF IInv
<1>10. CASE FindEnd
  <2>1. a = b /\ a' = a /\ b' = b /\ pc' = "add" /\ it' = it
    BY <1>1, <1>10 DEF FindEnd, it, list
  <2>2. ASSUME a < Len(list)
        PROVE  ex.physical < End(it)
    <3>1. a + 1 \in 1 .. Len(list) /\ ex.physical < list[a + 1].physical
      BY <1>3, <1>5, <2>1, <2>2
    <3>2. list[a + 1].physical < End(list[a + 1]) /\ list[a + 1] \in FiesEMapExtent
      BY <3>1, ListFacts
    <3>3. ex.physical \in Nat /\ list[a + 1].physical \in Nat /\ End(list[a + 1]) \in Nat
      BY <3>2, ListFacts, ExtentFields
    <3> QED  BY <3>1, <3>2, <3>3 DEF it
  <2>3. IndexInv'
    BY <1>1, <1>3, <1>5, <2>1, <2>2 DEF IndexInv, End
  <2>4. TypeOK'
    BY <1>1, <2>1 DEF IInv, TypeOK
  <2> QED  BY <1>2, <2>3, <2>4 DEF IInv
<1> QED
  BY <1>7, <1>8, <1>9, <1>10 DEF Find
\* A call that returns leaves the lists as they are after its last callback.
LEMMA ReturnKeepsInvariant ==
  ASSUME IInv, Return(ex.length), UNCHANGED <<dev, want>>,
         devices' \in [Device -> Seq(FiesEMapExtent)],
         content' \in [File -> [Log -> Place \cup {Nothing}]], ListsSorted'
  PROVE  IInv'
<1>1. /\ pc' = "idle" /\ a' = 0 /\ b' = 0 /\ ex' = FiesEMapExtent_shift(ex, ex.length)
  BY DEF Return
<1>2. ex.length \in Nat /\ ex.length \in 0 .. ex.length
  BY ListFacts, ExtentFields
<1>3. /\ ex' \in FiesEMapExtent /\ ex'.length = 0
      /\ End(ex') <= PhysSize /\ ex'.logical + ex'.length <= LogSize
  BY <1>1, <1>2, ShiftKeepsBounds
<1>4. IndexInv'
  BY <1>1, <1>3 DEF IndexInv, End
<1>5. TypeOK'
  BY <1>1, <1>3 DEF IInv, TypeOK
<1> QED
  BY <1>4, <1>5 DEF IInv

\* A call that goes on at the next extent, where everything up to the next
\* index ends at or before what is left.
LEMMA ContinueKeepsInvariant ==
  ASSUME IInv, pc = "add", NEW n \in 1 .. ex.length, n < ex.length, Continue(n),
         UNCHANGED <<dev, want>>,
         devices' \in [Device -> Seq(FiesEMapExtent)],
         content' \in [File -> [Log -> Place \cup {Nothing}]], ListsSorted',
         a + 1 <= Len(list'),
         \A i \in 1 .. a + 1 : End(list'[i]) <= ex.physical + n,
         a + 1 < Len(list') => ex.physical + n < End(list'[a + 2])
  PROVE  IInv'
<1>1. /\ pc' = "add" /\ a' = a + 1 /\ b' = a + 1 /\ ex' = FiesEMapExtent_shift(ex, n)
  BY DEF Continue
<1>2. ex.length \in Nat /\ n \in Nat /\ n \in 0 .. ex.length /\ a \in Nat
  BY ListFacts, ExtentFields
<1>3. /\ ex' \in FiesEMapExtent /\ ex'.length = ex.length - n
      /\ ex'.physical = ex.physical + n
      /\ End(ex') <= PhysSize /\ ex'.logical + ex'.length <= LogSize
  BY <1>1, <1>2, ShiftKeepsBounds
<1>4. it' = list'[a + 2]
  <2>1. it' = list'[a' + 1]
    BY DEF it
  <2>2. a' + 1 = a + 2
    BY <1>1, <1>2
  <2> QED  BY <2>1, <2>2
<1>5. IndexInv'
  <2>1. ex'.length # 0
    BY <1>2, <1>3
  <2>2. /\ a' <= b' /\ b' <= Len(list')
        /\ \A i \in 1 .. a' : End(list'[i]) <= ex'.physical
        /\ a' = b' /\ (a' < Len(list') => ex'.physical < End(it'))
    BY <1>1, <1>2, <1>3, <1>4
  <2> QED
    BY <1>1, <1>3, <2>1, <2>2 DEF IndexInv, End
<1>6. TypeOK'
  BY <1>1, <1>2, <1>3 DEF IInv, TypeOK
<1> QED
  BY <1>5, <1>6 DEF IInv

\* An iteration of the loop whose callback succeeds.
LEMMA AddKeepsInvariant ==
  ASSUME IInv, Add
  PROVE  IInv'
<1>1. pc = "add"
  BY DEF Add, NewAtEnd, NewBefore, NewFront, CopyRest, CopyPart
<1>2. /\ ex.physical \in Nat /\ ex.logical \in Nat /\ ex.length \in Nat
      /\ End(ex) = ex.physical + ex.length
      /\ ex.length \in 1 .. ex.length
  BY <1>1, ListFacts, ExtentFields DEF IInv, IndexInv
<1>3. /\ a \in Nat /\ Len(list) \in Nat /\ a <= Len(list)
      /\ \A i \in 1 .. a : End(list[i]) <= ex.physical
      /\ a < Len(list) => ex.physical < End(it)
  BY <1>1, ListFacts DEF IInv, IndexInv
<1>4. ASSUME a < Len(list)
      PROVE  /\ a + 1 \in 1 .. Len(list) /\ it = list[a + 1]
             /\ it.physical \in Nat /\ End(it) \in Nat /\ it.physical < End(it)
  BY <1>3, <1>4, ListFacts, ExtentFields DEF it
<1>5. ASSUME SentAndInserted(ex.length), Return(ex.length),
             a < Len(list) => ex.physical + ex.length <= it.physical
      PROVE  IInv'
  <2>1. /\ devices' \in [Device -> Seq(FiesEMapExtent)]
        /\ content' \in [File -> [Log -> Place \cup {Nothing}]]
        /\ ListsSorted'
    BY <1>1, <1>2, <1>5, InsertKeepsOrder
  <2>2. UNCHANGED <<dev, want>>
    BY <1>5 DEF SentAndInserted
  <2> QED
    BY <1>5, <2>1, <2>2, ReturnKeepsInvariant
<1>6. CASE NewAtEnd \/ NewBefore
  <2>1. /\ SentAndInserted(ex.length) /\ Return(ex.length)
        /\ a = Len(list) \/ End(ex) <= it.physical
    BY <1>6 DEF NewAtEnd, NewBefore
  <2>2. a < Len(list) => ex.physical + ex.length <= it.physical
    BY <1>2, <1>3, <2>1
  <2> QED
    BY <1>5, <2>1, <2>2
<1>7. CASE NewFront
  <2> DEFINE n == it.physical - ex.physical
  <2>1. /\ a < Len(list) /\ ex.physical < it.physical /\ it.physical < End(ex)
        /\ SentAndInserted(n) /\ Continue(n)
    BY <1>7 DEF NewFront
  <2>2. /\ n \in 1 .. ex.length /\ n < ex.length /\ ex.physical + n = it.physical
    BY <1>2, <1>4, <2>1
  <2> HIDE DEF n
  <2>3. /\ devices' \in [Device -> Seq(FiesEMapExtent)]
        /\ content' \in [File -> [Log -> Place \cup {Nothing}]]
        /\ ListsSorted'
        /\ Len(devices'[dev]) = Len(list) + 1
        /\ \A j \in 1 .. Len(list) + 1 :
             devices'[dev][j] = IF j < a + 1 THEN list[j]
                                ELSE IF j = a + 1 THEN [ex EXCEPT !.length = n]
                                ELSE list[j - 1]
    <3>1. a < Len(list) => ex.physical + n <= it.physical
      BY <1>4, <2>1, <2>2
    <3> QED  BY <1>1, <2>1, <2>2, <3>1, InsertKeepsOrder
  <2>4. UNCHANGED <<dev, want>> /\ list' = devices'[dev]
    BY <2>1 DEF SentAndInserted, list
  <2>5. /\ list'[a + 1] = [ex EXCEPT !.length = n]
        /\ \A i \in 1 .. a : list'[i] = list[i]
        /\ list'[a + 2] = it
    <3>1. /\ a + 1 \in 1 .. Len(list) + 1 /\ a + 2 \in 1 .. Len(list) + 1
          /\ \A i \in 1 .. a : i \in 1 .. Len(list) + 1 /\ i < a + 1
      BY <1>3, <2>1
    <3>2. list'[a + 1] = [ex EXCEPT !.length = n]
      BY <1>3, <2>3, <2>4, <3>1
    <3>3. \A i \in 1 .. a : list'[i] = list[i]
      BY <2>3, <2>4, <3>1
    <3>4. list'[a + 2] = list[a + 1]
      BY <1>3, <2>3, <2>4, <3>1
    <3> QED  BY <1>4, <2>1, <3>2, <3>3, <3>4
  <2>6. End(list'[a + 1]) = ex.physical + n
    BY <2>5, ListFacts DEF End, FiesEMapExtent
  <2>7. \A i \in 1 .. a + 1 : End(list'[i]) <= ex.physical + n
    <3>1. ASSUME NEW i \in 1 .. a
          PROVE  End(list'[i]) <= ex.physical + n
      <4>1. End(list[i]) <= ex.physical /\ End(list[i]) \in Nat
        BY <1>3, ListFacts, ExtentFields
      <4> QED  BY <1>2, <2>2, <2>5, <4>1
    <3> QED  BY <1>2, <1>3, <2>2, <2>6, <3>1
  <2>8. ex.physical + n < End(list'[a + 2])
    BY <1>4, <2>1, <2>2, <2>5
  <2>9. a + 1 <= Len(list')
    BY <1>3, <2>3, <2>4
  <2> QED
    BY <1>1, <2>1, <2>2, <2>3, <2>4, <2>7, <2>8, <2>9, ContinueKeepsInvariant
<1>8. CASE CopyRest
  <2>1. /\ a < Len(list) /\ it.physical <= ex.physical /\ End(ex) <= End(it)
        /\ CopiedFromOwner(ex.length) /\ Return(ex.length)
    BY <1>8 DEF CopyRest
  <2>2. content' \in [File -> [Log -> Place \cup {Nothing}]]
    BY <1>2, <2>1, CopyKeepsType
  <2>3. UNCHANGED <<devices, dev, want>>
    BY <2>1 DEF CopiedFromOwner
  <2>4. ListsSorted' /\ devices' \in [Device -> Seq(FiesEMapExtent)]
    BY <2>3 DEF IInv, TypeOK, ListsSorted, End
  <2> QED
    BY <2>1, <2>2, <2>3, <2>4, ReturnKeepsInvariant
<1>9. CASE CopyPart
  <2> DEFINE n == End(it) - ex.physical
  <2>1. /\ a < Len(list) /\ it.physical <= ex.physical /\ End(it) < End(ex)
        /\ CopiedFromOwner(n) /\ Continue(n)
    BY <1>9 DEF CopyPart
  <2>2. /\ n \in 1 .. ex.length /\ n < ex.length /\ ex.physical + n = End(it)
    BY <1>2, <1>3, <1>4, <2>1
  <2> HIDE DEF n
  <2>3. content' \in [File -> [Log -> Place \cup {Nothing}]]
    BY <1>4, <2>1, <2>2, CopyKeepsType
  <2>4. UNCHANGED <<devices, dev, want>>
    BY <2>1 DEF CopiedFromOwner
  <2>5. ListsSorted' /\ devices' \in [Device -> Seq(FiesEMapExtent)] /\ list' = list
    BY <2>4 DEF IInv, TypeOK, ListsSorted, End, list
  <2>6. \A i \in 1 .. a + 1 : End(list'[i]) <= ex.physical + n
    <3>1. ASSUME NEW i \in 1 .. a
          PROVE  End(list[i]) <= End(it)
      <4>1. End(list[i]) <= ex.physical /\ End(list[i]) \in Nat
        BY <1>3, ListFacts, ExtentFields
      <4> QED  BY <1>2, <1>3, <1>4, <2>1, <4>1
    <3> QED  BY <1>3, <1>4, <2>1, <2>2, <2>5, <3>1
  <2>7. ASSUME a + 1 < Len(list)
        PROVE  ex.physical + n < End(list[a + 2])
    <3>1. /\ a + 1 \in 1 .. Len(list) /\ a + 2 \in 1 .. Len(list) /\ a + 1 < a + 2
      BY <1>3, <2>7
    <3>2. /\ End(list[a + 1]) <= list[a + 2].physical /\ list[a + 2].physical < End(list[a + 2])
      BY <3>1, ListFacts
    <3>3. list[a + 2].physical \in Nat /\ End(list[a + 2]) \in Nat
      BY <3>1, ListFacts, ExtentFields
    <3> QED  BY <1>4, <2>1, <2>2, <3>2, <3>3
  <2> QED
    BY <1>1, <1>3, <2>1, <2>2, <2>3, <2>4, <2>5, <2>6, <2>7, ContinueKeepsInvariant
<1> QED
  BY <1>6, <1>7, <1>8, <1>9 DEF Add
\* A failed callback: the call returns, the lists stay.
LEMMA FailureKeepsInvariant ==
  ASSUME IInv, CallbackFails
  PROVE  IInv'
<1> DEFINE new == Overwrite(want[ex.file], ex.logical, ex.length, LAMBDA k : Nothing)
<1>1. /\ pc' = "idle" /\ ex' = [ex EXCEPT !.length = 0] /\ a' = 0 /\ b' = 0
      /\ UNCHANGED <<devices, dev, content>>
  BY DEF CallbackFails, Overwrite
<1>2. want' = [want EXCEPT ![ex.file] = new]
  BY DEF CallbackFails, Overwrite
<1>3. ex \in FiesEMapExtent /\ want \in [File -> [Log -> Place \cup {Nothing}]]
  BY DEF IInv, TypeOK
<1>4. ex' = [physical |-> ex.physical, logical |-> ex.logical, length |-> 0, file |-> ex.file]
  BY <1>1, <1>3 DEF FiesEMapExtent
<1>5. /\ ex' \in FiesEMapExtent /\ ex'.length = 0
      /\ End(ex') = ex.physical /\ ex'.logical = ex.logical
  BY <1>3, <1>4 DEF FiesEMapExtent, End
<1>6. IndexInv'
  <2>1. End(ex) <= PhysSize /\ ex.logical + ex.length <= LogSize
    BY DEF IInv, IndexInv
  <2>2. End(ex') <= PhysSize /\ ex'.logical + ex'.length <= LogSize
    BY <1>3, <1>5, <2>1, SizeAssumption, ExtentFields
  <2> QED
    BY <1>1, <1>5, <2>2 DEF IndexInv, End
<1>7. want' \in [File -> [Log -> Place \cup {Nothing}]]
  <2>1. want[ex.file] \in [Log -> Place \cup {Nothing}]
    BY <1>3, ExtentFields
  <2>2. new \in [Log -> Place \cup {Nothing}]
    BY <2>1 DEF Overwrite
  <2> QED
    BY <1>2, <1>3, <2>2
<1>8. TypeOK'
  BY <1>1, <1>5, <1>7 DEF IInv, TypeOK
<1>9. ListsSorted'
  BY <1>1 DEF IInv, ListsSorted, End
<1> QED
  BY <1>6, <1>8, <1>9 DEF IInv

\* No step of the map leaves the invariant.
LEMMA NextKeepsInvariant == IInv /\ [Next]_vars => IInv'
<1> SUFFICES ASSUME IInv, [Next]_vars
             PROVE  IInv'
  OBVIOUS
<1>1. ASSUME NEW d \in Device, NEW p \in Phys, NEW l \in Log, NEW n \in 1 .. PhysSize,
             NEW f \in File,
             AddBegin(d, [physical |-> p, logical |-> l, length |-> n, file |-> f])
      PROVE  IInv'
  BY <1>1, AddBeginKeepsInvariant
<1>2. CASE Find
  BY <1>2, FindKeepsInvariant
<1>3. CASE Add
  BY <1>3, AddKeepsInvariant
<1>4. CASE CallbackFails
  BY <1>4, FailureKeepsInvariant
<1>5. CASE UNCHANGED vars
  <2>1. /\ UNCHANGED <<devices, pc, dev, ex, a, b, content, want>>
        /\ list' = list /\ it' = it
    BY <1>5 DEF vars, list, it
  <2>2. TypeOK' /\ ListsSorted'
    BY <2>1 DEF IInv, TypeOK, ListsSorted, End
  <2>3. IndexInv'
    BY <2>1 DEF IInv, IndexInv, End
  <2> QED
    BY <2>2, <2>3 DEF IInv
<1> QED
  BY <1>1, <1>2, <1>3, <1>4, <1>5 DEF Next

\* The map's lists keep their order and their types under every sequence of
\* calls and failures, and the search and the loop never leave them.
THEOREM MapInvariant == Spec => []IInv
<1> QED
  BY InitInvariant, NextKeepsInvariant, PTL DEF Spec

\* The variables keep their types.
THEOREM TypeCorrect == Spec => []TypeOK
<1>1. IInv => TypeOK
  BY DEF IInv
<1> QED
  BY <1>1, MapInvariant, PTL

\* Extents stay non-empty, sorted and disjoint.
THEOREM ListsStaySorted == Spec => []ListsSorted
<1>1. IInv => ListsSorted
  BY DEF IInv
<1> QED
  BY <1>1, MapInvariant, PTL

\* The index of FiesEMap_add is always where its subtractions need it.
THEOREM IndexStaysRight == Spec => []IndexInv
<1>1. IInv => IndexInv
  BY DEF IInv
<1> QED
  BY <1>1, MapInvariant, PTL
------------------------------------------------------------------------------
\* The bytes of the current request that are still to be delivered.
Pending(f, l) == f = ex.file /\ l \in ex.logical .. ex.logical + ex.length - 1

\* The reader holds what was asked for, except for the pending bytes, of which
\* it holds none yet and which the request wants from its own physical bytes.
PendingInv ==
    \A f \in File, l \in Log :
      IF Pending(f, l)
      THEN /\ content[f][l] = Nothing
           /\ want[f][l] = [device |-> dev, physical |-> ex.physical + (l - ex.logical)]
      ELSE content[f][l] = want[f][l]

\* The inductive invariant of the contents.
CInv == PendingInv /\ OwnersHoldTheirBytes

\* The first n pending bytes have reached the reader as the bytes asked for.
Delivered(n) ==
    /\ \A f \in File, l \in Log :
         content'[f][l] =
           IF f = ex.file /\ l \in ex.logical .. ex.logical + n - 1
           THEN [device |-> dev, physical |-> ex.physical + (l - ex.logical)]
           ELSE content[f][l]
    /\ UNCHANGED <<dev, want>>

\* A byte of a device is not Nothing.
LEMMA PlaceIsSomething ==
  \A d \in Device, p \in Phys : [device |-> d, physical |-> p] # Nothing
BY NothingAssumption DEF Place

\* Numbers of the current request.
LEMMA RequestFacts ==
  ASSUME IInv
  PROVE  /\ ex.physical \in Nat /\ ex.logical \in Nat /\ ex.length \in Nat /\ ex.file \in File
         /\ ex.physical + ex.length <= PhysSize /\ ex.logical + ex.length <= LogSize
         /\ PhysSize \in Nat /\ LogSize \in Nat /\ dev \in Device
<1>1. ex \in FiesEMapExtent /\ dev \in Device
  BY ListFacts
<1>2. End(ex) <= PhysSize /\ ex.logical + ex.length <= LogSize
  BY DEF IInv, IndexInv
<1> QED
  BY <1>1, <1>2, ExtentFields, SizeAssumption

\* Delivering the first n bytes and shifting the request keeps PendingInv.
LEMMA DeliveryKeepsPending ==
  ASSUME IInv, PendingInv, NEW n \in 1 .. ex.length, Delivered(n),
         ex' = FiesEMapExtent_shift(ex, n)
  PROVE  PendingInv'
<1>1. /\ ex'.physical = ex.physical + n /\ ex'.logical = ex.logical + n
      /\ ex'.length = ex.length - n /\ ex'.file = ex.file
      /\ dev' = dev /\ want' = want
  BY DEF FiesEMapExtent_shift, Delivered
<1>2. n \in Nat /\ n <= ex.length
  BY RequestFacts
<1>3. ASSUME NEW f \in File, NEW l \in Log
      PROVE  IF Pending(f, l)'
             THEN /\ content'[f][l] = Nothing
                  /\ want'[f][l] = [device |-> dev', physical |-> ex'.physical + (l - ex'.logical)]
             ELSE content'[f][l] = want'[f][l]
  <2>1. l \in Nat
    BY RequestFacts DEF Log
  <2>2. Pending(f, l)' <=> f = ex.file /\ l \in ex.logical + n .. ex.logical + ex.length - 1
    BY <1>1, <1>2, <2>1, RequestFacts DEF Pending
  <2>3. CASE f = ex.file /\ l \in ex.logical .. ex.logical + n - 1
    <3>1. Pending(f, l) /\ ~ Pending(f, l)'
      BY <1>2, <2>1, <2>2, <2>3, RequestFacts DEF Pending
    <3>2. content'[f][l] = [device |-> dev, physical |-> ex.physical + (l - ex.logical)]
      BY <2>3 DEF Delivered
    <3>3. want[f][l] = [device |-> dev, physical |-> ex.physical + (l - ex.logical)]
      BY <3>1 DEF PendingInv
    <3> QED  BY <1>1, <3>1, <3>2, <3>3
  <2>4. CASE ~ (f = ex.file /\ l \in ex.logical .. ex.logical + n - 1)
    <3>1. content'[f][l] = content[f][l]
      BY <2>4 DEF Delivered
    <3>2. Pending(f, l)' <=> Pending(f, l)
      BY <1>2, <2>1, <2>2, <2>4, RequestFacts DEF Pending
    <3>3. Pending(f, l) => ex'.physical + (l - ex'.logical) = ex.physical + (l - ex.logical)
      BY <1>1, <1>2, <2>1, RequestFacts DEF Pending
    <3> QED  BY <1>1, <3>1, <3>2, <3>3 DEF PendingInv
  <2> QED  BY <2>3, <2>4
<1> QED
  BY <1>3 DEF PendingInv
\* The bytes of an extent are bytes of its file and of its device.
LEMMA ExtentBytes ==
  ASSUME IInv, NEW d \in Device, NEW i \in DOMAIN devices[d],
         NEW k \in 0 .. devices[d][i].length - 1
  PROVE  /\ devices[d][i] \in FiesEMapExtent /\ k \in Nat
         /\ devices[d][i].file \in File
         /\ devices[d][i].logical + k \in Log /\ devices[d][i].physical + k \in Phys
<1>1. devices[d][i] \in FiesEMapExtent
  BY DEF IInv, TypeOK
<1>2. /\ devices[d][i].physical \in Nat /\ devices[d][i].logical \in Nat
      /\ devices[d][i].length \in Nat /\ devices[d][i].file \in File
      /\ End(devices[d][i]) = devices[d][i].physical + devices[d][i].length
  BY <1>1, ExtentFields
<1>3. /\ End(devices[d][i]) <= PhysSize
      /\ devices[d][i].logical + devices[d][i].length <= LogSize
  BY DEF IInv, ListsSorted
<1> QED
  BY <1>1, <1>2, <1>3, SizeAssumption DEF Log, Phys

\* Delivering pending bytes takes no byte away from an owner.
LEMMA DeliveryKeepsOwners ==
  ASSUME IInv, CInv, NEW n \in 1 .. ex.length, Delivered(n),
         NEW d \in Device, NEW i \in DOMAIN devices[d],
         NEW k \in 0 .. devices[d][i].length - 1
  PROVE  content'[devices[d][i].file][devices[d][i].logical + k]
           = [device |-> d, physical |-> devices[d][i].physical + k]
<1> DEFINE e == devices[d][i]
<1>1. /\ e.file \in File /\ e.logical + k \in Log /\ e.physical + k \in Phys
  BY ExtentBytes
<1>2. content[e.file][e.logical + k] = [device |-> d, physical |-> e.physical + k]
  BY DEF CInv, OwnersHoldTheirBytes
<1>3. content[e.file][e.logical + k] # Nothing
  BY <1>1, <1>2, PlaceIsSomething
<1>4. ~ Pending(e.file, e.logical + k)
  BY <1>1, <1>3 DEF CInv, PendingInv
<1>5. ~ (e.file = ex.file /\ e.logical + k \in ex.logical .. ex.logical + n - 1)
  BY <1>1, <1>4, RequestFacts DEF Pending, Log
<1> QED
  BY <1>1, <1>2, <1>5 DEF Delivered

\* for_new delivers the physical bytes themselves ...
LEMMA SendingDelivers ==
  ASSUME IInv, NEW n \in 1 .. ex.length, SentAndInserted(n)
  PROVE  Delivered(n)
<1>1. content \in [File -> [Log -> Place \cup {Nothing}]]
  BY DEF IInv, TypeOK
<1> QED
  BY <1>1, RequestFacts DEF SentAndInserted, Overwrite, Delivered

\* ... and so does for_avail, by way of the owner's file.
LEMMA CopyingDelivers ==
  ASSUME IInv, CInv, NEW n \in 1 .. ex.length, a < Len(list),
         it.physical <= ex.physical, ex.physical + n <= End(it), CopiedFromOwner(n)
  PROVE  Delivered(n)
<1> DEFINE src == it.logical + (ex.physical - it.physical)
<1>1. content \in [File -> [Log -> Place \cup {Nothing}]] /\ UNCHANGED <<dev, want>>
  BY DEF IInv, TypeOK, CopiedFromOwner
<1>2. /\ it \in FiesEMapExtent /\ a + 1 \in DOMAIN devices[dev] /\ it = devices[dev][a + 1]
  BY ListFacts DEF it, list
<1>3. /\ it.physical \in Nat /\ it.logical \in Nat /\ it.length \in Nat
      /\ End(it) = it.physical + it.length /\ n \in Nat /\ n <= ex.length
  BY <1>2, RequestFacts, ExtentFields
<1>3a. ex.physical \in Nat /\ ex.logical \in Nat /\ it.physical <= ex.physical
  BY RequestFacts
<1>4. ASSUME NEW k \in 0 .. n - 1
      PROVE  content[it.file][src + k] = [device |-> dev, physical |-> ex.physical + k]
  <2> DEFINE j == (ex.physical - it.physical) + k
  <2>0. k \in Nat /\ k < n
    BY <1>3
  <2>1. j \in 0 .. it.length - 1
    <3>1. j \in Nat
      BY <1>3, <1>3a, <2>0
    <3>2. ex.physical + n <= it.physical + it.length
      BY <1>3
    <3>3. j < it.length
      BY <1>3, <1>3a, <2>0, <3>2
    <3> QED  BY <1>3, <3>1, <3>3
  <2>2. it.logical + j = src + k /\ it.physical + j = ex.physical + k
    BY <1>3, <1>3a, <2>0
  <2> HIDE DEF j
  <2>3. content[it.file][it.logical + j] = [device |-> dev, physical |-> it.physical + j]
    BY <1>2, <2>1, RequestFacts DEF CInv, OwnersHoldTheirBytes
  <2> QED  BY <2>2, <2>3
<1>5. ASSUME NEW f \in File, NEW l \in Log
      PROVE  content'[f][l] =
               IF f = ex.file /\ l \in ex.logical .. ex.logical + n - 1
               THEN content[it.file][src + (l - ex.logical)] ELSE content[f][l]
  BY <1>1, RequestFacts DEF CopiedFromOwner, Overwrite
<1>6. ASSUME NEW l \in ex.logical .. ex.logical + n - 1
      PROVE  l - ex.logical \in 0 .. n - 1
  BY <1>3, <1>3a
<1> HIDE DEF src
<1> QED
  BY <1>1, <1>4, <1>5, <1>6 DEF Delivered

\* A sent and inserted piece owns its bytes, and the others keep theirs.
LEMMA SendingKeepsOwners ==
  ASSUME IInv, CInv, pc = "add", NEW n \in 1 .. ex.length, SentAndInserted(n),
         a < Len(list) => ex.physical + n <= it.physical
  PROVE  OwnersHoldTheirBytes'
<1>1. Delivered(n)
  BY SendingDelivers
<1>2. /\ Len(devices'[dev]) = Len(list) + 1
      /\ \A j \in 1 .. Len(list) + 1 :
           devices'[dev][j] = IF j < a + 1 THEN list[j]
                              ELSE IF j = a + 1 THEN [ex EXCEPT !.length = n]
                              ELSE list[j - 1]
      /\ devices' \in [Device -> Seq(FiesEMapExtent)]
  BY InsertKeepsOrder
<1>3. \A d \in Device : d # dev => devices'[d] = devices[d]
  BY ListFacts DEF SentAndInserted
<1>4. DOMAIN devices'[dev] = 1 .. Len(list) + 1 /\ list = devices[dev]
  BY <1>2, RequestFacts DEF list
<1>5. ASSUME NEW i \in 1 .. Len(list), NEW k \in 0 .. list[i].length - 1
      PROVE  content'[list[i].file][list[i].logical + k]
               = [device |-> dev, physical |-> list[i].physical + k]
  BY <1>1, <1>4, <1>5, ListFacts, RequestFacts, DeliveryKeepsOwners
<1>6. ASSUME NEW k \in 0 .. n - 1
      PROVE  content'[ex.file][ex.logical + k] = [device |-> dev, physical |-> ex.physical + k]
  <2>1. /\ ex.logical + k \in Log /\ ex.logical + k \in ex.logical .. ex.logical + n - 1
        /\ (ex.logical + k) - ex.logical = k
    BY RequestFacts DEF Log
  <2> QED  BY <1>1, <2>1, RequestFacts DEF Delivered
<1>7. ASSUME NEW d \in Device, NEW i \in DOMAIN devices'[d], NEW k \in 0 .. devices'[d][i].length - 1
      PROVE  content'[devices'[d][i].file][devices'[d][i].logical + k]
               = [device |-> d, physical |-> devices'[d][i].physical + k]
  <2>1. CASE d # dev
    BY <1>1, <1>3, <1>7, <2>1, DeliveryKeepsOwners
  <2>2. CASE d = dev
    <3>1. i \in 1 .. Len(list) + 1 /\ Len(list) \in Nat /\ a \in Nat
      BY <1>4, <2>2, ListFacts
    <3>2. CASE i < a + 1
      <4>1. i \in 1 .. Len(list) /\ devices'[dev][i] = list[i]
        BY <1>2, <3>1, <3>2 DEF IInv, IndexInv
      <4> QED  BY <1>5, <2>2, <4>1
    <3>3. CASE i = a + 1
      <4>1. devices'[dev][i] = [ex EXCEPT !.length = n]
        BY <1>2, <3>1, <3>3
      <4>2. /\ devices'[dev][i].physical = ex.physical /\ devices'[dev][i].logical = ex.logical
            /\ devices'[dev][i].file = ex.file /\ devices'[dev][i].length = n
        BY <4>1, ListFacts DEF FiesEMapExtent
      <4> QED  BY <1>6, <2>2, <4>2
    <3>4. CASE i > a + 1
      <4>1. i - 1 \in 1 .. Len(list) /\ devices'[dev][i] = list[i - 1]
        BY <1>2, <3>1, <3>4
      <4> QED  BY <1>5, <2>2, <4>1
    <3> QED  BY <3>1, <3>2, <3>3, <3>4
  <2> QED  BY <2>1, <2>2
<1> QED
  BY <1>7 DEF OwnersHoldTheirBytes
\* A step that leaves the contents, the lists and what is wanted alone, and the
\* request too while it is running, leaves CInv alone.
LEMMA QuietKeepsContents ==
  ASSUME CInv, UNCHANGED <<devices, dev, ex, content, want>>
  PROVE  CInv'
<1>1. PendingInv'
  BY DEF CInv, PendingInv, Pending
<1>2. OwnersHoldTheirBytes'
  BY DEF CInv, OwnersHoldTheirBytes
<1> QED
  BY <1>1, <1>2 DEF CInv

\* Initially no file holds anything and nothing is wanted.
LEMMA InitContents == Init => CInv
<1> SUFFICES ASSUME Init PROVE CInv
  OBVIOUS
<1>1. /\ content = [f \in File |-> [l \in Log |-> Nothing]]
      /\ want = [f \in File |-> [l \in Log |-> Nothing]]
      /\ ex.length = 0 /\ ex.logical = 0
      /\ \A d \in Device : devices[d] = <<>>
  BY DEF Init
<1>2. \A f \in File, l \in Log : ~ Pending(f, l)
  BY <1>1 DEF Pending
<1>3. PendingInv
  BY <1>1, <1>2 DEF PendingInv
<1>4. \A d \in Device : \A i \in DOMAIN devices[d] : FALSE
  BY <1>1
<1>5. OwnersHoldTheirBytes
  BY <1>4 DEF OwnersHoldTheirBytes
<1> QED
  BY <1>3, <1>5 DEF CInv

\* A request for bytes that were not asked for before: the reader holds none of
\* them, so all of them are pending.
LEMMA AddBeginKeepsContents ==
  ASSUME IInv, CInv, NEW d \in Device, NEW p \in Phys, NEW l \in Log, NEW n \in 1 .. PhysSize,
         NEW f \in File,
         AddBegin(d, [physical |-> p, logical |-> l, length |-> n, file |-> f])
  PROVE  CInv'
<1> DEFINE e == [physical |-> p, logical |-> l, length |-> n, file |-> f]
<1>1. /\ e.physical = p /\ e.logical = l /\ e.length = n /\ e.file = f
      /\ n \in Nat /\ l \in Nat
  BY DEF Log
<1>2. /\ pc = "idle" /\ dev' = d /\ ex' = e /\ UNCHANGED <<devices, content>>
      /\ \A x \in l .. l + n - 1 : want[f][x] = Nothing
  BY DEF AddBegin, Overwrite
<1>3. \A g \in File, x \in Log : want'[g][x] =
        IF g = f /\ x \in l .. l + n - 1 THEN [device |-> d, physical |-> p + (x - l)]
        ELSE want[g][x]
  <2>1. want \in [File -> [Log -> Place \cup {Nothing}]]
    BY DEF IInv, TypeOK
  <2> QED
    BY <1>1, <2>1 DEF AddBegin, Overwrite
<1>4. ex.length = 0
  BY <1>2 DEF IInv, IndexInv
<1>5. \A g \in File, x \in Log : ~ Pending(g, x)
  BY <1>4, RequestFacts DEF Pending
<1>6. \A g \in File, x \in Log : content[g][x] = want[g][x]
  BY <1>5 DEF CInv, PendingInv
<1>7. ASSUME NEW g \in File, NEW x \in Log
      PROVE  Pending(g, x)' <=> g = f /\ x \in l .. l + n - 1
  BY <1>1, <1>2 DEF Pending
<1> HIDE DEF e
<1>8. PendingInv'
  BY <1>1, <1>2, <1>3, <1>6, <1>7 DEF PendingInv
<1>9. OwnersHoldTheirBytes'
  BY <1>2 DEF CInv, OwnersHoldTheirBytes
<1> QED
  BY <1>8, <1>9 DEF CInv

\* A failed callback: what is left is wanted no more, and the reader has none of it.
LEMMA FailureKeepsContents ==
  ASSUME IInv, CInv, CallbackFails
  PROVE  CInv'
<1>1. /\ UNCHANGED <<devices, dev, content>> /\ ex' = [ex EXCEPT !.length = 0]
  BY DEF CallbackFails, Overwrite
<1>2. \A f \in File, l \in Log : want'[f][l] = IF Pending(f, l) THEN Nothing ELSE want[f][l]
  <2>1. want \in [File -> [Log -> Place \cup {Nothing}]]
    BY DEF IInv, TypeOK
  <2> QED
    BY <2>1, RequestFacts DEF CallbackFails, Overwrite, Pending
<1>3. ex'.length = 0 /\ ex'.logical = ex.logical
  BY <1>1, ListFacts DEF FiesEMapExtent
<1>4. \A f \in File, l \in Log : ~ Pending(f, l)'
  BY <1>3, RequestFacts DEF Pending
<1>5. PendingInv'
  BY <1>1, <1>2, <1>4 DEF CInv, PendingInv
<1>6. OwnersHoldTheirBytes'
  BY <1>1 DEF CInv, OwnersHoldTheirBytes
<1> QED
  BY <1>5, <1>6 DEF CInv

\* An iteration whose callback succeeds.
LEMMA AddKeepsContents ==
  ASSUME IInv, CInv, Add
  PROVE  CInv'
<1>1. pc = "add"
  BY DEF Add, NewAtEnd, NewBefore, NewFront, CopyRest, CopyPart
<1>2. /\ ex.length \in 1 .. ex.length /\ End(ex) = ex.physical + ex.length
      /\ a \in Nat /\ Len(list) \in Nat /\ a <= Len(list)
      /\ a < Len(list) => ex.physical < End(it)
  BY <1>1, RequestFacts, ListFacts DEF IInv, IndexInv, End
<1>3. ASSUME a < Len(list)
      PROVE  it.physical \in Nat /\ End(it) \in Nat
  BY <1>2, <1>3, ListFacts, ExtentFields DEF it
<1>4. ASSUME NEW n \in 1 .. ex.length, ex' = FiesEMapExtent_shift(ex, n),
             \/ /\ SentAndInserted(n)
                /\ a < Len(list) => ex.physical + n <= it.physical
             \/ /\ CopiedFromOwner(n) /\ a < Len(list)
                /\ it.physical <= ex.physical /\ ex.physical + n <= End(it)
      PROVE  CInv'
  <2>1. Delivered(n)
    BY <1>4, SendingDelivers, CopyingDelivers
  <2>2. PendingInv'
    BY <1>4, <2>1, DeliveryKeepsPending DEF CInv
  <2>3. CASE SentAndInserted(n) /\ (a < Len(list) => ex.physical + n <= it.physical)
    BY <1>1, <1>4, <2>3, SendingKeepsOwners, <2>2 DEF CInv
  <2>4. CASE CopiedFromOwner(n) /\ a < Len(list)
    <3>1. devices' = devices
      BY <2>4 DEF CopiedFromOwner
    <3> QED  BY <1>4, <2>1, <2>2, <3>1, DeliveryKeepsOwners DEF CInv, OwnersHoldTheirBytes
  <2> QED  BY <1>4, <2>3, <2>4
<1>5. CASE NewAtEnd \/ NewBefore
  <2>1. /\ SentAndInserted(ex.length) /\ ex' = FiesEMapExtent_shift(ex, ex.length)
        /\ a = Len(list) \/ End(ex) <= it.physical
    BY <1>5 DEF NewAtEnd, NewBefore, Return
  <2> QED  BY <1>2, <1>4, <2>1
<1>6. CASE NewFront
  <2> DEFINE n == it.physical - ex.physical
  <2>1. /\ SentAndInserted(n) /\ ex' = FiesEMapExtent_shift(ex, n)
        /\ a < Len(list) /\ ex.physical < it.physical /\ it.physical < End(ex)
    BY <1>6 DEF NewFront, Continue
  <2>2. n \in 1 .. ex.length /\ ex.physical + n = it.physical
    BY <1>2, <1>3, <2>1, RequestFacts
  <2> HIDE DEF n
  <2>3. ex.physical + n <= it.physical
    BY <1>3, <2>1, <2>2
  <2> QED  BY <1>4, <2>1, <2>2, <2>3
<1>7. CASE CopyRest
  <2>1. /\ CopiedFromOwner(ex.length) /\ ex' = FiesEMapExtent_shift(ex, ex.length)
        /\ a < Len(list) /\ it.physical <= ex.physical /\ End(ex) <= End(it)
    BY <1>7 DEF CopyRest, Return
  <2> QED  BY <1>2, <1>4, <2>1
<1>8. CASE CopyPart
  <2> DEFINE n == End(it) - ex.physical
  <2>1. /\ CopiedFromOwner(n) /\ ex' = FiesEMapExtent_shift(ex, n)
        /\ a < Len(list) /\ it.physical <= ex.physical /\ End(it) < End(ex)
    BY <1>8 DEF CopyPart, Continue
  <2>2. n \in 1 .. ex.length /\ ex.physical + n = End(it)
    BY <1>2, <1>3, <2>1, RequestFacts
  <2> HIDE DEF n
  <2>3. ex.physical + n <= End(it)
    BY <1>3, <2>1, <2>2
  <2> QED  BY <1>4, <2>1, <2>2, <2>3
<1> QED
  BY <1>5, <1>6, <1>7, <1>8 DEF Add

\* No step leaves CInv.
LEMMA NextKeepsContents == IInv /\ CInv /\ [Next]_vars => CInv'
<1> SUFFICES ASSUME IInv, CInv, [Next]_vars
             PROVE  CInv'
  OBVIOUS
<1>1. ASSUME NEW d \in Device, NEW p \in Phys, NEW l \in Log, NEW n \in 1 .. PhysSize,
             NEW f \in File,
             AddBegin(d, [physical |-> p, logical |-> l, length |-> n, file |-> f])
      PROVE  CInv'
  BY <1>1, AddBeginKeepsContents
<1>2. CASE Find
  BY <1>2, QuietKeepsContents DEF Find, FindLeft, FindRight, FindHit, FindEnd
<1>3. CASE Add
  BY <1>3, AddKeepsContents
<1>4. CASE CallbackFails
  BY <1>4, FailureKeepsContents
<1>5. CASE UNCHANGED vars
  BY <1>5, QuietKeepsContents DEF vars
<1> QED
  BY <1>1, <1>2, <1>3, <1>4, <1>5 DEF Next

\* The contents follow the requests under every sequence of calls and failures.
THEOREM ContentsInvariant == Spec => [](IInv /\ CInv)
<1>1. IInv /\ CInv /\ [Next]_vars => (IInv /\ CInv)'
  BY NextKeepsInvariant, NextKeepsContents
<1>2. Init => IInv /\ CInv
  BY InitInvariant, InitContents
<1> QED
  BY <1>1, <1>2, PTL DEF Spec

\* What the list says about the owner of a byte is what the reader has: a copy
\* instruction refers only to bytes the stream holds already.
THEOREM OwnersAlwaysHoldTheirBytes == Spec => []OwnersHoldTheirBytes
<1>1. CInv => OwnersHoldTheirBytes
  BY DEF CInv
<1> QED
  BY <1>1, ContentsInvariant, PTL

\* The reader never holds anything but what was asked for.
THEOREM ContentAlwaysAsAsked == Spec => []ContentAsAsked
<1>1. CInv => ContentAsAsked
  BY DEF CInv, PendingInv, ContentAsAsked
<1> QED
  BY <1>1, ContentsInvariant, PTL

\* A call that has returned has delivered everything but what a failed callback
\* gave up.
THEOREM AllIsDelivered == Spec => []AllDelivered
<1>1. IInv /\ CInv => AllDelivered
  <2> SUFFICES ASSUME IInv, CInv, pc = "idle"
               PROVE  content = want
    BY DEF AllDelivered
  <2>1. ex.length = 0
    BY DEF IInv, IndexInv
  <2>2. \A f \in File, l \in Log : ~ Pending(f, l)
    BY <2>1, RequestFacts DEF Pending
  <2>3. \A f \in File, l \in Log : content[f][l] = want[f][l]
    BY <2>2 DEF CInv, PendingInv
  <2>4. /\ content \in [File -> [Log -> Place \cup {Nothing}]]
        /\ want \in [File -> [Log -> Place \cup {Nothing}]]
    BY DEF IInv, TypeOK
  <2> QED
    BY <2>3, <2>4
<1> QED
  BY <1>1, ContentsInvariant, PTL
------------------------------------------------------------------------------
\* The bytes of an extent.
Span(e) == e.physical .. End(e) - 1

\* Every byte of an extent is owned by the extent's file; what is in no extent
\* is owned by nobody.
OwnersNamed ==
    \A d \in Device, p \in Phys :
      /\ \A i \in DOMAIN devices[d] :
           p \in Span(devices[d][i]) =>
             OwnerOf(d, p) = [file    |-> devices[d][i].file,
                              logical |-> devices[d][i].logical + (p - devices[d][i].physical)]
      /\ (\A i \in DOMAIN devices[d] : p \notin Span(devices[d][i])) => OwnerOf(d, p) = Nothing

\* Since the extents of a device are disjoint, a byte is in one of them only.
LEMMA OwnersAreNamed == IInv => OwnersNamed
<1> SUFFICES ASSUME IInv, NEW d \in Device, NEW p \in Phys
             PROVE  /\ \A i \in DOMAIN devices[d] :
                         p \in Span(devices[d][i]) =>
                           OwnerOf(d, p) =
                             [file    |-> devices[d][i].file,
                              logical |-> devices[d][i].logical + (p - devices[d][i].physical)]
                    /\ (\A i \in DOMAIN devices[d] : p \notin Span(devices[d][i]))
                         => OwnerOf(d, p) = Nothing
  BY DEF OwnersNamed
<1> DEFINE L == devices[d]
<1>1. L \in Seq(FiesEMapExtent)
  BY DEF IInv, TypeOK
<1>2. p \in Nat
  BY SizeAssumption DEF Phys
<1>3. ASSUME NEW i \in DOMAIN L, NEW j \in DOMAIN L, p \in Span(L[i]), p \in Span(L[j])
      PROVE  i = j
  <2>1. /\ i \in Nat /\ j \in Nat
        /\ L[i].physical \in Nat /\ End(L[i]) \in Nat
        /\ L[j].physical \in Nat /\ End(L[j]) \in Nat
    BY <1>1, ExtentFields
  <2>2. /\ i < j => End(L[i]) <= L[j].physical
        /\ j < i => End(L[j]) <= L[i].physical
    BY DEF IInv, ListsSorted
  <2>3. p < End(L[i]) /\ L[i].physical <= p /\ p < End(L[j]) /\ L[j].physical <= p
    BY <1>2, <1>3, <2>1 DEF Span
  <2> QED
    BY <1>2, <2>1, <2>2, <2>3
<1>4. ASSUME NEW i \in DOMAIN L, p \in Span(L[i])
      PROVE  OwnerOf(d, p) = [file |-> L[i].file, logical |-> L[i].logical + (p - L[i].physical)]
  <2> DEFINE e == CHOOSE x \in ToSet(L) : p \in x.physical .. End(x) - 1
  <2>1. ToSet(L) = {L[j] : j \in DOMAIN L}
    BY DEF ToSet
  <2>2. L[i] \in ToSet(L) /\ p \in L[i].physical .. End(L[i]) - 1
    BY <1>4, <2>1 DEF Span
  <2>3. e \in ToSet(L) /\ p \in e.physical .. End(e) - 1
    BY <2>2
  <2>4. PICK j \in DOMAIN L : e = L[j]
    BY <2>1, <2>3
  <2>5. p \in Span(L[j])
    BY <2>3, <2>4 DEF Span
  <2>6. e = L[i]
    BY <1>3, <1>4, <2>4, <2>5
  <2>7. OwnerOf(d, p) = [file |-> e.file, logical |-> e.logical + (p - e.physical)]
    BY <2>2 DEF OwnerOf
  <2> QED
    BY <2>6, <2>7
<1>5. ASSUME \A i \in DOMAIN L : p \notin Span(L[i])
      PROVE  OwnerOf(d, p) = Nothing
  BY <1>5 DEF OwnerOf, Span
<1> QED
  BY <1>4, <1>5

\* Whom the bytes of a device belong to after the first n bytes of the request
\* were inserted: those to the request's file, the others to whom they did.
LEMMA InsertionGivesOwnership ==
  ASSUME IInv, IInv', pc = "add", NEW n \in 1 .. ex.length, SentAndInserted(n),
         a < Len(list) => ex.physical + n <= it.physical
  PROVE  /\ \A d \in Device, p \in Phys :
              OwnerOf(d, p)' = IF d = dev /\ p \in ex.physical .. ex.physical + n - 1
                               THEN [file |-> ex.file, logical |-> ex.logical + (p - ex.physical)]
                               ELSE OwnerOf(d, p)
         /\ \A p \in ex.physical .. ex.physical + n - 1 : p \in Phys /\ OwnerOf(dev, p) = Nothing
<1>1. OwnersNamed /\ OwnersNamed'
  BY OwnersAreNamed, PTL
<1>2. /\ Len(devices'[dev]) = Len(list) + 1
      /\ \A j \in 1 .. Len(list) + 1 :
           devices'[dev][j] = IF j < a + 1 THEN list[j]
                              ELSE IF j = a + 1 THEN [ex EXCEPT !.length = n]
                              ELSE list[j - 1]
      /\ devices' \in [Device -> Seq(FiesEMapExtent)]
  BY InsertKeepsOrder
<1>3. \A d \in Device : d # dev => devices'[d] = devices[d]
  BY ListFacts DEF SentAndInserted
<1>4. /\ DOMAIN devices'[dev] = 1 .. Len(list) + 1 /\ list = devices[dev]
      /\ DOMAIN list = 1 .. Len(list) /\ Len(list) \in Nat /\ a \in Nat /\ a <= Len(list)
      /\ dev \in Device
  BY <1>2, ListFacts, RequestFacts DEF list, IInv, IndexInv
<1>5. /\ n \in Nat /\ n <= ex.length /\ ex.physical \in Nat
      /\ \A p \in ex.physical .. ex.physical + n - 1 : p \in Phys
  BY RequestFacts DEF Phys
<1> DEFINE piece == [ex EXCEPT !.length = n]
<1>6. /\ piece.physical = ex.physical /\ piece.logical = ex.logical /\ piece.file = ex.file
      /\ Span(piece) = ex.physical .. ex.physical + n - 1
  BY ListFacts DEF FiesEMapExtent, Span, End
<1> HIDE DEF piece
<1>7. devices'[dev][a + 1] = piece /\ a + 1 \in DOMAIN devices'[dev]
  <2>1. a + 1 \in 1 .. Len(list) + 1 /\ ~ (a + 1 < a + 1)
    BY <1>4
  <2>2. devices'[dev][a + 1] = [ex EXCEPT !.length = n]
    BY <1>2, <2>1
  <2> QED
    BY <1>4, <2>1, <2>2 DEF piece
<1>8. ASSUME NEW p \in ex.physical .. ex.physical + n - 1, NEW i \in DOMAIN list
      PROVE  p \notin Span(list[i])
  <2>1. /\ i \in 1 .. Len(list) /\ list[i].physical \in Nat /\ End(list[i]) \in Nat
        /\ p \in Nat /\ ex.physical <= p /\ p < ex.physical + n
    BY <1>4, <1>5, ListFacts, ExtentFields
  <2>2. CASE i <= a
    <3>1. End(list[i]) <= ex.physical
      BY <1>4, <2>1, <2>2 DEF IInv, IndexInv
    <3> QED
      BY <1>5, <2>1, <3>1 DEF Span
  <2>3. CASE i > a
    <3>1. a + 1 \in 1 .. Len(list) /\ a < Len(list) /\ it = list[a + 1]
      <4>1. a + 1 \in 1 .. Len(list) /\ a < Len(list)
        BY <1>4, <2>1, <2>3
      <4> QED
        BY <4>1 DEF it
    <3>2. it.physical \in Nat /\ End(it) \in Nat /\ it.physical < End(it)
      BY <3>1, ListFacts, ExtentFields
    <3>3. it.physical <= list[i].physical
      <4>1. CASE i = a + 1
        BY <3>1, <3>2, <4>1
      <4>2. CASE i > a + 1
        <5>1. End(it) <= list[i].physical
          BY <2>1, <3>1, <4>2, ListFacts
        <5> QED
          BY <2>1, <3>2, <5>1
      <4> QED
        BY <1>4, <2>1, <2>3, <4>1, <4>2
    <3>4. ex.physical + n <= it.physical
      BY <3>1
    <3>5. p < list[i].physical
      <4>1. p < ex.physical + n /\ p \in Nat /\ ex.physical + n \in Nat
        BY <1>5, <2>1
      <4> QED
        BY <2>1, <3>2, <3>3, <3>4, <4>1
    <3> QED
      BY <2>1, <3>5 DEF Span
  <2> QED
    BY <1>4, <2>1, <2>2, <2>3
<1>9. \A p \in ex.physical .. ex.physical + n - 1 : p \in Phys /\ OwnerOf(dev, p) = Nothing
  BY <1>1, <1>4, <1>5, <1>8 DEF OwnersNamed
<1>10. ASSUME NEW d \in Device, NEW p \in Phys
       PROVE  OwnerOf(d, p)' = IF d = dev /\ p \in ex.physical .. ex.physical + n - 1
                               THEN [file |-> ex.file, logical |-> ex.logical + (p - ex.physical)]
                               ELSE OwnerOf(d, p)
  <2>1. CASE d # dev
    BY <1>3, <2>1 DEF OwnerOf
  <2>2. CASE d = dev /\ p \in ex.physical .. ex.physical + n - 1
    BY <1>1, <1>4, <1>6, <1>7, <2>2 DEF OwnersNamed
  <2>3. CASE d = dev /\ p \notin ex.physical .. ex.physical + n - 1
    <3>1. CASE \E i \in DOMAIN list : p \in Span(list[i])
      <4>1. PICK i \in DOMAIN list : p \in Span(list[i])
        BY <3>1
      <4>2. PICK j \in DOMAIN devices'[dev] : devices'[dev][j] = list[i]
        <5>1. CASE i < a + 1
          <6>1. i \in DOMAIN devices'[dev] /\ devices'[dev][i] = list[i]
            BY <1>2, <1>4, <5>1
          <6> QED
            BY <6>1
        <5>2. CASE i >= a + 1
          <6>1. i + 1 \in 1 .. Len(list) + 1 /\ ~ (i + 1 < a + 1) /\ i + 1 # a + 1 /\ (i + 1) - 1 = i
            BY <1>4, <5>2
          <6>2. devices'[dev][i + 1] = list[i]
            BY <1>2, <6>1
          <6> QED
            BY <1>4, <6>1, <6>2
        <5> QED
          BY <1>4, <5>1, <5>2
      <4>3. OwnerOf(d, p) = [file |-> list[i].file, logical |-> list[i].logical + (p - list[i].physical)]
        BY <1>1, <1>4, <2>3, <4>1 DEF OwnersNamed
      <4>4. OwnerOf(d, p)' = [file |-> list[i].file, logical |-> list[i].logical + (p - list[i].physical)]
        BY <1>1, <1>4, <2>3, <4>1, <4>2 DEF OwnersNamed
      <4> QED
        BY <2>3, <4>3, <4>4
    <3>2. CASE \A i \in DOMAIN list : p \notin Span(list[i])
      <4>1. ASSUME NEW j \in DOMAIN devices'[dev]
            PROVE  p \notin Span(devices'[dev][j])
        <5>1. j \in 1 .. Len(list) + 1
          BY <1>4
        <5>2. CASE j = a + 1
          BY <1>6, <1>7, <2>3, <5>2
        <5>3. CASE j < a + 1
          <6>1. j \in DOMAIN list /\ devices'[dev][j] = list[j]
            BY <1>2, <1>4, <5>1, <5>3
          <6> QED
            BY <3>2, <6>1
        <5>4. CASE j > a + 1
          <6>1. j - 1 \in DOMAIN list /\ devices'[dev][j] = list[j - 1]
            BY <1>2, <1>4, <5>1, <5>4
          <6> QED
            BY <3>2, <6>1
        <5> QED
          BY <1>4, <5>1, <5>2, <5>3, <5>4
      <4>2. OwnerOf(d, p) = Nothing
        BY <1>1, <1>4, <2>3, <3>2 DEF OwnersNamed
      <4>3. OwnerOf(d, p)' = Nothing
        BY <1>1, <1>4, <2>3, <4>1 DEF OwnersNamed
      <4> QED
        BY <2>3, <4>2, <4>3
    <3> QED
      BY <3>1, <3>2
  <2> QED
    BY <2>1, <2>2, <2>3
<1> QED
  BY <1>9, <1>10

\* The map as the ownership it is compared with.
own == [d \in Device |-> [p \in Phys |-> OwnerOf(d, p)]]
rest == [device |-> dev, physical |-> ex.physical, logical |-> ex.logical,
         length |-> ex.length, file |-> ex.file]

\* Initially there is no extent, so that nobody owns anything.
LEMMA InitImplements == Init => Owner!Init
<1> SUFFICES ASSUME Init PROVE Owner!Init
  OBVIOUS
<1>1. \A d \in Device : devices[d] = <<>>
  BY DEF Init
<1>2. \A d \in Device, p \in Phys : OwnerOf(d, p) = Nothing
  BY <1>1 DEF OwnerOf
<1>3. ex.length = 0
  BY DEF Init
<1> QED
  BY <1>2, <1>3 DEF Owner!Init, Owner!Phys, Owner!Log, Init, Phys, Log

\* A step that leaves the lists and the request alone leaves the ownership alone.
LEMMA QuietStutters ==
  ASSUME UNCHANGED <<devices, dev, ex, content, want>>
  PROVE  UNCHANGED Owner!vars
<1>1. \A d \in Device, p \in Phys : OwnerOf(d, p)' = OwnerOf(d, p)
  BY DEF OwnerOf
<1> QED
  BY <1>1 DEF Owner!vars

\* Entering FiesEMap_add is the request.
LEMMA AddBeginAsks ==
  ASSUME IInv, NEW d \in Device, NEW p \in Phys, NEW l \in Log, NEW n \in 1 .. PhysSize,
         NEW f \in File,
         AddBegin(d, [physical |-> p, logical |-> l, length |-> n, file |-> f])
  PROVE  Owner!Ask(d, p, l, n, f)
<1> DEFINE e == [physical |-> p, logical |-> l, length |-> n, file |-> f]
<1>1. /\ e.physical = p /\ e.logical = l /\ e.length = n /\ e.file = f /\ End(e) = p + n
  BY DEF End
<1>2. ex.length = 0
  BY DEF AddBegin, IInv, IndexInv
<1>3. /\ n > 0 /\ p + n <= PhysSize /\ l + n <= LogSize
      /\ \A x \in l .. l + n - 1 : want[f][x] = Nothing
      /\ dev' = d /\ ex' = e /\ UNCHANGED <<devices, content>>
  BY <1>1 DEF AddBegin
<1>4. want' = [want EXCEPT ![f] =
                 [x \in DOMAIN want[f] |-> IF x \in l .. l + n - 1
                                           THEN [device |-> d, physical |-> p + (x - l)]
                                           ELSE want[f][x]]]
  BY <1>1 DEF AddBegin, Overwrite
<1>5. \A c \in Device, x \in Phys : OwnerOf(c, x)' = OwnerOf(c, x)
  BY <1>3 DEF OwnerOf
<1> HIDE DEF e
<1> QED
  BY <1>1, <1>2, <1>3, <1>4, <1>5 DEF Owner!Ask, Owner!Overwrite

\* A request behind its first n bytes.
LEMMA ShiftedRequest ==
  ASSUME NEW r, NEW d, NEW p, NEW l, NEW m, NEW f, NEW n,
         r = [device |-> d, physical |-> p, logical |-> l, length |-> m, file |-> f]
  PROVE  Owner!Shifted(r, n)
           = [device |-> d, physical |-> p + n, logical |-> l + n, length |-> m - n, file |-> f]
<1> DEFINE pn == p + n
           ln == l + n
           mn == m - n
<1>1. r.physical + n = pn /\ r.logical + n = ln /\ r.length - n = mn
  OBVIOUS
<1> HIDE DEF pn, ln, mn
<1>2. [r EXCEPT !.physical = pn]
        = [device |-> d, physical |-> pn, logical |-> l, length |-> m, file |-> f]
  OBVIOUS
<1>3. [[device |-> d, physical |-> pn, logical |-> l, length |-> m, file |-> f] EXCEPT !.logical = ln]
        = [device |-> d, physical |-> pn, logical |-> ln, length |-> m, file |-> f]
  OBVIOUS
<1>4. [[device |-> d, physical |-> pn, logical |-> ln, length |-> m, file |-> f] EXCEPT !.length = mn]
        = [device |-> d, physical |-> pn, logical |-> ln, length |-> mn, file |-> f]
  OBVIOUS
<1>5. [[[r EXCEPT !.physical = pn] EXCEPT !.logical = ln] EXCEPT !.length = mn]
        = [device |-> d, physical |-> pn, logical |-> ln, length |-> mn, file |-> f]
  BY <1>2, <1>3, <1>4
<1> QED
  BY <1>1, <1>5 DEF pn, ln, mn, Owner!Shifted

\* What is left of the request is what is left of it.
LEMMA ShiftMaps ==
  ASSUME IInv, NEW n \in 1 .. ex.length, ex' = FiesEMapExtent_shift(ex, n), dev' = dev
  PROVE  rest' = Owner!Shifted(rest, n)
<1>1. /\ ex'.physical = ex.physical + n /\ ex'.logical = ex.logical + n
      /\ ex'.length = ex.length - n /\ ex'.file = ex.file
  BY DEF FiesEMapExtent_shift
<1>2. rest' = [device |-> dev, physical |-> ex.physical + n, logical |-> ex.logical + n,
               length |-> ex.length - n, file |-> ex.file]
  BY <1>1 DEF rest
<1>3. Owner!Shifted(rest, n)
        = [device |-> dev, physical |-> ex.physical + n, logical |-> ex.logical + n,
           length |-> ex.length - n, file |-> ex.file]
  <2>1. rest = [device |-> dev, physical |-> ex.physical, logical |-> ex.logical,
                length |-> ex.length, file |-> ex.file]
    BY DEF rest
  <2> QED
    BY <2>1, ShiftedRequest
<1> QED
  BY <1>2, <1>3

\* for_new, with the insertion after it, is the sending.
LEMMA SendingSends ==
  ASSUME IInv, IInv', pc = "add", NEW n \in 1 .. ex.length, SentAndInserted(n),
         a < Len(list) => ex.physical + n <= it.physical,
         ex' = FiesEMapExtent_shift(ex, n)
  PROVE  Owner!Send(n)
<1>1. /\ \A d \in Device, p \in Phys :
           OwnerOf(d, p)' = IF d = dev /\ p \in ex.physical .. ex.physical + n - 1
                            THEN [file |-> ex.file, logical |-> ex.logical + (p - ex.physical)]
                            ELSE OwnerOf(d, p)
      /\ \A p \in ex.physical .. ex.physical + n - 1 : p \in Phys /\ OwnerOf(dev, p) = Nothing
  BY InsertionGivesOwnership
<1>2. dev \in Device
  BY RequestFacts
<1>3. own' = [own EXCEPT ![dev] =
                [x \in DOMAIN own[dev] |-> IF x \in ex.physical .. ex.physical + n - 1
                                           THEN [file |-> ex.file, logical |-> ex.logical + (x - ex.physical)]
                                           ELSE own[dev][x]]]
  BY <1>1, <1>2 DEF own
<1>4. \A x \in ex.physical .. ex.physical + n - 1 : own[dev][x] = Nothing
  BY <1>1, <1>2 DEF own
<1>5. content' = [content EXCEPT ![ex.file] =
                    [x \in DOMAIN content[ex.file] |->
                       IF x \in ex.logical .. ex.logical + n - 1
                       THEN [device |-> dev, physical |-> ex.physical + (x - ex.logical)]
                       ELSE content[ex.file][x]]]
      /\ UNCHANGED <<dev, want>>
  BY DEF SentAndInserted, Overwrite
<1>6. rest' = Owner!Shifted(rest, n)
  BY <1>5, ShiftMaps
<1>7. /\ rest.device = dev /\ rest.physical = ex.physical /\ rest.logical = ex.logical
      /\ rest.length = ex.length /\ rest.file = ex.file
  BY DEF rest
<1>8. \A x \in rest.physical .. rest.physical + n - 1 : own[rest.device][x] = Nothing
  BY <1>4, <1>7
<1>9. own' = [own EXCEPT ![rest.device] =
                [x \in DOMAIN own[rest.device] |->
                   IF x \in rest.physical .. rest.physical + n - 1
                   THEN [file |-> rest.file, logical |-> rest.logical + (x - rest.physical)]
                   ELSE own[rest.device][x]]]
  BY <1>3, <1>7
<1>10. content' = [content EXCEPT ![rest.file] =
                     [x \in DOMAIN content[rest.file] |->
                        IF x \in rest.logical .. rest.logical + n - 1
                        THEN [device |-> rest.device, physical |-> rest.physical + (x - rest.logical)]
                        ELSE content[rest.file][x]]]
  BY <1>5, <1>7
<1> QED
  BY <1>5, <1>6, <1>8, <1>9, <1>10 DEF Owner!Send, Owner!Overwrite, Owner!Phys, Phys, own, rest

\* for_avail is the copying.
LEMMA CopyingCopies ==
  ASSUME IInv, NEW n \in 1 .. ex.length, a < Len(list),
         it.physical <= ex.physical, ex.physical + n <= End(it), CopiedFromOwner(n),
         ex' = FiesEMapExtent_shift(ex, n)
  PROVE  \E g \in File, m \in Log : Owner!Copy(n, g, m)
<1> DEFINE m == it.logical + (ex.physical - it.physical)
           g == it.file
<1>1. /\ it \in FiesEMapExtent /\ a + 1 \in DOMAIN devices[dev] /\ it = devices[dev][a + 1]
      /\ it.logical + it.length <= LogSize
  BY ListFacts DEF it, list
<1>2. /\ it.physical \in Nat /\ it.logical \in Nat /\ it.length \in Nat /\ it.file \in File
      /\ End(it) = it.physical + it.length
  BY <1>1, ExtentFields
<1>3. /\ n \in Nat /\ n > 0 /\ n <= ex.length /\ ex.length \in Nat /\ ex.physical \in Nat
      /\ ex.physical + ex.length <= PhysSize /\ PhysSize \in Nat /\ dev \in Device
  BY RequestFacts
<1>3a. ex.physical + n <= PhysSize /\ ex.physical + n <= it.physical + it.length
  BY <1>2, <1>3
<1>4. /\ m \in Log
      /\ \A k \in 0 .. n - 1 :
           /\ ex.physical + k \in Phys /\ ex.physical + k \in Span(it)
           /\ it.logical + ((ex.physical + k) - it.physical) = m + k
  <2>1. it.physical <= ex.physical /\ m = it.logical + (ex.physical - it.physical)
    OBVIOUS
  <2> HIDE DEF m
  <2>2. /\ m \in Log
        /\ \A k \in 0 .. n - 1 :
             /\ ex.physical + k \in Phys
             /\ ex.physical + k \in it.physical .. it.physical + it.length - 1
             /\ it.logical + ((ex.physical + k) - it.physical) = m + k
    <3> DEFINE p == ex.physical
               q == it.physical
               l == it.logical
               len == it.length
    <3>1. /\ p \in Nat /\ q \in Nat /\ l \in Nat /\ len \in Nat /\ n \in Nat /\ n > 0
          /\ p + n <= PhysSize /\ l + len <= LogSize /\ q <= p /\ p + n <= q + len
          /\ m = l + (p - q)
      BY <1>1, <1>2, <1>3, <1>3a, <2>1
    <3> HIDE DEF p, q, l, len
    <3>2. /\ m \in Log
          /\ \A k \in 0 .. n - 1 : /\ p + k \in Phys /\ p + k \in q .. q + len - 1
                                   /\ l + ((p + k) - q) = m + k
      <4>1. PhysSize \in Nat /\ LogSize \in Nat
        BY SizeAssumption
      <4>2. m \in Log
        BY <3>1, <4>1 DEF Log
      <4>3. ASSUME NEW k \in 0 .. n - 1
            PROVE  /\ p + k \in Phys /\ p + k \in q .. q + len - 1
                   /\ l + ((p + k) - q) = m + k
        BY <3>1, <4>1 DEF Phys
      <4> QED
        BY <4>2, <4>3
    <3> QED
      BY <3>2 DEF p, q, l, len
  <2>3. Span(it) = it.physical .. it.physical + it.length - 1
    BY <1>2 DEF Span
  <2> QED
    BY <2>2, <2>3
<1>4a. OwnersNamed
  BY OwnersAreNamed
<1>5. ASSUME NEW k \in 0 .. n - 1
      PROVE  own[dev][ex.physical + k] = [file |-> g, logical |-> m + k]
  <2>1. /\ ex.physical + k \in Phys /\ ex.physical + k \in Span(it)
        /\ it.logical + ((ex.physical + k) - it.physical) = m + k
    BY <1>4
  <2>2. OwnerOf(dev, ex.physical + k) =
          [file |-> it.file, logical |-> it.logical + ((ex.physical + k) - it.physical)]
    BY <1>1, <1>3, <1>4a, <2>1 DEF OwnersNamed
  <2> QED
    BY <1>3, <2>1, <2>2 DEF own
<1>6. content' = [content EXCEPT ![ex.file] =
                    [x \in DOMAIN content[ex.file] |->
                       IF x \in ex.logical .. ex.logical + n - 1
                       THEN content[g][m + (x - ex.logical)]
                       ELSE content[ex.file][x]]]
      /\ UNCHANGED <<devices, dev, want>>
  BY DEF CopiedFromOwner, Overwrite
<1>7. rest' = Owner!Shifted(rest, n)
  BY <1>6, ShiftMaps
<1>8. own' = own
  <2>1. \A c \in Device, x \in Phys : OwnerOf(c, x)' = OwnerOf(c, x)
    BY <1>6 DEF OwnerOf
  <2> QED
    BY <2>1 DEF own
<1> HIDE DEF m, g
<1>9. Owner!Copy(n, g, m)
  BY <1>5, <1>6, <1>7, <1>8 DEF Owner!Copy, Owner!Overwrite, Owner!Phys, Phys, own, rest
<1> QED
  BY <1>2, <1>4, <1>9 DEF g

\* A failed callback gives the rest up.
LEMMA FailureGivesUp ==
  ASSUME IInv, CallbackFails
  PROVE  Owner!GiveUp
<1>1. /\ ex.length > 0 /\ ex \in FiesEMapExtent
  BY RequestFacts, ListFacts DEF CallbackFails, IInv, IndexInv
<1>2. /\ UNCHANGED <<devices, dev, content>> /\ ex' = [ex EXCEPT !.length = 0]
      /\ want' = [want EXCEPT ![ex.file] =
                    [x \in DOMAIN want[ex.file] |-> IF x \in ex.logical .. ex.logical + ex.length - 1
                                                    THEN Nothing ELSE want[ex.file][x]]]
  BY DEF CallbackFails, Overwrite
<1>3. /\ ex'.physical = ex.physical /\ ex'.logical = ex.logical /\ ex'.length = 0
      /\ ex'.file = ex.file
  BY <1>1, <1>2 DEF FiesEMapExtent
<1>4. \A c \in Device, x \in Phys : OwnerOf(c, x)' = OwnerOf(c, x)
  BY <1>2 DEF OwnerOf
<1> QED
  BY <1>1, <1>2, <1>3, <1>4 DEF Owner!GiveUp, Owner!Overwrite

\* Whether the piece was sent or copied, it is a piece of the request.
LEMMA AddImplements ==
  ASSUME IInv, IInv', Add
  PROVE  \E n \in 1 .. ex.length :
           Owner!Send(n) \/ \E g \in File, m \in Log : Owner!Copy(n, g, m)
<1>1. pc = "add"
  BY DEF Add, NewAtEnd, NewBefore, NewFront, CopyRest, CopyPart
<1>2. /\ ex.length \in 1 .. ex.length /\ End(ex) = ex.physical + ex.length
      /\ a \in Nat /\ Len(list) \in Nat /\ a <= Len(list)
      /\ a < Len(list) => ex.physical < End(it)
  BY <1>1, RequestFacts, ListFacts DEF IInv, IndexInv, End
<1>3. ASSUME a < Len(list)
      PROVE  it.physical \in Nat /\ End(it) \in Nat
  BY <1>2, <1>3, ListFacts, ExtentFields DEF it
<1>4. CASE NewAtEnd \/ NewBefore
  <2>1. /\ SentAndInserted(ex.length) /\ ex' = FiesEMapExtent_shift(ex, ex.length)
        /\ a < Len(list) => ex.physical + ex.length <= it.physical
    BY <1>2, <1>4 DEF NewAtEnd, NewBefore, Return
  <2>2. Owner!Send(ex.length)
    BY <1>1, <1>2, <2>1, SendingSends
  <2> QED
    BY <1>2, <2>2
<1>5. CASE NewFront
  <2> DEFINE n == it.physical - ex.physical
  <2>1. /\ SentAndInserted(n) /\ ex' = FiesEMapExtent_shift(ex, n)
        /\ a < Len(list) /\ ex.physical < it.physical /\ it.physical < End(ex)
    BY <1>5 DEF NewFront, Continue
  <2>2. n \in 1 .. ex.length /\ ex.physical + n = it.physical
    <3>1. /\ it.physical \in Nat /\ ex.physical \in Nat /\ ex.length \in Nat
          /\ ex.physical < it.physical /\ it.physical < ex.physical + ex.length
      BY <1>2, <1>3, <2>1, RequestFacts
    <3> QED
      BY <3>1
  <2> HIDE DEF n
  <2>3. ex.physical + n <= it.physical
    BY <1>3, <2>1, <2>2
  <2>4. Owner!Send(n)
    BY <1>1, <2>1, <2>2, <2>3, SendingSends
  <2> QED
    BY <2>2, <2>4
<1>6. CASE CopyRest
  <2>1. /\ CopiedFromOwner(ex.length) /\ ex' = FiesEMapExtent_shift(ex, ex.length)
        /\ a < Len(list) /\ it.physical <= ex.physical /\ ex.physical + ex.length <= End(it)
    BY <1>2, <1>6 DEF CopyRest, Return
  <2>2. \E g \in File, m \in Log : Owner!Copy(ex.length, g, m)
    BY <1>2, <2>1, CopyingCopies
  <2> QED
    BY <1>2, <2>2
<1>7. CASE CopyPart
  <2> DEFINE n == End(it) - ex.physical
  <2>1. /\ CopiedFromOwner(n) /\ ex' = FiesEMapExtent_shift(ex, n)
        /\ a < Len(list) /\ it.physical <= ex.physical /\ End(it) < End(ex)
    BY <1>7 DEF CopyPart, Continue
  <2>2. n \in 1 .. ex.length /\ ex.physical + n = End(it)
    <3>1. /\ End(it) \in Nat /\ ex.physical \in Nat /\ ex.length \in Nat
          /\ ex.physical < End(it) /\ End(it) < ex.physical + ex.length
      BY <1>2, <1>3, <2>1, RequestFacts
    <3> QED
      BY <3>1
  <2> HIDE DEF n
  <2>3. ex.physical + n <= End(it)
    BY <1>3, <2>1, <2>2
  <2>4. \E g \in File, m \in Log : Owner!Copy(n, g, m)
    BY <2>1, <2>2, <2>3, CopyingCopies
  <2> QED
    BY <2>2, <2>4
<1> QED
  BY <1>4, <1>5, <1>6, <1>7 DEF Add

\* Every step of the map is a step of what it promises, or none.
LEMMA NextImplements == IInv /\ IInv' /\ [Next]_vars => [Owner!Next]_(Owner!vars)
<1> SUFFICES ASSUME IInv, IInv', [Next]_vars
             PROVE  [Owner!Next]_(Owner!vars)
  OBVIOUS
<1>1. ASSUME NEW d \in Device, NEW p \in Phys, NEW l \in Log, NEW n \in 1 .. PhysSize,
             NEW f \in File,
             AddBegin(d, [physical |-> p, logical |-> l, length |-> n, file |-> f])
      PROVE  Owner!Next
  <2>1. Owner!Ask(d, p, l, n, f)
    BY <1>1, AddBeginAsks
  <2>2. Owner!Phys = Phys /\ Owner!Log = Log
    BY DEF Owner!Phys, Owner!Log, Phys, Log
  <2> QED
    BY <2>1, <2>2 DEF Owner!Next
<1>2. CASE Find
  <2>1. UNCHANGED <<devices, dev, ex, content, want>>
    BY <1>2 DEF Find, FindLeft, FindRight, FindHit, FindEnd
  <2> QED
    BY <2>1, QuietStutters
<1>3. CASE Add
  <2>1. PICK n \in 1 .. ex.length :
          Owner!Send(n) \/ \E g \in File, m \in Log : Owner!Copy(n, g, m)
    BY <1>3, AddImplements
  <2>2. Owner!Log = Log
    BY DEF Owner!Log, Log
  <2>3. rest.length = ex.length
    BY DEF rest
  <2> QED
    BY <2>1, <2>2, <2>3 DEF Owner!Next, rest
<1>4. CASE CallbackFails
  BY <1>4, FailureGivesUp DEF Owner!Next
<1>5. CASE UNCHANGED vars
  BY <1>5, QuietStutters DEF vars
<1> QED
  BY <1>1, <1>2, <1>3, <1>4, <1>5 DEF Next

\* FiesEMap_add implements the ownership of bytes, for all devices and files:
\* it sends only bytes nobody owns, copies only from the owner, and takes
\* ownership from nobody.
THEOREM MapImplementsOwnership == Spec => ImplementsExtentOwner
<1>1. Init => Owner!Init
  BY InitImplements
<1>2. IInv /\ IInv' /\ [Next]_vars => [Owner!Next]_(Owner!vars)
  BY NextImplements
<1> QED
  BY <1>1, <1>2, MapInvariant, PTL DEF Spec, ImplementsExtentOwner, Owner!Spec
==============================================================================
