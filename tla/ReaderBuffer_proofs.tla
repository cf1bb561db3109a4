------------------------- MODULE ReaderBuffer_proofs -------------------------
(***************************************************************************)
(* What the input buffer of lib/fies_reader.c does for a buffer, packets   *)
(* and a stream of any size, where memcpy copies overlapping ranges in     *)
(* ascending order: what is buffered is always a window of the stream;     *)
(* only a request that is capped with bytes in the buffer is asked for     *)
(* more than fits, or for nothing; every handler but getFileEnd sees the   *)
(* stream's next bytes; and what is refused is longer than half of the     *)
(* buffer.                                                                 *)
(***************************************************************************)
EXTENDS ReaderBuffer, TLAPS

\* What memcpy does of C libraries whose memcpy is their memmove, or copies
\* upwards.
MemcpyAscends == MemcpyOrders \subseteq {"up"}

\* A buffer of which nothing is outside.
Buffer == [data : [Cells -> Nat \cup {NoByte}], filled : Nat, at : Nat]

\* The counters: what was eaten and what is buffered is what was read, until
\* something was read that did not fit.
CountersInv ==
    /\ buffer \in Buffer
    /\ fed \in 0 .. StreamLen /\ eaten \in Nat
    /\ buffer.at <= buffer.filled /\ buffer.filled <= Capacity
    /\ err # "overrun" => eaten + Have(buffer) = fed

\* The buffered bytes are the next ones of the stream.
WindowOf(b) == \A i \in b.at .. b.filled - 1 : b.data[i] = eaten + (i - b.at)

OutcomeInv ==
    /\ HandlersSeeTheirBytes
    /\ eof \in BOOLEAN /\ EofOnlyAtEnd
    /\ ReadsFit /\ OnlyLongRefused

IInv == CountersInv /\ WindowOf(buffer) /\ request \in Request /\ OutcomeInv
------------------------------------------------------------------------------
LEMMA SizeFacts == /\ Capacity \in Nat \ {0} /\ StreamLen \in Nat /\ Word \in Nat /\ Capacity < Word
                   /\ Cells = 0 .. Capacity - 1
  BY SizesAreNumbers DEF Cells

LEMMA SmallModulo == \A x \in Nat : x < Word => x % Word = x
  BY SizeFacts

LEMMA NegativeModulo == \A x \in Int : x < 0 /\ 0 - Word <= x => x % Word = x + Word
  BY SizeFacts

LEMMA CounterFacts ==
  ASSUME IInv, Running
  PROVE  /\ buffer \in Buffer /\ buffer.filled \in Nat /\ buffer.at \in Nat
         /\ Have(buffer) \in Nat /\ Have(buffer) = buffer.filled - buffer.at
         /\ fed \in Nat /\ fed <= StreamLen /\ eaten \in Nat /\ eaten + Have(buffer) = fed
         /\ buffer.filled <= Capacity
         /\ request.length \in Nat /\ request.length > 0
  BY SizeFacts DEF IInv, CountersInv, Buffer, Have, Running, Request

\* Making room moves the bytes to the front and keeps them, also where the two
\* ranges overlap.
LEMMA RoomKeepsWindow ==
  ASSUME MemcpyAscends, IInv, Buffering, NEW b \in RoomFor(request.length)
  PROVE  /\ b \in Buffer /\ Have(b) = Have(buffer) /\ b.filled <= Capacity
         /\ b.filled \in Nat /\ b.at \in Nat /\ b.at <= b.filled
         /\ WindowOf(b)
         /\ b.filled + request.length > Capacity => b.at = 0
<1>1. Running /\ Have(buffer) < request.length
  BY DEF Buffering
<1>2. CASE b = buffer /\ (buffer.at = 0 \/ buffer.filled + request.length <= Capacity)
  BY <1>2, <1>1, CounterFacts, SizeFacts DEF IInv, CountersInv
<1>3. CASE buffer.at # 0 /\ buffer.filled + request.length > Capacity
  <2> DEFINE up == [i \in Cells |-> IF i < Have(buffer) THEN buffer.data[buffer.at + i]
                                    ELSE buffer.data[i]]
  <2>2. b = [data |-> up, filled |-> Have(buffer), at |-> 0]
    <3>1. \A d \in Copied(buffer) : d = up
      <4>1. \A order \in MemcpyOrders : order = "up"
        BY DEF MemcpyAscends
      <4>2. Have(buffer) = buffer.filled - buffer.at
        BY DEF Have
      <4> QED  BY <4>1 DEF Copied
    <3>2. b \in {[data |-> d, filled |-> Have(buffer), at |-> 0] : d \in Copied(buffer)}
      BY <1>3 DEF RoomFor, Shifted
    <3> HIDE DEF up
    <3> QED  BY <3>1, <3>2
  <2>3. up \in [Cells -> Nat \cup {NoByte}]
    <3>1. \A i \in Cells : i < Have(buffer) => buffer.at + i \in Cells
      BY <1>1, CounterFacts, SizeFacts
    <3> QED  BY <3>1, <1>1, CounterFacts DEF Buffer
  <2>4. \A i \in 0 .. Have(buffer) - 1 : i \in Cells /\ up[i] = eaten + i
    <3> SUFFICES ASSUME NEW i \in 0 .. Have(buffer) - 1
                 PROVE  i \in Cells /\ up[i] = eaten + i
      OBVIOUS
    <3> HIDE DEF up
    <3>0. i \in Nat /\ i < Have(buffer)
      BY <1>1, CounterFacts
    <3>a. /\ buffer.filled \in Nat /\ buffer.at \in Nat /\ buffer.filled <= Capacity
          /\ Have(buffer) = buffer.filled - buffer.at
          /\ Capacity \in Nat /\ Cells = 0 .. Capacity - 1
      BY <1>1, CounterFacts, SizeFacts
    <3>1. i \in Cells /\ buffer.at + i \in buffer.at .. buffer.filled - 1
      BY <3>0, <3>a
    <3>2. buffer.data[buffer.at + i] = eaten + ((buffer.at + i) - buffer.at)
      BY <3>1 DEF IInv, WindowOf
    <3> QED  BY <3>0, <3>1, <3>2, <1>1, CounterFacts DEF up
  <2> HIDE DEF up
  <2>5. b.data = up /\ b.filled = Have(buffer) /\ b.at = 0
    BY <2>2
  <2>6. b \in Buffer
    BY <2>2, <2>3, <1>1, CounterFacts DEF Buffer
  <2>7. WindowOf(b)
    BY <2>4, <2>5, <1>1, CounterFacts DEF WindowOf
  <2>8. Have(b) = Have(buffer) /\ b.filled \in Nat /\ b.at \in Nat /\ b.filled <= Capacity
    <3>1. Have(b) = b.filled - b.at
      BY DEF Have
    <3> QED  BY <2>5, <3>1, <1>1, CounterFacts, SizeFacts
  <2> QED  BY <2>5, <2>6, <2>7, <2>8
<1> QED
  BY <1>2, <1>3, <1>1, CounterFacts, SizeFacts DEF RoomFor, Shifted

\* What is then asked of the read callback: what the handler lacks, which fits, or,
\* if that is more than a buffer, what is too little by the bytes that are there.
LEMMA NeedOf ==
  ASSUME MemcpyAscends, IInv, Buffering, NEW b \in Asking
  PROVE  /\ Need(b, request.length) \in Nat
         /\ ~ Exceeds(b, request.length) =>
               /\ Need(b, request.length) = request.length - Have(b)
               /\ Need(b, request.length) > 0
               /\ b.filled + Need(b, request.length) <= Capacity
         /\ Exceeds(b, request.length) =>
               /\ ~ FailShort
               /\ 2 * Have(b) <= Capacity =>
                     /\ Need(b, request.length) = Capacity - 2 * Have(b)
                     /\ b.filled + Need(b, request.length) <= Capacity
<1> DEFINE len == request.length
<1>0. Running
  BY DEF Buffering
<1>1. /\ b \in RoomFor(len)
      /\ FailShort => ~ Exceeds(b, len)
  BY DEF Asking
<1>2. /\ Have(b) \in Nat /\ Have(b) = b.filled - b.at /\ Have(b) < len /\ len \in Nat
      /\ b.filled \in Nat /\ b.at \in Nat /\ b.filled <= Capacity
      /\ b.filled + len > Capacity => b.at = 0
  BY <1>0, <1>1, RoomKeepsWindow, CounterFacts DEF Buffering, Have
<1>3. CASE ~ Exceeds(b, len)
  <2>1. Have(b) + len <= Capacity
    BY <1>2, <1>3, SizeFacts DEF Exceeds
  <2>2. Need(b, len) = len - Have(b)
    <3>1. len - Have(b) \in Nat /\ len - Have(b) < Word
      BY <1>2, <2>1, SizeFacts
    <3>2. (len - Have(b)) % Word = len - Have(b)
      BY <3>1, SmallModulo
    <3> QED  BY <1>3, <3>2 DEF Need
  <2>3. len - Have(b) \in Nat \ {0}
    BY <1>2
  <2>4. b.filled + (len - Have(b)) <= Capacity
    BY <1>2, <2>1, SizeFacts
  <2> QED  BY <1>3, <2>2, <2>3, <2>4
<1>4. CASE Exceeds(b, len)
  <2>1. b.at = 0 /\ b.filled = Have(b)
    <3>1. Have(b) + len > Capacity /\ Have(b) <= b.filled
      BY <1>2, <1>4 DEF Exceeds
    <3> QED  BY <1>2, <3>1, SizeFacts
  <2>2. Need(b, len) = ((Capacity - b.filled) - Have(b)) % Word
    BY <1>4 DEF Need
  <2>3. ((Capacity - b.filled) - Have(b)) \in Int
    BY <1>2, SizeFacts
  <2>4. Need(b, len) \in Nat
    <3>1. \A x \in Int : x % Word \in Nat
      BY SizeFacts
    <3> QED  BY <2>2, <2>3, <3>1
  <2>5. ASSUME 2 * Have(b) <= Capacity
        PROVE  /\ Need(b, len) = Capacity - 2 * Have(b)
               /\ b.filled + Need(b, len) <= Capacity
    <3>1. (Capacity - b.filled) - Have(b) = Capacity - 2 * Have(b)
      BY <1>2, <2>1, SizeFacts
    <3>2. Capacity - 2 * Have(b) \in Nat /\ Capacity - 2 * Have(b) < Word
      BY <1>2, <2>5, SizeFacts
    <3>3. Need(b, len) = Capacity - 2 * Have(b)
      BY <2>2, <3>1, <3>2, SmallModulo
    <3>4. Have(b) + (Capacity - 2 * Have(b)) <= Capacity
      BY <1>2, SizeFacts
    <3> QED  BY <2>1, <3>3, <3>4
  <2> QED  BY <1>1, <1>4, <2>4, <2>5
<1> QED
  BY <1>3, <1>4

LEMMA LesserFacts ==
  \A m, n \in Int : LesserOf(m, n) <= m /\ LesserOf(m, n) <= n /\ LesserOf(m, n) \in {m, n}
  BY DEF LesserOf

\* A number of bytes that fits does.
LEMMA FittingFits ==
  ASSUME MemcpyAscends, IInv, Buffering, NEW b \in Asking
  PROVE  \A n \in Fitting(b) : /\ n \in Nat \ {0}
                               /\ n <= Need(b, request.length) /\ b.filled + n <= Capacity
<1>1. Need(b, request.length) \in Int
  BY NeedOf
<1>2. b.filled \in Nat
  BY RoomKeepsWindow DEF Asking
<1>3. Capacity - b.filled \in Int /\ Capacity \in Int
  BY <1>2, SizeFacts
<1> DEFINE m == LesserOf(Need(b, request.length), Capacity - b.filled)
<1>4. m \in Int /\ m <= Need(b, request.length) /\ m <= Capacity - b.filled
  BY <1>1, <1>3, LesserFacts
<1> SUFFICES ASSUME NEW n \in 1 .. m
             PROVE  /\ n \in Nat \ {0}
                    /\ n <= Need(b, request.length) /\ b.filled + n <= Capacity
  BY DEF Fitting
<1> HIDE DEF m
<1> QED  BY <1>1, <1>2, <1>3, <1>4

\* Reading n bytes behind what is buffered keeps it the next bytes of the stream.
LEMMA FillingKeepsWindow ==
  ASSUME MemcpyAscends, IInv, Buffering, NEW b \in Asking, NEW n \in Nat,
         b.filled + n <= Capacity
  PROVE  /\ Filled(b, n) \in Buffer
         /\ Filled(b, n).filled = b.filled + n /\ Filled(b, n).at = b.at
         /\ Filled(b, n).filled <= Capacity
         /\ Have(Filled(b, n)) = Have(buffer) + n
         /\ WindowOf(Filled(b, n))
<1>0. Running
  BY DEF Buffering
<1>1. b \in RoomFor(request.length)
  BY DEF Asking
<1>2. /\ b \in Buffer /\ Have(b) = Have(buffer) /\ Have(b) = b.filled - b.at
      /\ b.filled \in Nat /\ b.at \in Nat /\ b.at <= b.filled /\ WindowOf(b)
  BY <1>1, RoomKeepsWindow DEF Have
<1>3. b.filled + n <= Capacity /\ n \in Nat
  OBVIOUS
<1> DEFINE d == [i \in Cells |-> IF i \in b.filled .. b.filled + n - 1
                                 THEN fed + (i - b.filled) ELSE b.data[i]]
<1>4. Filled(b, n) = [data |-> d, filled |-> b.filled + n, at |-> b.at]
  BY DEF Filled
<1>5. d \in [Cells -> Nat \cup {NoByte}]
  <2>1. b.data \in [Cells -> Nat \cup {NoByte}]
    BY <1>2 DEF Buffer
  <2>2. \A i \in Cells : i \in b.filled .. b.filled + n - 1 => fed + (i - b.filled) \in Nat
    <3> TAKE i \in Cells
    <3> HIDE DEF d
    <3>1. i \in Nat
      BY SizeFacts
    <3> QED  BY <1>2, <1>3, <3>1, <1>0, CounterFacts
  <2> QED  BY <2>1, <2>2
<1>6. ASSUME NEW i \in b.at .. b.filled + n - 1
      PROVE  d[i] = eaten + (i - b.at)
  <2>1. i \in Nat /\ i \in Cells
    BY <1>2, <1>3, SizeFacts
  <2>2. CASE i < b.filled
    <3>1. d[i] = b.data[i]
      BY <1>2, <2>1, <2>2
    <3>2. i \in b.at .. b.filled - 1
      BY <1>2, <2>1, <2>2
    <3> QED  BY <1>2, <3>1, <3>2 DEF WindowOf
  <2>3. CASE i >= b.filled
    <3>1. d[i] = fed + (i - b.filled)
      BY <1>2, <1>3, <2>1, <2>3
    <3> HIDE DEF d
    <3> QED  BY <1>2, <2>1, <3>1, <1>0, CounterFacts
  <2> QED  BY <1>2, <2>1, <2>2, <2>3
<1> HIDE DEF d
<1>7. /\ Filled(b, n).data = d /\ Filled(b, n).filled = b.filled + n /\ Filled(b, n).at = b.at
  BY <1>4
<1>8. Have(Filled(b, n)) = Have(buffer) + n
  BY <1>2, <1>3, <1>7, <1>0, CounterFacts DEF Have
<1>9. Filled(b, n) \in Buffer
  BY <1>2, <1>3, <1>4, <1>5 DEF Buffer
<1>10. WindowOf(Filled(b, n))
  <2> SUFFICES ASSUME NEW i \in Filled(b, n).at .. Filled(b, n).filled - 1
               PROVE  Filled(b, n).data[i] = eaten + (i - Filled(b, n).at)
    BY DEF WindowOf
  <2>1. i \in b.at .. b.filled + n - 1
    BY <1>2, <1>3, <1>7
  <2> QED  BY <1>6, <1>7, <2>1
<1> QED
  BY <1>3, <1>7, <1>8, <1>9, <1>10

\* What a handler finds: the next bytes of the stream, and all of its field if it
\* asked for a field.
LEMMA GotIsNext ==
  ASSUME MemcpyAscends, IInv, Running, NEW n \in 0 .. StreamLen - fed, NEW b \in Got(n)
  PROVE  /\ b \in Buffer /\ b.filled \in Nat /\ b.at \in Nat /\ b.at <= b.filled
         /\ b.filled <= Capacity /\ Have(b) = b.filled - b.at /\ Have(b) \in Nat
         /\ WindowOf(b) /\ eaten + Have(b) = fed + n
         /\ n \in Nat /\ fed + n <= StreamLen
         /\ FailShort => Have(b) >= request.length
<1>1. n \in Nat /\ fed + n <= StreamLen
  BY CounterFacts, SizeFacts
<1>2. CASE ~ Buffering
  <2>1. b = buffer /\ n = 0
    BY <1>2 DEF Got
  <2>2. FailShort => Have(buffer) >= request.length
    BY <1>2, CounterFacts DEF Buffering, FailShort, BadRest, IsList
  <2>3. buffer.at <= buffer.filled /\ WindowOf(buffer)
    BY DEF IInv, CountersInv
  <2> QED  BY <1>1, <2>1, <2>2, <2>3, CounterFacts
<1>3. CASE Buffering
  <2>1. PICK s \in Asking : /\ b = Filled(s, n)
                            /\ n \in Fitting(s)
                            /\ FailShort => n = Need(s, request.length)
    BY <1>3 DEF Got
  <2>2. s \in RoomFor(request.length)
    BY DEF Asking
  <2>3. /\ Have(s) = Have(buffer) /\ s.filled \in Nat /\ s.at \in Nat /\ s.at <= s.filled
    BY <1>3, <2>2, RoomKeepsWindow
  <2>4. s.filled + n <= Capacity
    BY <1>3, <2>1, FittingFits
  <2>5. FailShort => n = request.length - Have(s)
    BY <1>3, <2>1, NeedOf
  <2>6. /\ b \in Buffer /\ b.filled = s.filled + n /\ b.at = s.at /\ b.filled <= Capacity
        /\ Have(b) = Have(buffer) + n /\ WindowOf(b)
    BY <1>1, <1>3, <2>1, <2>4, FillingKeepsWindow
  <2>7. Have(b) = b.filled - b.at
    BY DEF Have
  <2>8. b.filled \in Nat /\ b.at <= b.filled /\ Have(b) \in Nat
    BY <1>1, <2>3, <2>6, CounterFacts
  <2>9. FailShort => Have(b) >= request.length
    BY <1>1, <2>3, <2>5, <2>6, CounterFacts
  <2>10. eaten + Have(b) = fed + n
    BY <1>1, <2>6, CounterFacts
  <2> QED  BY <1>1, <2>3, <2>6, <2>7, <2>8, <2>9, <2>10
<1> QED
  BY <1>2, <1>3

\* A handler that works on bytes it finds keeps the invariant.
LEMMA HandlingKeepsBuffer ==
  ASSUME MemcpyAscends, IInv, Running, NEW read \in 0 .. StreamLen - fed, NEW b \in Got(read),
         NEW p, NEW n \in Nat, n <= Have(b), NEW r \in Request, Handled(b, read, p, n, r),
         request.kind = "file_end" \/ p = b.at
  PROVE  IInv'
<1>1. /\ b \in Buffer /\ b.filled \in Nat /\ b.at \in Nat /\ b.at <= b.filled
      /\ b.filled <= Capacity /\ Have(b) = b.filled - b.at
      /\ WindowOf(b) /\ eaten + Have(b) = fed + read
      /\ read \in Nat /\ fed + read <= StreamLen
  BY GotIsNext
<1>2. /\ buffer' = [b EXCEPT !.at = @ + n] /\ fed' = fed + read /\ eaten' = eaten + n
      /\ UNCHANGED <<eof, err>>
      /\ last' = [kind |-> request.kind, from |-> eaten,
                  bytes |-> [k \in 0 .. n - 1 |-> Byte(b, p + k)]]
  BY DEF Handled
<1>3. /\ buffer' \in Buffer /\ buffer'.filled = b.filled /\ buffer'.at = b.at + n
      /\ buffer'.data = b.data
  BY <1>1, <1>2 DEF Buffer
<1>4. Have(buffer)' = b.filled - (b.at + n)
  BY <1>3 DEF Have
<1>5. CountersInv'
  <2>1. b.at + n <= b.filled /\ fed + read \in 0 .. StreamLen /\ eaten + n \in Nat
    <3>1. b.at + n <= b.filled /\ b.at + n \in Nat
      BY <1>1
    <3>2. fed + read \in 0 .. StreamLen
      <4>1. fed \in Nat /\ StreamLen \in Nat
        BY CounterFacts, SizeFacts
      <4> QED  BY <1>1, <4>1
    <3>3. eaten + n \in Nat
      BY CounterFacts
    <3> QED  BY <3>1, <3>2, <3>3
  <2>2. eaten + n + (b.filled - (b.at + n)) = fed + read
    BY <1>1, CounterFacts
  <2> QED  BY <1>1, <1>2, <1>3, <1>4, <2>1, <2>2 DEF CountersInv, Buffer
<1>6. WindowOf(buffer)'
  <2> SUFFICES ASSUME NEW i \in b.at + n .. b.filled - 1
               PROVE  b.data[i] = eaten + n + (i - (b.at + n))
    BY <1>2, <1>3 DEF WindowOf
  <2>1. i \in b.at .. b.filled - 1 /\ i \in Nat
    BY <1>1
  <2>2. b.data[i] = eaten + (i - b.at)
    BY <1>1, <2>1 DEF WindowOf
  <2> QED  BY <1>1, <2>1, <2>2, CounterFacts
<1>7. HandlersSeeTheirBytes'
  <2>1. CASE request.kind = "file_end"
    BY <1>2, <2>1 DEF HandlersSeeTheirBytes
  <2>2. CASE p = b.at
    <3>1. ASSUME NEW k \in 0 .. n - 1
          PROVE  Byte(b, p + k) = eaten + k
      <4>1. p + k \in b.at .. b.filled - 1 /\ p + k \in Cells /\ k \in Nat
        BY <1>1, <2>2, SizeFacts
      <4>2. b.data[p + k] = eaten + ((p + k) - b.at)
        BY <1>1, <4>1 DEF WindowOf
      <4> QED  BY <1>1, <2>2, <4>1, <4>2, CounterFacts DEF Byte
    <3> QED  BY <1>2, <3>1 DEF HandlersSeeTheirBytes, SeesItsBytes
  <2> QED  BY <2>1, <2>2
<1>8. OutcomeInv'
  BY <1>2, <1>7 DEF IInv, OutcomeInv, EofOnlyAtEnd, ReadsFit, OnlyLongRefused, Running
<1>9. request' \in Request
  BY DEF Handled
<1> QED
  BY <1>5, <1>6, <1>8, <1>9 DEF IInv
------------------------------------------------------------------------------
\* What follows a request, in whole or in part.
LEMMA RequestTypes ==
  /\ NewRequest \subseteq Request
  /\ IInv => \A n \in Nat : n <= request.length => Rest(n) \subseteq Request
<1>1. NewRequest \subseteq Request
  BY SizesAreNumbers DEF NewRequest, Request, Kinds
<1>2. ASSUME IInv, NEW n \in Nat, n <= request.length, NEW r \in Rest(n)
      PROVE  r \in Request
  <2>1. request \in Request /\ request.length \in Nat \ {0} /\ request.kind \in Kinds
    BY <1>2 DEF IInv, Request
  <2>2. CASE request.length - n = 0
    BY <1>1, <1>2, <2>2 DEF Rest
  <2>3. CASE request.length - n # 0
    <3>1. PICK e \in IF request.kind = "list" THEN EntrySizes ELSE {0} :
            r = [kind |-> request.kind, length |-> request.length - n, entry |-> e]
      BY <1>2, <2>3 DEF Rest
    <3>2. request.length - n \in Nat \ {0}
      BY <1>2, <2>1, <2>3
    <3> QED  BY <2>1, <3>1, <3>2 DEF Request
  <2> QED  BY <2>2, <2>3
<1> QED
  BY <1>1, <1>2

LEMMA InitBuffer == Init => IInv
<1> SUFFICES ASSUME Init PROVE IInv
  OBVIOUS
<1>1. /\ buffer = [data |-> [i \in Cells |-> NoByte], filled |-> 0, at |-> 0]
      /\ request \in NewRequest /\ fed = 0 /\ eaten = 0
      /\ last = [kind |-> "none", from |-> 0, bytes |-> <<>>] /\ eof = FALSE /\ err = "none"
  BY DEF Init
<1>2. buffer.filled = 0 /\ buffer.at = 0 /\ Have(buffer) = 0
  BY <1>1 DEF Have
<1>3. CountersInv
  BY <1>1, <1>2, SizeFacts DEF CountersInv, Buffer
<1>4. WindowOf(buffer)
  BY <1>2 DEF WindowOf
<1>5. request \in Request
  BY <1>1, RequestTypes
<1>6. OutcomeInv
  <2>1. \A k \in DOMAIN << >> : FALSE
    OBVIOUS
  <2>2. HandlersSeeTheirBytes
    BY <1>1, <2>1 DEF HandlersSeeTheirBytes, SeesItsBytes
  <2> QED  BY <1>1, <2>2 DEF OutcomeInv, EofOnlyAtEnd, ReadsFit, OnlyLongRefused
<1> QED
  BY <1>3, <1>4, <1>5, <1>6 DEF IInv
------------------------------------------------------------------------------
\* The steps that read nothing: the buffer is at most shifted.
LEMMA AskingKeepsBuffer ==
  ASSUME MemcpyAscends, IInv, ReadAgain \/ ReadEnd \/ ReadFails \/ Refuse
  PROVE  IInv'
<1>0. Buffering /\ Running
  BY DEF ReadAgain, ReadEnd, ReadFails, Refuse, Buffering
<1>1. /\ buffer' \in RoomFor(request.length)
      /\ UNCHANGED <<request, fed, eaten, last>>
  BY DEF ReadAgain, ReadEnd, ReadFails, Refuse, Asking
<1>2. /\ buffer' \in Buffer /\ Have(buffer') = Have(buffer) /\ buffer'.filled <= Capacity
      /\ buffer'.filled \in Nat /\ buffer'.at \in Nat /\ buffer'.at <= buffer'.filled
      /\ WindowOf(buffer')
  BY <1>0, <1>1, RoomKeepsWindow
<1>3. CountersInv'
  BY <1>0, <1>1, <1>2, CounterFacts, SizeFacts DEF CountersInv, Buffer, Have
<1>4. WindowOf(buffer)' /\ request' \in Request
  BY <1>1, <1>2 DEF WindowOf, IInv
<1>5. EofOnlyAtEnd' /\ eof' \in BOOLEAN
  <2>1. CASE ReadEnd
    <3>1. PICK b \in Asking : /\ fed = StreamLen \/ Need(b, request.length) = 0
                              /\ buffer' = b
      BY <2>1 DEF ReadEnd
    <3>2. ASSUME Need(b, request.length) = 0
          PROVE  Exceeds(b, request.length) /\ 2 * Have(b) = Capacity /\ Have(b) > 0
      <4>1. Exceeds(b, request.length) /\ Have(b) \in Nat
        BY <1>0, <1>2, <3>1, <3>2, NeedOf, CounterFacts
      <4>2. CASE 2 * Have(b) <= Capacity
        <5>1. Capacity - 2 * Have(b) = 0
          BY <1>0, <3>2, <4>1, <4>2, NeedOf
        <5> QED  BY <4>1, <5>1, SizeFacts
      <4>3. CASE 2 * Have(b) > Capacity
        <5>1. /\ b.filled = Have(b) /\ Have(b) <= Capacity
              /\ Need(b, request.length) = ((Capacity - b.filled) - Have(b)) % Word
          <6>1. /\ b.filled + request.length > Capacity => b.at = 0
                /\ Have(b) = b.filled - b.at /\ b.filled \in Nat /\ b.at \in Nat
                /\ b.filled <= Capacity
            BY <1>0, <1>1, <1>2, <3>1, RoomKeepsWindow DEF Have
          <6>2. Have(b) + request.length > Capacity
            BY <4>1 DEF Exceeds
          <6> QED
            BY <1>0, <4>1, <6>1, <6>2, CounterFacts, SizeFacts DEF Need
        <5>2. ((Capacity - b.filled) - Have(b)) % Word = ((Capacity - b.filled) - Have(b)) + Word
          <6>1. /\ (Capacity - b.filled) - Have(b) \in Int /\ (Capacity - b.filled) - Have(b) < 0
                /\ 0 - Word <= (Capacity - b.filled) - Have(b)
            BY <4>1, <4>3, <5>1, SizeFacts
          <6> QED  BY <6>1, NegativeModulo
        <5> QED  BY <3>2, <4>1, <5>1, <5>2, SizeFacts
      <4> QED  BY <4>1, <4>2, <4>3, SizeFacts
    <3> QED
      BY <1>1, <2>1, <3>1, <3>2 DEF ReadEnd, EofOnlyAtEnd, Capped
  <2>2. CASE ~ ReadEnd
    <3>1. ReadAgain \/ ReadFails \/ Refuse
      BY <2>2
    <3>2. eof' = eof /\ ~ eof
      BY <1>0, <3>1 DEF ReadAgain, ReadFails, Refuse, Running
    <3> QED  BY <3>2 DEF EofOnlyAtEnd, IInv, OutcomeInv
  <2> QED  BY <2>1, <2>2
<1>6. OnlyLongRefused'
  <2>1. CASE Refuse
    <3>1. FailShort /\ \E b \in RoomFor(request.length) : Exceeds(b, request.length)
      BY <2>1 DEF Refuse, Asking
    <3>2. Have(buffer) + request.length > Capacity /\ Have(buffer) < request.length
      BY <1>0, <3>1, RoomKeepsWindow DEF Exceeds, Buffering
    <3>3. 2 * request.length > Capacity
      BY <1>0, <3>2, CounterFacts, SizeFacts
    <3> QED  BY <1>1, <3>3 DEF OnlyLongRefused
  <2>2. CASE ~ Refuse
    BY <1>0, <2>2 DEF ReadAgain, ReadEnd, ReadFails, OnlyLongRefused, Running
  <2> QED  BY <2>1, <2>2
<1>7. ReadsFit'
  BY <1>0 DEF ReadAgain, ReadEnd, ReadFails, Refuse, ReadsFit, Running
<1>8. HandlersSeeTheirBytes'
  BY <1>1 DEF IInv, OutcomeInv, HandlersSeeTheirBytes, SeesItsBytes
<1> QED
  BY <1>3, <1>4, <1>5, <1>6, <1>7, <1>8 DEF IInv, OutcomeInv

\* Reading more than fits only happens where a request is capped.
LEMMA OverrunKeepsBuffer ==
  ASSUME MemcpyAscends, IInv, Overrun
  PROVE  IInv'
<1>0. Buffering /\ Running
  BY DEF Overrun, Buffering
<1>1. PICK b \in Asking, n \in 1 .. StreamLen - fed :
        /\ n <= Need(b, request.length) /\ n \notin Fitting(b)
        /\ buffer' = b /\ fed' = fed + n
  BY DEF Overrun
<1>2. err' = "overrun" /\ UNCHANGED <<request, eaten, last, eof>> /\ eof = FALSE
  BY <1>0 DEF Overrun, Running
<1>3. /\ b \in Buffer /\ Have(b) = Have(buffer) /\ b.filled <= Capacity
      /\ b.filled \in Nat /\ b.at \in Nat /\ b.at <= b.filled /\ WindowOf(b)
  BY <1>0, RoomKeepsWindow DEF Asking
<1>4. n \in Nat \ {0} /\ fed' \in 0 .. StreamLen
  <2>1. fed \in Nat /\ StreamLen \in Nat
    BY <1>0, CounterFacts, SizeFacts
  <2> QED  BY <1>1, <2>1
<1>5. b.filled + n > Capacity
  <2>1. Need(b, request.length) \in Int /\ Capacity - b.filled \in Int
    BY <1>0, <1>3, NeedOf, SizeFacts
  <2>2. LesserOf(Need(b, request.length), Capacity - b.filled)
          \in {Need(b, request.length), Capacity - b.filled}
    BY <2>1, LesserFacts
  <2>3. ~ (n <= LesserOf(Need(b, request.length), Capacity - b.filled))
    <3>1. LesserOf(Need(b, request.length), Capacity - b.filled) \in Int
      BY <2>1, <2>2
    <3> QED  BY <1>1, <1>4, <3>1 DEF Fitting
  <2> QED  BY <1>1, <1>3, <1>4, <2>1, <2>2, <2>3, SizeFacts
<1>6. Exceeds(b, request.length) /\ 2 * Have(b) > Capacity
  <2>1. Need(b, request.length) \in Nat /\ Have(b) \in Nat
    BY <1>0, <1>3, NeedOf, CounterFacts
  <2>2. b.filled + Need(b, request.length) > Capacity
    BY <1>1, <1>3, <1>4, <1>5, <2>1, SizeFacts
  <2>3. Exceeds(b, request.length)
    BY <1>0, <1>3, <2>1, <2>2, NeedOf, SizeFacts
  <2>4. ~ (2 * Have(b) <= Capacity)
    BY <1>0, <1>3, <2>1, <2>2, <2>3, NeedOf, SizeFacts
  <2> QED  BY <2>1, <2>3, <2>4, SizeFacts
<1>7. CountersInv'
  BY <1>0, <1>1, <1>2, <1>3, <1>4, CounterFacts DEF CountersInv
<1>8. WindowOf(buffer)' /\ request' \in Request
  BY <1>1, <1>2, <1>3 DEF WindowOf, IInv
<1>9. ReadsFit'
  <2>1. Have(b) > 0
    BY <1>0, <1>3, <1>6, CounterFacts, SizeFacts
  <2> QED  BY <1>1, <1>2, <1>6, <2>1 DEF ReadsFit, Capped
<1>10. OutcomeInv'
  BY <1>2, <1>9 DEF IInv, OutcomeInv, EofOnlyAtEnd, OnlyLongRefused, HandlersSeeTheirBytes,
                    SeesItsBytes
<1> QED
  BY <1>7, <1>8, <1>10 DEF IInv

\* A part of a field.
LEMMA ReadShortKeepsBuffer ==
  ASSUME MemcpyAscends, IInv, ReadShort
  PROVE  IInv'
<1>0. Buffering /\ Running
  BY DEF ReadShort, Buffering
<1>1. PICK b \in Asking, n \in 1 .. StreamLen - fed :
        /\ n \in Fitting(b) /\ buffer' = Filled(b, n) /\ fed' = fed + n
  BY DEF ReadShort
<1>2. UNCHANGED <<request, eaten, last, eof, err>> /\ eof = FALSE /\ err = "none"
  BY <1>0 DEF ReadShort, Running
<1>3. /\ b.filled \in Nat /\ b.at \in Nat /\ b.at <= b.filled
  BY <1>0, RoomKeepsWindow DEF Asking
<1>4. n \in Nat /\ b.filled + n <= Capacity
  BY <1>0, <1>1, FittingFits
<1>5. /\ buffer' \in Buffer /\ buffer'.filled = b.filled + n /\ buffer'.at = b.at
      /\ buffer'.filled <= Capacity /\ Have(buffer') = Have(buffer) + n /\ WindowOf(buffer')
  BY <1>0, <1>1, <1>4, FillingKeepsWindow
<1>6. fed' \in 0 .. StreamLen /\ eaten + Have(buffer') = fed'
  <2>1. fed \in Nat /\ StreamLen \in Nat
    BY <1>0, CounterFacts, SizeFacts
  <2> QED  BY <1>0, <1>1, <1>4, <1>5, <2>1, CounterFacts
<1>7. CountersInv'
  BY <1>0, <1>2, <1>3, <1>4, <1>5, <1>6, CounterFacts DEF CountersInv, Have
<1>8. WindowOf(buffer)' /\ request' \in Request
  BY <1>2, <1>5 DEF WindowOf, IInv
<1>9. OutcomeInv'
  BY <1>2 DEF IInv, OutcomeInv, HandlersSeeTheirBytes, SeesItsBytes, EofOnlyAtEnd, ReadsFit,
              OnlyLongRefused
<1> QED
  BY <1>7, <1>8, <1>9 DEF IInv

\* A list that cannot hold a name is refused with everything as it is.
LEMMA BadListKeepsBuffer ==
  ASSUME IInv, BadList
  PROVE  IInv'
<1>1. /\ err' = "bad snapshot list size" /\ Running
      /\ UNCHANGED <<buffer, request, fed, eaten, last, eof>>
  BY DEF BadList
<1>2. CountersInv' /\ WindowOf(buffer)' /\ request' \in Request
  BY <1>1 DEF IInv, CountersInv, WindowOf, Running, Have
<1>3. OutcomeInv'
  BY <1>1 DEF IInv, OutcomeInv, HandlersSeeTheirBytes, SeesItsBytes, EofOnlyAtEnd, ReadsFit,
              OnlyLongRefused, Running
<1> QED
  BY <1>2, <1>3 DEF IInv

\* The handlers that take a whole field.
LEMMA FieldKeepsBuffer ==
  ASSUME MemcpyAscends, IInv, HandleField \/ getFileEnd
  PROVE  IInv'
<1>1. Running /\ FailShort
  BY DEF HandleField, getFileEnd, FailShort
<1>2. PICK read \in 0 .. StreamLen - fed : \E b \in Got(read), r \in NewRequest :
        \E p \in {b.at, buffer.at} :
          /\ Handled(b, read, p, request.length, r)
          /\ (request.kind = "file_end" \/ p = b.at)
  BY DEF HandleField, getFileEnd
<1>3. PICK b \in Got(read), r \in NewRequest :
        \E p \in {b.at, buffer.at} :
          /\ Handled(b, read, p, request.length, r)
          /\ (request.kind = "file_end" \/ p = b.at)
  BY <1>2
<1>4. PICK p \in {b.at, buffer.at} :
        /\ Handled(b, read, p, request.length, r)
        /\ (request.kind = "file_end" \/ p = b.at)
  BY <1>3
<1>5. request.length <= Have(b) /\ request.length \in Nat
  BY <1>1, GotIsNext, CounterFacts
<1>6. r \in Request
  BY RequestTypes
<1> QED
  BY <1>1, <1>4, <1>5, <1>6, HandlingKeepsBuffer

\* Data written from the buffer.
LEMMA readExtentKeepsBuffer ==
  ASSUME MemcpyAscends, IInv, readExtent
  PROVE  IInv'
<1>1. Running /\ request.kind # "file_end"
  BY DEF readExtent
<1>2. PICK read \in 0 .. StreamLen - fed : \E b \in Got(read) :
        \E put \in 0 .. LesserOf(Have(b), request.length) : \E r \in Rest(put) :
           Handled(b, read, b.at, put, r)
  BY DEF readExtent
<1>3. PICK b \in Got(read) :
        \E put \in 0 .. LesserOf(Have(b), request.length) : \E r \in Rest(put) :
           Handled(b, read, b.at, put, r)
  BY <1>2
<1>4. PICK put \in 0 .. LesserOf(Have(b), request.length) : \E r \in Rest(put) :
           Handled(b, read, b.at, put, r)
  BY <1>3
<1>5. put \in Nat /\ put <= Have(b) /\ put <= request.length
  <2>1. Have(b) \in Int /\ request.length \in Int
    BY <1>1, GotIsNext, CounterFacts
  <2> DEFINE m == LesserOf(Have(b), request.length)
  <2>2. m \in Int /\ m <= Have(b) /\ m <= request.length
    BY <2>1, LesserFacts
  <2>3. put \in 0 .. m
    OBVIOUS
  <2> HIDE DEF m
  <2> QED  BY <2>1, <2>2, <2>3
<1>6. PICK r \in Rest(put) : Handled(b, read, b.at, put, r)
  BY <1>4
<1>7. r \in Request
  BY <1>5, <1>6, RequestTypes
<1> QED
  BY <1>1, <1>5, <1>6, <1>7, HandlingKeepsBuffer

\* Data that goes past the buffer, once what is in it was written.
LEMMA SendKeepsBuffer ==
  ASSUME IInv, SendExtent
  PROVE  IInv'
<1>1. Running /\ request.kind = "send" /\ UNCHANGED <<eof, err>>
  BY DEF SendExtent
<1>2. PICK put \in 0 .. LesserOf(Have(buffer), request.length) :
        \E sent \in 0 .. LesserOf(request.length - put, StreamLen - fed) :
           /\ sent > 0 => put = Have(buffer)
           /\ last' = [kind |-> "send", from |-> eaten,
                       bytes |-> [k \in 0 .. put - 1 |-> Byte(buffer, buffer.at + k)]]
           /\ buffer' = [buffer EXCEPT !.at = @ + put]
           /\ fed' = fed + sent
           /\ eaten' = eaten + put + sent
           /\ request' \in Rest(put + sent)
  BY DEF SendExtent
<1>3. PICK sent \in 0 .. LesserOf(request.length - put, StreamLen - fed) :
           /\ sent > 0 => put = Have(buffer)
           /\ last' = [kind |-> "send", from |-> eaten,
                       bytes |-> [k \in 0 .. put - 1 |-> Byte(buffer, buffer.at + k)]]
           /\ buffer' = [buffer EXCEPT !.at = @ + put]
           /\ fed' = fed + sent
           /\ eaten' = eaten + put + sent
           /\ request' \in Rest(put + sent)
  BY <1>2
<1>4. /\ buffer \in Buffer /\ buffer.filled \in Nat /\ buffer.at \in Nat
      /\ Have(buffer) \in Nat /\ Have(buffer) = buffer.filled - buffer.at
      /\ fed \in Nat /\ fed <= StreamLen /\ eaten \in Nat /\ eaten + Have(buffer) = fed
      /\ buffer.filled <= Capacity /\ request.length \in Nat /\ StreamLen \in Nat
  BY <1>1, CounterFacts, SizeFacts
<1>5. put \in Nat /\ put <= Have(buffer) /\ put <= request.length
  <2> DEFINE m == LesserOf(Have(buffer), request.length)
  <2>1. m \in Int /\ m <= Have(buffer) /\ m <= request.length
    BY <1>4, LesserFacts
  <2>2. put \in 0 .. m
    OBVIOUS
  <2> HIDE DEF m
  <2> QED  BY <1>4, <2>1, <2>2
<1>6. sent \in Nat /\ put + sent <= request.length /\ fed + sent <= StreamLen
  <2> DEFINE m == LesserOf(request.length - put, StreamLen - fed)
  <2>1. m \in Int /\ m <= request.length - put /\ m <= StreamLen - fed
    BY <1>4, <1>5, LesserFacts
  <2>2. sent \in 0 .. m
    OBVIOUS
  <2> HIDE DEF m
  <2> QED  BY <1>4, <1>5, <2>1, <2>2
<1>7a. buffer' = [buffer EXCEPT !.at = @ + put] /\ fed' = fed + sent /\ eaten' = eaten + put + sent
  BY <1>3
<1>7. /\ buffer' \in Buffer /\ buffer'.filled = buffer.filled
      /\ buffer'.at = buffer.at + put /\ buffer'.data = buffer.data
  BY <1>4, <1>5, <1>7a DEF Buffer
<1>8. Have(buffer)' = Have(buffer) - put
  BY <1>4, <1>5, <1>7 DEF Have
<1>9. CountersInv'
  <2>1. fed' \in 0 .. StreamLen /\ eaten' \in Nat
    BY <1>4, <1>5, <1>6, <1>7a
  <2>2. eaten' + (Have(buffer) - put) = fed'
    BY <1>4, <1>5, <1>6, <1>7a
  <2>3. buffer'.at <= buffer'.filled
    BY <1>4, <1>5, <1>7
  <2> QED  BY <1>4, <1>7, <1>8, <2>1, <2>2, <2>3 DEF CountersInv
<1>10. WindowOf(buffer)'
  <2> SUFFICES ASSUME NEW i \in buffer.at + put .. buffer.filled - 1
               PROVE  buffer.data[i] = eaten' + (i - (buffer.at + put))
    BY <1>7 DEF WindowOf
  <2>1. sent = 0
    <3>1. put # Have(buffer)
      BY <1>4, <1>5
    <3> QED  BY <1>3, <1>6, <3>1
  <2>2. i \in buffer.at .. buffer.filled - 1 /\ i \in Nat
    BY <1>4, <1>5
  <2>3. buffer.data[i] = eaten + (i - buffer.at)
    BY <2>2 DEF IInv, WindowOf
  <2> QED  BY <1>4, <1>5, <1>7a, <2>1, <2>2, <2>3
<1>11. request' \in Request
  BY <1>3, <1>5, <1>6, RequestTypes
<1>12. SeesItsBytes'
  <2>1. ASSUME NEW k \in 0 .. put - 1
        PROVE  Byte(buffer, buffer.at + k) = eaten + k
    <3>0. k \in Nat /\ k < put
      BY <1>5
    <3>1. /\ buffer.at + k \in buffer.at .. buffer.filled - 1 /\ buffer.at + k \in Cells
          /\ k \in Nat
      <4>1. buffer.at <= buffer.at + k /\ buffer.at + k <= buffer.filled - 1 /\ buffer.at + k \in Nat
        BY <1>4, <1>5, <3>0
      <4> QED  BY <1>4, <3>0, <4>1, SizeFacts
    <3>2. buffer.data[buffer.at + k] = eaten + ((buffer.at + k) - buffer.at)
      BY <3>1 DEF IInv, WindowOf
    <3> QED  BY <1>4, <3>1, <3>2 DEF Byte
  <2> QED  BY <1>3, <2>1 DEF SeesItsBytes
<1>13. OutcomeInv'
  BY <1>1, <1>12 DEF IInv, OutcomeInv, HandlersSeeTheirBytes, EofOnlyAtEnd, ReadsFit,
                     OnlyLongRefused, Running
<1> QED
  BY <1>9, <1>10, <1>11, <1>13 DEF IInv

\* An entry of a snapshot list, or not yet all of one.
LEMMA readSnapshotListKeepsBuffer ==
  ASSUME MemcpyAscends, IInv, readSnapshotList
  PROVE  IInv'
<1>1. Running /\ request.kind # "file_end"
  BY DEF readSnapshotList, IsList
<1>2. PICK read \in 0 .. StreamLen - fed : \E b \in Got(read) :
         \/ Taken(b) > 0 /\ \E r \in Rest(Taken(b)) : Handled(b, read, b.at, Taken(b), r)
         \/ /\ buffer' = b /\ fed' = fed + read
            /\ err' \in {"file list entry name too long", err}
            /\ UNCHANGED <<request, eaten, last, eof>>
  BY DEF readSnapshotList
<1>3. PICK b \in Got(read) :
         \/ Taken(b) > 0 /\ \E r \in Rest(Taken(b)) : Handled(b, read, b.at, Taken(b), r)
         \/ /\ buffer' = b /\ fed' = fed + read
            /\ err' \in {"file list entry name too long", err}
            /\ UNCHANGED <<request, eaten, last, eof>>
  BY <1>2
<1>4. /\ b \in Buffer /\ b.filled \in Nat /\ b.at \in Nat /\ b.at <= b.filled
      /\ b.filled <= Capacity /\ Have(b) = b.filled - b.at /\ Have(b) \in Nat
      /\ WindowOf(b) /\ eaten + Have(b) = fed + read /\ read \in Nat
      /\ fed + read <= StreamLen
  BY <1>1, GotIsNext
<1>5. CASE Taken(b) > 0 /\ \E r \in Rest(Taken(b)) : Handled(b, read, b.at, Taken(b), r)
  <2>1. Taken(b) \in Nat /\ Taken(b) <= Have(b) /\ Taken(b) <= request.length
    <3> DEFINE got == LesserOf(Have(b), request.length)
    <3>1. got \in Nat /\ got <= Have(b) /\ got <= request.length
      BY <1>1, <1>4, CounterFacts, LesserFacts
    <3>2. request.entry \in Nat
      BY SizesAreNumbers DEF IInv, Request
    <3>3. Taken(b) \in {0, got} \/ (Taken(b) = request.entry /\ request.entry <= got)
      BY DEF Taken
    <3> HIDE DEF got
    <3> QED  BY <1>1, <1>4, <3>1, <3>2, <3>3, CounterFacts
  <2>2. PICK r \in Rest(Taken(b)) : Handled(b, read, b.at, Taken(b), r)
    BY <1>5
  <2>3. r \in Request
    BY <2>1, <2>2, RequestTypes
  <2> QED  BY <1>1, <2>1, <2>2, <2>3, HandlingKeepsBuffer
<1>6. CASE /\ buffer' = b /\ fed' = fed + read
           /\ err' \in {"file list entry name too long", err}
           /\ UNCHANGED <<request, eaten, last, eof>>
  <2>1. fed + read \in 0 .. StreamLen
    <3>1. fed \in Nat /\ StreamLen \in Nat
      BY <1>1, CounterFacts, SizeFacts
    <3> QED  BY <1>4, <3>1
  <2>2. CountersInv'
    BY <1>1, <1>4, <1>6, <2>1, CounterFacts DEF CountersInv, Have
  <2>3. WindowOf(buffer)' /\ request' \in Request
    BY <1>4, <1>6 DEF WindowOf, IInv
  <2>4. OutcomeInv'
    BY <1>1, <1>6 DEF IInv, OutcomeInv, HandlersSeeTheirBytes, SeesItsBytes, EofOnlyAtEnd,
                      ReadsFit, OnlyLongRefused, Running
  <2> QED  BY <2>2, <2>3, <2>4 DEF IInv
<1> QED
  BY <1>3, <1>5, <1>6

\* No step of the reader leaves the invariant.
LEMMA NextKeepsBuffer == MemcpyAscends /\ IInv /\ [Next]_vars => IInv'
<1> SUFFICES ASSUME MemcpyAscends, IInv, [Next]_vars
             PROVE  IInv'
  OBVIOUS
<1>1. CASE ReadAgain \/ ReadEnd \/ ReadFails \/ Refuse
  BY <1>1, AskingKeepsBuffer
<1>2. CASE Overrun
  BY <1>2, OverrunKeepsBuffer
<1>3. CASE ReadShort
  BY <1>3, ReadShortKeepsBuffer
<1>4. CASE BadList
  BY <1>4, BadListKeepsBuffer
<1>5. CASE HandleField \/ getFileEnd
  BY <1>5, FieldKeepsBuffer
<1>6. CASE readExtent
  BY <1>6, readExtentKeepsBuffer
<1>7. CASE SendExtent
  BY <1>7, SendKeepsBuffer
<1>8. CASE readSnapshotList
  BY <1>8, readSnapshotListKeepsBuffer
<1>9. CASE UNCHANGED vars
  BY <1>9 DEF vars, IInv, CountersInv, WindowOf, OutcomeInv, HandlersSeeTheirBytes, SeesItsBytes,
              EofOnlyAtEnd, ReadsFit, OnlyLongRefused, Capped, Exceeds, Have
<1> QED
  BY <1>1, <1>2, <1>3, <1>4, <1>5, <1>6, <1>7, <1>8, <1>9 DEF Next, Handle
------------------------------------------------------------------------------
\* What is buffered is always the stream's next bytes, in a buffer of any size and
\* for packets of any length.
THEOREM BufferInvariant == MemcpyAscends => (Spec => []IInv)
<1> SUFFICES ASSUME MemcpyAscends PROVE Spec => []IInv
  OBVIOUS
<1>1. Init => IInv
  BY InitBuffer
<1>2. IInv /\ [Next]_vars => IInv'
  BY NextKeepsBuffer
<1> QED
  BY <1>1, <1>2, PTL DEF Spec

\* The read callback is asked for more than fits only where a request is capped
\* with more than half of the buffer full (lib/fies_reader.c:139-155).
THEOREM ReadsAlwaysFit == MemcpyAscends => (Spec => []ReadsFit)
<1> SUFFICES ASSUME MemcpyAscends PROVE Spec => []ReadsFit
  OBVIOUS
<1>1. IInv => ReadsFit
  BY DEF IInv, OutcomeInv
<1> QED
  BY <1>1, BufferInvariant, PTL

\* Every handler but FiesReader_getFileEnd works on the next bytes of the stream,
\* whatever was shifted, read in part or written in part before.
THEOREM HandlersAlwaysSeeTheirBytes == MemcpyAscends => (Spec => []HandlersSeeTheirBytes)
<1> SUFFICES ASSUME MemcpyAscends PROVE Spec => []HandlersSeeTheirBytes
  OBVIOUS
<1>1. IInv => HandlersSeeTheirBytes
  BY DEF IInv, OutcomeInv
<1> QED
  BY <1>1, BufferInvariant, PTL

\* The reader takes a stream to be over only at its end, or where a request is
\* capped with half of the buffer full; and it refuses only a field that is longer
\* than half of the buffer.
THEOREM EndAndRefusalAreRight ==
  MemcpyAscends => (Spec => [](EofOnlyAtEnd /\ OnlyLongRefused))
<1> SUFFICES ASSUME MemcpyAscends PROVE Spec => [](EofOnlyAtEnd /\ OnlyLongRefused)
  OBVIOUS
<1>1. IInv => EofOnlyAtEnd /\ OnlyLongRefused
  BY DEF IInv, OutcomeInv
<1> QED
  BY <1>1, BufferInvariant, PTL
==============================================================================
