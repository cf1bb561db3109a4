---------------------------- MODULE ReaderBuffer -----------------------------
(***************************************************************************)
(* The input buffer of lib/fies_reader.c and the three ways its handlers   *)
(* use it: whole fields (bufferAtLeast, then eat), the data of an extent   *)
(* (readExtent) and the entries of a snapshot list (readSnapshotList).     *)
(*                                                                         *)
(* A byte of the stream is its position in it, so that the buffer shows    *)
(* where its bytes came from.  One action is one FiesReader_iterate of a   *)
(* handler, from its bufferSome to its eat.  The packets are any sequence  *)
(* of requests; StreamLen bounds the stream.  A reader that was made to     *)
(* write behind its buffer does nothing defined any more and ends.         *)
(***************************************************************************)
EXTENDS Integers, FiniteSets

CONSTANTS Capacity,    \* of the buffer: 128 KiB in the code
          Word,        \* one more than the largest size_t
          StreamLen,   \* bound: bytes of the stream
          FieldSizes,  \* lengths of the fields handlers ask for as a whole
          FileEndSize, \* one of them: the body of a FILE_END packet
          DataSizes,   \* lengths of extents
          ListSizes,   \* lengths of snapshot lists
          EntrySizes,  \* lengths of their entries
          EntryHeader, \* sizeof(struct fies_snapshot_entry): 2 in the code
          MemcpyOrders, \* the orders in which memcpy may copy: "up", "down"
          NoByte       \* what a cell holds that nothing was read into

ASSUME SizesAreNumbers ==
    /\ Capacity \in Nat \ {0} /\ Word \in Nat /\ Capacity < Word
    /\ StreamLen \in Nat
    /\ FieldSizes \cup DataSizes \cup ListSizes \cup EntrySizes \subseteq Nat \ {0}
    /\ FileEndSize \in FieldSizes
    /\ EntryHeader \in 1 .. Capacity
    /\ MemcpyOrders \subseteq {"up", "down"}
ASSUME NoByteIsNoByte == NoByte \notin Nat

VARIABLES buffer,   \* self->buffer: its cells, "filled" and "at"
          request,  \* what the handler the reader is in asks for
          fed,      \* bytes the read callback has given so far
          eaten,    \* bytes the handlers have taken so far
          last,     \* the bytes the last handler worked on, and where they begin
          eof, err  \* self->eof, and the error thrown

vars == <<buffer, request, fed, eaten, last, eof, err>>

Cells    == 0 .. Capacity - 1
Have(b)  == b.filled - b.at                 \* FiesReader_filled
Byte(b, i) == IF i \in Cells THEN b.data[i] ELSE NoByte

\* What a packet can make a handler ask for.  The data of an extent are taken
\* from the buffer ("data"), by the send callback ("send"), or by the one after
\* the other has said that it cannot ("refused"); a list is read or, if there is
\* no callback for it, passed over ("skip").  "entry" is the size the next entry
\* of a list says it has.
Kinds == {"field", "file_end", "data", "send", "refused", "list", "skip"}

Request == [kind : Kinds, length : Nat \ {0}, entry : {0} \cup EntrySizes]

NewRequest ==
    [kind : {"field"}, length : FieldSizes, entry : {0}]
      \cup [kind : {"file_end"}, length : {FileEndSize}, entry : {0}]
      \cup [kind : {"data", "send", "refused"}, length : DataSizes, entry : {0}]
      \cup [kind : {"skip"}, length : ListSizes, entry : {0}]
      \cup [kind : {"list"}, length : ListSizes, entry : EntrySizes]

Init ==
    /\ buffer = [data |-> [i \in Cells |-> NoByte], filled |-> 0, at |-> 0]
    /\ request \in NewRequest
    /\ fed = 0 /\ eaten = 0
    /\ last = [kind |-> "none", from |-> 0, bytes |-> <<>>]
    /\ eof = FALSE /\ err = "none"
------------------------------------------------------------------------------
\* The cells after memcpy(data, data + at, filled), whose regions may overlap: C
\* leaves open what happens then.  In ascending order the right bytes get there;
\* in descending order a cell is overwritten before it is read.
Copied(b) ==
    LET n == Have(b)
        up == [i \in Cells |-> IF i < n THEN b.data[b.at + i] ELSE b.data[i]]
        down == [i \in Cells |->
                   IF i < n THEN b.data[i + b.at * ((n - i + b.at - 1) \div b.at)]
                   ELSE b.data[i]]
    IN  IF b.at >= n THEN {up}
        ELSE {IF order = "up" THEN up ELSE down : order \in MemcpyOrders}

\* Slip: the bytes are not moved.
ShiftedWithoutCopy(b) ==
    IF b.at = 0 THEN {b} ELSE {[data |-> b.data, filled |-> Have(b), at |-> 0]}

\* The buffers FiesReader_shiftBuffer can leave.
Shifted(b) ==
    IF b.at = 0 THEN {b}
    ELSE {[data |-> d, filled |-> Have(b), at |-> 0] : d \in Copied(b)}

\* Slip: the buffer is never shifted.
NeverRoom(len) == {buffer}

\* The buffers bufferSome reads len bytes into: shifted if they seem not to fit.
RoomFor(len) == IF buffer.filled + len > Capacity THEN Shifted(buffer) ELSE {buffer}

\* Whether bufferSome takes len bytes to exceed the buffer (line 142 counts the
\* buffered ones twice).
Exceeds(b, len) == Have(b) + len > Capacity

\* How much bufferSome then reads, computed in size_t.
Need(b, len) == ((IF Exceeds(b, len) THEN Capacity - b.filled ELSE len) - Have(b)) % Word

\* The buffer after n bytes were read into it.
Filled(b, n) ==
    [data |-> [i \in Cells |-> IF i \in b.filled .. b.filled + n - 1
                               THEN fed + (i - b.filled) ELSE b.data[i]],
     filled |-> b.filled + n, at |-> b.at]

Running == ~ eof /\ err = "none"
FailShort == request.kind \in {"field", "file_end"}
IsList == request.kind \in {"list", "skip"}

\* readSnapshotList refuses a rest that has no room for a name.
BadRest == IsList /\ request.length <= EntryHeader

\* Whether the handler has bufferSome read: not what the send callback takes, nor
\* before what is buffered was written where it has refused.
Buffering ==
    /\ Running /\ ~ BadRest
    /\ Have(buffer) < request.length
    /\ request.kind # "send"
    /\ request.kind = "refused" => Have(buffer) = 0

\* The buffers bufferSome may call the read callback with.
Asking == {b \in RoomFor(request.length) : FailShort => ~ Exceeds(b, request.length)}

LesserOf(m, n) == IF m < n THEN m ELSE n

\* The numbers of bytes the read callback can give for b without leaving it.
Fitting(b) == 1 .. LesserOf(Need(b, request.length), Capacity - b.filled)
------------------------------------------------------------------------------
\* The read callback has nothing now: -EAGAIN, and the iterate returns it.
ReadAgain ==
    /\ Buffering
    /\ buffer' \in Asking
    /\ UNCHANGED <<request, fed, eaten, last, eof, err>>

\* The read callback returns 0, at the end or because it is asked for nothing.
ReadEnd ==
    /\ Buffering
    /\ \E b \in Asking :
         /\ fed = StreamLen \/ Need(b, request.length) = 0
         /\ buffer' = b
    /\ eof' = TRUE
    /\ UNCHANGED <<request, fed, eaten, last, err>>

\* Any other error of the read callback is thrown.
ReadFails ==
    /\ Buffering
    /\ buffer' \in Asking
    /\ err' = "read error"
    /\ UNCHANGED <<request, fed, eaten, last, eof>>

\* A field that does not fit in the buffer is refused.
Refuse ==
    /\ Buffering /\ FailShort
    /\ buffer' \in RoomFor(request.length) \ Asking
    /\ err' = "exceeding maximum buffer capacity"
    /\ UNCHANGED <<request, fed, eaten, last, eof>>

\* The read callback gives what it was asked for, which is more than fits.
Overrun ==
    /\ Buffering
    /\ \E b \in Asking, n \in 1 .. StreamLen - fed :
         /\ n <= Need(b, request.length) /\ n \notin Fitting(b)
         /\ buffer' = b
         /\ fed' = fed + n
    /\ err' = "overrun"
    /\ UNCHANGED <<request, eaten, last, eof>>

\* A field is not there as a whole: the bytes stay buffered, -EAGAIN.
ReadShort ==
    /\ Buffering /\ FailShort
    /\ \E b \in Asking, n \in 1 .. StreamLen - fed :
         /\ n \in Fitting(b) /\ n < Need(b, request.length)
         /\ buffer' = Filled(b, n)
         /\ fed' = fed + n
    /\ UNCHANGED <<request, eaten, last, eof, err>>

\* What a handler may find in the buffer when its bufferSome has succeeded and
\* has read n bytes.
Got(n) ==
    IF Buffering
    THEN {Filled(b, n) : b \in {s \in Asking :
            n \in Fitting(s) /\ (FailShort => n = Need(s, request.length))}}
    ELSE {b \in {buffer} : n = 0}

\* Slip: nothing is eaten.
HandledNotEaten(b, read, p, n, r) ==
    /\ last' = [kind |-> request.kind, from |-> eaten,
                bytes |-> [k \in 0 .. n - 1 |-> Byte(b, p + k)]]
    /\ buffer' = b
    /\ fed' = fed + read
    /\ request' = r
    /\ UNCHANGED <<eaten, eof, err>>

\* The handler has read "read" bytes, works on the n bytes at p and eats them;
\* r is the reader's next request.
Handled(b, read, p, n, r) ==
    /\ last' = [kind |-> request.kind, from |-> eaten,
                bytes |-> [k \in 0 .. n - 1 |-> Byte(b, p + k)]]
    /\ buffer' = [b EXCEPT !.at = @ + n]
    /\ fed' = fed + read
    /\ eaten' = eaten + n
    /\ request' = r
    /\ UNCHANGED <<eof, err>>

\* A handler that looks at its field once it is buffered.
HandleField ==
    /\ Running /\ request.kind = "field"
    /\ \E read \in 0 .. StreamLen - fed : \E b \in Got(read), r \in NewRequest :
         Handled(b, read, b.at, request.length, r)

\* FiesReader_getFileEnd takes the pointer to its field before buffering it.
getFileEnd ==
    /\ Running /\ request.kind = "file_end"
    /\ \E read \in 0 .. StreamLen - fed : \E b \in Got(read), r \in NewRequest :
         Handled(b, read, buffer.at, request.length, r)

\* What a request is after n of its bytes were handled: the rest of it, with a
\* new entry in front if it is a list, or whatever comes next.
Rest(n) ==
    LET left == request.length - n IN
    IF left = 0 THEN NewRequest
    ELSE {[kind |-> request.kind, length |-> left, entry |-> e] :
             e \in IF request.kind = "list" THEN EntrySizes ELSE {0}}

\* FiesReader_readExtent from the buffer: pwrite takes some of what is there.
readExtent ==
    /\ Running /\ request.kind \in {"data", "refused"}
    /\ \E read \in 0 .. StreamLen - fed : \E b \in Got(read) :
         \E put \in 0 .. LesserOf(Have(b), request.length) : \E r \in Rest(put) :
            Handled(b, read, b.at, put, r)

\* FiesReader_readExtent with a send callback: what is buffered is written, and
\* once nothing is, the callback takes the data past the buffer.  It may take
\* none, for now or because the input is over.
SendExtent ==
    /\ Running /\ request.kind = "send"
    /\ \E put \in 0 .. LesserOf(Have(buffer), request.length) :
       \E sent \in 0 .. LesserOf(request.length - put, StreamLen - fed) :
         /\ sent > 0 => put = Have(buffer)
         /\ last' = [kind |-> "send", from |-> eaten,
                     bytes |-> [k \in 0 .. put - 1 |-> Byte(buffer, buffer.at + k)]]
         /\ buffer' = [buffer EXCEPT !.at = @ + put]
         /\ fed' = fed + sent
         /\ eaten' = eaten + put + sent
         /\ request' \in Rest(put + sent)
    /\ UNCHANGED <<eof, err>>

BadList ==
    /\ Running /\ BadRest
    /\ err' = "bad snapshot list size"
    /\ UNCHANGED <<buffer, request, fed, eaten, last, eof>>

\* How much of a list the reader takes from b: an entry as a whole, or, passing it
\* over, whatever is there of the list once it could be one.
Taken(b) ==
    LET got == LesserOf(Have(b), request.length) IN
    IF request.kind = "list" THEN IF request.entry <= got THEN request.entry ELSE 0
                             ELSE IF EntryHeader <= got THEN got ELSE 0

\* FiesReader_readSnapshotList: go on reading if nothing can be taken yet, unless
\* the buffer is full of one entry.
readSnapshotList ==
    /\ Running /\ IsList /\ ~ BadRest
    /\ \E read \in 0 .. StreamLen - fed : \E b \in Got(read) :
         \/ /\ Taken(b) > 0
            /\ \E r \in Rest(Taken(b)) : Handled(b, read, b.at, Taken(b), r)
         \/ /\ Taken(b) = 0
            /\ buffer' = b /\ fed' = fed + read
            /\ err' = IF request.kind = "list" /\ b.at = 0 /\ b.filled = Capacity
                      THEN "file list entry name too long" ELSE err
            /\ UNCHANGED <<request, eaten, last, eof>>
------------------------------------------------------------------------------
Handle == HandleField \/ getFileEnd \/ readExtent \/ SendExtent \/ readSnapshotList

Next == ReadAgain \/ ReadEnd \/ ReadFails \/ Refuse \/ Overrun \/ ReadShort \/ BadList \/ Handle

Spec == Init /\ [][Next]_vars

\* A caller that goes on after -EAGAIN, and a stream that goes on or ends.
FairSpec == Spec /\ SF_vars(ReadShort \/ ReadEnd \/ Refuse \/ Overrun \/ BadList \/ Handle)
------------------------------------------------------------------------------
\* The types of the variables.
TypeOK ==
    /\ buffer.data \in [Cells -> Nat \cup {NoByte}]
    /\ buffer.filled \in 0 .. Capacity /\ buffer.at \in 0 .. buffer.filled
    /\ request \in Request
    /\ fed \in 0 .. StreamLen /\ eaten \in 0 .. StreamLen
    /\ last.kind \in Kinds \cup {"none"}
    /\ eof \in BOOLEAN

\* A request that is capped with bytes in the buffer: what is asked for is then
\* too little by as much as is there.
Capped == Exceeds(buffer, request.length) /\ Have(buffer) > 0

\* What is asked of the read callback fits behind what is buffered, but where a
\* request is capped with more than half of the buffer full: there the sizes,
\* subtracted unsigned, wrap (lib/fies_reader.c:139-155).
ReadsFit == err = "overrun" => Capped /\ 2 * Have(buffer) > Capacity

\* What lib/fies_reader.c:139 and 143-144 say of it: the buffer is not exceeded,
\* and a longer request is capped with its size.
NothingOverruns == err # "overrun"

\* The bytes a handler works on are the next ones of the stream, whatever was
\* shifted, read in part or written in part before.
SeesItsBytes == \A k \in DOMAIN last.bytes : last.bytes[k] = last.from + k

HandlersSeeTheirBytes == last.kind # "file_end" => SeesItsBytes

\* The same of FiesReader_getFileEnd (lib/fies_reader.c:349-359): the file id it
\* looks up is the one in the packet.
FileEndSeesItsBytes == last.kind = "file_end" => SeesItsBytes

\* The reader takes a stream to be over only when it is, but where a request is
\* capped with half of the buffer full, and nothing is asked for.
EofOnlyAtEnd == eof => fed = StreamLen \/ (Capped /\ 2 * Have(buffer) = Capacity)

\* A field is refused only if twice of it could not be in the buffer.
OnlyLongRefused ==
    err = "exceeding maximum buffer capacity" => 2 * request.length > Capacity

\* The two things the reader does for ever: to call a send callback that has come
\* to the end of the input, and to look for the end of an entry that is longer
\* than what is left of its list.
SendsNothing == request.kind = "send" /\ Have(buffer) = 0 /\ fed = StreamLen
WaitsForEntry == request.kind = "list" /\ request.length < request.entry

\* A reader that is called again after every -EAGAIN gets to the end of the
\* stream or reports an error, but for these two.
ComesToAnEnd ==
    <>(eof \/ err # "none") \/ <>[]SendsNothing \/ <>[]WaitsForEntry
==============================================================================
