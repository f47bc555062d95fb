-------------------------------- MODULE TLV --------------------------------
(* TLV8 structures: HAPTLVWriter.c, HAPTLVReader.c and the formats of HAPTLV.c.  A byte is
   a number.  Values longer than FragmentBytes are cut into fragments.

   The reader finds TLVs in any order and turns each one into a contiguous value in place:
   it overwrites the headers of a TLV it has read with one of three types that the format
   does not use, so that the rest of the buffer can still be walked.  A reader is a record
   with its bytes and those three types. *)
EXTENDS Integers, Sequences, FiniteSets, SequencesExt

CONSTANT FragmentBytes      \* 255: UINT8_MAX

LOCAL Zeros(n) == [i \in 1..n |-> 0]

Piece(bytes, o, n) == SubSeq(bytes, o + 1, o + n)

-----------------------------------------------------------------------------
(* HAPTLVWriter.c *)

Writer(maxBytes) == [bytes |-> <<>>, maxBytes |-> maxBytes, failed |-> FALSE]

\* HAPTLVWriterAppend: fragments while something is left, and one for an empty value.
\* What does not fit any more is an error, behind the fragments written so far.
RECURSIVE WriterAppend(_, _, _)
WriterAppend(w, type, value) ==
    LET n == IF Len(value) > FragmentBytes THEN FragmentBytes ELSE Len(value)
        next == [w EXCEPT !.bytes = @ \o <<type, n>> \o SubSeq(value, 1, n)]
    IN IF w.maxBytes - Len(w.bytes) < 2 + Len(value) THEN [w EXCEPT !.failed = TRUE]
       ELSE IF n = Len(value) THEN next
       ELSE WriterAppend(next, type, SubSeq(value, n + 1, Len(value)))

\* Mutant: a value that fills its last fragment is closed by an empty one.
RECURSIVE WriterAppendClosed(_, _, _)
WriterAppendClosed(w, type, value) ==
    LET n == IF Len(value) > FragmentBytes THEN FragmentBytes ELSE Len(value)
        next == [w EXCEPT !.bytes = @ \o <<type, n>> \o SubSeq(value, 1, n)]
    IN IF w.maxBytes - Len(w.bytes) < 2 + Len(value) THEN [w EXCEPT !.failed = TRUE]
       ELSE IF n < FragmentBytes THEN next
       ELSE WriterAppendClosed(next, type, SubSeq(value, n + 1, Len(value)))

Append8(w, type, value) == WriterAppend(w, type, value)

-----------------------------------------------------------------------------
(* HAPTLVReader.c: one after the other *)

\* HAPTLVReaderGetNext on what begins at o: the value and the number of bytes it took, or
\* -1 bytes.  Only a full fragment is continued, and not by an empty one.
RECURSIVE GetNext(_, _, _)
GetNext(bytes, o, isFirst) ==
    LET n == bytes[o + 2]
        next == o + 2 + n
        rest == GetNext(bytes, next, FALSE)
        invalid == [numBytes |-> -1, value |-> <<>>]
    IN IF Len(bytes) - o < 2 THEN invalid
       ELSE IF Len(bytes) < next \/ (n = 0 /\ ~isFirst) THEN invalid
       ELSE IF next = Len(bytes) \/ bytes[next + 1] # bytes[o + 1]
       THEN [numBytes |-> 2 + n, value |-> Piece(bytes, o + 2, n)]
       ELSE IF n # FragmentBytes \/ rest.numBytes = -1 THEN invalid
       ELSE [numBytes |-> 2 + n + rest.numBytes, value |-> Piece(bytes, o + 2, n) \o rest.value]

\* HAPTLVReaderGetAll, as the sequence of all TLVs; <<>> followed by nothing for an error.
RECURSIVE GetAll(_, _)
GetAll(bytes, o) ==
    IF o = Len(bytes) THEN [ok |-> TRUE, tlvs |-> <<>>]
    ELSE LET tlv == GetNext(bytes, o, TRUE) IN
         IF tlv.numBytes = -1 THEN [ok |-> FALSE, tlvs |-> <<>>]
         ELSE LET rest == GetAll(bytes, o + tlv.numBytes)
              IN [ok |-> rest.ok, tlvs |-> <<[type |-> bytes[o + 1], value |-> tlv.value]>> \o rest.tlvs]

-----------------------------------------------------------------------------
(* HAPTLVReader.c: in any order *)

\* The bytes of a TLV that has not been read, or -1.
RECURSIVE NumFragmentedBytes(_, _)
NumFragmentedBytes(bytes, o) ==
    LET n == bytes[o + 2]
        next == o + 2 + n
        rest == NumFragmentedBytes(bytes, next)
    IN IF Len(bytes) - o < 2 THEN -1
       ELSE IF Len(bytes) < next THEN -1
       ELSE IF next = Len(bytes) \/ bytes[next + 1] # bytes[o + 1] THEN 2 + n
       ELSE IF n # FragmentBytes \/ rest = -1 THEN -1
       ELSE 2 + n + rest

\* The number of bytes from o to the first zero.
NumStringBytes(bytes, o) ==
    (CHOOSE i \in (o + 1)..Len(bytes) :
        bytes[i] = 0 /\ \A j \in (o + 1)..(i - 1) : bytes[j] # 0) - o - 1

\* A merged value: the number of fragments less two, in bytes of which only the last is
\* not full; the size of the last fragment; zeros; the value; a zero.
NumMergedBytes(bytes, o) ==
    LET count == CHOOSE i \in 1..Len(bytes) :
                    bytes[o + 1 + i] # FragmentBytes
                    /\ \A j \in 1..(i - 1) : bytes[o + 1 + j] = FragmentBytes
        numFragments == 2 + (count - 1) * FragmentBytes + bytes[o + 1 + count]
        last == bytes[o + 2 + count]
        numZeros == 2 * (numFragments - 2) - (count - 1)
    IN 1 + count + 1 + numZeros + (numFragments - 1) * FragmentBytes + last + 1

\* GetNextTLVInfo
NumTLVBytes(r, o) ==
    LET type == r.bytes[o + 1] IN
    IF r.enabled /\ type = r.single THEN 2 + r.bytes[o + 2]
    ELSE IF r.enabled /\ type = r.nullSingle THEN 1 + NumStringBytes(r.bytes, o + 1) + 1
    ELSE IF r.enabled /\ type = r.nullMulti THEN NumMergedBytes(r.bytes, o)
    ELSE NumFragmentedBytes(r.bytes, o)

\* The headers of ReadTLV.
RECURSIVE CountBytes(_)
CountBytes(n) == IF n >= FragmentBytes THEN <<FragmentBytes>> \o CountBytes(n - FragmentBytes)
                 ELSE <<n>>

Overwritten(bytes, o, piece) ==
    [i \in DOMAIN bytes |-> IF i \in (o + 1)..(o + Len(piece)) THEN piece[i - o] ELSE bytes[i]]

\* ReadTLV of the n bytes at o: the bytes after it, and where the value lies now.
ReadTLV(r, o, n, mayContainNull) ==
    LET full == 2 + FragmentBytes
        numFragments == (n + full - 1) \div full
        last == n - (numFragments - 1) * full - 2
        value == FlattenSeq([i \in 1..numFragments |->
                    Piece(r.bytes, (i - 1) * full + o + 2, IF i = numFragments THEN last ELSE FragmentBytes)])
        counts == CountBytes(numFragments - 2)
        merged == <<r.nullMulti>> \o counts \o <<last>>
                  \o Zeros(2 * (numFragments - 2) - (Len(counts) - 1))
                  \o value \o <<0>>
        at(start, bytes, failed) ==
            [bytes |-> bytes, type |-> r.bytes[o + 1], start |-> start, numBytes |-> Len(value), failed |-> failed]
    IN IF n > full THEN at(o + n - 1 - Len(value), Overwritten(r.bytes, o, merged), FALSE)
       ELSE IF mayContainNull THEN at(o + 2, Overwritten(r.bytes, o, <<r.single, last>>), FALSE)
       ELSE at(o + 1, Overwritten(r.bytes, o, <<r.nullSingle>> \o value \o <<0>>),
               \E i \in DOMAIN value : value[i] = 0)

\* FindTLVInfo: the offset of the first TLV of a type that has not been read, -1 when
\* there is none, -2 when the structure is broken before it.
RECURSIVE FindTLV(_, _, _)
FindTLV(r, type, o) ==
    IF o = Len(r.bytes) THEN -1
    ELSE LET n == NumTLVBytes(r, o) IN
         IF n = -1 THEN -2
         ELSE IF r.bytes[o + 1] = type THEN o
         ELSE FindTLV(r, type, o + n)

\* A walk over the buffer that reads the TLVs whose type is in types.
RECURSIVE Walk(_, _, _)
Walk(r, types, o) ==
    IF o = Len(r.bytes) THEN [ok |-> TRUE, reader |-> r]
    ELSE LET n == NumTLVBytes(r, o) IN
         IF n = -1 THEN [ok |-> FALSE, reader |-> r]
         ELSE Walk(IF r.bytes[o + 1] \in types THEN [r EXCEPT !.bytes = ReadTLV(r, o, n, TRUE).bytes] ELSE r,
                   types, o + n)

\* EnableNonSequentialAccess: TLVs of the three types are marked as read first.
EnableNonSequentialAccess(bytes, t1, t2, t3) ==
    LET walk == Walk([bytes |-> bytes, single |-> t1, nullSingle |-> t2, nullMulti |-> t3, enabled |-> FALSE],
                     {t1, t2, t3}, 0)
    IN [walk EXCEPT !.reader.enabled = TRUE]

-----------------------------------------------------------------------------
(* Structures of TLVs described by a format, decoded and encoded: HAPTLV.c and the second
   halves of HAPTLVReader.c and HAPTLVWriter.c.

   Data, strings and sequences are decoded as places of the buffer, and a sequence is
   decoded, in place again, when it is enumerated: what they stand for is what the buffer
   holds at the end (Resolved).  Struct values are sequences of their members' values, and
   a member that is not set is NotSet. *)

ByteBase == FragmentBytes + 1

Scalars == {"none", "enum", "uint", "data", "string"}

NotSet == [set |-> FALSE]
Set(v) == [set |-> TRUE, value |-> v]

-----------------------------------------------------------------------------
(* Formats: a member of a struct is [type, format, optional, flat], the item of a sequence
   [type, format, flat], its separator a type, a variant of a union [type, format]. *)

IsAggregate(format) == format.kind \notin Scalars

RECURSIVE UsesType(_, _)
UsesType(format, type) ==
    CASE format.kind = "struct" ->
            \E i \in DOMAIN format.members :
                LET member == format.members[i]
                IN IF member.flat THEN UsesType(member.format, type) ELSE type = member.type
      [] format.kind = "union" -> \E i \in DOMAIN format.variants : format.variants[i].type = type
      [] format.kind = "sequence" ->
            \/ IF format.item.flat THEN UsesType(format.item.format, type) ELSE type = format.item.type
            \/ type = format.separator
      [] OTHER -> FALSE

\* The type of a flat member stands for all of its types.
HaveConflictingTypes(format, other) ==
    /\ IsAggregate(format) /\ IsAggregate(other)
    /\ \/ format.kind = "sequence" /\ format.item.flat /\ UsesType(other, format.item.type)
       \/ /\ format.kind = "struct"
          /\ \E i \in DOMAIN format.members :
                format.members[i].flat /\ UsesType(other, format.members[i].type)

\* Two members of a struct, the later one first.
Compatible(member, other) ==
    IF member.flat
    THEN /\ IsAggregate(member.format) /\ ~member.optional
         /\ IF other.flat THEN ~HaveConflictingTypes(member.format, other.format)
            ELSE ~UsesType(member.format, other.type)
    ELSE IF other.flat THEN ~UsesType(other.format, member.type) ELSE member.type # other.type

RECURSIVE IsValid(_)
IsValid(format) ==
    CASE format.kind \in {"uint", "data", "string"} -> format.minimum <= format.maximum
      [] format.kind = "struct" ->
            \A i \in DOMAIN format.members :
                /\ IsValid(format.members[i].format)
                /\ \A j \in 1..(i - 1) : Compatible(format.members[i], format.members[j])
      [] format.kind = "union" ->
            \A i \in DOMAIN format.variants :
                /\ IsValid(format.variants[i].format)
                /\ \A j \in 1..(i - 1) : format.variants[i].type # format.variants[j].type
      [] format.kind = "sequence" ->
            /\ IsValid(format.item.format)
            /\ IF format.item.flat
               THEN format.item.format.kind = "union" /\ ~UsesType(format.item.format, format.separator)
               ELSE format.item.type # format.separator
      [] OTHER -> TRUE

-----------------------------------------------------------------------------
(* Decoding.  Every step returns the bytes it has changed; base is where they begin in the
   whole buffer. *)

Undecodable == [ok |-> FALSE]

\* What comes next when a step has not failed.
Then(result, F(_)) == IF result.ok THEN F(result) ELSE Undecodable

\* EnableNonSequentialAccessWithFormat: the smallest types that the format does not use
\* mark what has been read.
EnabledFor(bytes, format) ==
    LET unused == {t \in 0..FragmentBytes : ~UsesType(format, t)}
        nth(k) == CHOOSE t \in unused : Cardinality({u \in unused : u < t}) = k
    IN IF Cardinality(unused) < 3 THEN Undecodable
       ELSE EnableNonSequentialAccess(bytes, nth(0), nth(1), nth(2))

\* SkipUnexpectedValues
RECURSIVE Skipped(_, _, _)
Skipped(r, format, o) ==
    IF o = Len(r.bytes) THEN [ok |-> TRUE, reader |-> r]
    ELSE LET n == NumTLVBytes(r, o)
             type == r.bytes[o + 1]
         IN IF n = -1 THEN Undecodable
            ELSE Skipped(IF type \in {r.single, r.nullSingle, r.nullMulti} \/ UsesType(format, type) THEN r
                         ELSE [r EXCEPT !.bytes = ReadTLV(r, o, n, TRUE).bytes],
                         format, o + n)

RECURSIVE LittleEndian(_)
LittleEndian(bytes) ==
    IF bytes = <<>> THEN 0 ELSE Head(bytes) + ByteBase * LittleEndian(Tail(bytes))

\* DecodeScalar of the n bytes at a place of the whole buffer.
DecodeScalar(format, bytes, at) ==
    LET n == Len(bytes)
        place == [at |-> at, n |-> n]
        fits(v) == format.minimum <= v /\ v <= format.maximum
    IN CASE format.kind = "none" -> [ok |-> TRUE, value |-> place]
         [] format.kind = "enum" ->
               IF n = 1 /\ bytes[1] \in format.valid THEN [ok |-> TRUE, value |-> bytes[1]] ELSE Undecodable
         [] format.kind = "uint" ->
               IF n <= format.width /\ fits(LittleEndian(bytes))
               THEN [ok |-> TRUE, value |-> LittleEndian(bytes)] ELSE Undecodable
         [] format.kind = "data" -> IF fits(n) THEN [ok |-> TRUE, value |-> place] ELSE Undecodable
         [] format.kind = "string" ->
               IF fits(n) /\ \A i \in 1..n : bytes[i] # 0 THEN [ok |-> TRUE, value |-> place] ELSE Undecodable

RECURSIVE DecodeAggregate(_, _, _)
RECURSIVE DecodeMembers(_, _, _, _)
RECURSIVE DecodeVariants(_, _, _, _)

\* The value of a TLV that ReadTLV has returned: in a reader of its own when it is an
\* aggregate.
DecodeRead(r, base, tlv, format) ==
    LET bytes == Piece(tlv.bytes, tlv.start, tlv.numBytes) IN
    IF tlv.failed THEN Undecodable
    ELSE IF ~IsAggregate(format)
    THEN Then(DecodeScalar(format, bytes, base + tlv.start), LAMBDA scalar :
            [ok |-> TRUE, value |-> scalar.value, reader |-> [r EXCEPT !.bytes = tlv.bytes]])
    ELSE Then(EnabledFor(bytes, format), LAMBDA sub :
            Then(DecodeAggregate(sub.reader, base + tlv.start, format), LAMBDA inner :
                [ok |-> TRUE, value |-> inner.value,
                 reader |-> [r EXCEPT !.bytes = Overwritten(tlv.bytes, tlv.start, inner.reader.bytes)]]))

MayContainNull(format) == format.kind # "string"

\* FindAndDecodeTLV: a second TLV of the type is an error.
FindAndDecode(r, base, type, format) ==
    LET o == FindTLV(r, type, 0)
        tlv == ReadTLV(r, o, NumTLVBytes(r, o), MayContainNull(format))
    IN IF o = -2 THEN Undecodable
       ELSE IF o = -1 THEN [ok |-> TRUE, value |-> NotSet, reader |-> r]
       ELSE Then(DecodeRead(r, base, tlv, format), LAMBDA decoded :
                IF FindTLV(decoded.reader, type, 0) # -1 THEN Undecodable
                ELSE [decoded EXCEPT !.value = Set(decoded.value)])

\* The members of a struct from the i-th on; values are those before it.
DecodeMembers(r, base, format, values) ==
    LET i == Len(values) + 1
        member == format.members[i]
    IN IF i > Len(format.members) THEN [ok |-> TRUE, value |-> values, reader |-> r]
       ELSE IF member.flat
       THEN Then(DecodeAggregate(r, base, member.format), LAMBDA decoded :
                DecodeMembers(decoded.reader, base, format, Append(values, Set(decoded.value))))
       ELSE Then(FindAndDecode(r, base, member.type, member.format), LAMBDA decoded :
                IF decoded.value = NotSet /\ ~member.optional THEN Undecodable
                ELSE DecodeMembers(decoded.reader, base, format, Append(values, decoded.value)))

\* The variants of a union from the i-th on: one of them, and only one.
DecodeVariants(r, base, format, found) ==
    LET i == Len(found) + 1
        set == {j \in DOMAIN found : found[j].set}
    IN IF Cardinality(set) > 1 THEN Undecodable
       ELSE IF i > Len(format.variants)
       THEN IF set = {} THEN Undecodable
            ELSE LET j == CHOOSE j \in set : TRUE
                 IN [ok |-> TRUE, value |-> [variant |-> j, value |-> found[j].value], reader |-> r]
       ELSE Then(FindAndDecode(r, base, format.variants[i].type, format.variants[i].format), LAMBDA decoded :
                DecodeVariants(decoded.reader, base, format, Append(found, decoded.value)))

DecodeAggregate(r, base, format) ==
    Then(Skipped(r, format, 0), LAMBDA skipped :
        CASE format.kind = "struct" -> DecodeMembers(skipped.reader, base, format, <<>>)
          [] format.kind = "union" -> DecodeVariants(skipped.reader, base, format, <<>>)
          [] format.kind = "sequence" ->
                [ok |-> TRUE, reader |-> skipped.reader,
                 value |-> [at |-> base, n |-> Len(r.bytes), reader |-> skipped.reader]])

\* HAPTLVReaderDecode, and the bytes it leaves behind.
Decode(bytes, format) ==
    Then(EnabledFor(bytes, format), LAMBDA sub : DecodeAggregate(sub.reader, 0, format))

-----------------------------------------------------------------------------
(* Enumerating a sequence *)

\* One TLV at o of the sequence that r reads: an item, a separator, or neither.
EnumerateOne(r, base, format, o, n) ==
    LET type == r.bytes[o + 1]
        item == format.item
    IN IF item.flat /\ UsesType(item.format, type)
       THEN Then(DecodeAggregate([r EXCEPT !.bytes = Piece(r.bytes, o, n)], base + o, item.format), LAMBDA inner :
                [ok |-> TRUE, items |-> <<inner.value>>, bytes |-> Overwritten(r.bytes, o, inner.reader.bytes)])
       ELSE IF ~item.flat /\ type = item.type
       THEN Then(DecodeRead(r, base, ReadTLV(r, o, n, MayContainNull(item.format)), item.format), LAMBDA decoded :
                [ok |-> TRUE, items |-> <<decoded.value>>, bytes |-> decoded.reader.bytes])
       ELSE [ok |-> TRUE, items |-> <<>>,
             bytes |-> IF type = format.separator THEN ReadTLV(r, o, n, TRUE).bytes ELSE r.bytes]

RECURSIVE Enumerate(_, _, _, _, _)
Enumerate(r, base, format, o, items) ==
    LET n == NumTLVBytes(r, o)
    IN IF o = Len(r.bytes) THEN [ok |-> TRUE, items |-> items, bytes |-> r.bytes]
       ELSE IF n = -1 THEN Undecodable
       ELSE Then(EnumerateOne(r, base, format, o, n), LAMBDA one :
                Enumerate([r EXCEPT !.bytes = one.bytes], base, format, o + n, items \o one.items))

\* What a decoded value stands for once everything has been read, the sequences last: what
\* the buffer holds, with the sequences enumerated in it.
RECURSIVE Resolved(_, _, _)
Resolved(buffer, format, value) ==
    CASE format.kind \in {"data", "string"} -> Piece(buffer, value.at, value.n)
      [] format.kind = "struct" ->
            [i \in DOMAIN value |->
                IF value[i].set THEN Set(Resolved(buffer, format.members[i].format, value[i].value)) ELSE NotSet]
      [] format.kind = "union" ->
            [value EXCEPT !.value = Resolved(buffer, format.variants[value.variant].format, value.value)]
      [] format.kind = "sequence" ->
            Then(Enumerate([value.reader EXCEPT !.bytes = Piece(buffer, value.at, value.n)],
                           value.at, format, 0, <<>>), LAMBDA all :
                [i \in DOMAIN all.items |->
                    Resolved(Overwritten(buffer, value.at, all.bytes), format.item.format, all.items[i])])
      [] OTHER -> value

-----------------------------------------------------------------------------
(* Encoding *)

RECURSIVE ToLittleEndian(_, _)
ToLittleEndian(v, width) ==
    IF width = 0 THEN <<>> ELSE <<v % ByteBase>> \o ToLittleEndian(v \div ByteBase, width - 1)

\* EncodeScalar: integers are as wide as their type.
EncodeScalar(format, value) ==
    CASE format.kind = "none" -> <<>>
      [] format.kind = "enum" -> <<value>>
      [] format.kind = "uint" -> ToLittleEndian(value, format.width)
      [] OTHER -> value

RECURSIVE EncodeAggregate(_, _, _)

\* EncodeTLV: an aggregate is written to the rest of the buffer first, and appended from
\* there.
EncodeTLV(w, type, format, value) ==
    LET room == w.maxBytes - Len(w.bytes)
        inner == EncodeAggregate(Writer(room), format, value)
        bytes == EncodeScalar(format, value)
    IN IF w.failed THEN w
       ELSE IF IsAggregate(format)
       THEN IF inner.failed THEN [w EXCEPT !.failed = TRUE] ELSE Append8(w, type, inner.bytes)
       ELSE IF room < Len(bytes) THEN [w EXCEPT !.failed = TRUE]
       ELSE Append8(w, type, bytes)

\* EnumerateSequenceTLVCallback: a separator before every item but the first.
EncodeItem(w, format, value, i) ==
    LET separated == IF i = 1 THEN w ELSE Append8(w, format.separator, <<>>)
    IN IF w.failed \/ separated.failed THEN [w EXCEPT !.failed = TRUE]
       ELSE IF format.item.flat THEN EncodeAggregate(separated, format.item.format, value)
       ELSE EncodeTLV(separated, format.item.type, format.item.format, value)

EncodeAggregate(w, format, value) ==
    CASE format.kind = "struct" ->
            FoldLeft(LAMBDA x, i :
                        LET member == format.members[i]
                        IN IF x.failed \/ ~value[i].set THEN x
                           ELSE IF member.flat THEN EncodeAggregate(x, member.format, value[i].value)
                           ELSE EncodeTLV(x, member.type, member.format, value[i].value),
                     w, [i \in DOMAIN format.members |-> i])
      [] format.kind = "union" ->
            LET variant == format.variants[value.variant]
            IN EncodeTLV(w, variant.type, variant.format, value.value)
      [] format.kind = "sequence" ->
            FoldLeft(LAMBDA x, i : EncodeItem(x, format, value[i], i), w, [i \in DOMAIN value |-> i])

=============================================================================
