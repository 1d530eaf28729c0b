------------------------------ MODULE Parquet ------------------------------
(***************************************************************************)
(* The reader of the corpus files (src/data/parquet): the Thrift compact    *)
(* protocol of the footer and of the page headers, the page walk of a       *)
(* column chunk, the Snappy blocks, and the PLAIN and dictionary encodings. *)
(*                                                                         *)
(* A file is a sequence of bytes.  Every reading yields the compact reader   *)
(* after it and the value it read, or Fail.  The parse functions of          *)
(* metadata.go differ only in the fields they keep: each is a table from     *)
(* field ids to kinds, read by ReadStruct.                                  *)
(***************************************************************************)
EXTENDS Integers, Sequences, SequencesExt, FiniteSetsExt, TLC

NewReader == [pos |-> 1, lastFieldID |-> 0]
Got(reader, value) == [reader |-> reader, value |-> value]
Fail == Got([pos |-> 0, lastFieldID |-> 0], << >>)

Failed(x) == x.reader.pos = 0

\* Read on after x, unless reading x failed.
AndThen(x, Op(_)) == IF Failed(x) THEN Fail ELSE Op(x)

Unsigned(bytes) == FoldRight(LAMBDA byte, high : high * 256 + byte, bytes, 0)

Signed(bytes) ==
  LET top == Last(bytes)
  IN  FoldRight(LAMBDA byte, high : high * 256 + byte, Front(bytes), IF top > 127 THEN top - 256 ELSE top)

UnZigzag(n) == IF n % 2 = 0 THEN n \div 2 ELSE 0 - (n + 1) \div 2

-----------------------------------------------------------------------------
(* The compact protocol.                                                   *)

BooleanTypes == {1, 2}
ByteType == 3
IntegerTypes == {4, 5, 6}
DoubleType == 7
BinaryType == 8
ListTypes == {9, 10}
MapType == 11
StructType == 12

ReadRaw(data, reader, n) ==
  IF n > Len(data) - reader.pos + 1 THEN Fail
  ELSE Got([reader EXCEPT !.pos = @ + n], SubSeq(data, reader.pos, reader.pos + n - 1))

ReadByte(data, reader) ==
  AndThen(ReadRaw(data, reader, 1), LAMBDA raw : Got(raw.reader, raw.value[1]))

ReadUvarint(data, reader) ==
  LET ends == {i \in reader.pos..Len(data) : data[i] < 128}
      groups == SubSeq(data, reader.pos, Min(ends))
  IN  IF ends = {} THEN Fail
      ELSE Got([reader EXCEPT !.pos = Min(ends) + 1],
               FoldRight(LAMBDA byte, high : high * 128 + (byte % 128), groups, 0))

ReadZigzag(data, reader) ==
  AndThen(ReadUvarint(data, reader), LAMBDA u : Got(u.reader, UnZigzag(u.value)))

ReadBinary(data, reader) ==
  AndThen(ReadUvarint(data, reader), LAMBDA size : ReadRaw(data, size.reader, size.value))

\* A delta of zero announces the id itself; a header of zero ends the struct.
ReadFieldHeader(data, reader) ==
  LET Field(r, id, typ) == Got([r EXCEPT !.lastFieldID = id], [id |-> id, typ |-> typ])
      Headed(h) ==
        IF h.value = 0 THEN Got(h.reader, [id |-> 0, typ |-> 0])
        ELSE IF h.value \div 16 > 0
             THEN Field(h.reader, reader.lastFieldID + h.value \div 16, h.value % 16)
             ELSE AndThen(ReadZigzag(data, h.reader), LAMBDA id : Field(id.reader, id.value, h.value % 16))
  IN  AndThen(ReadByte(data, reader), Headed)

IsStop(header) == header.value = [id |-> 0, typ |-> 0]

ReadListHeader(data, reader) ==
  LET Sized(r, n, header) == Got(r, [size |-> n, typ |-> header % 16])
      Headed(h) ==
        IF h.value \div 16 < 15 THEN Sized(h.reader, h.value \div 16, h.value)
        ELSE AndThen(ReadUvarint(data, h.reader), LAMBDA n : Sized(n.reader, n.value, h.value))
  IN  AndThen(ReadByte(data, reader), Headed)

\* Field ids restart in a nested struct, and resume after it.
EnterStruct(reader) == [reader EXCEPT !.lastFieldID = 0]

NotResumedBug(reader, previous) == reader
ExitStruct(reader, previous) == [reader EXCEPT !.lastFieldID = previous.lastFieldID]

RECURSIVE SkipValue(_, _, _), SkipTimes(_, _, _, _), SkipFields(_, _)

\* Values of the types in turn, so many times over.
SkipTimes(data, reader, types, times) ==
  IF times = 0 THEN Got(reader, << >>)
  ELSE AndThen(FoldLeft(LAMBDA x, typ : AndThen(x, LAMBDA y : SkipValue(data, y.reader, typ)),
                        Got(reader, << >>), types),
               LAMBDA x : SkipTimes(data, x.reader, types, times - 1))

SkipList(data, reader) ==
  AndThen(ReadListHeader(data, reader), LAMBDA h : SkipTimes(data, h.reader, <<h.value.typ>>, h.value.size))

SkipMap(data, reader) ==
  LET Typed(n, h) == SkipTimes(data, h.reader, <<h.value \div 16, h.value % 16>>, n.value)
  IN  AndThen(ReadUvarint(data, reader),
              LAMBDA n : IF n.value = 0 THEN n
                         ELSE AndThen(ReadByte(data, n.reader), LAMBDA h : Typed(n, h)))

SkipFields(data, reader) ==
  AndThen(ReadFieldHeader(data, reader),
          LAMBDA h : IF IsStop(h) THEN h
                     ELSE AndThen(SkipValue(data, h.reader, h.value.typ), LAMBDA x : SkipFields(data, x.reader)))

SkipStruct(data, reader) ==
  AndThen(SkipFields(data, EnterStruct(reader)), LAMBDA x : Got(ExitStruct(x.reader, reader), << >>))

SkipValue(data, reader, typ) ==
  CASE typ \in BooleanTypes -> Got(reader, << >>)
    [] typ = ByteType -> ReadByte(data, reader)
    [] typ \in IntegerTypes -> ReadUvarint(data, reader)
    [] typ = DoubleType -> ReadRaw(data, reader, 8)
    [] typ = BinaryType -> ReadBinary(data, reader)
    [] typ \in ListTypes -> SkipList(data, reader)
    [] typ = StructType -> SkipStruct(data, reader)
    [] typ = MapType -> SkipMap(data, reader)
    [] OTHER -> Fail

-----------------------------------------------------------------------------
(* The structures of the footer and of the page headers.                    *)

Number == [of |-> "number"]
Text == [of |-> "text"]
ListOf(kind) == [of |-> "list", element |-> kind]
StructOf(fields) == [of |-> "struct", fields |-> fields, checked |-> FALSE]
CheckedStructOf(fields) == [of |-> "struct", fields |-> fields, checked |-> TRUE]

SchemaElementFields == [id \in 1..5 |-> IF id = 4 THEN Text ELSE Number]
ColumnMetaDataFields ==
  [id \in {1, 2, 3, 4, 5, 6, 7, 9, 11} |->
    CASE id = 2 -> ListOf(Number) [] id = 3 -> ListOf(Text) [] OTHER -> Number]
ColumnChunkFields == <<Text, Number, CheckedStructOf(ColumnMetaDataFields)>>
RowGroupFields == <<ListOf(StructOf(ColumnChunkFields)), Number, Number>>
FileMetaDataFields ==
  <<Number, ListOf(StructOf(SchemaElementFields)), Number, ListOf(StructOf(RowGroupFields))>>
DataPageFields == [id \in 1..4 |-> Number]
DictionaryPageFields == [id \in 1..2 |-> Number]
PageFields ==
  [id \in {1, 2, 3, 5, 7} |->
    CASE id = 5 -> StructOf(DataPageFields) [] id = 7 -> StructOf(DictionaryPageFields) [] OTHER -> Number]

\* Whether a list may hold elements announced with the type.
ElementType(kind, typ) ==
  CASE kind.of = "struct" -> typ = StructType
    [] kind.of = "text" -> typ = BinaryType
    [] kind.of = "number" -> typ \in IntegerTypes

RECURSIVE ReadKind(_, _, _), ReadElements(_, _, _, _, _), ReadFields(_, _, _, _)

ReadElements(data, reader, kind, n, read) ==
  IF n = 0 THEN Got(reader, read)
  ELSE AndThen(ReadKind(data, reader, kind),
               LAMBDA x : ReadElements(data, x.reader, kind, n - 1, Append(read, x.value)))

\* An empty list of numbers may announce any type.
ReadList(data, reader, kind) ==
  LET Listed(h) ==
        IF ElementType(kind, h.value.typ) \/ (kind = Number /\ h.value.size = 0)
        THEN ReadElements(data, h.reader, kind, h.value.size, << >>) ELSE Fail
  IN  AndThen(ReadListHeader(data, reader), Listed)

ReadFields(data, reader, fields, read) ==
  LET Known(h) == h.value.id \in DOMAIN fields
                    /\ (fields[h.value.id].of = "struct" /\ fields[h.value.id].checked => h.value.typ = StructType)
      Body(h) ==
        IF IsStop(h) THEN Got(h.reader, read)
        ELSE IF Known(h)
        THEN AndThen(ReadKind(data, h.reader, fields[h.value.id]),
                     LAMBDA x : ReadFields(data, x.reader, fields, (h.value.id :> x.value) @@ read))
        ELSE AndThen(SkipValue(data, h.reader, h.value.typ), LAMBDA x : ReadFields(data, x.reader, fields, read))
  IN  AndThen(ReadFieldHeader(data, reader), Body)

ReadStruct(data, reader, fields) ==
  AndThen(ReadFields(data, EnterStruct(reader), fields, << >>),
          LAMBDA x : Got(ExitStruct(x.reader, reader), x.value))

ReadKind(data, reader, kind) ==
  CASE kind.of = "number" -> ReadZigzag(data, reader)
    [] kind.of = "text" -> ReadBinary(data, reader)
    [] kind.of = "list" -> ReadList(data, reader, kind.element)
    [] kind.of = "struct" -> ReadStruct(data, reader, kind.fields)

\* A field that is absent has the zero of its kind.
FieldOr(struct, id, zero) == IF id \in DOMAIN struct THEN struct[id] ELSE zero

ParseFileMetaData(data) == ReadFields(data, NewReader, FileMetaDataFields, << >>)
ParsePageHeader(data) == ReadFields(data, NewReader, PageFields, << >>)

-----------------------------------------------------------------------------
(* Snappy blocks.                                                          *)

\* A copy may reach into what it writes itself.
Copied(decoded, offset, n) ==
  FoldLeft(LAMBDA d, i : Append(d, d[Len(d) + 1 - offset]), decoded, [i \in 1..n |-> i])

\* How many bytes after the tag hold the length of a literal, or the offset of a copy.
OperandSize(tag) ==
  CASE tag % 4 = 0 -> IF tag \div 4 >= 60 THEN tag \div 4 - 59 ELSE 0
    [] tag % 4 = 1 -> 1
    [] tag % 4 = 2 -> 2
    [] tag % 4 = 3 -> 4

Literal(src, next, decoded, n) ==
  IF next + n > Len(src) + 1 THEN Fail
  ELSE Got([NewReader EXCEPT !.pos = next + n], decoded \o SubSeq(src, next, next + n - 1))

Copy(next, decoded, offset, n) ==
  IF offset \notin 1..Len(decoded) THEN Fail ELSE Got([NewReader EXCEPT !.pos = next], Copied(decoded, offset, n))

Element(src, next, decoded, tag, operand) ==
  CASE tag % 4 = 0 -> Literal(src, next, decoded, 1 + IF tag \div 4 < 60 THEN tag \div 4 ELSE operand)
    [] tag % 4 = 1 -> Copy(next, decoded, ((tag \div 32) * 256) + operand, 4 + ((tag \div 4) % 8))
    [] tag % 4 \in {2, 3} -> Copy(next, decoded, operand, 1 + (tag \div 4))

SnappyElement(src, at, decoded, size) ==
  IF at + size > Len(src) THEN Fail
  ELSE Element(src, at + 1 + size, decoded, src[at], Unsigned(SubSeq(src, at + 1, at + size)))

RECURSIVE SnappyElements(_, _, _)

SnappyElements(src, at, decoded) ==
  IF at > Len(src) THEN Got(NewReader, decoded)
  ELSE AndThen(SnappyElement(src, at, decoded, OperandSize(src[at])),
               LAMBDA x : SnappyElements(src, x.reader.pos, x.value))

\* A varint of the page data, of at most ten bytes.
Uvarint(src, at) ==
  LET Bounded(u) == LET last == u.reader.pos - 1
                    IN  IF last - at > 9 \/ (last - at = 9 /\ src[last] > 1) THEN Fail ELSE u
  IN  AndThen(ReadUvarint(src, [NewReader EXCEPT !.pos = at]), Bounded)

SnappyDecode(src) ==
  LET Sized(n) == AndThen(SnappyElements(src, n.reader.pos, << >>),
                          LAMBDA d : IF Len(d.value) = n.value THEN d ELSE Fail)
  IN  AndThen(Uvarint(src, 1), Sized)

Uncompressed == 0
Snappy == 1

Decompress(data, codec) ==
  CASE codec = Uncompressed -> Got(NewReader, data)
    [] codec = Snappy -> SnappyDecode(data)
    [] OTHER -> Fail

-----------------------------------------------------------------------------
(* Encodings.                                                              *)

Plain == 0
RLEDictionary == 8

RECURSIVE PlainByteArrays(_, _, _, _)

PlainByteArrays(data, at, count, read) ==
  IF count = 0 THEN Got(NewReader, read)
  ELSE AndThen(Uvarint(data, at),
               LAMBDA size : AndThen(ReadRaw(data, size.reader, size.value),
                 LAMBDA raw : PlainByteArrays(data, raw.reader.pos, count - 1, Append(read, raw.value))))

DecodePlainByteArray(data, count) == PlainByteArrays(data, 1, count, << >>)

\* Integers of `bytes` bytes each: four in an INT32 column, eight in an INT64 one.
DecodePlainIntegers(data, count, bytes) ==
  IF Len(data) < count * bytes THEN Fail
  ELSE Got(NewReader, [i \in 1..count |-> Signed(SubSeq(data, (i - 1) * bytes + 1, i * bytes))])

\* Dictionaries of at most 2^30 entries.
MaxDictBitWidth == 30
ComputeDictBitWidth(n) == IF n <= 1 THEN 1 ELSE Min({width \in 0..MaxDictBitWidth : 2^width >= n})

ReadBits(bytes, offset, width) ==
  LET Bit(i) == (bytes[(offset + i) \div 8 + 1] \div 2^((offset + i) % 8)) % 2
  IN  MapThenSumSet(LAMBDA i : Bit(i) * 2^i, 0..(width - 1))

\* A repeated index whose top bit is set is read as a negative one.
SignedIndex(value, width) ==
  IF width < 32 /\ (value \div 2^(width - 1)) % 2 = 1 THEN (value % 2^width) - 2^width ELSE value

Repeated(bytes, width) == SignedIndex(Unsigned(bytes), width)

\* Runs of packed groups of eight values, or of one repeated value.
RunBytes(n, packed, width) == IF packed THEN n * width ELSE (width + 7) \div 8

RunValues(raw, n, packed, width) ==
  IF packed THEN [i \in 1..(8 * n) |-> ReadBits(raw, (i - 1) * width, width)]
  ELSE [i \in 1..n |-> Repeated(raw, width)]

RECURSIVE HybridRuns(_, _, _, _, _)

HybridRuns(data, at, width, count, read) ==
  LET Run(reader, n, packed) ==
        IF n <= 0 THEN Fail
        ELSE AndThen(ReadRaw(data, reader, RunBytes(n, packed, width)),
                     LAMBDA raw : HybridRuns(data, raw.reader.pos, width, count,
                                             read \o RunValues(raw.value, n, packed, width)))
  IN  IF Len(read) >= count THEN Got(NewReader, SubSeq(read, 1, count))
      ELSE AndThen(Uvarint(data, at), LAMBDA h : Run(h.reader, h.value \div 2, h.value % 2 = 1))

DecodeRLEBitPacked(data, width, count) ==
  IF Len(data) < 4 THEN Fail ELSE HybridRuns(data, 5, width, count, << >>)

-----------------------------------------------------------------------------
(* The reader.                                                             *)

Magic == <<80, 65, 82, 49>>

\* The footer of the file; the magic at its start is not looked at.
Open(file) ==
  LET size == Len(file)
      metaLen == Unsigned(SubSeq(file, size - 7, size - 4))
  IN  IF size < 12 \/ SubSeq(file, size - 3, size) # Magic \/ metaLen = 0 \/ metaLen > size - 8 THEN Fail
      ELSE ParseFileMetaData(SubSeq(file, size - 7 - metaLen, size - 8))

RowGroups(meta) == FieldOr(meta, 4, << >>)
Columns(meta, rowGroup) == FieldOr(RowGroups(meta)[rowGroup], 1, << >>)
NamedChunk(chunk) == 3 \in DOMAIN chunk /\ FieldOr(chunk[3], 3, << >>) # << >>
NameOf(chunk) == Last(chunk[3][3])

ColumnNames(meta) ==
  LET chunks == SelectSeq(FlattenSeq([g \in DOMAIN RowGroups(meta) |-> Columns(meta, g)]), NamedChunk)
  IN  FoldLeft(LAMBDA names, chunk : IF Contains(names, NameOf(chunk)) THEN names
                                     ELSE Append(names, NameOf(chunk)), << >>, chunks)

FindChunk(meta, rowGroup, name) ==
  SelectInSeq(Columns(meta, rowGroup), LAMBDA chunk : NamedChunk(chunk) /\ NameOf(chunk) = name)

HeaderWindow == 65536

ReadPageAt(file, offset, codec) ==
  LET Paged(h) ==
        LET from == offset + h.reader.pos
            size == FieldOr(h.value, 3, 0)
        IN  IF from + size > Len(file) + 1 THEN Fail
            ELSE AndThen(Decompress(SubSeq(file, from, from + size - 1), codec),
                         LAMBDA d : Got(NewReader, [header |-> h.value, data |-> d.value,
                                                    next |-> from - 1 + size]))
  IN  AndThen(ParsePageHeader(SubSeq(file, offset + 1, Min({Len(file), offset + HeaderWindow}))), Paged)

DictionaryPage == 2

Dictionary(file, column) ==
  LET offset == FieldOr(column, 11, 0)
      Entries(page) == IF 7 \notin DOMAIN page.value.header THEN Fail
                       ELSE DecodePlainByteArray(page.value.data, FieldOr(page.value.header[7], 1, 0))
  IN  IF offset <= 0 THEN Got(NewReader, << >>)
      ELSE AndThen(ReadPageAt(file, offset, FieldOr(column, 4, 0)), Entries)

RECURSIVE DataPages(_, _, _, _, _)

\* A dictionary page met on the way is passed over.
DataPages(file, column, offset, total, pages) ==
  LET Paged(page) ==
        LET data == FieldOr(page.value.header, 5, << >>)
            raw == [numValues |-> FieldOr(data, 1, 0), encoding |-> FieldOr(data, 2, 0), data |-> page.value.data]
        IN  CASE FieldOr(page.value.header, 1, 0) = DictionaryPage ->
                   DataPages(file, column, page.value.next, total, pages)
              [] FieldOr(page.value.header, 1, 0) # DictionaryPage /\ 5 \notin DOMAIN page.value.header -> Fail
              [] OTHER -> DataPages(file, column, page.value.next, total + raw.numValues, Append(pages, raw))
  IN  IF total >= FieldOr(column, 5, 0) THEN Got(NewReader, pages)
      ELSE AndThen(ReadPageAt(file, offset, FieldOr(column, 4, 0)), Paged)

FirstPage(chunk) == IF FieldOr(chunk[3], 9, 0) # 0 THEN chunk[3][9] ELSE FieldOr(chunk, 2, 0)

ReadPages(file, chunk) ==
  AndThen(Dictionary(file, chunk[3]),
          LAMBDA dict : AndThen(DataPages(file, chunk[3], FirstPage(chunk), 0, << >>),
            LAMBDA pages : Got(NewReader, [dict |-> dict.value, pages |-> pages.value])))

Looked(dict, indexes) ==
  IF \A i \in DOMAIN indexes : indexes[i] \in 0..(Len(dict) - 1)
  THEN Got(NewReader, [i \in DOMAIN indexes |-> dict[indexes[i] + 1]]) ELSE Fail

DictionaryValues(page, dict) ==
  AndThen(DecodeRLEBitPacked(page.data, ComputeDictBitWidth(Len(dict)), page.numValues),
          LAMBDA indexes : Looked(dict, indexes.value))

ByteArrayPage(page, dict) ==
  CASE page.encoding = Plain -> DecodePlainByteArray(page.data, page.numValues)
    [] page.encoding = RLEDictionary -> DictionaryValues(page, dict)
    [] OTHER -> Fail

\* Of an entry of eight bytes, too, only the low four are kept.
DecodeDictInt(entry) == IF Len(entry) \in {4, 8} THEN Signed(SubSeq(entry, 1, 4)) ELSE 0

TypeInt32 == 1

IntegerPage(page, dict, typ) ==
  CASE page.encoding = Plain -> DecodePlainIntegers(page.data, page.numValues, IF typ = TypeInt32 THEN 4 ELSE 8)
    [] page.encoding = RLEDictionary ->
         AndThen(DictionaryValues(page, dict),
                 LAMBDA x : Got(NewReader, [i \in DOMAIN x.value |-> DecodeDictInt(x.value[i])]))
    [] OTHER -> Fail

DecodedPage(page, dict, typ, integers) ==
  IF integers THEN IntegerPage(page, dict, typ) ELSE ByteArrayPage(page, dict)

\* The decoded pages one after the other; the first failure is the answer.
Concatenated(decoded) ==
  FoldLeft(LAMBDA all, page : AndThen(all, LAMBDA a : AndThen(page,
                                LAMBDA x : Got(NewReader, a.value \o x.value))),
           Got(NewReader, << >>), decoded)

ReadColumn(file, meta, rowGroup, name, integers) ==
  LET at == FindChunk(meta, rowGroup, name)
      chunk == Columns(meta, rowGroup)[at]
      typ == FieldOr(chunk[3], 1, 0)
  IN  IF at = 0 THEN Fail
      ELSE AndThen(ReadPages(file, chunk), LAMBDA read : Concatenated(
             [i \in DOMAIN read.value.pages |->
                DecodedPage(read.value.pages[i], read.value.dict, typ, integers)]))

ReadColumnValues(file, meta, rowGroup, name) == ReadColumn(file, meta, rowGroup, name, FALSE)

ReadColumnInt64(file, meta, rowGroup, name) == ReadColumn(file, meta, rowGroup, name, TRUE)
=============================================================================
