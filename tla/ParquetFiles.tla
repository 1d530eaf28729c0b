---------------------------- MODULE ParquetFiles ----------------------------
(***************************************************************************)
(* A writer of the files that Parquet reads, after the builders of           *)
(* src/data/parquet/parquet_test.go and snappy_test.go, with the fields of   *)
(* the format that the reader skips; and what reading the columns back must  *)
(* yield.                                                                   *)
(*                                                                         *)
(* A column is [name, typ, codec, dict, pages]; a page is either a sequence  *)
(* of plain values or a sequence of runs of indexes into the dictionary.    *)
(* An integer of a dictionary is [low, high], for low + high * 2^32 with low  *)
(* a signed number of 32 bits; plain integers are within 32 bits.            *)
(***************************************************************************)
EXTENDS Parquet

RECURSIVE Varint(_)
Varint(n) == IF n < 128 THEN <<n>> ELSE <<128 + (n % 128)>> \o Varint(n \div 128)

Zigzag(n) == Varint(IF n >= 0 THEN 2 * n ELSE 0 - 2 * n - 1)
Text8(bytes) == Varint(Len(bytes)) \o bytes
LittleEndian(n, width) == [i \in 1..width |-> IF i > 3 THEN 0 ELSE (n \div 256^(i - 1)) % 256]
Word(n, width) == [i \in 1..width |-> IF i > 4 THEN IF n < 0 THEN 255 ELSE 0 ELSE (n \div 256^(i - 1)) % 256]

Listed(typ, elements) ==
  (IF Len(elements) < 15 THEN <<16 * Len(elements) + typ>> ELSE <<240 + typ>> \o Varint(Len(elements)))
    \o FlattenSeq(elements)

\* Fields <<id, type, bytes>> in order, then the stop.
Written(fields) ==
  LET Header(field, delta) ==
        IF delta \in 1..15 THEN <<16 * delta + field[2]>> ELSE <<field[2]>> \o Zigzag(field[1])
  IN  FlattenSeq([i \in DOMAIN fields |->
        Header(fields[i], fields[i][1] - IF i = 1 THEN 0 ELSE fields[i - 1][1]) \o fields[i][3]]) \o <<0>>

\* What the reader skips: statistics, and key-value metadata.
Statistics == Written(<< <<1, BinaryType, Text8(<<9, 0>>)>>, <<3, 6, Zigzag(70)>>, <<7, 1, << >> >>,
                         <<8, DoubleType, LittleEndian(3, 8)>>, <<9, MapType, <<1, 60, 5>> \o Written(<< >>)>> >>)
KeyValues == Listed(StructType, <<Written(<< <<1, BinaryType, Text8(<<7>>)>> >>),
                                  Written(<< <<2, BinaryType, Text8(<< >>)>> >>)>>)

\* A literal up to the period of the data, and one copy for its repetitions.
LiteralOf(data) ==
  (IF Len(data) <= 60 THEN <<4 * (Len(data) - 1)>> ELSE <<240, Len(data) - 1>>) \o data

CopyOf(k, n) ==
  CASE n <= 0 -> << >>
    [] n \in 4..11 -> <<4 * (n - 4) + 1, k>>
    [] n \in 1..3 \cup 12..64 -> <<4 * (n - 1) + 2, k, 0>>

CompressedBy(k, data, n) ==
  Varint(n) \o (IF n = 0 THEN << >> ELSE LiteralOf(SubSeq(data, 1, IF k < n THEN k ELSE n))) \o CopyOf(k, n - k)

Compressed(data) ==
  CompressedBy(CHOOSE k \in 1..(Len(data) + 1) :
                 /\ \A i \in 1..(Len(data) - k) : data[i] = data[i + k]
                 /\ \A p \in 1..(k - 1) : \E i \in 1..(Len(data) - p) : data[i] # data[i + p],
               data, Len(data))

Stored(data, codec) == IF codec = Snappy THEN Compressed(data) ELSE data

\* A packed run is padded to a multiple of eight indexes.
Run(run, width) ==
  LET groups == (Len(run.indexes) + 7) \div 8
      Index(i) == IF i <= Len(run.indexes) THEN run.indexes[i] ELSE 0
      Bit(j) == (Index(j \div width + 1) \div 2^(j % width)) % 2
      ByteAt(i) == MapThenSumSet(LAMBDA b : Bit(8 * (i - 1) + b) * 2^b, 0..7)
  IN  IF run.packed THEN Varint(2 * groups + 1) \o [i \in 1..(groups * width) |-> ByteAt(i)]
      ELSE Varint(2 * Len(run.indexes)) \o LittleEndian(run.indexes[1], (width + 7) \div 8)

Entry(column, v) ==
  CASE column.typ = 6 -> v
    [] column.typ = 1 -> Word(v.low, 4)
    [] column.typ = 2 -> Word(v.low, 4) \o Word(v.high - IF v.low < 0 THEN 1 ELSE 0, 4)

PlainValues(column, values) ==
  FlattenSeq([i \in DOMAIN values |->
    IF column.typ = 6 THEN Text8(values[i]) ELSE Word(values[i], 4 * column.typ)])

Entries(column) == FlattenSeq([i \in DOMAIN column.dict |-> Text8(Entry(column, column.dict[i]))])

Indexes(page) == FlattenSeq([i \in DOMAIN page.runs |-> page.runs[i].indexes])

Count(page) == IF page.plain THEN Len(page.values) ELSE Len(Indexes(page))

IndexWidth(dict) == Min({w \in 1..MaxDictBitWidth : 2^w >= Len(dict)})

\* Prefixed with their length.
Prefixed(runs) == LittleEndian(Len(runs), 4) \o runs

PageData(page, column, width) ==
  IF page.plain THEN PlainValues(column, page.values)
  ELSE Prefixed(FlattenSeq([i \in DOMAIN page.runs |-> Run(page.runs[i], width)]))

\* A page of `size` bytes, stored as these bytes, with the header of its kind.
Page(kind, size, stored, header) ==
  Written(<< <<1, 5, Zigzag(kind)>>, <<2, 5, Zigzag(size)>>, <<3, 5, Zigzag(Len(stored))>>,
             <<4, 5, Zigzag(-12345)>>, header >>) \o stored

StoredPage(kind, data, codec, header) == Page(kind, Len(data), Stored(data, codec), header)

DataPageHeader(page) ==
  Written(<< <<1, 5, Zigzag(Count(page))>>, <<2, 5, Zigzag(IF page.plain THEN Plain ELSE RLEDictionary)>>,
             <<3, 5, Zigzag(3)>>, <<4, 5, Zigzag(3)>>, <<5, StructType, Statistics>> >>)

PageBytes(page, column) ==
  StoredPage(0, PageData(page, column, IndexWidth(column.dict)), column.codec,
             <<5, StructType, DataPageHeader(page)>>)

DictionaryPageHeader(column) == Written(<< <<1, 5, Zigzag(Len(column.dict))>>, <<2, 5, Zigzag(Plain)>> >>)

DictionaryBytes(column) ==
  IF column.dict = << >> THEN << >>
  ELSE StoredPage(DictionaryPage, Entries(column), column.codec, <<7, StructType, DictionaryPageHeader(column)>>)

\* What is left of an entry: an integer of the dictionary loses what is beyond 32 bits.
ReadEntry(column, v) == IF column.typ = 6 THEN v ELSE v.low

ValuesOf(page, column) ==
  IF page.plain THEN page.values
  ELSE [i \in DOMAIN Indexes(page) |-> ReadEntry(column, column.dict[Indexes(page)[i] + 1])]

ColumnValues(column) == FlattenSeq([i \in DOMAIN column.pages |-> ValuesOf(column.pages[i], column)])

\* Whether the data offset is given, or left to the chunk's own offset.
ChunkMeta(column, offset, dictionary) ==
  Written(<< <<2, 6, Zigzag(offset)>>,
             <<3, StructType, Written(
               << <<1, 5, Zigzag(column.typ)>>, <<2, 9, Listed(5, <<Zigzag(0), Zigzag(8)>>)>>,
                  <<3, 9, Listed(BinaryType, <<Text8(<<115>>), Text8(column.name)>>)>>,
                  <<4, 5, Zigzag(column.codec)>>, <<5, 6, Zigzag(Len(ColumnValues(column)))>>, <<8, 9, KeyValues>> >>
               \o (IF column.direct THEN << <<9, 6, Zigzag(offset + Len(dictionary))>> >> ELSE << >>)
               \o (IF column.dict # << >> THEN << <<11, 6, Zigzag(offset)>> >> ELSE << >>)
               \o << <<12, StructType, Statistics>>, <<40, 5, <<2>> >> >>)>>,
             <<4, 6, Zigzag(9)>> >>)

\* The bytes so far, and the chunks of every row group.
LaidChunk(state, column, dictionary) ==
  [bytes |-> state.bytes \o dictionary
               \o FlattenSeq([i \in DOMAIN column.pages |-> PageBytes(column.pages[i], column)]),
   chunks |-> Append(state.chunks, ChunkMeta(column, Len(state.bytes), dictionary))]

LaidGroup(state, laid, group) ==
  [bytes |-> laid.bytes,
   groups |-> Append(state.groups,
     Written(<< <<1, 9, Listed(StructType, laid.chunks)>>, <<2, 6, Zigzag(500)>>,
                <<3, 6, Zigzag(Len(ColumnValues(group[1])))>>, <<7, 4, Zigzag(0)>> >>))]

Laid(file) ==
  FoldLeft(LAMBDA state, group : LaidGroup(state,
             FoldLeft(LAMBDA s, column : LaidChunk(s, column, DictionaryBytes(column)),
                      [bytes |-> state.bytes, chunks |-> << >>], group), group),
           [bytes |-> Magic, groups |-> << >>], file)

Footer(groups) ==
  LET schema == Listed(StructType, <<Written(<< <<4, BinaryType, Text8(<<114>>)>>, <<5, 5, Zigzag(2)>> >>),
                                     Written(<< <<1, 5, Zigzag(6)>>, <<4, BinaryType, Text8(<<116>>)>>,
                                                <<10, StructType, Written(<< <<1, StructType, <<0>> >> >>)>> >>)>>)
  IN  Written(<< <<1, 5, Zigzag(2)>>, <<2, 9, schema>>, <<3, 6, Zigzag(4)>>,
                 <<4, 9, Listed(StructType, groups)>>, <<5, 9, KeyValues>>,
                 <<6, BinaryType, Text8(<<99, 112>>)>> >>)

Closed(bytes, footer) == bytes \o footer \o LittleEndian(Len(footer), 4) \o Magic

Finished(laid) == Closed(laid.bytes, Footer(laid.groups))

FileBytes(file) == Finished(Laid(file))

-----------------------------------------------------------------------------
PlainPage(values) == [plain |-> TRUE, values |-> values, runs |-> << >>]
IndexPage(runs) == [plain |-> FALSE, values |-> << >>, runs |-> runs]
PackedRun(indexes) == [packed |-> TRUE, indexes |-> indexes]
RepeatedRun(index, n) == [packed |-> FALSE, indexes |-> [i \in 1..n |-> index]]

Words == << <<5, 6>>, << >>, <<5, 6, 5, 6, 5, 6, 5, 6>>, <<200>> >>
Long == [i \in 1..70 |-> (i * i) % 256]

PlainPages == { <<PlainPage(<< >>)>>, <<PlainPage(<<Words[3], Words[3], << >> >>), PlainPage(<<Words[4]>>)>>, <<PlainPage(<<Long>>)>> }

\* A page in runs, a page that falls back to plain values.
DictionaryPages ==
  { <<IndexPage(<<PackedRun(<<2, 1, 0, 3>>)>>)>>,
    <<IndexPage(<<PackedRun([i \in 1..8 |-> i % 4]), RepeatedRun(1, 9)>>), PlainPage(<<Words[4], Words[1]>>)>>,
    <<IndexPage(<<RepeatedRun(1, 1), RepeatedRun(2, 3)>>)>>,
    <<IndexPage(<<RepeatedRun(0, 2), PackedRun([i \in 1..10 |-> (i + 1) % 4])>>), IndexPage(<<PackedRun(<<3>>)>>)>> }

Column(name, typ, codec, direct, dict, pages) ==
  [name |-> name, typ |-> typ, codec |-> codec, direct |-> direct, dict |-> dict, pages |-> pages]

TextColumns(name) ==
  UNION {{Column(name, 6, codec, direct, << >>, pages) : pages \in PlainPages}
           \cup {Column(name, 6, codec, direct, Words, pages) : pages \in DictionaryPages} :
         codec \in {Uncompressed, Snappy}, direct \in BOOLEAN}

Wide(low, high) == [low |-> low, high |-> high]

\* 7, -2, 2^32 + 5, 2^32 - 1 and -2^33 + 9.
WideIntegers == <<Wide(7, 0), Wide(-2, 0), Wide(5, 1), Wide(-1, 1), Wide(9, -2)>>

IntegerColumns(name) ==
  {Column(name, typ, Snappy, TRUE, << >>, <<PlainPage(<<0, -1, 300>>), PlainPage(<<-70000>>)>>) : typ \in {1, 2}}
    \cup {Column(name, 1, Uncompressed, FALSE, SubSeq(WideIntegers, 1, 2), <<IndexPage(<<PackedRun(<<1, 0, 1>>)>>)>>),
          Column(name, 2, Uncompressed, FALSE, WideIntegers, <<IndexPage(<<PackedRun(<<1, 0, 4, 2, 3>>)>>)>>)}

\* Two row groups, the columns in either order.
Files ==
  {<< <<text, int>>, <<int, text>> >> : text \in TextColumns(<<116>>), int \in IntegerColumns(<<110>>)}

ReadBack(bytes, meta, group, column) ==
  IF column.typ = 6 THEN ReadColumnValues(bytes, meta, group, column.name)
  ELSE ReadColumnInt64(bytes, meta, group, column.name)

\* Whether some run repeats an index of the upper half of the dictionary.
RepeatsUpper(column) ==
  \E p \in DOMAIN column.pages : \E r \in DOMAIN column.pages[p].runs :
    LET run == column.pages[p].runs[r]
    IN  ~run.packed /\ run.indexes[1] >= 2^(ComputeDictBitWidth(Len(column.dict)) - 1)

\* ColumnsReadBack: every column of every row group of a file is read back value for
\* value, whatever its pages hold, however they are compressed, and whichever
\* fields of the format lie between the ones the reader keeps: the compact
\* reader resumes the field ids of a structure after each structure inside it,
\* and the page walk ends at the value that the chunk announces.  There are two
\* exceptions.  A column that repeats an index of the upper half of its dictionary,
\* which the decoder takes for a negative number, is refused.  And an INT64 entry of
\* a dictionary is misread when it does not fit in 32 bits: without an error it
\* comes back as the number its low 32 bits make (reader.go:184-190).
ColumnsReadBack(file) ==
  \A bytes \in {FileBytes(file)} : \A opened \in {Open(bytes)} :
    /\ ~Failed(opened)
    /\ ColumnNames(opened.value) = <<file[1][1].name, file[1][2].name>>
    /\ \A g \in DOMAIN file, c \in 1..2 :
         \A read \in {ReadBack(bytes, opened.value, g, file[g][c])} :
           IF RepeatsUpper(file[g][c]) THEN Failed(read)
           ELSE ~Failed(read) /\ read.value = ColumnValues(file[g][c])
=============================================================================
