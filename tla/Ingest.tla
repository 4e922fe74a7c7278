------------------------------- MODULE Ingest -------------------------------
(***************************************************************************)
(* The Flink job between Kafka and the Iceberg sink: one source, which     *)
(* deals the messages out in turn to the parser subtasks; in each subtask  *)
(* OsqueryFlatMapFunction, which parses a message and collects its rows    *)
(* one by one, and CachingGenerator, which gives each row the table's      *)
(* canonical Schema.                                                       *)
(*                                                                         *)
(* Schema objects are compared by identity, so they are the positions of   *)
(* the sequences heap[p], which hold the columns of each.  Subtasks share  *)
(* nothing.  A restart of the job is a new behaviour: no cache outlives it.*)
(***************************************************************************)
EXTENDS RecordParser

CONSTANTS
  Parallelism,   \* PARSER_PARALLELISM
  Message,       \* what Kafka may hold
  MaxMessages,   \* bound: messages read
  MaxInbox       \* bound: messages on their way to one subtask

Subtask == 0..(Parallelism - 1)

MessageField == [key: {"name", "time", "meta", "decoration", "columns", "snapshot", "malformed"},
                 raw: STRING, type: {"string", "long", "boolean"}, rows: Seq(SUBSET Raw)]

ASSUME IngestAssumption ==
  /\ Parallelism \in Nat \ {0} /\ MaxMessages \in Nat /\ MaxInbox \in Nat
  /\ Message \subseteq Seq(MessageField)
  /\ \A m \in Message : \A i \in DOMAIN m :
       m[i].key \in {"name", "meta", "decoration"} => m[i].raw \in Raw

\* Two numbers, as the suffixes of a message's columns, are written differently, and none
\* is written as a word of meta_time_day.
ASSUME SuffixAssumption ==
  \A m \in Message : \A i, j \in 2..(Len(m) + Len(Keys) + 4) :
    /\ ToString(i) = ToString(j) => i = j
    /\ ToString(i) \notin {"time", "day"}

VARIABLES
  turn,          \* the subtask rebalance() deals to next
  consumed,      \* number of messages read from Kafka
  inbox,         \* inbox[p]: messages dealt to p, not yet parsed
  memo,          \* memo[p]: identifierCache
  schemaCache,   \* schemaCache[p]: the object for each signature seen
  heap,          \* heap[p]: the columns of each Schema object of p
  pending,       \* pending[p]: rows flatMap has yet to collect
  canonical,     \* canonical[p]: tableSchemas; 0 where the table is not in it
  out,           \* out[p]: records the sink has been given
  processed,     \* processed[p]: rows_processed of each table
  dropped,       \* dropped[p]: messages_dropped
  parsed         \* history: parsed[p]: messages flatMap was called with, in order

vars == <<turn, consumed, inbox, memo, schemaCache, heap, pending, canonical, out,
          processed, dropped, parsed>>

Table == {<<"osquery">> \o Normalize(r, "table") : r \in Raw}
         \cup {<<"osquery">> \o Normalize(r, "field") : r \in Raw}

Init ==
  /\ turn \in Subtask
  /\ consumed = 0
  /\ inbox = [p \in Subtask |-> <<>>]
  /\ memo = [p \in Subtask |-> [r \in Headless |-> "none"]]
  /\ schemaCache = [p \in Subtask |-> {}]
  /\ heap = [p \in Subtask |-> <<>>]
  /\ pending = [p \in Subtask |-> <<>>]
  /\ canonical = [p \in Subtask |-> [t \in Table |-> 0]]
  /\ out = [p \in Subtask |-> <<>>]
  /\ processed = [p \in Subtask |-> [t \in Table |-> 0]]
  /\ dropped = [p \in Subtask |-> 0]
  /\ parsed = [p \in Subtask |-> <<>>]

-----------------------------------------------------------------------------
\* Mutant: dealt out in turn, but only once round.
MutantRead(m) ==
  /\ consumed < MaxMessages
  /\ Len(inbox[turn]) < MaxInbox
  /\ consumed' = consumed + 1
  /\ inbox' = [inbox EXCEPT ![turn] = Append(@, m)]
  /\ turn' = turn + 1
  /\ UNCHANGED <<memo, schemaCache, heap, pending, canonical, out, processed, dropped, parsed>>

\* The source reads a message; rebalance() sends it to the next subtask.
Read(m) ==
  /\ consumed < MaxMessages
  /\ Len(inbox[turn]) < MaxInbox
  /\ consumed' = consumed + 1
  /\ inbox' = [inbox EXCEPT ![turn] = Append(@, m)]
  /\ turn' = (turn + 1) % Parallelism
  /\ UNCHANGED <<memo, schemaCache, heap, pending, canonical, out, processed, dropped, parsed>>

\* flatMap is called when its last message is done with.
Ready(p) == pending[p] = <<>> /\ inbox[p] # <<>>

Result(p) == Parse(memo[p], Head(inbox[p]))

TakeMessage(p) ==
  /\ inbox' = [inbox EXCEPT ![p] = Tail(@)]
  /\ parsed' = [parsed EXCEPT ![p] = Append(@, Head(inbox[p]))]
  /\ memo' = [memo EXCEPT ![p] = Result(p).memo]
  /\ UNCHANGED <<turn, consumed, canonical, out>>

\* getOrCreateSchema: the Schema of this signature, if the subtask has made one.
Cached(p) == {o \in schemaCache[p] : heap[p][o] = Result(p).columns}

\* It caches the Schema it makes.
MakeSchema(p) ==
  /\ Cached(p) = {}
  /\ heap' = [heap EXCEPT ![p] = Append(@, Result(p).columns)]
  /\ schemaCache' = [schemaCache EXCEPT ![p] = @ \cup {Len(heap[p]) + 1}]

\* parse raises: the message is counted and forgotten.
Drop(p) ==
  /\ Ready(p) /\ ~Result(p).ok /\ ~Result(p).schema
  /\ TakeMessage(p)
  /\ dropped' = [dropped EXCEPT ![p] = @ + 1]
  /\ UNCHANGED <<schemaCache, heap, pending, processed>>

\* parse raises at the PartitionSpec: the Schema of the message is cached by then.
DropUnpartitioned(p) ==
  /\ Ready(p) /\ ~Result(p).ok /\ Result(p).schema
  /\ TakeMessage(p)
  /\ \/ MakeSchema(p)
     \/ Cached(p) # {} /\ UNCHANGED <<schemaCache, heap>>
  /\ dropped' = [dropped EXCEPT ![p] = @ + 1]
  /\ UNCHANGED <<pending, processed>>

\* parse returns the rows of the message, with the Schema its first row was given.
Flatten(p, schema) ==
  LET result == Result(p)
  IN  /\ TakeMessage(p)
      /\ processed' = [processed EXCEPT ![p][result.table] = @ + Len(result.cells)]
      /\ pending' = [pending EXCEPT ![p] =
           [i \in DOMAIN result.cells |->
              [message |-> Head(inbox[p]), row |-> i, table |-> result.table,
               schema |-> schema, cells |-> result.cells[i]]]]
      /\ UNCHANGED dropped

\* A message without rows looks up no Schema.
FlattenNothing(p) ==
  /\ Ready(p) /\ Result(p).ok /\ Result(p).cells = <<>>
  /\ Flatten(p, 0)
  /\ UNCHANGED <<schemaCache, heap>>

HasRows(p) == Ready(p) /\ Result(p).ok /\ Result(p).cells # <<>>

FlattenCached(p) ==
  /\ HasRows(p)
  /\ \E o \in Cached(p) : Flatten(p, o)
  /\ UNCHANGED <<schemaCache, heap>>

FlattenNew(p) ==
  /\ HasRows(p)
  /\ MakeSchema(p)
  /\ Flatten(p, Len(heap[p]) + 1)

-----------------------------------------------------------------------------
\* Mutant: setSchema(canonical) forgotten.
MutantGenerate(p, t, incoming, columns) == incoming

\* generate(record, out): the object the sink is given for a record of table t whose
\* own Schema is incoming.  Equal columns get the canonical object; others replace it.
Generate(p, t, incoming, columns) ==
  IF canonical[p][t] # 0 /\ heap[p][canonical[p][t]] = columns THEN canonical[p][t] ELSE incoming

\* out.collect(record): the chained output copies the record with Kryo, which makes a
\* new Schema object, and calls generate on the copy.
Collect(p) ==
  /\ pending[p] # <<>>
  /\ LET record  == Head(pending[p])
         columns == heap[p][record.schema]
         copy    == Len(heap[p]) + 1
         given   == Generate(p, record.table, copy, columns)
     IN  /\ heap' = [heap EXCEPT ![p] = Append(@, columns)]
         /\ canonical' = [canonical EXCEPT ![p][record.table] = given]
         /\ out' = [out EXCEPT ![p] = Append(@,
              [message |-> record.message, row |-> record.row, table |-> record.table,
               schema |-> given, cells |-> record.cells])]
         /\ pending' = [pending EXCEPT ![p] = Tail(@)]
  /\ UNCHANGED <<turn, consumed, inbox, memo, schemaCache, processed, dropped, parsed>>

\* identifierCache holds 2048 results; any of them may be the eldest.
Evict(p, r) ==
  /\ memo[p][r] # "none"
  /\ memo' = [memo EXCEPT ![p][r] = "none"]
  /\ UNCHANGED <<turn, consumed, inbox, schemaCache, heap, pending, canonical, out,
                 processed, dropped, parsed>>

Next ==
  \/ \E m \in Message : Read(m)
  \/ \E p \in Subtask :
       \/ Drop(p) \/ DropUnpartitioned(p) \/ FlattenNothing(p) \/ FlattenCached(p) \/ FlattenNew(p)
       \/ Collect(p)
       \/ \E r \in Headless : Evict(p, r)

Spec == Init /\ [][Next]_vars

-----------------------------------------------------------------------------
(* Properties.                                                             *)

\* Where a value comes from: the parse itself, the metadata or the row.
Origin == {"stamp", "time", "ingest", "meta", "decoration", "row"} \cup Raw

Record == [message : Message, row : Nat \ {0}, table : Table, schema : Nat \ {0},
           cells : Seq(Seq(Origin))]

TypeOK ==
  /\ turn \in Subtask /\ consumed \in 0..MaxMessages
  /\ inbox \in [Subtask -> Seq(Message)]
  /\ memo \in [Subtask -> [Headless -> Kind]]
  /\ schemaCache \in [Subtask -> SUBSET (Nat \ {0})]
  /\ pending \in [Subtask -> Seq(Record)]
  /\ \A p \in Subtask : schemaCache[p] \cup Range(canonical[p]) \subseteq 0..Len(heap[p])
  /\ canonical \in [Subtask -> [Table -> Nat]]
  /\ out \in [Subtask -> Seq(Record)]
  /\ processed \in [Subtask -> [Table -> Nat]]
  /\ dropped \in [Subtask -> Nat]
  /\ parsed \in [Subtask -> Seq(Message)]

\* As long as the rows of a table that reach the sink keep their columns, they keep their
\* Schema object, although each was copied on its way: the sink caches what it knows of
\* a Schema by its identity (OsqueryJob.java 184-191, 207-229).
StableReference ==
  \A p \in Subtask : \A i, j \in DOMAIN out[p] :
    /\ i < j
    /\ out[p][i].table = out[p][j].table
    /\ \A k \in i..j : out[p][k].table = out[p][i].table =>
                         heap[p][out[p][k].schema] = heap[p][out[p][i].schema]
    => out[p][i].schema = out[p][j].schema

MetaStrings(m) == {f.raw : f \in ToSet(MetaFields(m))}

CompleteMessage == {m \in Message : Complete(m)}

\* The strings that serve as query names, and as JSON keys.
TableStrings == {QueryName(m) : m \in CompleteMessage}
FieldStrings == (UNION {MetaStrings(m) : m \in Message})
                \cup (UNION {UNION ToSet(PayloadRows(m)) : m \in CompleteMessage})

\* What the cache may remember of them.
Memory == {mm \in [Headless -> Kind] : \A r \in Headless :
             /\ mm[r] = "table" => r \in TableStrings
             /\ mm[r] = "field" => r \in FieldStrings}

HasColumn(meta, row, name) ==
  name \in ColumnNames(meta) \/ \E r \in row \ Headless : Words[r] = name

\* With unixTime no key may be called meta_time_day, without it none meta_time.
KeepsTime(meta, m) ==
  LET row == Head(PayloadRows(m))
  IN  IF Fields(m, {"time"}) # <<>> THEN ~HasColumn(meta, row, <<"meta", "time", "day">>)
      ELSE ~HasColumn(meta, row, <<"meta", "time">>)

\* A message is of use unless it is malformed or incomplete or, having rows, has two
\* metadata fields of one column or a field in the way of the partition by meta_time.
\* No other payload key makes it useless.
Usable(mm, m) ==
  LET meta == AssembleFinalMetaFields(mm, m)
  IN  Complete(m) /\ (PayloadRows(m) = <<>> \/ (IsSchema(meta) /\ KeepsTime(meta, m)))

\* The rows of the messages in list whose positions are in kept.
RowsOf(list, kept) ==
  FlattenSeq([k \in DOMAIN list |->
    IF k \in kept THEN [i \in DOMAIN PayloadRows(list[k]) |-> <<list[k], i>>] ELSE <<>>])

\* Each row of each usable message a subtask has parsed is in the sink or on its way, once
\* and in order; every other message is counted as dropped (flatMap, 261-289).  What the
\* cache remembers decides about a message only where a key of its metadata is a query name.
RowsAccounted ==
  \A p \in Subtask : \E kept \in SUBSET DOMAIN parsed[p] :
    LET all == out[p] \o pending[p]
        ofTable(t) == {i \in DOMAIN all : all[i].table = t}
    IN  /\ \A k \in DOMAIN parsed[p] : \E mm \in Memory : k \in kept <=> Usable(mm, parsed[p][k])
        /\ [i \in DOMAIN all |-> <<all[i].message, all[i].row>>] = RowsOf(parsed[p], kept)
        /\ dropped[p] = Cardinality(DOMAIN parsed[p] \ kept)
        /\ \A t \in Table : processed[p][t] = Cardinality(ofTable(t))

\* A name is that of raw string r, perhaps with a suffix, up to most, against collisions.
NameOf(name, r, most) ==
  \E kind \in {"table", "field"} :
    LET normal == Normalize(r, kind)
    IN  name = normal \/ \E n \in 2..most : name = Append(normal, ToString(n))

\* The value from where cell says belongs into the i-th column.
Fits(columns, i, cell) ==
  LET name == columns[i].name
  IN  CASE cell[1] = "stamp" -> columns[i] = [name |-> Tail(cell), type |-> "timestamp"]
        [] cell[1] = "row"   -> columns[i].type = "string" /\ NameOf(name, cell[2], i + 1)
        [] OTHER             -> Head(name) = cell[1] /\ NameOf(Tail(name), cell[2], 0)

RowFits(p, record) ==
  LET columns == heap[p][record.schema]
      row     == PayloadRows(record.message)[record.row]
  IN  /\ Len(columns) = Len(record.cells)
      /\ IsSchema(columns)
      /\ \A i \in DOMAIN columns : Fits(columns, i, record.cells[i])
      /\ \A r \in row : \E i \in DOMAIN columns : record.cells[i] = <<"row", r>>

\* In a message whose rows all have the keys of the first one, every value of every row is
\* under its column, whatever its name collides with (OsqueryRecordParser.java 426-479).
UniformRowsFit ==
  \A p \in Subtask : \A i \in DOMAIN out[p] :
    LET rows == PayloadRows(out[p][i].message)
    IN  rows[out[p][i].row] = rows[1] => RowFits(p, out[p][i])

\* "Each row ... may have different payload columns" (OsqueryRecordParser.java 144-146), so
\* every row fits its Schema.
EveryRowFits == \A p \in Subtask : \A i \in DOMAIN out[p] : RowFits(p, out[p][i])

\* The raw strings whose identifier depends on the kind and that serve as both.
Clashing == Headless \cap TableStrings \cap FieldStrings

Mentions(m) == {QueryName(m)} \cup MetaStrings(m) \cup UNION ToSet(PayloadRows(m))

\* Two messages with the same fields in another order give the same rows, whichever subtask
\* parses them after whatever else: "meta fields appearing anywhere in the object ... are all
\* collected before schema construction" (149-151).  The exception is a message with a string
\* for whose identifier the cache may have kept the other kind.
SameFieldsSameRows ==
  \A p, q \in Subtask : \A i \in DOMAIN out[p], j \in DOMAIN out[q] :
    LET a == out[p][i]  b == out[q][j]
    IN  /\ ToSet(a.message) = ToSet(b.message)
        /\ a.row = b.row
        /\ Len(Fields(a.message, {"name"})) = 1
        /\ Len(Fields(a.message, {"columns", "snapshot"})) = 1
        /\ Mentions(a.message) \cap Clashing = {}
        => /\ a.table = b.table /\ a.cells = b.cells
           /\ heap[p][a.schema] = heap[q][b.schema]
=============================================================================
