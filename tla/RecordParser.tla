---------------------------- MODULE RecordParser ----------------------------
(***************************************************************************)
(* OsqueryRecordParser.parse: from a JSON message to a table name and one  *)
(* row of data per payload row.                                            *)
(*                                                                         *)
(* A message is the sequence of its top-level fields.  A field is a record *)
(* [key, raw, type, rows]: key says which branch of the loop takes it, raw *)
(* is the query name or the JSON key, type the Iceberg type its value is   *)
(* given, rows the payload rows it carries.  A decorations object is its   *)
(* fields one after another.  A payload row is the set of its keys.  An    *)
(* identifier is the sequence of the words between its underscores; a cell *)
(* of row data is named by where its value comes from.                     *)
(***************************************************************************)
EXTENDS Selection, Naturals, SequencesExt

CONSTANTS
  Keys,      \* the strings that serve as query names and JSON keys, in string order
  Words,     \* Words[r]: the words of r, lower-cased and cut at every other character
  Letters,   \* the words that begin with a letter
  Alphabet   \* all words, in string order

Raw == ToSet(Keys)

\* What sanitizeIdentifier must put the kind before: nothing is left of it, or its
\* first character is no letter.
Headless == {r \in Raw : Words[r] = <<>> \/ Head(Words[r]) \notin Letters}

\* What the proofs need of the constants: no string is listed twice, and the words from
\* which the names of metadata columns are made have their place in the order.
ASSUME ParserAssumption ==
  /\ Keys \in Seq(Raw) /\ Alphabet \in Seq(ToSet(Alphabet))
  /\ \A i, j \in DOMAIN Keys : Keys[i] = Keys[j] => i = j
  /\ \A i, j \in DOMAIN Alphabet : Alphabet[i] = Alphabet[j] => i = j
  /\ {"meta", "decoration", "table", "field"} \subseteq ToSet(Alphabet)
  /\ Words \in [Raw -> Seq(ToSet(Alphabet))]

-----------------------------------------------------------------------------
(* Identifiers.  identifierCache holds one result per raw string, whatever *)
(* kind it was computed with.  memo remembers that kind, where it matters. *)

Kind == {"none", "table", "field"}

Normalize(r, kind) == IF r \in Headless THEN <<kind>> \o Words[r] ELSE Words[r]

SanitizeIdentifier(memo, r, kind) ==
  Normalize(r, IF r \in Headless /\ memo[r] # "none" THEN memo[r] ELSE kind)

Remember(memo, names, kind) ==
  [r \in Headless |-> IF r \in names /\ memo[r] = "none" THEN kind ELSE memo[r]]

-----------------------------------------------------------------------------
(* The loop over the fields.  It raises at the first malformed one: a      *)
(* snapshot that is no array, a unixTime that is no number, broken JSON.   *)

Readable(m) ==
  LET stop == SelectInSeq(m, LAMBDA f : f.key = "malformed")
  IN  IF stop = 0 THEN m ELSE SubSeq(m, 1, stop - 1)

Fields(m, keys) == Only(Readable(m), {f \in ToSet(m) : f.key \in keys})

MetaFields(m) == Fields(m, {"meta", "decoration"})

\* The last one wins, the last of columns and snapshot too.
QueryName(m)   == Last(Fields(m, {"name"})).raw
PayloadRows(m) == Last(Fields(m, {"columns", "snapshot"})).rows

Complete(m) ==
  /\ Readable(m) = m
  /\ Fields(m, {"name"}) # <<>>
  /\ Fields(m, {"columns", "snapshot"}) # <<>>

-----------------------------------------------------------------------------
(* Metadata columns.                                                       *)

Place(w) == CHOOSE i \in DOMAIN Alphabet : Alphabet[i] = w

\* String order of identifiers: b goes on where a ends, or with a later word.
Before(a, b) ==
  \E n \in 0..Len(a) :
    /\ n < Len(b)
    /\ \A i \in 1..n : a[i] = b[i]
    /\ n = Len(a) \/ Place(a[n + 1]) < Place(b[n + 1])

\* List.sort: the order in which the positions of names come; equal ones keep theirs.
SortOrder(names) ==
  LET positions == DOMAIN names
  IN  CHOOSE order \in [positions -> positions] :
        /\ \A i \in positions : \E k \in positions : order[k] = i
        /\ \A i, j \in positions : i < j =>
             \/ Before(names[order[i]], names[order[j]])
             \/ names[order[i]] = names[order[j]] /\ order[i] < order[j]

MetaField(memo, f) ==
  [name |-> <<f.key>> \o SanitizeIdentifier(memo, f.raw, "field"),
   type |-> f.type, cell |-> <<f.key, f.raw>>]

Stamp(what) == [name |-> what, type |-> "timestamp", cell |-> <<"stamp">> \o what]

\* Mutant: the metadata stays in the order of the message.
MutantAssemble(memo, m) ==
  LET time == IF Fields(m, {"time"}) = <<>> THEN <<>> ELSE <<Stamp(<<"meta", "time">>)>>
  IN  time \o <<Stamp(<<"meta", "ingest", "time">>)>>
           \o [i \in DOMAIN MetaFields(m) |-> MetaField(memo, MetaFields(m)[i])]

AssembleFinalMetaFields(memo, m) ==
  LET other == [i \in DOMAIN MetaFields(m) |-> MetaField(memo, MetaFields(m)[i])]
      order == SortOrder([i \in DOMAIN other |-> other[i].name])
      time  == IF Fields(m, {"time"}) = <<>> THEN <<>> ELSE <<Stamp(<<"meta", "time">>)>>
  IN  time \o <<Stamp(<<"meta", "ingest", "time">>)>> \o [i \in DOMAIN other |-> other[order[i]]]

-----------------------------------------------------------------------------
(* Payload columns and rows.                                               *)

SortedKeys(row) == Only(Keys, row)

\* Mutant: the suffixes of colliding names forgotten.
MutantFreeName(name, taken) == name

\* The name itself, or with the first suffix that is free.
FreeName(name, taken) ==
  IF name \notin taken THEN name
  ELSE LET Suffixed(n) == Append(name, ToString(n))
           free == {n \in 2..(Cardinality(taken) + 2) : Suffixed(n) \notin taken}
       IN  Suffixed(Min(free))

SanitizePayloadColumns(memo, meta, row) ==
  LET reserved == {meta[i].name : i \in DOMAIN meta}
      names[n \in DOMAIN SortedKeys(row)] ==
        FreeName(SanitizeIdentifier(memo, SortedKeys(row)[n], "field"),
                 reserved \cup {names[k] : k \in 1..(n - 1)})
  IN  names

\* Signature and Schema in one: they determine each other.
Columns(memo, meta, row) ==
  LET names == SanitizePayloadColumns(memo, meta, row)
  IN  [i \in DOMAIN meta |-> [name |-> meta[i].name, type |-> meta[i].type]]
      \o [i \in DOMAIN names |-> [name |-> names[i], type |-> "string"]]

\* Mutant: the payload in a map that does not keep the order of its entries.
MutantRowData(meta, row) ==
  [i \in DOMAIN meta |-> meta[i].cell]
  \o [i \in DOMAIN SortedKeys(row) |-> <<"row", Reverse(SortedKeys(row))[i]>>]

RowData(meta, row) ==
  [i \in DOMAIN meta |-> meta[i].cell]
  \o [i \in DOMAIN SortedKeys(row) |-> <<"row", SortedKeys(row)[i]>>]

\* new Schema(fields) raises on two columns of one name.
IsSchema(columns) == \A i, j \in DOMAIN columns : columns[i].name = columns[j].name => i = j

ColumnNames(columns) == {columns[i].name : i \in DOMAIN columns}

\* day(meta_time) adds a partition field meta_time_day.  It raises when a column has that
\* name, or meta_time is no timestamp; without meta_time the table is not partitioned.
HasPartitionSpec(columns) ==
  <<"meta", "time">> \in ColumnNames(columns) =>
    /\ <<"meta", "time", "day">> \notin ColumnNames(columns)
    /\ \A i \in DOMAIN columns :
         columns[i].name = <<"meta", "time">> => columns[i].type = "timestamp"

-----------------------------------------------------------------------------
\* buildRowEnvelopeFromMap and buildRowDataOnlyFromMap on the rows of a message, with what
\* identifierCache holds after its metadata and after its name.  The first row is what the
\* Schema is made for; schema says whether there is one, which is then cached.
BuildRowEnvelopes(metaMemo, nameMemo, m, meta, columns) ==
  LET rows   == PayloadRows(m)
      schema == rows # <<>> /\ IsSchema(columns)
      ok     == rows = <<>> \/ (schema /\ HasPartitionSpec(columns))
      keys   == IF rows = <<>> THEN {} ELSE IF ok THEN UNION ToSet(rows) ELSE Head(rows)
  IN  [ok      |-> ok,
       schema  |-> schema,
       memo    |-> Remember(nameMemo, keys, "field"),
       table   |-> <<"osquery">> \o SanitizeIdentifier(metaMemo, QueryName(m), "table"),
       columns |-> IF rows = <<>> THEN <<>> ELSE columns,
       cells   |-> [i \in DOMAIN rows |-> RowData(meta, rows[i])]]

\* parse(json): ok is FALSE where it raises, memo is what it leaves in identifierCache.
Parse(memo, m) ==
  LET metaMemo == Remember(memo, {f.raw : f \in ToSet(MetaFields(m))}, "field")
      nameMemo == Remember(metaMemo, {QueryName(m)}, "table")
      meta     == AssembleFinalMetaFields(metaMemo, m)
  IN  IF ~Complete(m)
      THEN [ok |-> FALSE, schema |-> FALSE, memo |-> metaMemo]
      ELSE BuildRowEnvelopes(metaMemo, nameMemo, m, meta,
                             Columns(nameMemo, meta, Head(PayloadRows(m))))
=============================================================================
