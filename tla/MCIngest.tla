------------------------------ MODULE MCIngest ------------------------------
(***************************************************************************)
(* An instance of Ingest: two subtasks and the messages that matter to     *)
(* them.  The keys collide in every way they can: uid, UID and uid_2;      *)
(* meta_epoch with the metadata; time with the column of unixTime;         *)
(* meta_time and meta_time_day with the partition by day; 1, which is no   *)
(* identifier, as a key and as a query name.                               *)
(***************************************************************************)
EXTENDS Ingest

MCKeys == <<"1", "UID", "epoch", "meta_epoch", "meta_time", "meta_time_day", "q", "time", "uid", "uid_2">>

MCWords == [r \in ToSet(MCKeys) |->
  CASE r = "UID"        -> <<"uid">>
    [] r = "meta_epoch" -> <<"meta", "epoch">>
    [] r = "meta_time"  -> <<"meta", "time">>
    [] r = "meta_time_day" -> <<"meta", "time", "day">>
    [] r = "uid_2"      -> <<"uid", "2">>
    [] OTHER            -> <<r>>]

MCLetters  == {"epoch", "meta", "q", "time", "uid"}
MCAlphabet == <<"1", "2", "day", "decoration", "epoch", "field", "ingest", "meta", "q", "table",
                "time", "uid">>

Field(key, raw, type) == [key |-> key, raw |-> raw, type |-> type, rows |-> <<>>]
Payload(key, rows)    == [key |-> key, raw |-> key, type |-> "string", rows |-> rows]

Name(r) == Field("name", r, "string")
Time    == Field("time", "time", "long")
Epoch   == Field("meta", "epoch", "long")
Host    == Field("decoration", "uid", "string")

MCMessage == {
  \* a differential row whose keys collide, with its metadata before and after it
  <<Name("q"), Time, Epoch, Host, Payload("columns", <<{"UID", "uid", "uid_2"}>>)>>,
  <<Host, Payload("columns", <<{"UID", "uid", "uid_2"}>>), Epoch, Name("q"), Time>>,
  \* a snapshot with a null epoch, whose keys collide with the metadata
  <<Name("q"), Field("meta", "epoch", "string"),
    Payload("snapshot", <<{"meta_epoch", "uid"}, {"meta_epoch", "uid"}>>)>>,
  \* a snapshot whose rows differ; one without rows; one overridden
  <<Name("q"), Payload("snapshot", <<{"uid"}, {"epoch"}, {"uid"}>>)>>,
  <<Name("q"), Payload("snapshot", <<>>)>>,
  <<Name("q"), Payload("snapshot", <<{"uid"}, {"uid"}>>), Payload("columns", <<{"epoch"}>>)>>,
  \* messages to be dropped
  <<Name("q"), Field("meta", "1", "long"), Field("malformed", "q", "string")>>,
  <<Time, Field("meta", "time", "long"), Name("q"), Payload("columns", <<{"uid"}>>)>>,
  <<Name("q"), Time, Payload("columns", <<{"meta_time", "meta_time_day"}>>)>>,
  <<Name("q"), Payload("snapshot", <<{"meta_time"}, {"uid"}>>)>>,
  \* 1 as a query name and as a column
  <<Name("1"), Payload("columns", <<{"uid"}>>)>>,
  <<Name("q"), Payload("columns", <<{"1"}>>)>>}
=============================================================================
