--------------------------- MODULE SupersetImport ---------------------------
(***************************************************************************)
(* import_resources.py: the job that loads the demo dataset, its charts    *)
(* and the dashboard into Superset, and loads them again at every sync.    *)
(* What exists is found by name and updated.  The dashboard was exported   *)
(* from another Superset: the numbers of its charts, their uuids and the   *)
(* keys of its layout are replaced before it is stored.  A lookup and the  *)
(* request that depends on it are one step: nobody else writes meanwhile.  *)
(* A lookup reads the first page of a list.  Of a kind whose list is       *)
(* crowded, longer than a page, it may miss what exists.                   *)
(***************************************************************************)
EXTENDS Jobs, Sequences, FiniteSets

CONSTANTS
  Charts,     \* the number of charts in resources.json; a chart's name is its place there
  OldRefs,    \* OLD_CHART_REFS: the number each chart had where it was exported
  Exported,   \* the dashboard in resources.json: its layout, scopes and global scope
  MaxEdits    \* times an administrator renames or deletes a resource or users crowd a list

ASSUME ImportAssumption ==
  /\ Charts \in Nat \ {0} /\ OldRefs \in [1..Charts -> Nat] /\ MaxEdits \in Nat

\* What resources.json and OLD_CHART_REFS are: the layout is a tree of nodes that list their
\* ancestors, every chart has a node with the number and the uuid it had, and every chart
\* filters all the others.
ASSUME ExportAssumption ==
  LET layout == Exported.layout
      refs   == {OldRefs[n] : n \in 1..Charts}
      NodeOf(key, name) == /\ layout[key].type = "CHART" /\ layout[key].name = name
                           /\ layout[key].chart = OldRefs[name]
                           /\ layout[key].uuid = <<OldRefs[name], 0>>
  IN  /\ \A m, n \in 1..Charts : OldRefs[m] = OldRefs[n] => m = n
      /\ \A key \in DOMAIN layout : key = <<key[1], 0>>
      /\ layout \in [DOMAIN layout ->
           [type : STRING, children : Seq(DOMAIN layout), parents : Seq(DOMAIN layout),
            name : Nat, chart : Nat, uuid : Seq(Nat)]]
      /\ \A key \in DOMAIN layout : \A i \in DOMAIN layout[key].children :
           layout[layout[key].children[i]].parents = Append(layout[key].parents, key)
      /\ \A name \in 1..Charts : \E key \in DOMAIN layout : NodeOf(key, name)
      /\ \A key \in DOMAIN layout : layout[key].type = "CHART" =>
           \E name \in 1..Charts : NodeOf(key, name)
      /\ Exported.scopes = {[key |-> id, id |-> id, inScope |-> refs \ {id}] : id \in refs}
      /\ Exported.global = refs

VARIABLES
  superset,   \* Superset: reachable, its Trino database, whether its list of charts has uuids,
              \*   the last number given, the datasets, charts and dashboards of these names, and
              \*   the kinds whose list is longer than a page
  import,     \* the script's dataset_results (0: empty), chart_results, dash_id and loop counter
  edits

importVars == <<superset, import, edits>>

S == "superset-import"

Kinds == {"database", "dataset", "chart", "dashboard"}

Start == [dataset |-> 0, charts |-> <<>>, board |-> 0, linked |-> 0]

InitOfImport ==
  /\ superset \in [up : {FALSE}, database : {"absent"}, listsUuid : BOOLEAN, last : {0},
                   datasets : {{}}, timed : {FALSE}, charts : {{}}, boards : {{}},
                   crowded : {{}}]
  /\ superset.listsUuid => job[S] # "absent"
  /\ import = Start
  /\ edits = 0

-----------------------------------------------------------------------------
(* The exported dashboard.  A key of its layout is a pair, with 0 in the   *)
(* export and 1 for a random key of the import; a uuid is the pair of a    *)
(* chart's number and 0 in the export, 1 in this Superset.                 *)

\* Mutant: a number that is also in use here is taken to be up to date.
MutantIdMap(results, id) ==
  LET Refs == {n \in 1..Len(results) : OldRefs[n] = id}
  IN  IF Refs = {} \/ \E n \in 1..Len(results) : results[n].id = id
      THEN id ELSE results[CHOOSE n \in Refs : TRUE].id

IdMap(results, id) ==
  LET Refs == {n \in 1..Len(results) : OldRefs[n] = id}
  IN  IF Refs = {} THEN id ELSE results[CHOOSE n \in Refs : TRUE].id

UuidMap(results, uuid) ==
  LET Refs == {n \in 1..Len(results) : <<OldRefs[n], 0>> = uuid /\ results[n].uuid # <<>>}
  IN  IF Refs = {} THEN uuid ELSE results[CHOOSE n \in Refs : TRUE].uuid

\* Charts and rows get a random key.
NodeKey(layout, key) ==
  IF layout[key].type \in {"CHART", "ROW"} THEN <<key[1], 1>> ELSE key

UpdatePositionJson(layout, results) ==
  [new \in {NodeKey(layout, key) : key \in DOMAIN layout} |->
     LET node == layout[CHOOSE key \in DOMAIN layout : NodeKey(layout, key) = new]
     IN  [node EXCEPT !.children = [i \in DOMAIN @ |-> NodeKey(layout, @[i])],
                      !.parents = [i \in DOMAIN @ |-> NodeKey(layout, @[i])],
                      !.chart = IdMap(results, @), !.uuid = UuidMap(results, @)]]

UpdateJsonMetadata(scopes, results) ==
  {[key |-> IdMap(results, s.key), id |-> IdMap(results, s.id),
    inScope |-> {IdMap(results, id) : id \in s.inScope}] : s \in scopes}

-----------------------------------------------------------------------------
(* The script.                                                             *)

\* auth() comes before the wait loop: a Superset that is not there yet ends the pod.
Login ==
  /\ Advance(S, "login", "ready")
  /\ superset.up
  /\ UNCHANGED importVars

WaitForSuperset ==
  /\ Poll(S, "ready", superset.up, "dataset")
  /\ UNCHANGED importVars

\* A request outside the wait loop that cannot be sent raises.
SupersetGone ==
  /\ at[S] \in {"login", "dataset", "chart", "board", "link"}
  /\ ~superset.up
  /\ PodFails(S)
  /\ UNCHANGED <<tries, kills, importVars>>

\* A lookup that finds nothing: there is nothing, or it is not on the first page.
NotFound(kind, found) == found = {} \/ kind \in superset.crowded

\* Without its database the dataset is skipped with a message.
SkipDataset ==
  /\ Advance(S, "dataset", "chart")
  /\ superset.up
  /\ NotFound("database", {superset.database} \cap {"Trino"})
  /\ UNCHANGED importVars

\* Mutant: the dataset is not looked up, and Superset refuses a second one of that name.
MutantEnsureDataset ==
  /\ at[S] = "dataset"
  /\ superset.up /\ superset.database = "Trino"
  /\ IF superset.datasets # {}
     THEN PodFails(S) /\ UNCHANGED <<tries, kills, importVars>>
     ELSE /\ Advance(S, "dataset", "chart")
          /\ LET id == superset.last + 1
             IN  /\ superset' = [superset EXCEPT !.datasets = {id}, !.last = id]
                 /\ import' = [import EXCEPT !.dataset = id]
          /\ UNCHANGED edits

\* The dataset of that name or a new one; a refused main_dttm_col is a warning.
EnsureDataset ==
  /\ Advance(S, "dataset", "chart")
  /\ superset.up /\ superset.database = "Trino"
  /\ \E id \in IF superset.datasets = {} THEN {superset.last + 1} ELSE superset.datasets,
        timed \in {superset.timed, TRUE} :
       /\ superset' = [superset EXCEPT !.datasets = @ \cup {id}, !.timed = timed,
                                       !.last = IF superset.datasets = {} THEN id ELSE @]
       /\ import' = [import EXCEPT !.dataset = id]
  /\ UNCHANGED edits

\* Superset refuses a second dataset of that name, and the script does not catch that.
DatasetRefused ==
  /\ at[S] = "dataset"
  /\ superset.up /\ superset.database = "Trino"
  /\ superset.datasets # {} /\ NotFound("dataset", superset.datasets)
  /\ PodFails(S)
  /\ UNCHANGED <<tries, kills, importVars>>

\* The charts of resources.json one after the other; the next is chart number Current.
Current == Len(import.charts) + 1

\* Mutant: the loop goes one chart too far.
MutantNextChart == Advance(S, "chart", IF Current <= Charts THEN "chart" ELSE "board")

NextChart == Advance(S, "chart", IF Current < Charts THEN "chart" ELSE "board")

Named(name) == {chart \in superset.charts : chart.name = name}

\* Mutant: a chart that exists is left as it is.
MutantUpdateChart ==
  /\ NextChart
  /\ superset.up
  /\ \E chart \in Named(Current) :
       import' = [import EXCEPT !.charts =
                    Append(@, [id |-> chart.id,
                               uuid |-> IF superset.listsUuid THEN <<chart.id, 1>> ELSE <<>>])]
  /\ UNCHANGED <<superset, edits>>

\* A chart that is found gets new params, which name the dataset.  The dataset it was created
\* with, which Superset draws it from, stays.
UpdateChart ==
  /\ NextChart
  /\ superset.up
  /\ \E chart \in Named(Current) :
       /\ superset' = [superset EXCEPT !.charts =
                         (@ \ {chart}) \cup {[chart EXCEPT !.params = import.dataset]}]
       /\ import' = [import EXCEPT !.charts =
                       Append(@, [id |-> chart.id,
                                  uuid |-> IF superset.listsUuid THEN <<chart.id, 1>> ELSE <<>>])]
  /\ UNCHANGED edits

\* Mutant: a chart is created whether or not it is there.
MutantCreateChart ==
  /\ NextChart
  /\ superset.up /\ import.dataset # 0
  /\ LET id == superset.last + 1
     IN  /\ superset' = [superset EXCEPT !.last = id, !.charts = @ \cup
                {[id |-> id, name |-> Current, dataset |-> import.dataset,
                  params |-> import.dataset, boards |-> {}]}]
         /\ import' = [import EXCEPT !.charts = Append(@, [id |-> id, uuid |-> <<id, 1>>])]
  /\ UNCHANGED edits

CreateChart ==
  /\ NextChart
  /\ superset.up /\ import.dataset # 0
  /\ NotFound("chart", Named(Current))
  /\ LET id == superset.last + 1
     IN  /\ superset' = [superset EXCEPT !.last = id, !.charts = @ \cup
                {[id |-> id, name |-> Current, dataset |-> import.dataset,
                  params |-> import.dataset, boards |-> {}]}]
         /\ import' = [import EXCEPT !.charts = Append(@, [id |-> id, uuid |-> <<id, 1>>])]
  /\ UNCHANGED edits

\* Superset refuses a chart without a dataset.
ChartRefused ==
  /\ at[S] = "chart"
  /\ superset.up /\ import.dataset = 0
  /\ NotFound("chart", Named(Current))
  /\ PodFails(S)
  /\ UNCHANGED <<tries, kills, importVars>>

Board(id) ==
  [id |-> id, layout |-> UpdatePositionJson(Exported.layout, import.charts),
   scopes |-> UpdateJsonMetadata(Exported.scopes, import.charts),
   global |-> {IdMap(import.charts, chart) : chart \in Exported.global}]

\* The dashboard that is found gets the whole payload again, or there is a new one.
StoreDashboard(id) ==
  /\ superset' = [superset EXCEPT !.boards = {b \in @ : b.id # id} \cup {Board(id)},
                                  !.last = IF id > @ THEN id ELSE @]
  /\ import' = [import EXCEPT !.board = id]

EnsureDashboard ==
  /\ Advance(S, "board", "link")
  /\ superset.up
  /\ \/ \E board \in superset.boards : StoreDashboard(board.id)
     \/ NotFound("dashboard", superset.boards) /\ StoreDashboard(superset.last + 1)
  /\ UNCHANGED edits

\* PUT /chart/<id> sets the dashboards of one chart after the other.
LinkChart ==
  /\ Advance(S, "link", IF import.linked + 1 < Len(import.charts) THEN "link" ELSE "exit")
  /\ superset.up
  /\ superset' = [superset EXCEPT !.charts =
       {IF chart.id = import.charts[import.linked + 1].id
        THEN [chart EXCEPT !.boards = {import.board}] ELSE chart : chart \in @}]
  /\ import' = [import EXCEPT !.linked = @ + 1]
  /\ UNCHANGED edits

ImportResources ==
  \/ Login \/ WaitForSuperset \/ SupersetGone \/ SkipDataset \/ EnsureDataset
  \/ DatasetRefused \/ UpdateChart \/ CreateChart \/ ChartRefused
  \/ EnsureDashboard \/ LinkChart

-----------------------------------------------------------------------------
(* Superset, the chart that installs it, the deadline of the job, and the  *)
(* administrator and users, who change nothing while the job runs.         *)

SupersetUp ==
  /\ job[S] # "absent"
  /\ ~superset.up
  /\ superset' = [superset EXCEPT !.up = TRUE]
  /\ UNCHANGED <<jobVars, podVars, import, edits>>

\* Superset's own init job imports the database some time after the API answers.
ImportDatabase ==
  /\ superset.up /\ superset.database = "absent"
  /\ superset' = [superset EXCEPT !.database = "Trino"]
  /\ UNCHANGED <<jobVars, podVars, import, edits>>

\* Superset's pod is restarted, a fault of the same budget as the others.
SupersetDown ==
  /\ superset.up
  /\ kills < MaxKills
  /\ kills' = kills + 1
  /\ superset' = [superset EXCEPT !.up = FALSE]
  /\ UNCHANGED <<jobVars, at, tries, import, edits>>

\* activeDeadlineSeconds: the job fails whatever its backoffLimit.
DeadlineExceeded ==
  /\ job[S] \in {"pending", "running"}
  /\ kills < MaxKills
  /\ kills' = kills + 1
  /\ job' = [job EXCEPT ![S] = "failed"]
  /\ Goto(S, "none")
  /\ tries' = [tries EXCEPT ![S] = 0]
  /\ UNCHANGED <<failures, syncs, importVars>>

Edit ==
  /\ job[S] \in {"complete", "failed"}
  /\ edits < MaxEdits
  /\ edits' = edits + 1
  /\ \/ /\ superset.database = "Trino"
        /\ superset' = [superset EXCEPT !.database = "renamed"]
     \/ /\ superset.datasets # {}
        /\ superset' = [superset EXCEPT !.datasets = {}, !.timed = FALSE]
     \/ \E chart \in superset.charts : superset' = [superset EXCEPT !.charts = @ \ {chart}]
     \/ \E board \in superset.boards : superset' = [superset EXCEPT !.boards = @ \ {board}]
     \/ \E kind \in Kinds \ superset.crowded :
          superset' = [superset EXCEPT !.crowded = @ \cup {kind}]
  /\ UNCHANGED <<jobVars, podVars, import>>

Superset == SupersetUp \/ ImportDatabase \/ SupersetDown \/ DeadlineExceeded \/ Edit

-----------------------------------------------------------------------------
(* Properties.                                                             *)

Ids == 0..superset.last

ImportTypes ==
  /\ superset.up \in BOOLEAN /\ superset.listsUuid \in BOOLEAN /\ superset.timed \in BOOLEAN
  /\ superset.database \in {"absent", "Trino", "renamed"}
  /\ superset.crowded \subseteq Kinds
  /\ superset.last \in Nat /\ superset.datasets \subseteq Ids
  /\ superset.charts \subseteq [id : Ids, name : 1..Charts, dataset : Ids, params : Ids,
                                boards : SUBSET Ids]
  /\ import.dataset \in Ids /\ import.board \in Ids
  /\ Len(import.charts) <= Charts /\ import.linked <= Len(import.charts)
  /\ edits \in 0..MaxEdits

\* However often pods are killed and the job is made again, there is one dataset, one chart of
\* each name and one dashboard: a pod that died after a request was served, but before it knew,
\* is followed by one that finds the result.  That of charts and dashboards holds as long as
\* the list the lookup reads fits on one page; a second dataset Superset refuses
\* (import_resources.py 98-104, 162-168, 310-316).
ImportedOnce ==
  /\ Cardinality(superset.datasets) <= 1
  /\ "chart" \notin superset.crowded =>
       \A name \in 1..Charts : Cardinality(Named(name)) <= 1
  /\ "dashboard" \notin superset.crowded => Cardinality(superset.boards) <= 1

\* An import that has come to its end leaves a dashboard that belongs to this Superset: its
\* layout is a tree, each of its charts is the chart of that name here, which knows the
\* dashboard, and every chart filters all the others, although the numbers of the charts
\* here and in the export overlap (import_resources.py 213-307, 362-365).  Charts that exist
\* must be on the first page, or there are two of a name and the dashboard has one of them.
DashboardComplete ==
  at[S] = "exit" /\ "chart" \notin superset.crowded =>
    \E board \in superset.boards :
      LET nodes == {board.layout[key] : key \in DOMAIN board.layout}
          ids   == {chart.id : chart \in superset.charts}
      IN  /\ \A key \in DOMAIN board.layout : \A i \in DOMAIN board.layout[key].children :
               LET child == board.layout[key].children[i]
               IN  /\ child \in DOMAIN board.layout
                   /\ board.layout[child].parents = Append(board.layout[key].parents, key)
          /\ \A chart \in superset.charts :
               /\ chart.boards = {board.id}
               /\ \E node \in nodes : node.name = chart.name /\ node.chart = chart.id
          /\ \A node \in nodes : node.type = "CHART" =>
               node.uuid = <<node.chart, 1>> \/ ~superset.listsUuid
          /\ board.scopes = {[key |-> id, id |-> id, inScope |-> ids \ {id}] : id \in ids}
          /\ board.global = ids

\* An import that has come to its end leaves the params of every chart naming the dataset that
\* is there, also when the dataset was deleted and made again.  Where the lookup does not find
\* the database, renamed or not on the first page, the dataset is skipped and charts that had
\* one lose it, while the job still completes; and of two charts of one name only one is
\* updated (import_resources.py 111-114, 153-185).
ChartsBound ==
  at[S] = "exit" =>
    \/ superset.database = "renamed" \/ superset.crowded \cap {"database", "chart"} # {}
    \/ \A chart \in superset.charts : chart.params \in superset.datasets

\* Once no more pods are killed, a job whose pod is still to start completes if Superset and
\* its database are there: nothing a killed pod left behind stops the next.  The lists of
\* databases and datasets must fit on a page: a dataset that is not found is created again,
\* refused, and fails every pod of every job.
ImportConverges ==
  (/\ kills = MaxKills /\ job[S] = "pending"
   /\ superset.up /\ superset.database = "Trino"
   /\ superset.crowded \cap {"database", "dataset"} = {}) ~> (job[S] = "complete")

=============================================================================
