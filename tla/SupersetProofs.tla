--------------------------- MODULE SupersetProofs ---------------------------
(***************************************************************************)
(* Proofs about the import of the resources of Superset among the other    *)
(* jobs, for any number of charts, kills, syncs and edits.                 *)
(***************************************************************************)
EXTENDS InitJobsProofs, SequenceTheorems

\* The steps of the other scripts and of their services do not touch the import.
LEMMA OtherSteps ==
  ASSUME TypeOK, GarageInit \/ PolarisInit \/ KafkaCaInit \/ Services
  PROVE  at'[S] = at[S] /\ job'[S] = job[S] /\ UNCHANGED importVars
<1> USE DEF TypeOK, Job, G, P, K, S, Advance, Poll, PodFails, Goto, jobVars, podVars
<1>1. CASE GarageInit
  BY <1>1 DEF GarageInit, WaitForGarage, GetClusterStatus, UpdateClusterLayout,
     ApplyClusterLayout, WaitForHealthy, GarageRefuses, EnsureBucket, EnsureKey,
     AllowBucketKey, UpsertSecret
<1>2. CASE PolarisInit
  BY <1>2 DEF PolarisInit, WaitForPolaris, EnsureCatalog, CreateRole, RoleExists,
     GrantManageContent, AssignRole, EnsureNamespace
<1>3. CASE KafkaCaInit
  BY <1>3 DEF KafkaCaInit, CheckSecrets, DeleteCert, DeleteKey, CreateCert, MarkCert, CreateKey,
     MarkKey
<1>4. CASE Services
  BY <1>4 DEF Services, GarageUp, GarageHealthy, PolarisUp, Rotate
<1> QED
  BY <1>1, <1>2, <1>3, <1>4

\* A step of Kubernetes starts the script with nothing, ends it, or leaves it where it is.
LEMMA PodOfImport ==
  ASSUME TypeOK, NEW j \in Job, StartPod(j) \/ KillPod(j) \/ ExitPod(j) \/ Sync(j)
  PROVE  /\ UNCHANGED <<superset, edits>>
         /\ \/ at'[S] = "login" /\ job'[S] = "running" /\ import' = Start
            \/ at'[S] = "none" /\ UNCHANGED import
            \/ at'[S] = at[S] /\ job'[S] = job[S] /\ UNCHANGED import
            \/ at'[S] = at[S] /\ job[S] \in {"complete", "failed"} /\ UNCHANGED import
<1> USE DEF TypeOK, Job, S, Goto, PodFails, podVars, importVars
<1>1. CASE StartPod(j)
  BY <1>1 DEF StartPod
<1>2. CASE KillPod(j)
  BY <1>2 DEF KillPod
<1>3. CASE ExitPod(j)
  BY <1>3 DEF ExitPod
<1>4. CASE Sync(j)
  BY <1>4 DEF Sync
<1> QED
  BY <1>1, <1>2, <1>3, <1>4

-----------------------------------------------------------------------------
(* Types, the places of the loops, and one resource of each name.          *)

ChartType == [id : Ids, name : 1..Charts, dataset : Ids, params : Ids, boards : SUBSET Ids]

\* The value of superset, for the script's steps to change parts of.
Shape ==
  /\ superset = [f \in {"up", "database", "listsUuid", "last", "datasets", "timed", "charts",
                        "boards", "crowded"} |-> superset[f]]
  /\ import = [f \in {"dataset", "charts", "board", "linked"} |-> import[f]]

Places ==
  /\ import.charts \in Seq([id : Ids, uuid : Seq(Nat)])
  /\ import.linked \in Nat
  /\ \A board \in superset.boards : board.id \in Ids
  /\ job[S] # "running" => at[S] = "none"
  /\ at[S] \in {"login", "ready", "dataset"} => import = Start
  /\ at[S] = "chart" => Len(import.charts) < Charts
  /\ at[S] \in {"chart", "board"} => import.linked = 0
  /\ at[S] \in {"board", "link", "exit"} => Len(import.charts) = Charts
  /\ at[S] = "link" => import.linked < Charts

\* The lists of charts and dashboards must not have outgrown a page.
Once ==
  /\ \A a, b \in superset.datasets : a = b
  /\ "chart" \notin superset.crowded =>
       \A c, d \in superset.charts : c.name = d.name => c = d
  /\ "dashboard" \notin superset.crowded => \A a, b \in superset.boards : a = b

ImportInv == Shape /\ ImportTypes /\ Places /\ Once

LEMMA InitImport == Init => ImportInv
<1> SUFFICES ASSUME Init PROVE ImportInv
  OBVIOUS
<1> USE ImportAssumption DEF Init, InitOfImport, InitOfJobs, Start, Ids, Job, S
<1>1. Shape
  BY DEF Shape
<1>2. ImportTypes
  <2>1. /\ superset.up \in BOOLEAN /\ superset.listsUuid \in BOOLEAN /\ superset.timed \in BOOLEAN
        /\ superset.database = "absent" /\ superset.last = 0
        /\ superset.datasets = {} /\ superset.charts = {} /\ superset.crowded = {}
    OBVIOUS
  <2>2. /\ import.dataset = 0 /\ import.board = 0 /\ import.linked = 0 /\ edits = 0
        /\ Len(import.charts) = 0
    BY EmptySeq
  <2>3. MaxEdits \in Nat /\ Charts \in Nat
    OBVIOUS
  <2> HIDE DEF Init, InitOfImport, InitOfJobs, Start
  <2> QED
    BY <2>1, <2>2, <2>3 DEF ImportTypes
<1>3. Places
  BY EmptySeq DEF Places
<1>4. Once
  BY DEF Once
<1> QED
  BY <1>1, <1>2, <1>3, <1>4 DEF ImportInv

\* More numbers are given: what has a number keeps it.
LEMMA Grows ==
  ASSUME superset.last \in Nat, superset'.last \in Nat, superset.last <= superset'.last
  PROVE  /\ Ids \subseteq Ids' /\ superset'.last \in Ids'
         /\ ChartType \subseteq ChartType'
         /\ Seq([id : Ids, uuid : Seq(Nat)]) \subseteq Seq([id : Ids, uuid : Seq(Nat)])'
<1>1. Ids \subseteq Ids' /\ superset'.last \in Ids'
  BY DEF Ids
<1>2. ChartType \subseteq ChartType'
  BY <1>1 DEF ChartType
<1>3. [id : Ids, uuid : Seq(Nat)] \subseteq [id : Ids', uuid : Seq(Nat)]
  BY <1>1
<1>4. Seq([id : Ids, uuid : Seq(Nat)]) \subseteq Seq([id : Ids', uuid : Seq(Nat)])
  BY <1>3, SeqMonotonic
<1> QED
  BY <1>1, <1>2, <1>4

\* Append as the script uses it.
LEMMA AppendResult ==
  ASSUME NEW results \in Seq([id : Ids, uuid : Seq(Nat)]), NEW id \in Ids, NEW uuid \in Seq(Nat)
  PROVE  /\ Append(results, [id |-> id, uuid |-> uuid]) \in Seq([id : Ids, uuid : Seq(Nat)])
         /\ Len(Append(results, [id |-> id, uuid |-> uuid])) = Len(results) + 1
         /\ Len(results) \in Nat
BY AppendProperties, LenProperties

\* A step of the script that changes nothing but its place, and the ends of a pod.
LEMMA KeepImport ==
  ASSUME ImportInv, UNCHANGED importVars,
         \/ at'[S] = "none"
         \/ at'[S] = at[S] /\ (job'[S] = job[S] \/ job[S] \in {"complete", "failed"})
         \/ at[S] = "login" /\ at'[S] = "ready" /\ job'[S] = job[S]
         \/ at[S] = "ready" /\ at'[S] = "dataset" /\ job'[S] = job[S]
         \/ at[S] = "dataset" /\ at'[S] = "chart" /\ job'[S] = job[S]
  PROVE  ImportInv'
<1> USE DEF ImportInv, importVars
<1>1. Shape'
  BY DEF Shape
<1>2. ImportTypes'
  BY DEF ImportTypes, Ids
<1>3. Once'
  BY DEF Once
<1>4. Places'
  <2>1. /\ (import.charts \in Seq([id : Ids, uuid : Seq(Nat)]))'
        /\ import'.linked \in Nat /\ (\A board \in superset.boards : board.id \in Ids)'
    BY DEF Places, Ids
  <2>2. CASE at'[S] = "none"
    BY <2>1, <2>2 DEF Places
  <2>3. CASE at'[S] = at[S] /\ (job'[S] = job[S] \/ job[S] \in {"complete", "failed"})
    BY <2>1, <2>3 DEF Places
  <2>4. CASE at[S] \in {"login", "ready"} /\ at'[S] \in {"ready", "dataset"} /\ job'[S] = job[S]
    BY <2>1, <2>4 DEF Places
  <2>5. CASE at[S] = "dataset" /\ at'[S] = "chart" /\ job'[S] = job[S]
    <3>1. import.charts = <<>> /\ import.linked = 0
      BY <2>5 DEF Places, Start
    <3>2. Len(import.charts) < Charts
      BY <3>1, EmptySeq, ImportAssumption
    <3> QED
      BY <2>1, <2>5, <3>1, <3>2 DEF Places
  <2> QED
    BY <2>2, <2>3, <2>4, <2>5
<1> QED
  BY <1>1, <1>2, <1>3, <1>4

\* The requests of the script that Superset serves.
LEMMA ScriptImport == TypeOK /\ ImportInv /\ ImportResources => ImportInv'
<1> SUFFICES ASSUME TypeOK, ImportInv, ImportResources PROVE ImportInv'
  OBVIOUS
<1>inv. Shape /\ ImportTypes /\ Places /\ Once
  BY DEF ImportInv
<1>job. S \in Job /\ at \in [Job -> Lines] /\ job = [j \in Job |-> job[j]]
  BY TypeParts DEF S, Job, PodTypes
<1>1. CASE Login \/ SkipDataset
  <2>1. job'[S] = job[S] /\ UNCHANGED importVars
    BY <1>1 DEF Login, SkipDataset, Advance, jobVars
  <2>2. \/ at[S] = "login" /\ at'[S] = "ready"
        \/ at[S] = "dataset" /\ at'[S] = "chart"
    BY <1>1, <1>job DEF Login, SkipDataset, Advance, Goto
  <2> QED
    BY <2>1, <2>2, KeepImport
<1>2. CASE SupersetGone \/ DatasetRefused \/ ChartRefused
  <2>1. at'[S] = "none" /\ UNCHANGED importVars
    BY <1>2, <1>job DEF SupersetGone, DatasetRefused, ChartRefused, PodFails
  <2> QED
    BY <2>1, KeepImport
<1>3. CASE WaitForSuperset
  <2>1. UNCHANGED importVars
    BY <1>3 DEF WaitForSuperset
  <2>2. \/ at[S] = "ready" /\ at'[S] = "dataset" /\ job'[S] = job[S]
        \/ at'[S] = at[S] /\ job'[S] = job[S]
        \/ at'[S] = "none"
    BY <1>3, <1>job DEF WaitForSuperset, Poll, PodFails, Goto, jobVars
  <2> QED
    BY <2>1, <2>2, KeepImport
<1>4. CASE EnsureDataset
  <2>1. at[S] = "dataset" /\ at'[S] = "chart" /\ job'[S] = job[S] /\ edits' = edits
    BY <1>4, <1>job DEF EnsureDataset, Advance, Goto, jobVars
  <2>2. import = Start /\ import.charts = <<>> /\ import.linked = 0 /\ import.board = 0
    BY <2>1, <1>inv DEF Places, Start
  <2>3. PICK id \in IF superset.datasets = {} THEN {superset.last + 1} ELSE superset.datasets,
             timed \in {superset.timed, TRUE} :
          /\ superset' = [superset EXCEPT !.datasets = @ \cup {id}, !.timed = timed,
                                         !.last = IF superset.datasets = {} THEN id ELSE @]
          /\ import' = [import EXCEPT !.dataset = id]
    BY <1>4 DEF EnsureDataset
  <2>4. /\ superset'.up = superset.up /\ superset'.database = superset.database
        /\ superset'.crowded = superset.crowded
        /\ superset'.listsUuid = superset.listsUuid /\ superset'.charts = superset.charts
        /\ superset'.boards = superset.boards /\ superset'.timed = timed
        /\ superset'.datasets = superset.datasets \cup {id}
        /\ superset'.last = IF superset.datasets = {} THEN id ELSE superset.last
    BY <2>3, <1>inv DEF Shape
  <2>5. /\ import'.dataset = id /\ import'.charts = <<>> /\ import'.linked = 0
        /\ import'.board = 0
    BY <2>2, <2>3, <1>inv DEF Shape
  <2>6. superset.last \in Nat /\ superset'.last \in Nat /\ superset.last <= superset'.last
    BY <2>3, <2>4, <1>inv DEF ImportTypes, Ids
  <2>7. id \in Ids' /\ 0 \in Ids' /\ superset'.datasets \subseteq Ids'
    BY <2>3, <2>4, <2>6, Grows, <1>inv DEF ImportTypes, Ids
  <2>8. Shape'
    BY <2>3, <1>inv DEF Shape
  <2>9. ImportTypes'
    <3>1. superset'.charts \subseteq ChartType'
      BY <2>4, <2>6, Grows, <1>inv DEF ImportTypes, ChartType
    <3>2. Len(import'.charts) = 0 /\ Charts \in Nat /\ timed \in BOOLEAN
      BY <2>3, <2>5, EmptySeq, ImportAssumption, <1>inv DEF ImportTypes
    <3> QED
      BY <2>1, <2>4, <2>5, <2>6, <2>7, <3>1, <3>2, <1>inv DEF ImportTypes, ChartType
  <2>10. Once'
    BY <2>3, <2>4, <1>inv DEF Once
  <2>11. Places'
    <3>1. Len(import'.charts) < Charts /\ import'.charts \in Seq([id : Ids, uuid : Seq(Nat)])'
      BY <2>5, EmptySeq, ImportAssumption
    <3>2. \A board \in superset'.boards : board.id \in Ids'
      BY <2>4, <2>6, Grows, <1>inv DEF Places
    <3> QED
      BY <2>1, <2>5, <3>1, <3>2, <1>inv DEF Places
  <2> QED
    BY <2>8, <2>9, <2>10, <2>11 DEF ImportInv
<1>5. CASE UpdateChart
  <2>1. /\ at[S] = "chart" /\ job'[S] = job[S] /\ edits' = edits
        /\ at'[S] = IF Current < Charts THEN "chart" ELSE "board"
    BY <1>5, <1>job DEF UpdateChart, NextChart, Advance, Goto, jobVars
  <2> DEFINE uuidOf(c) == IF superset.listsUuid THEN <<c.id, 1>> ELSE <<>>
  <2>2. PICK chart \in Named(Current) :
          /\ superset' = [superset EXCEPT !.charts =
                            (@ \ {chart}) \cup {[chart EXCEPT !.params = import.dataset]}]
          /\ import' = [import EXCEPT !.charts =
                          Append(@, [id |-> chart.id, uuid |-> uuidOf(chart)])]
    BY <1>5 DEF UpdateChart
  <2> DEFINE new == [chart EXCEPT !.params = import.dataset]
  <2>3. /\ superset'.up = superset.up /\ superset'.database = superset.database
        /\ superset'.crowded = superset.crowded
        /\ superset'.listsUuid = superset.listsUuid /\ superset'.last = superset.last
        /\ superset'.boards = superset.boards /\ superset'.timed = superset.timed
        /\ superset'.datasets = superset.datasets
        /\ superset'.charts = (superset.charts \ {chart}) \cup {new}
    BY <2>2, <1>inv DEF Shape
  <2>4. /\ import'.dataset = import.dataset /\ import'.linked = import.linked
        /\ import'.board = import.board
        /\ import'.charts = Append(import.charts, [id |-> chart.id, uuid |-> uuidOf(chart)])
    BY <2>2, <1>inv DEF Shape
  <2>5. chart \in superset.charts /\ chart.name = Current /\ chart \in ChartType
    BY <1>inv DEF Named, ImportTypes, ChartType
  <2>6. new \in ChartType /\ new.name = chart.name
    BY <2>5, <1>inv DEF ImportTypes, ChartType
  <2>7. Ids' = Ids /\ ChartType' = ChartType
    BY <2>3 DEF Ids, ChartType
  <2>8. uuidOf(chart) \in Seq(Nat) /\ chart.id \in Ids
    BY <2>5, EmptySeq, <1>inv DEF ChartType, Ids, ImportTypes
  <2>9. /\ import'.charts \in Seq([id : Ids, uuid : Seq(Nat)])
        /\ Len(import'.charts) = Len(import.charts) + 1 /\ Len(import.charts) \in Nat
    BY <2>4, <2>8, AppendResult, <1>inv DEF Places
  <2> HIDE DEF uuidOf, new
  <2>10. Shape'
    BY <2>2, <1>inv DEF Shape
  <2>11. ImportTypes'
    <3>1. superset'.charts \subseteq ChartType'
      BY <2>3, <2>6, <2>7, <1>inv DEF ImportTypes, ChartType
    <3>2. Len(import'.charts) <= Charts /\ import'.linked <= Len(import'.charts)
      BY <2>1, <2>4, <2>9, ImportAssumption, <1>inv DEF Places
    <3> QED
      BY <2>1, <2>3, <2>4, <2>7, <3>1, <3>2, <1>inv DEF ImportTypes, ChartType
  <2>12. Once'
    <3>1. "chart" \notin superset.crowded =>
            \A c \in superset.charts : c.name = new.name => c = chart
      BY <2>5, <2>6, <1>inv DEF Once
    <3> QED
      BY <2>3, <3>1, <1>inv DEF Once
  <2>13. Places'
    <3>1. at'[S] = "chart" => Len(import'.charts) < Charts
      BY <2>1, <2>9 DEF Current
    <3>2. at'[S] = "board" => Len(import'.charts) = Charts
      BY <2>1, <2>9, ImportAssumption, <1>inv DEF Current, Places
    <3> QED
      BY <2>1, <2>3, <2>4, <2>7, <2>9, <3>1, <3>2, <1>inv DEF Places
  <2> QED
    BY <2>10, <2>11, <2>12, <2>13 DEF ImportInv
<1>6. CASE CreateChart
  <2> DEFINE id == superset.last + 1
             new == [id |-> id, name |-> Current, dataset |-> import.dataset,
                     params |-> import.dataset, boards |-> {}]
  <2>1. /\ at[S] = "chart" /\ job'[S] = job[S] /\ edits' = edits
        /\ at'[S] = IF Current < Charts THEN "chart" ELSE "board"
    BY <1>6, <1>job DEF CreateChart, NextChart, Advance, Goto, jobVars
  <2>2. /\ NotFound("chart", Named(Current))
        /\ superset' = [superset EXCEPT !.last = id, !.charts = @ \cup {new}]
        /\ import' = [import EXCEPT !.charts = Append(@, [id |-> id, uuid |-> <<id, 1>>])]
    BY <1>6 DEF CreateChart
  <2>3. /\ superset'.up = superset.up /\ superset'.database = superset.database
        /\ superset'.crowded = superset.crowded
        /\ superset'.listsUuid = superset.listsUuid /\ superset'.last = id
        /\ superset'.boards = superset.boards /\ superset'.timed = superset.timed
        /\ superset'.datasets = superset.datasets
        /\ superset'.charts = superset.charts \cup {new}
    BY <2>2, <1>inv DEF Shape
  <2>4. /\ import'.dataset = import.dataset /\ import'.linked = import.linked
        /\ import'.board = import.board
        /\ import'.charts = Append(import.charts, [id |-> id, uuid |-> <<id, 1>>])
    BY <2>2, <1>inv DEF Shape
  <2>5. superset.last \in Nat /\ id \in Nat /\ superset.last <= id
    BY <1>inv DEF ImportTypes
  <2>6. /\ Ids \subseteq Ids' /\ id \in Ids' /\ ChartType \subseteq ChartType'
        /\ import.charts \in Seq([id : Ids, uuid : Seq(Nat)])'
    BY <2>3, <2>5, Grows, <1>inv DEF Places
  <2>7. /\ import'.charts \in Seq([id : Ids, uuid : Seq(Nat)])'
        /\ Len(import'.charts) = Len(import.charts) + 1 /\ Len(import.charts) \in Nat
    <3>1. <<id, 1>> \in Seq(Nat)
      BY <2>5
    <3>2. [id |-> id, uuid |-> <<id, 1>>] \in [id : Ids, uuid : Seq(Nat)]'
      BY <2>6, <3>1
    <3> QED
      BY <2>4, <2>6, <3>2, AppendProperties, LenProperties
  <2>8. Current \in 1..Charts
    BY <2>1, <2>7, ImportAssumption, <1>inv DEF Current, Places
  <2>9. new \in ChartType' /\ new.name = Current
    BY <2>6, <2>8, <1>inv DEF ImportTypes, ChartType
  <2> HIDE DEF new
  <2>10. Shape'
    BY <2>2, <1>inv DEF Shape
  <2>11. ImportTypes'
    <3>1. superset'.charts \subseteq ChartType'
      BY <2>3, <2>6, <2>9, <1>inv DEF ImportTypes, ChartType
    <3>2. Len(import'.charts) <= Charts /\ import'.linked <= Len(import'.charts)
      BY <2>1, <2>4, <2>7, ImportAssumption, <1>inv DEF Places
    <3>3. superset'.datasets \subseteq Ids' /\ import'.dataset \in Ids' /\ import'.board \in Ids'
      BY <2>3, <2>4, <2>6, <1>inv DEF ImportTypes
    <3> QED
      BY <2>1, <2>3, <2>5, <3>1, <3>2, <3>3, <1>inv DEF ImportTypes, ChartType
  <2>12. Once'
    <3>1. "chart" \notin superset.crowded => \A c \in superset.charts : c.name # new.name
      BY <2>2, <2>9 DEF Named, NotFound
    <3> QED
      BY <2>3, <3>1, <1>inv DEF Once
  <2>13. Places'
    <3>1. at'[S] = "chart" => Len(import'.charts) < Charts
      BY <2>1, <2>7 DEF Current
    <3>2. at'[S] = "board" => Len(import'.charts) = Charts
      BY <2>1, <2>7, ImportAssumption, <1>inv DEF Current, Places
    <3>3. \A board \in superset'.boards : board.id \in Ids'
      BY <2>3, <2>6, <1>inv DEF Places
    <3> QED
      BY <2>1, <2>3, <2>4, <2>7, <3>1, <3>2, <3>3, <1>inv DEF Places
  <2> QED
    BY <2>10, <2>11, <2>12, <2>13 DEF ImportInv
<1>7. CASE EnsureDashboard
  <2>1. at[S] = "board" /\ at'[S] = "link" /\ job'[S] = job[S] /\ edits' = edits
    BY <1>7, <1>job DEF EnsureDashboard, Advance, Goto, jobVars
  <2>2. PICK id :
          /\ superset' = [superset EXCEPT !.boards = {b \in @ : b.id # id} \cup {Board(id)},
                                          !.last = IF id > @ THEN id ELSE @]
          /\ import' = [import EXCEPT !.board = id]
          /\ \/ \E board \in superset.boards : id = board.id
             \/ NotFound("dashboard", superset.boards) /\ id = superset.last + 1
    <3>1. CASE \E board \in superset.boards : StoreDashboard(board.id)
      BY <3>1 DEF StoreDashboard
    <3>2. CASE NotFound("dashboard", superset.boards) /\ StoreDashboard(superset.last + 1)
      BY <3>2 DEF StoreDashboard
    <3> QED
      BY <1>7, <3>1, <3>2 DEF EnsureDashboard
  <2>3. /\ superset'.up = superset.up /\ superset'.database = superset.database
        /\ superset'.crowded = superset.crowded
        /\ superset'.listsUuid = superset.listsUuid /\ superset'.charts = superset.charts
        /\ superset'.timed = superset.timed /\ superset'.datasets = superset.datasets
        /\ superset'.boards = {b \in superset.boards : b.id # id} \cup {Board(id)}
        /\ superset'.last = IF id > superset.last THEN id ELSE superset.last
    BY <2>2, <1>inv DEF Shape
  <2>4. /\ import'.dataset = import.dataset /\ import'.linked = import.linked
        /\ import'.board = id /\ import'.charts = import.charts
    BY <2>2, <1>inv DEF Shape
  <2>5. /\ superset.last \in Nat /\ superset'.last \in Nat /\ superset.last <= superset'.last
        /\ id \in Nat /\ id <= superset'.last
    <3>1. id \in Nat /\ superset.last \in Nat
      BY <2>2, <1>inv DEF ImportTypes, Places, Ids
    <3> QED
      BY <2>3, <3>1
  <2>6. /\ Ids \subseteq Ids' /\ ChartType \subseteq ChartType' /\ superset'.last \in Ids'
        /\ import.charts \in Seq([id : Ids, uuid : Seq(Nat)])'
    BY <2>5, Grows, <1>inv DEF Places
  <2>7. id \in Ids'
    BY <2>5 DEF Ids
  <2>8. Board(id).id = id
    BY DEF Board
  <2>9. Shape'
    BY <2>2, <1>inv DEF Shape
  <2>10. ImportTypes'
    <3>1. superset'.charts \subseteq ChartType'
      BY <2>3, <2>6, <1>inv DEF ImportTypes, ChartType
    <3>2. superset'.datasets \subseteq Ids' /\ import'.dataset \in Ids' /\ import'.board \in Ids'
      BY <2>3, <2>4, <2>6, <2>7, <1>inv DEF ImportTypes
    <3> QED
      BY <2>1, <2>3, <2>4, <2>5, <3>1, <3>2, <1>inv DEF ImportTypes, ChartType
  <2>11. Once'
    <3>1. "dashboard" \notin superset.crowded => \A b \in superset.boards : b.id = id
      BY <2>2, <1>inv DEF Once, NotFound
    <3> QED
      BY <2>3, <3>1, <1>inv DEF Once
  <2>12. Places'
    <3>1. \A board \in superset'.boards : board.id \in Ids'
      BY <2>3, <2>6, <2>7, <2>8, <1>inv DEF Places
    <3>2. import'.linked = 0 /\ 0 < Charts /\ Len(import'.charts) = Charts
      BY <2>1, <2>4, ImportAssumption, <1>inv DEF Places
    <3> QED
      BY <2>1, <2>4, <2>6, <3>1, <3>2, <1>inv DEF Places
  <2> QED
    BY <2>9, <2>10, <2>11, <2>12 DEF ImportInv
<1>8. CASE LinkChart
  <2> DEFINE Linked(chart) == IF chart.id = import.charts[import.linked + 1].id
                              THEN [chart EXCEPT !.boards = {import.board}] ELSE chart
  <2>1. /\ at[S] = "link" /\ job'[S] = job[S] /\ edits' = edits
        /\ at'[S] = IF import.linked + 1 < Len(import.charts) THEN "link" ELSE "exit"
    BY <1>8, <1>job DEF LinkChart, Advance, Goto, jobVars
  <2>2. /\ superset' = [superset EXCEPT !.charts = {Linked(chart) : chart \in @}]
        /\ import' = [import EXCEPT !.linked = @ + 1]
    BY <1>8 DEF LinkChart
  <2>3. /\ superset'.up = superset.up /\ superset'.database = superset.database
        /\ superset'.crowded = superset.crowded
        /\ superset'.listsUuid = superset.listsUuid /\ superset'.last = superset.last
        /\ superset'.boards = superset.boards /\ superset'.timed = superset.timed
        /\ superset'.datasets = superset.datasets
        /\ superset'.charts = {Linked(chart) : chart \in superset.charts}
    BY <2>2, <1>inv DEF Shape
  <2>4. /\ import'.dataset = import.dataset /\ import'.linked = import.linked + 1
        /\ import'.board = import.board /\ import'.charts = import.charts
    BY <2>2, <1>inv DEF Shape
  <2>5. Ids' = Ids /\ ChartType' = ChartType
    BY <2>3 DEF Ids, ChartType
  <2>6. \A c \in superset.charts : Linked(c) \in ChartType /\ Linked(c).name = c.name
    BY <1>inv DEF ImportTypes, ChartType
  <2> HIDE DEF Linked
  <2>7. Shape'
    BY <2>2, <1>inv DEF Shape
  <2>8. ImportTypes'
    <3>1. superset'.charts \subseteq ChartType'
      BY <2>3, <2>5, <2>6
    <3>2. import'.linked <= Len(import'.charts) /\ Len(import'.charts) <= Charts
      BY <2>1, <2>4, ImportAssumption, <1>inv DEF Places
    <3> QED
      BY <2>1, <2>3, <2>4, <2>5, <3>1, <3>2, <1>inv DEF ImportTypes, ChartType
  <2>9. Once'
    BY <2>3, <2>6, <1>inv DEF Once
  <2>10. Places'
    BY <2>1, <2>3, <2>4, <2>5, ImportAssumption, <1>inv DEF Places
  <2> QED
    BY <2>7, <2>8, <2>9, <2>10 DEF ImportInv
<1> QED
  BY <1>1, <1>2, <1>3, <1>4, <1>5, <1>6, <1>7, <1>8 DEF ImportResources

\* The deadline of the job ends its pod.
LEMMA Deadline ==
  ASSUME TypeOK, DeadlineExceeded
  PROVE  at'[S] = "none" /\ UNCHANGED importVars
<1>1. S \in Job /\ at \in [Job -> Lines]
  BY TypeParts DEF S, Job, PodTypes
<1> QED
  BY <1>1 DEF DeadlineExceeded, Goto

\* Superset comes and goes; while no script runs an administrator removes things and users add
\* theirs.
LEMMA ServiceImport == TypeOK /\ ImportInv /\ Superset => ImportInv'
<1> SUFFICES ASSUME TypeOK, ImportInv, Superset, ~DeadlineExceeded PROVE ImportInv'
  BY Deadline, KeepImport
<1>inv. Shape /\ ImportTypes /\ Places /\ Once
  BY DEF ImportInv
<1> DEFINE Removed ==
      /\ UNCHANGED <<at, job, import>>
      /\ superset'.last = superset.last /\ superset'.listsUuid = superset.listsUuid
      /\ superset'.up \in BOOLEAN /\ superset'.timed \in BOOLEAN
      /\ superset'.database \in {"absent", "Trino", "renamed"}
      /\ superset'.datasets \subseteq superset.datasets
      /\ superset'.charts \subseteq superset.charts
      /\ superset'.boards \subseteq superset.boards
      /\ superset.crowded \subseteq superset'.crowded /\ superset'.crowded \subseteq Kinds
      /\ edits' \in 0..MaxEdits
      /\ Shape'
<1>1. Removed
  <2> USE <1>inv DEF Shape, jobVars, podVars
  <2>1. CASE SupersetUp
    BY <2>1 DEF SupersetUp, ImportTypes
  <2>2. CASE ImportDatabase
    BY <2>2 DEF ImportDatabase, ImportTypes
  <2>3. CASE SupersetDown
    BY <2>3 DEF SupersetDown, ImportTypes
  <2>4. CASE Edit
    <3>1. edits' \in 0..MaxEdits /\ UNCHANGED <<at, job, import>>
      BY <2>4, ImportAssumption DEF Edit, ImportTypes
    <3>2. CASE superset' = [superset EXCEPT !.database = "renamed"]
      BY <3>1, <3>2 DEF ImportTypes
    <3>3. CASE superset' = [superset EXCEPT !.datasets = {}, !.timed = FALSE]
      BY <3>1, <3>3 DEF ImportTypes
    <3>4. ASSUME NEW chart, superset' = [superset EXCEPT !.charts = @ \ {chart}]
          PROVE  Removed
      BY <3>1, <3>4 DEF ImportTypes
    <3>5. ASSUME NEW board, superset' = [superset EXCEPT !.boards = @ \ {board}]
          PROVE  Removed
      BY <3>1, <3>5 DEF ImportTypes
    <3>6. ASSUME NEW kind \in Kinds, superset' = [superset EXCEPT !.crowded = @ \cup {kind}]
          PROVE  Removed
      BY <3>1, <3>6 DEF ImportTypes
    <3> QED
      BY <2>4, <3>2, <3>3, <3>4, <3>5, <3>6 DEF Edit
  <2> QED
    BY <2>1, <2>2, <2>3, <2>4 DEF Superset
<1>2. Ids' = Ids
  BY <1>1 DEF Ids
<1>3. ImportTypes'
  BY <1>1, <1>2, <1>inv DEF ImportTypes
<1>4. Places'
  BY <1>1, <1>2, <1>inv DEF Places
<1>5. Once'
  BY <1>1, <1>inv DEF Once
<1> QED
  BY <1>1, <1>3, <1>4, <1>5 DEF ImportInv

LEMMA NextImport == TypeOK /\ ImportInv /\ [Next]_vars => ImportInv'
<1> SUFFICES ASSUME TypeOK, ImportInv, [Next]_vars PROVE ImportInv'
  OBVIOUS
<1>1. ASSUME UNCHANGED vars PROVE ImportInv'
  BY <1>1, KeepImport DEF vars, jobVars, podVars
<1>2. ASSUME NEW j \in Job, StartPod(j) \/ KillPod(j) \/ ExitPod(j) \/ Sync(j)
      PROVE  ImportInv'
  <2>1. CASE at'[S] = "login" /\ job'[S] = "running" /\ import' = Start
    <3>1. UNCHANGED <<superset, edits>>
      BY <1>2, PodOfImport
    <3>2. /\ import'.dataset = 0 /\ import'.charts = <<>> /\ import'.board = 0
          /\ import'.linked = 0 /\ Len(import'.charts) = 0 /\ Charts \in Nat
      BY <2>1, EmptySeq, ImportAssumption DEF Start
    <3>3. Shape'
      BY <2>1, <3>1 DEF ImportInv, Shape, Start
    <3>4. ImportTypes'
      BY <3>1, <3>2 DEF ImportInv, ImportTypes, Ids
    <3>5. Places'
      BY <2>1, <3>1, <3>2, EmptySeq DEF ImportInv, Places, Ids, Start
    <3>6. Once'
      BY <3>1 DEF ImportInv, Once
    <3> QED
      BY <3>3, <3>4, <3>5, <3>6 DEF ImportInv
  <2>2. CASE ~(at'[S] = "login" /\ job'[S] = "running" /\ import' = Start)
    BY <1>2, <2>2, PodOfImport, KeepImport DEF importVars
  <2> QED
    BY <2>1, <2>2
<1>3. ASSUME GarageInit \/ PolarisInit \/ KafkaCaInit \/ Services PROVE ImportInv'
  BY <1>3, OtherSteps, KeepImport
<1> QED
  BY <1>1, <1>2, <1>3, ScriptImport, ServiceImport DEF Next

LEMMA ImportInvariance == Spec => [](TypeOK /\ ImportInv)
<1>1. Init => TypeOK /\ ImportInv
  BY InitTypes, InitImport
<1>2. TypeOK /\ ImportInv /\ [Next]_vars => (TypeOK /\ ImportInv)'
  BY NextTypes, NextImport
<1> QED
  BY <1>1, <1>2, PTL DEF Spec

\* The numbers the script works with are numbers Superset gave, and its loops stay inside the
\* charts of resources.json, for any number of them (import_resources.py 153-204, 362-365).
THEOREM ImportTyped == Spec => []ImportTypes
BY ImportInvariance, PTL DEF ImportInv

\* A set of which any two members are the same has at most one.
LEMMA AtMostOne == ASSUME NEW T, \A a, b \in T : a = b PROVE Cardinality(T) <= 1
<1>1. CASE T = {}
  BY <1>1, FS_EmptySet
<1>2. CASE T # {}
  <2>1. PICK a \in T : TRUE
    BY <1>2
  <2>2. T = {a}
    BY <2>1
  <2> QED
    BY <2>2, FS_Singleton
<1> QED
  BY <1>1, <1>2

\* Nothing is imported twice, wherever pods are killed and however often the job is made
\* again, as long as the lists of charts and of dashboards fit on a page; there is never a
\* second dataset (import_resources.py 98-104, 162-168, 310-316).
THEOREM NeverTwice == Spec => []ImportedOnce
<1>1. ImportInv => ImportedOnce
  <2> SUFFICES ASSUME ImportInv PROVE ImportedOnce
    OBVIOUS
  <2>1. /\ Cardinality(superset.datasets) <= 1
        /\ "dashboard" \notin superset.crowded => Cardinality(superset.boards) <= 1
    BY AtMostOne DEF ImportInv, Once
  <2>2. ASSUME "chart" \notin superset.crowded, NEW name \in 1..Charts
        PROVE  Cardinality(Named(name)) <= 1
    <3>1. \A a, b \in Named(name) : a = b
      BY <2>2 DEF ImportInv, Once, Named
    <3> QED
      BY <3>1, AtMostOne
  <2> QED
    BY <2>1, <2>2 DEF ImportedOnce
<1> QED
  BY <1>1, ImportInvariance, PTL

-----------------------------------------------------------------------------
(* The dataset of the charts.                                              *)

\* Past the dataset the script either has it, and the charts it went through name it if no two
\* have one name, or it skipped it: without a chart, or because the database was not found.
BoundInv ==
  /\ 0 \notin superset.datasets
  /\ superset.database = "absent" => superset.datasets = {} /\ superset.charts = {}
  /\ at[S] \in {"chart", "board", "link", "exit"} =>
       /\ import.dataset = 0 =>
            \/ superset.database = "renamed" \/ "database" \in superset.crowded
            \/ superset.charts = {} /\ Len(import.charts) = 0
       /\ import.dataset # 0 =>
            /\ import.dataset \in superset.datasets
            /\ "chart" \notin superset.crowded => \A c \in superset.charts :
                 c.name <= Len(import.charts) => c.params = import.dataset

LEMMA InitBound == Init => BoundInv
BY DEF Init, InitOfImport, InitOfJobs, BoundInv, S, Job

LEMMA KeepBound ==
  ASSUME BoundInv, UNCHANGED superset,
         \/ at'[S] \notin {"chart", "board", "link", "exit"}
         \/ at'[S] = at[S] /\ UNCHANGED import
  PROVE  BoundInv'
BY DEF BoundInv

LEMMA ScriptBound == TypeOK /\ ImportInv /\ BoundInv /\ ImportResources => BoundInv'
<1> SUFFICES ASSUME TypeOK, ImportInv, BoundInv, ImportResources PROVE BoundInv'
  OBVIOUS
<1>inv. Shape /\ ImportTypes /\ Places /\ Once
  BY DEF ImportInv
<1>job. S \in Job /\ at \in [Job -> Lines] /\ job = [j \in Job |-> job[j]]
  BY TypeParts DEF S, Job, PodTypes
<1>1. CASE Login \/ WaitForSuperset \/ SupersetGone \/ DatasetRefused \/ ChartRefused
  <2>1. UNCHANGED superset
    BY <1>1 DEF Login, WaitForSuperset, SupersetGone, DatasetRefused, ChartRefused, importVars
  <2>2. at'[S] \in {"ready", "dataset", "none"}
    BY <1>1, <1>job DEF Login, WaitForSuperset, SupersetGone, DatasetRefused, ChartRefused,
       Advance, Poll, PodFails, Goto
  <2> QED
    BY <2>1, <2>2, KeepBound
<1>2. CASE SkipDataset
  <2>1. /\ at[S] = "dataset" /\ UNCHANGED importVars
        /\ superset.database # "Trino" \/ "database" \in superset.crowded
    BY <1>2 DEF SkipDataset, Advance, NotFound
  <2>2. import.dataset = 0 /\ Len(import.charts) = 0
    BY <2>1, EmptySeq, <1>inv DEF Places, Start
  <2>3. superset.database \in {"absent", "renamed"} \/ "database" \in superset.crowded
    BY <2>1, <1>inv DEF ImportTypes
  <2> QED
    BY <2>1, <2>2, <2>3 DEF BoundInv, importVars
<1>3. CASE EnsureDataset
  <2>1. at[S] = "dataset" /\ superset.database = "Trino"
    BY <1>3 DEF EnsureDataset, Advance
  <2>2. PICK id \in IF superset.datasets = {} THEN {superset.last + 1} ELSE superset.datasets,
             timed \in {superset.timed, TRUE} :
          /\ superset' = [superset EXCEPT !.datasets = @ \cup {id}, !.timed = timed,
                                         !.last = IF superset.datasets = {} THEN id ELSE @]
          /\ import' = [import EXCEPT !.dataset = id]
    BY <1>3 DEF EnsureDataset
  <2>3. /\ superset'.crowded = superset.crowded
        /\ superset'.database = superset.database /\ superset'.charts = superset.charts
        /\ superset'.datasets = superset.datasets \cup {id}
        /\ import'.dataset = id /\ import'.charts = import.charts
    BY <2>2, <1>inv DEF Shape
  <2>4. id # 0
    BY <2>2, <1>inv DEF ImportTypes, BoundInv
  <2>5. \A c \in superset.charts : ~(c.name <= Len(import.charts))
    <3>1. Len(import.charts) = 0
      BY <2>1, EmptySeq, <1>inv DEF Places, Start
    <3>2. \A c \in superset.charts : c.name \in 1..Charts
      BY <1>inv DEF ImportTypes
    <3> QED
      BY <3>1, <3>2, ImportAssumption
  <2> QED
    BY <2>1, <2>3, <2>4, <2>5 DEF BoundInv
<1>4. CASE UpdateChart
  <2>1. at[S] = "chart"
    BY <1>4 DEF UpdateChart, NextChart, Advance
  <2> DEFINE result(c) ==
        [id |-> c.id, uuid |-> IF superset.listsUuid THEN <<c.id, 1>> ELSE <<>>]
  <2>2. PICK chart \in Named(Current) :
          /\ superset' = [superset EXCEPT !.charts =
                            (@ \ {chart}) \cup {[chart EXCEPT !.params = import.dataset]}]
          /\ import' = [import EXCEPT !.charts = Append(@, result(chart))]
    BY <1>4 DEF UpdateChart
  <2>r. result(chart) \in [id : Ids, uuid : Seq(Nat)]
    <3>1. chart.id \in Nat /\ chart.id \in Ids
      BY <1>inv DEF Named, ImportTypes, Ids
    <3>2. (IF superset.listsUuid THEN <<chart.id, 1>> ELSE <<>>) \in Seq(Nat)
      BY <3>1, EmptySeq
    <3> QED
      BY <3>1, <3>2
  <2> HIDE DEF result
  <2> DEFINE new == [chart EXCEPT !.params = import.dataset]
  <2>3. /\ superset'.crowded = superset.crowded
        /\ superset'.database = superset.database /\ superset'.datasets = superset.datasets
        /\ superset'.charts = (superset.charts \ {chart}) \cup {new}
        /\ import'.dataset = import.dataset /\ import'.charts = Append(import.charts, result(chart))
    BY <2>2, <1>inv DEF Shape
  <2>4. Len(import'.charts) = Len(import.charts) + 1 /\ Len(import.charts) \in Nat
    BY <2>r, <2>3, AppendProperties, LenProperties, <1>inv DEF Places
  <2>5. chart \in superset.charts /\ chart.name = Current
    BY DEF Named
  <2>6. new.params = import.dataset
    BY <2>5, <1>inv DEF ImportTypes
  <2>7. \A c \in superset.charts :
          c.name \in Nat /\ ("chart" \notin superset.crowded /\ c.name = Current => c = chart)
    BY <2>5, <1>inv, ImportAssumption DEF ImportTypes, Once
  <2> HIDE DEF new
  <2>8. superset.database # "absent"
    BY <2>5 DEF BoundInv
  <2>9. import.dataset = 0 =>
          superset.database = "renamed" \/ "database" \in superset.crowded
    BY <2>1, <2>5 DEF BoundInv
  <2>10. import.dataset # 0 /\ "chart" \notin superset.crowded => \A c \in superset'.charts :
           c.name <= Len(import'.charts) => c.params = import.dataset
    BY <2>1, <2>3, <2>4, <2>6, <2>7 DEF BoundInv, Current
  <2> QED
    BY <2>1, <2>3, <2>8, <2>9, <2>10 DEF BoundInv
<1>5. CASE CreateChart
  <2> DEFINE id == superset.last + 1
             new == [id |-> id, name |-> Current, dataset |-> import.dataset,
                     params |-> import.dataset, boards |-> {}]
  <2>1. at[S] = "chart" /\ import.dataset # 0 /\ NotFound("chart", Named(Current))
    BY <1>5 DEF CreateChart, NextChart, Advance
  <2>2. /\ superset' = [superset EXCEPT !.last = id, !.charts = @ \cup {new}]
        /\ import' = [import EXCEPT !.charts = Append(@, [id |-> id, uuid |-> <<id, 1>>])]
    BY <1>5 DEF CreateChart
  <2>3. /\ superset'.crowded = superset.crowded
        /\ superset'.database = superset.database /\ superset'.datasets = superset.datasets
        /\ superset'.charts = superset.charts \cup {new}
        /\ import'.dataset = import.dataset
        /\ import'.charts = Append(import.charts, [id |-> id, uuid |-> <<id, 1>>])
    BY <2>2, <1>inv DEF Shape
  <2>4. Len(import'.charts) = Len(import.charts) + 1 /\ Len(import.charts) \in Nat
    <3>1. superset.last \in Nat /\ superset'.last \in Nat /\ superset'.last = id
      BY <2>2, <1>inv DEF Shape, ImportTypes
    <3>2. import.charts \in Seq([id : Ids, uuid : Seq(Nat)])'
      BY <3>1, Grows, <1>inv DEF Places
    <3>3. [id |-> id, uuid |-> <<id, 1>>] \in [id : Ids, uuid : Seq(Nat)]'
      BY <3>1 DEF Ids
    <3> QED
      BY <2>3, <3>2, <3>3, AppendProperties, LenProperties
  <2>5. new.params = import.dataset /\ new.name = Current
    OBVIOUS
  <2> HIDE DEF new
  <2>6. import.dataset \in superset.datasets /\ superset.database # "absent"
    BY <2>1 DEF BoundInv
  <2>7. \A c \in superset.charts :
          c.name \in Nat /\ ("chart" \notin superset.crowded => c.name # Current)
    BY <2>1, <1>inv, ImportAssumption DEF ImportTypes, Named, NotFound
  <2>8. "chart" \notin superset.crowded => \A c \in superset'.charts : c.name <= Len(import'.charts) => c.params = import.dataset
    BY <2>1, <2>3, <2>4, <2>5, <2>7 DEF BoundInv, Current
  <2> QED
    BY <2>1, <2>3, <2>6, <2>8 DEF BoundInv
<1>6. CASE EnsureDashboard
  <2>1. at[S] = "board"
    BY <1>6 DEF EnsureDashboard, Advance
  <2>2. /\ superset'.crowded = superset.crowded
        /\ superset'.database = superset.database /\ superset'.charts = superset.charts
        /\ superset'.datasets = superset.datasets
        /\ import'.dataset = import.dataset /\ import'.charts = import.charts
    BY <1>6, <1>inv DEF EnsureDashboard, StoreDashboard, Shape
  <2> QED
    BY <2>1, <2>2 DEF BoundInv
<1>7. CASE LinkChart
  <2> DEFINE Linked(chart) == IF chart.id = import.charts[import.linked + 1].id
                              THEN [chart EXCEPT !.boards = {import.board}] ELSE chart
  <2>1. at[S] = "link"
    BY <1>7 DEF LinkChart, Advance
  <2>2. /\ superset'.crowded = superset.crowded
        /\ superset'.database = superset.database /\ superset'.datasets = superset.datasets
        /\ superset'.charts = {Linked(chart) : chart \in superset.charts}
        /\ import'.dataset = import.dataset /\ import'.charts = import.charts
    BY <1>7, <1>inv DEF LinkChart, Shape
  <2>3. \A c \in superset.charts : Linked(c).name = c.name /\ Linked(c).params = c.params
    BY <1>inv DEF ImportTypes
  <2> HIDE DEF Linked
  <2> QED
    BY <2>1, <2>2, <2>3 DEF BoundInv
<1> QED
  BY <1>1, <1>2, <1>3, <1>4, <1>5, <1>6, <1>7 DEF ImportResources

LEMMA ServiceBound == TypeOK /\ ImportInv /\ BoundInv /\ Superset => BoundInv'
<1> SUFFICES ASSUME TypeOK, ImportInv, BoundInv, Superset PROVE BoundInv'
  OBVIOUS
<1> USE DEF jobVars, podVars, BoundInv
<1>inv. Shape /\ Places
  BY DEF ImportInv
<1>0. CASE DeadlineExceeded
  BY <1>0, Deadline, KeepBound DEF importVars
<1>1. CASE SupersetUp
  <2>1. /\ superset'.database = superset.database /\ superset'.charts = superset.charts
        /\ superset'.crowded = superset.crowded /\ superset'.datasets = superset.datasets /\ UNCHANGED <<at, import>>
    BY <1>1, <1>inv DEF SupersetUp, Shape
  <2> QED
    BY <2>1
<1>2. CASE ImportDatabase
  <2>1. /\ superset'.database = "Trino" /\ superset'.charts = superset.charts
        /\ superset'.crowded = superset.crowded /\ superset'.datasets = superset.datasets /\ UNCHANGED <<at, import>>
        /\ superset.database = "absent"
    BY <1>2, <1>inv DEF ImportDatabase, Shape
  <2> QED
    BY <2>1
<1>3. CASE SupersetDown
  <2>1. /\ superset'.database = superset.database /\ superset'.charts = superset.charts
        /\ superset'.crowded = superset.crowded /\ superset'.datasets = superset.datasets /\ UNCHANGED <<at, import>>
    BY <1>3, <1>inv DEF SupersetDown, Shape
  <2> QED
    BY <2>1
<1>4. CASE Edit
  <2>1. at'[S] = "none"
    BY <1>4, <1>inv DEF Edit, Places
  <2>2. /\ superset'.datasets \subseteq superset.datasets
        /\ superset'.charts \subseteq superset.charts
        /\ superset'.database = "absent" => superset.database = "absent"
    BY <1>4, <1>inv DEF Edit, Shape
  <2> QED
    BY <2>1, <2>2
<1> QED
  BY <1>0, <1>1, <1>2, <1>3, <1>4 DEF Superset

LEMMA NextBound == TypeOK /\ ImportInv /\ BoundInv /\ [Next]_vars => BoundInv'
<1> SUFFICES ASSUME TypeOK, ImportInv, BoundInv, [Next]_vars PROVE BoundInv'
  OBVIOUS
<1>1. ASSUME UNCHANGED vars PROVE BoundInv'
  BY <1>1, KeepBound DEF vars, podVars, importVars
<1>2. ASSUME NEW j \in Job, StartPod(j) \/ KillPod(j) \/ ExitPod(j) \/ Sync(j) PROVE BoundInv'
  BY <1>2, PodOfImport, KeepBound
<1>3. ASSUME GarageInit \/ PolarisInit \/ KafkaCaInit \/ Services PROVE BoundInv'
  BY <1>3, OtherSteps, KeepBound DEF importVars
<1> QED
  BY <1>1, <1>2, <1>3, ScriptBound, ServiceBound DEF Next

\* An import that comes to its end leaves the params of every chart naming the dataset, unless
\* the database was renamed or the list of databases or of charts has outgrown a page
\* (import_resources.py 111-114, 153-185).
THEOREM Bound == Spec => []ChartsBound
<1>1. Init => TypeOK /\ ImportInv /\ BoundInv
  BY InitTypes, InitImport, InitBound
<1>2. TypeOK /\ ImportInv /\ BoundInv /\ [Next]_vars => (TypeOK /\ ImportInv /\ BoundInv)'
  BY NextTypes, NextImport, NextBound
<1>3. ImportInv /\ BoundInv => ChartsBound
  <2> SUFFICES ASSUME ImportInv, BoundInv, at[S] = "exit", superset.database # "renamed",
                      superset.crowded \cap {"database", "chart"} = {},
                      NEW chart \in superset.charts
               PROVE  chart.params \in superset.datasets
    BY DEF ChartsBound
  <2>1. Len(import.charts) = Charts /\ chart.name <= Charts
    BY ImportAssumption DEF ImportInv, Places, ImportTypes
  <2> QED
    BY <2>1, ImportAssumption DEF BoundInv
<1> QED
  BY <1>1, <1>2, <1>3, PTL DEF Spec

-----------------------------------------------------------------------------
(* What the exported dashboard becomes.                                    *)

\* The node of chart name in the export.
NodeOf(place, name) ==
  LET layout == Exported.layout
  IN  /\ layout[place].type = "CHART" /\ layout[place].name = name
      /\ layout[place].chart = OldRefs[name] /\ layout[place].uuid = <<OldRefs[name], 0>>

Refs == {OldRefs[n] : n \in 1..Charts}

NodeType == [type : STRING, children : Seq(DOMAIN Exported.layout), parents : Seq(DOMAIN Exported.layout),
             name : Nat, chart : Nat, uuid : Seq(Nat)]

LEMMA ExportParts ==
  /\ \A m, n \in 1..Charts : OldRefs[m] = OldRefs[n] => m = n
  /\ \A place \in DOMAIN Exported.layout : place = <<place[1], 0>>
  /\ Exported.layout \in [DOMAIN Exported.layout -> NodeType]
  /\ \A place \in DOMAIN Exported.layout : \A i \in DOMAIN Exported.layout[place].children :
       Exported.layout[Exported.layout[place].children[i]].parents = Append(Exported.layout[place].parents, place)
  /\ \A name \in 1..Charts : \E place \in DOMAIN Exported.layout : NodeOf(place, name)
  /\ \A place \in DOMAIN Exported.layout : Exported.layout[place].type = "CHART" =>
       \E name \in 1..Charts : NodeOf(place, name)
  /\ Exported.scopes = {[key |-> id, id |-> id, inScope |-> Refs \ {id}] : id \in Refs}
  /\ Exported.global = Refs
BY ExportAssumption DEF NodeOf, Refs, NodeType

\* What the results of the charts are when all are there: lists says whether they have uuids.
IsResults(results, lists) ==
  /\ Len(results) = Charts
  /\ \A m, n \in 1..Charts : results[m].id = results[n].id => m = n
  /\ \A n \in 1..Charts : \/ results[n].uuid = <<results[n].id, 1>>
                          \/ results[n].uuid = <<>> /\ ~lists

\* Each number of the export is mapped by its place.
LEMMA IdMapped ==
  ASSUME NEW results, NEW lists, IsResults(results, lists), NEW n \in 1..Charts
  PROVE  IdMap(results, OldRefs[n]) = results[n].id
<1>1. {k \in 1..Len(results) : OldRefs[k] = OldRefs[n]} = {n}
  BY ExportParts DEF IsResults
<1>2. (CHOOSE k \in {n} : TRUE) = n
  OBVIOUS
<1> QED
  BY <1>1, <1>2 DEF IdMap

LEMMA UuidMapped ==
  ASSUME NEW results, NEW lists, IsResults(results, lists), NEW n \in 1..Charts, lists
  PROVE  UuidMap(results, <<OldRefs[n], 0>>) = <<results[n].id, 1>>
<1>1. results[n].uuid = <<results[n].id, 1>>
  BY DEF IsResults
<1>2. results[n].uuid # <<>>
  BY <1>1
<1>3. \A k \in 1..Charts : <<OldRefs[k], 0>> = <<OldRefs[n], 0>> => k = n
  BY ExportParts
<1>4. {k \in 1..Len(results) : <<OldRefs[k], 0>> = <<OldRefs[n], 0>> /\ results[k].uuid # <<>>} = {n}
  BY <1>2, <1>3 DEF IsResults
<1>5. (CHOOSE k \in {n} : TRUE) = n
  OBVIOUS
<1> QED
  BY <1>1, <1>4, <1>5 DEF UuidMap

Key(place) == NodeKey(Exported.layout, place)

LEMMA KeysDiffer ==
  ASSUME NEW a \in DOMAIN Exported.layout, NEW b \in DOMAIN Exported.layout, Key(a) = Key(b)
  PROVE  a = b
<1>1. Key(a) \in {<<a[1], 0>>, <<a[1], 1>>} /\ Key(b) \in {<<b[1], 0>>, <<b[1], 1>>}
  BY ExportParts DEF Key, NodeKey
<1>2. a[1] = b[1]
  BY <1>1
<1> QED
  BY <1>2, ExportParts

Layout(results) == UpdatePositionJson(Exported.layout, results)

IsUpdated(results, place) ==
  LET node == Exported.layout[place]
      new  == Layout(results)[Key(place)]
  IN  /\ new.type = node.type /\ new.name = node.name
      /\ new.chart = IdMap(results, node.chart) /\ new.uuid = UuidMap(results, node.uuid)
      /\ new.children = [i \in DOMAIN node.children |-> Key(node.children[i])]
      /\ new.parents = [i \in DOMAIN node.parents |-> Key(node.parents[i])]

\* Each node of the export is there under its new key.
LEMMA NodeMapped ==
  ASSUME NEW results, NEW place \in DOMAIN Exported.layout
  PROVE  Key(place) \in DOMAIN Layout(results) /\ IsUpdated(results, place)
<1> DEFINE Updated(node) ==
      [node EXCEPT !.children = [i \in DOMAIN @ |-> NodeKey(Exported.layout, @[i])],
                   !.parents = [i \in DOMAIN @ |-> NodeKey(Exported.layout, @[i])],
                   !.chart = IdMap(results, @), !.uuid = UuidMap(results, @)]
           Old(new) == CHOOSE k \in DOMAIN Exported.layout : NodeKey(Exported.layout, k) = new
<1>1. Layout(results) = [new \in {NodeKey(Exported.layout, k) : k \in DOMAIN Exported.layout} |->
                           Updated(Exported.layout[Old(new)])]
  BY DEF Layout, UpdatePositionJson
<1>2. Old(Key(place)) = place
  <2>1. \E k \in DOMAIN Exported.layout : NodeKey(Exported.layout, k) = Key(place)
    BY DEF Key
  <2>2. Old(Key(place)) \in DOMAIN Exported.layout /\ NodeKey(Exported.layout, Old(Key(place))) = Key(place)
    BY <2>1
  <2> HIDE DEF Old
  <2> QED
    BY <2>2, KeysDiffer DEF Key
<1> HIDE DEF Old
<1>3. Key(place) \in {NodeKey(Exported.layout, k) : k \in DOMAIN Exported.layout}
  BY DEF Key
<1>4. PICK node \in NodeType : node = Exported.layout[place]
  BY ExportParts
<1> HIDE DEF Updated
<1>5. Key(place) \in DOMAIN Layout(results) /\ Layout(results)[Key(place)] = Updated(node)
  BY <1>1, <1>2, <1>3, <1>4
<1>6. /\ Updated(node).type = node.type /\ Updated(node).name = node.name
      /\ Updated(node).chart = IdMap(results, node.chart)
      /\ Updated(node).uuid = UuidMap(results, node.uuid)
      /\ Updated(node).children = [i \in DOMAIN node.children |-> NodeKey(Exported.layout, node.children[i])]
      /\ Updated(node).parents = [i \in DOMAIN node.parents |-> NodeKey(Exported.layout, node.parents[i])]
  BY DEF Updated, NodeType
<1> QED
  BY <1>4, <1>5, <1>6 DEF Key, IsUpdated

LEMMA KeysMapped ==
  ASSUME NEW results
  PROVE  \A new \in DOMAIN Layout(results) : \E place \in DOMAIN Exported.layout : new = Key(place)
BY DEF Layout, UpdatePositionJson, Key

LEMMA ParentsAppended ==
  ASSUME NEW parents \in Seq(DOMAIN Exported.layout), NEW place \in DOMAIN Exported.layout,
         NEW all, all = Append(parents, place)
  PROVE  [i \in DOMAIN all |-> Key(all[i])] = Append([i \in DOMAIN parents |-> Key(parents[i])], Key(place))
<1>1. PICK n \in Nat : n = Len(parents) /\ DOMAIN parents = 1..n
  BY LenProperties
<1>2. DOMAIN all = 1..(n + 1) /\ all[n + 1] = place /\ \A i \in 1..n : all[i] = parents[i]
  BY <1>1, AppendProperties, LenProperties
<1> DEFINE mapped == [i \in 1..n |-> Key(parents[i])]
           T == {Key(k) : k \in DOMAIN Exported.layout}
<1>3. mapped \in Seq(T) /\ Len(mapped) = n
  <2>1. \A i \in 1..n : Key(parents[i]) \in T
    BY <1>1, ElementOfSeq
  <2> QED
    BY <2>1, IsASeq
<1>4. Key(place) \in T
  OBVIOUS
<1>5. \A i \in 1..n : mapped[i] = Key(parents[i])
  OBVIOUS
<1> HIDE DEF mapped, T
<1>6. PICK longer \in Seq(T) : longer = Append(mapped, Key(place))
  BY <1>3, <1>4, AppendProperties
<1>7. Len(longer) = n + 1 /\ longer[n + 1] = Key(place) /\ \A i \in 1..n : longer[i] = mapped[i]
  BY <1>3, <1>4, <1>6, AppendProperties
<1>8. \A i \in 1..(n + 1) : longer[i] = Key(all[i])
  <2> TAKE i \in 1..(n + 1)
  <2>1. CASE i = n + 1
    BY <1>2, <1>7, <2>1
  <2>2. CASE i # n + 1
    <3>1. i \in 1..n
      BY <2>2
    <3> QED
      BY <1>2, <1>5, <1>7, <3>1
  <2> QED
    BY <2>1, <2>2
<1>9. longer = [i \in 1..(n + 1) |-> longer[i]]
  BY <1>6, <1>7, LenProperties
<1>10. longer = [i \in DOMAIN all |-> Key(all[i])]
  BY <1>2, <1>8, <1>9
<1>11. mapped = [i \in DOMAIN parents |-> Key(parents[i])]
  BY <1>1 DEF mapped
<1> QED
  BY <1>6, <1>10, <1>11

\* The layout is a tree still.
LEMMA TreeMapped ==
  ASSUME NEW results, NEW new \in DOMAIN Layout(results), NEW i \in DOMAIN Layout(results)[new].children
  PROVE  LET child == Layout(results)[new].children[i]
         IN  /\ child \in DOMAIN Layout(results)
             /\ Layout(results)[child].parents = Append(Layout(results)[new].parents, new)
<1>1. PICK place \in DOMAIN Exported.layout : new = Key(place)
  BY KeysMapped
<1>2. PICK node \in NodeType : node = Exported.layout[place]
  BY ExportParts
<1>3. /\ Layout(results)[new].children = [j \in DOMAIN node.children |-> Key(node.children[j])]
      /\ Layout(results)[new].parents = [j \in DOMAIN node.parents |-> Key(node.parents[j])]
  BY <1>1, <1>2, NodeMapped DEF IsUpdated
<1>4. PICK old \in DOMAIN Exported.layout : old = node.children[i] /\ i \in DOMAIN node.children
  <2>1. i \in DOMAIN node.children /\ node.children \in Seq(DOMAIN Exported.layout)
    BY <1>3 DEF NodeType
  <2> QED
    BY <2>1
<1>5. Layout(results)[new].children[i] = Key(old)
  BY <1>3, <1>4
<1>6. PICK child \in NodeType : child = Exported.layout[old]
  BY ExportParts
<1>7. child.parents = Append(node.parents, place)
  BY <1>2, <1>4, <1>6, ExportParts
<1>8. /\ Key(old) \in DOMAIN Layout(results)
      /\ Layout(results)[Key(old)].parents = [j \in DOMAIN child.parents |-> Key(child.parents[j])]
  <2>1. IsUpdated(results, old) /\ Key(old) \in DOMAIN Layout(results)
    BY NodeMapped
  <2> QED
    BY <1>6, <2>1 DEF IsUpdated
<1>9. node.parents \in Seq(DOMAIN Exported.layout)
  BY DEF NodeType
<1>10. Layout(results)[Key(old)].parents = Append(Layout(results)[new].parents, Key(place))
  BY <1>3, <1>7, <1>8, <1>9, ParentsAppended
<1> QED
  BY <1>1, <1>5, <1>8, <1>10

\* Each chart has its node.
LEMMA ChartMapped ==
  ASSUME NEW results, NEW lists, IsResults(results, lists), NEW name \in 1..Charts
  PROVE  \E new \in DOMAIN Layout(results) :
           Layout(results)[new].name = name /\ Layout(results)[new].chart = results[name].id
<1>1. PICK place \in DOMAIN Exported.layout : NodeOf(place, name)
  BY ExportParts
<1>2. /\ Key(place) \in DOMAIN Layout(results)
      /\ Layout(results)[Key(place)].name = name
      /\ Layout(results)[Key(place)].chart = IdMap(results, OldRefs[name])
  <2>1. IsUpdated(results, place) /\ Key(place) \in DOMAIN Layout(results)
    BY NodeMapped
  <2> QED
    BY <1>1, <2>1 DEF NodeOf, IsUpdated
<1> QED
  BY <1>2, IdMapped

LEMMA NodeUuids ==
  ASSUME NEW results, NEW lists, IsResults(results, lists), lists,
         NEW new \in DOMAIN Layout(results), Layout(results)[new].type = "CHART"
  PROVE  Layout(results)[new].uuid = <<Layout(results)[new].chart, 1>>
<1>1. PICK place \in DOMAIN Exported.layout : new = Key(place)
  BY KeysMapped
<1>2. Exported.layout[place].type = "CHART"
  BY <1>1, NodeMapped DEF IsUpdated
<1>3. PICK name \in 1..Charts : NodeOf(place, name)
  BY <1>2, ExportParts
<1>4. /\ Layout(results)[new].chart = IdMap(results, OldRefs[name])
      /\ Layout(results)[new].uuid = UuidMap(results, <<OldRefs[name], 0>>)
  <2>1. IsUpdated(results, place)
    BY NodeMapped
  <2> QED
    BY <1>1, <1>3, <2>1 DEF NodeOf, IsUpdated
<1>5. IdMap(results, OldRefs[name]) = results[name].id
  BY IdMapped
<1>6. UuidMap(results, <<OldRefs[name], 0>>) = <<results[name].id, 1>>
  BY UuidMapped
<1> QED
  BY <1>4, <1>5, <1>6

ResultIds(results) == {results[n].id : n \in 1..Charts}

\* Every chart filters all the others.
LEMMA ScopesMapped ==
  ASSUME NEW results, NEW lists, IsResults(results, lists)
  PROVE  LET ids == ResultIds(results)
         IN  /\ {IdMap(results, id) : id \in Exported.global} = ids
             /\ UpdateJsonMetadata(Exported.scopes, results)
                  = {[key |-> id, id |-> id, inScope |-> ids \ {id}] : id \in ids}
<1>1. {IdMap(results, id) : id \in Refs} = ResultIds(results)
  BY IdMapped DEF Refs, ResultIds
<1>2. ASSUME NEW n \in 1..Charts
      PROVE  {IdMap(results, id) : id \in Refs \ {OldRefs[n]}} = ResultIds(results) \ {results[n].id}
  <2>1. ASSUME NEW id \in Refs \ {OldRefs[n]} PROVE IdMap(results, id) \in ResultIds(results) \ {results[n].id}
    <3>1. PICK k \in 1..Charts : id = OldRefs[k]
      BY DEF Refs
    <3>2. IdMap(results, id) = results[k].id /\ k # n
      BY <3>1, IdMapped
    <3>3. results[k].id # results[n].id
      BY <3>2 DEF IsResults
    <3> QED
      BY <3>2, <3>3 DEF ResultIds
  <2>2. ASSUME NEW x \in ResultIds(results) \ {results[n].id}
        PROVE  \E id \in Refs \ {OldRefs[n]} : x = IdMap(results, id)
    <3>1. PICK k \in 1..Charts : x = results[k].id
      BY DEF ResultIds
    <3>2. k # n
      BY <3>1
    <3>3. OldRefs[k] \in Refs \ {OldRefs[n]}
      BY <3>2, ExportParts DEF Refs
    <3> QED
      BY <3>1, <3>3, IdMapped
  <2> QED
    BY <2>1, <2>2
<1> DEFINE New(s) == [key |-> IdMap(results, s.key), id |-> IdMap(results, s.id),
                      inScope |-> {IdMap(results, id) : id \in s.inScope}]
           Scope(id) == [key |-> id, id |-> id, inScope |-> Refs \ {id}]
           Result(id) == [key |-> id, id |-> id, inScope |-> ResultIds(results) \ {id}]
<1>3. ASSUME NEW n \in 1..Charts PROVE New(Scope(OldRefs[n])) = Result(results[n].id)
  <2>1. /\ Scope(OldRefs[n]).key = OldRefs[n] /\ Scope(OldRefs[n]).id = OldRefs[n]
        /\ Scope(OldRefs[n]).inScope = Refs \ {OldRefs[n]}
    OBVIOUS
  <2> HIDE DEF Scope
  <2> QED
    BY <1>2, <2>1, IdMapped
<1>4. UpdateJsonMetadata(Exported.scopes, results) = {New(s) : s \in {Scope(id) : id \in Refs}}
  BY ExportParts DEF UpdateJsonMetadata
<1> HIDE DEF New, Scope, Result
<1>5. {New(s) : s \in {Scope(id) : id \in Refs}} = {Result(id) : id \in ResultIds(results)}
  <2>1. ASSUME NEW x \in {New(s) : s \in {Scope(id) : id \in Refs}} PROVE x \in {Result(id) : id \in ResultIds(results)}
    <3>1. PICK id \in Refs : x = New(Scope(id))
      OBVIOUS
    <3>2. PICK n \in 1..Charts : id = OldRefs[n]
      BY DEF Refs
    <3> QED
      BY <1>3, <3>1, <3>2 DEF ResultIds
  <2>2. ASSUME NEW x \in {Result(id) : id \in ResultIds(results)} PROVE x \in {New(s) : s \in {Scope(id) : id \in Refs}}
    <3>1. PICK n \in 1..Charts : x = Result(results[n].id)
      BY DEF ResultIds
    <3>2. OldRefs[n] \in Refs
      BY DEF Refs
    <3> QED
      BY <1>3, <3>1, <3>2
  <2> QED
    BY <2>1, <2>2
<1> QED
  BY <1>1, <1>4, <1>5, ExportParts DEF Result

-----------------------------------------------------------------------------
(* The dashboard and its charts.                                           *)

\* A chart's result has its number, and its uuid if Superset tells it.
Known(c, result, lists) ==
  /\ result.id = c.id
  /\ result.uuid = <<c.id, 1>> \/ (result.uuid = <<>> /\ ~lists)

\* No two charts have one number; the results are those of the charts by name; the dashboard
\* is made from them; the charts linked so far know it.
BoardParts ==
  /\ \A c, d \in superset.charts : c.id = d.id => c = d
  /\ at[S] \in {"chart", "board", "link", "exit"} =>
       \A n \in 1..Len(import.charts) :
         /\ \E c \in superset.charts : c.name = n
         /\ \A c \in superset.charts : c.name = n => Known(c, import.charts[n], superset.listsUuid)
  /\ at[S] \in {"link", "exit"} =>
       /\ Board(import.board) \in superset.boards
       /\ \A c \in superset.charts : c.name <= import.linked => c.boards = {import.board}
  /\ at[S] = "exit" => import.linked = Charts

\* All that while the list of charts fits on a page.
BoardInv == "chart" \notin superset.crowded => BoardParts

LEMMA InitBoard == Init => BoardInv
BY DEF Init, InitOfImport, InitOfJobs, BoardInv, BoardParts, S, Job

LEMMA KeepBoard ==
  ASSUME BoardParts, UNCHANGED superset,
         \/ at'[S] \notin {"chart", "board", "link", "exit"}
         \/ at'[S] = at[S] /\ UNCHANGED import
  PROVE  BoardParts'
<1>1. \A id : Board(id)' = Board(id) \/ ~UNCHANGED import
  BY DEF Board
<1> QED
  BY <1>1 DEF BoardParts, Known

LEMMA ScriptBoard ==
  ASSUME TypeOK, ImportInv, BoardParts, ImportResources, "chart" \notin superset.crowded
  PROVE  BoardParts'
<1>inv. Shape /\ ImportTypes /\ Places /\ Once
  BY DEF ImportInv
<1>job. S \in Job /\ at \in [Job -> Lines] /\ job = [j \in Job |-> job[j]]
  BY TypeParts DEF S, Job, PodTypes
<1>len. Len(import.charts) \in Nat /\ Charts \in Nat /\ import.linked \in Nat
  BY LenProperties, ImportAssumption, <1>inv DEF Places
<1>1. CASE Login \/ WaitForSuperset \/ SupersetGone \/ DatasetRefused \/ ChartRefused
  <2>1. UNCHANGED superset
    BY <1>1 DEF Login, WaitForSuperset, SupersetGone, DatasetRefused, ChartRefused, importVars
  <2>2. at'[S] \in {"ready", "dataset", "none"}
    BY <1>1, <1>job DEF Login, WaitForSuperset, SupersetGone, DatasetRefused, ChartRefused,
       Advance, Poll, PodFails, Goto
  <2> QED
    BY <2>1, <2>2, KeepBoard
<1>2. CASE SkipDataset \/ EnsureDataset
  <2>1. at[S] = "dataset" /\ at'[S] = "chart"
    BY <1>2, <1>job DEF SkipDataset, EnsureDataset, Advance, Goto
  <2>2. superset'.charts = superset.charts /\ import'.charts = import.charts
    BY <1>2, <1>inv DEF SkipDataset, EnsureDataset, importVars, Shape
  <2>3. Len(import'.charts) = 0
    BY <2>1, <2>2, EmptySeq, <1>inv DEF Places, Start
  <2> QED
    BY <2>1, <2>2, <2>3 DEF BoardParts
<1>3. CASE UpdateChart
  <2>1. at[S] = "chart" /\ at'[S] \in {"chart", "board"}
    BY <1>3, <1>job DEF UpdateChart, NextChart, Advance, Goto
  <2> DEFINE result(c) ==
        [id |-> c.id, uuid |-> IF superset.listsUuid THEN <<c.id, 1>> ELSE <<>>]
  <2>2. PICK chart \in Named(Current) :
          /\ superset' = [superset EXCEPT !.charts =
                            (@ \ {chart}) \cup {[chart EXCEPT !.params = import.dataset]}]
          /\ import' = [import EXCEPT !.charts = Append(@, result(chart))]
    BY <1>3 DEF UpdateChart
  <2> DEFINE new == [chart EXCEPT !.params = import.dataset]
  <2>3. /\ superset'.charts = (superset.charts \ {chart}) \cup {new}
        /\ superset'.listsUuid = superset.listsUuid
        /\ import'.charts = Append(import.charts, result(chart))
    BY <2>2, <1>inv DEF Shape
  <2>4. chart \in superset.charts /\ chart.name = Current /\ chart.id \in Nat /\ chart.id \in Ids
    BY <1>inv DEF Named, ImportTypes, Ids
  <2>5. new.name = chart.name /\ new.id = chart.id
    BY <2>4, <1>inv DEF ImportTypes
  <2>6. result(chart) \in [id : Ids, uuid : Seq(Nat)]
    <3>1. (IF superset.listsUuid THEN <<chart.id, 1>> ELSE <<>>) \in Seq(Nat)
      BY <2>4, EmptySeq
    <3> QED
      BY <2>4, <3>1
  <2>7. Known(new, result(chart), superset'.listsUuid) /\ result(chart).id = chart.id
    BY <2>3, <2>5 DEF Known
  <2> HIDE DEF result, new
  <2>8. PICK n \in Nat : n = Len(import.charts)
    BY <1>len
  <2>9. /\ Len(import'.charts) = n + 1 /\ import'.charts[n + 1] = result(chart)
        /\ \A k \in 1..n : import'.charts[k] = import.charts[k]
    BY <2>3, <2>6, <2>8, AppendProperties, <1>inv DEF Places
  <2>10. \A c, d \in superset'.charts : c.id = d.id => c = d
    BY <2>3, <2>4, <2>5 DEF BoardParts
  <2>11. ASSUME NEW k \in 1..(n + 1)
         PROVE  /\ \E c \in superset'.charts : c.name = k
                /\ \A c \in superset'.charts : c.name = k => Known(c, import'.charts[k], superset'.listsUuid)
    <3>1. CASE k = n + 1
      <4>1. \A c \in superset'.charts : c.name = k => c = new
        BY <2>3, <2>4, <2>5, <2>8, <3>1, <1>inv DEF Once, Current
      <4>2. new \in superset'.charts /\ new.name = k
        BY <2>3, <2>4, <2>5, <2>8, <3>1 DEF Current
      <4> QED
        BY <2>7, <2>9, <3>1, <4>1, <4>2 DEF Known
    <3>2. CASE k # n + 1
      <4>1. k \in 1..n /\ k # chart.name
        BY <2>4, <2>8, <3>2 DEF Current
      <4>2. /\ \E c \in superset.charts : c.name = k
            /\ \A c \in superset.charts : c.name = k => Known(c, import.charts[k], superset.listsUuid)
        BY <2>1, <2>8, <4>1 DEF BoardParts
      <4>3. \A c \in superset'.charts : c.name = k => c \in superset.charts
        BY <2>3, <2>5, <4>1
      <4>4. \E c \in superset'.charts : c.name = k
        BY <2>3, <4>1, <4>2
      <4> QED
        BY <2>3, <2>9, <4>1, <4>2, <4>3, <4>4 DEF Known
    <3> QED
      BY <3>1, <3>2
  <2> QED
    BY <2>1, <2>9, <2>10, <2>11 DEF BoardParts
<1>4. CASE CreateChart
  <2> DEFINE id == superset.last + 1
             new == [id |-> id, name |-> Current, dataset |-> import.dataset,
                     params |-> import.dataset, boards |-> {}]
             result == [id |-> id, uuid |-> <<id, 1>>]
  <2>1. at[S] = "chart" /\ at'[S] \in {"chart", "board"} /\ Named(Current) = {}
    BY <1>4, <1>job DEF CreateChart, NextChart, Advance, Goto, NotFound
  <2>2. /\ superset' = [superset EXCEPT !.last = id, !.charts = @ \cup {new}]
        /\ import' = [import EXCEPT !.charts = Append(@, result)]
    BY <1>4 DEF CreateChart
  <2>3. /\ superset'.charts = superset.charts \cup {new} /\ superset'.last = id
        /\ superset'.listsUuid = superset.listsUuid
        /\ import'.charts = Append(import.charts, result)
    BY <2>2, <1>inv DEF Shape
  <2>4. superset.last \in Nat /\ id \in Nat /\ superset.last < id
    BY <1>inv DEF ImportTypes
  <2>5. import.charts \in Seq([id : Ids, uuid : Seq(Nat)])'
    BY <2>3, <2>4, Grows, <1>inv DEF Places
  <2>6. result \in [id : Ids, uuid : Seq(Nat)]'
    BY <2>3, <2>4 DEF Ids
  <2>7. new.name = Current /\ new.id = id /\ Known(new, result, superset'.listsUuid)
    BY DEF Known
  <2>8. \A c \in superset.charts : c.id # id /\ c.name # Current
    BY <2>1, <2>4, <1>inv DEF ImportTypes, Ids, Named
  <2> HIDE DEF result, new, id
  <2>9. PICK n \in Nat : n = Len(import.charts)
    BY <1>len
  <2>10. /\ Len(import'.charts) = n + 1 /\ import'.charts[n + 1] = result
         /\ \A k \in 1..n : import'.charts[k] = import.charts[k]
    BY <2>3, <2>5, <2>6, <2>9, AppendProperties
  <2>11. \A c, d \in superset'.charts : c.id = d.id => c = d
    BY <2>3, <2>7, <2>8 DEF BoardParts
  <2>12. ASSUME NEW k \in 1..(n + 1)
         PROVE  /\ \E c \in superset'.charts : c.name = k
                /\ \A c \in superset'.charts : c.name = k => Known(c, import'.charts[k], superset'.listsUuid)
    <3>1. CASE k = n + 1
      <4>1. \A c \in superset'.charts : c.name = k => c = new
        BY <2>3, <2>8, <2>9, <3>1 DEF Current
      <4>2. new \in superset'.charts /\ new.name = k
        BY <2>3, <2>7, <2>9, <3>1 DEF Current
      <4> QED
        BY <2>7, <2>10, <3>1, <4>1, <4>2 DEF Known
    <3>2. CASE k # n + 1
      <4>1. k \in 1..n /\ k # new.name
        BY <2>7, <2>9, <3>2 DEF Current
      <4>2. /\ \E c \in superset.charts : c.name = k
            /\ \A c \in superset.charts : c.name = k => Known(c, import.charts[k], superset.listsUuid)
        BY <2>1, <2>9, <4>1 DEF BoardParts
      <4>3. \A c \in superset'.charts : c.name = k => c \in superset.charts
        BY <2>3, <4>1
      <4>4. \E c \in superset'.charts : c.name = k
        BY <2>3, <4>1, <4>2
      <4> QED
        BY <2>3, <2>10, <4>1, <4>2, <4>3, <4>4 DEF Known
    <3> QED
      BY <3>1, <3>2
  <2> QED
    BY <2>1, <2>10, <2>11, <2>12 DEF BoardParts
<1>5. CASE EnsureDashboard
  <2>1. at[S] = "board" /\ at'[S] = "link"
    BY <1>5, <1>job DEF EnsureDashboard, Advance, Goto
  <2>2. PICK id :
          /\ superset' = [superset EXCEPT !.boards = {b \in @ : b.id # id} \cup {Board(id)},
                                          !.last = IF id > @ THEN id ELSE @]
          /\ import' = [import EXCEPT !.board = id]
    BY <1>5 DEF EnsureDashboard, StoreDashboard
  <2>3. /\ superset'.charts = superset.charts /\ superset'.listsUuid = superset.listsUuid
        /\ Board(id) \in superset'.boards /\ import'.board = id
        /\ import'.charts = import.charts /\ import'.linked = import.linked
    BY <2>2, <1>inv DEF Shape
  <2>4. Board(import.board)' = Board(id)
    BY <2>3 DEF Board
  <2>5. import.linked = 0
    BY <2>1, <1>inv DEF Places
  <2>6. \A c \in superset.charts : ~(c.name <= 0)
    BY <1>inv, ImportAssumption DEF ImportTypes
  <2> QED
    BY <2>1, <2>3, <2>4, <2>5, <2>6 DEF BoardParts, Known
<1>6. CASE LinkChart
  <2> DEFINE Linked(chart) == IF chart.id = import.charts[import.linked + 1].id
                              THEN [chart EXCEPT !.boards = {import.board}] ELSE chart
  <2>1. /\ at[S] = "link"
        /\ at'[S] = IF import.linked + 1 < Len(import.charts) THEN "link" ELSE "exit"
    BY <1>6, <1>job DEF LinkChart, Advance, Goto
  <2>2. /\ superset' = [superset EXCEPT !.charts = {Linked(chart) : chart \in @}]
        /\ import' = [import EXCEPT !.linked = @ + 1]
    BY <1>6 DEF LinkChart
  <2>3. /\ superset'.charts = {Linked(chart) : chart \in superset.charts}
        /\ superset'.listsUuid = superset.listsUuid /\ superset'.boards = superset.boards
        /\ import'.linked = import.linked + 1 /\ import'.board = import.board
        /\ import'.charts = import.charts
    BY <2>2, <1>inv DEF Shape
  <2>4. Len(import.charts) = Charts /\ import.linked + 1 \in 1..Charts
    BY <2>1, <1>len, <1>inv DEF Places
  <2>5. \A c \in superset.charts : /\ Linked(c).name = c.name /\ Linked(c).id = c.id
                                   /\ Linked(c).boards = c.boards \/ Linked(c).boards = {import.board}
    BY <1>inv DEF ImportTypes
  <2>6. \A c \in superset.charts : c.name = import.linked + 1 => Linked(c).boards = {import.board}
    <3> SUFFICES ASSUME NEW c \in superset.charts, c.name = import.linked + 1
                 PROVE  Linked(c).boards = {import.board}
      OBVIOUS
    <3>1. c.id = import.charts[import.linked + 1].id
      BY <2>1, <2>4 DEF BoardParts, Known
    <3> QED
      BY <3>1, <1>inv DEF ImportTypes
  <2> HIDE DEF Linked
  <2>7. \A c, d \in superset'.charts : c.id = d.id => c = d
    BY <2>3, <2>5 DEF BoardParts
  <2>8. ASSUME NEW k \in 1..Charts
        PROVE  /\ \E c \in superset'.charts : c.name = k
               /\ \A c \in superset'.charts : c.name = k => Known(c, import'.charts[k], superset'.listsUuid)
    <3>1. /\ \E c \in superset.charts : c.name = k
          /\ \A c \in superset.charts : c.name = k => Known(c, import.charts[k], superset.listsUuid)
      BY <2>1, <2>4 DEF BoardParts
    <3> QED
      BY <2>3, <2>5, <3>1 DEF Known
  <2>9. Board(import.board)' = Board(import.board) /\ Board(import.board) \in superset.boards
    BY <2>1, <2>3 DEF Board, BoardParts
  <2>10. \A c \in superset'.charts : c.name <= import'.linked => c.boards = {import.board}
    <3> SUFFICES ASSUME NEW c \in superset.charts, c.name <= import.linked + 1
                 PROVE  Linked(c).boards = {import.board}
      BY <2>3, <2>5
    <3>1. c.name \in 1..Charts
      BY <1>inv DEF ImportTypes
    <3>2. CASE c.name = import.linked + 1
      BY <2>6, <3>2
    <3>3. CASE c.name <= import.linked
      <4>1. c.boards = {import.board}
        BY <2>1, <3>3 DEF BoardParts
      <4> QED
        BY <2>5, <4>1
    <3> QED
      BY <1>len, <3>1, <3>2, <3>3
  <2>11. at'[S] = "exit" => import'.linked = Charts
    BY <2>1, <2>3, <2>4, <1>len
  <2> QED
    BY <2>1, <2>3, <2>4, <2>7, <2>8, <2>9, <2>10, <2>11 DEF BoardParts
<1> QED
  BY <1>1, <1>2, <1>3, <1>4, <1>5, <1>6 DEF ImportResources

LEMMA ServiceBoard == TypeOK /\ ImportInv /\ BoardParts /\ Superset => BoardParts'
<1> SUFFICES ASSUME TypeOK, ImportInv, BoardParts, Superset PROVE BoardParts'
  OBVIOUS
<1> USE DEF jobVars, podVars
<1>inv. Shape /\ Places
  BY DEF ImportInv
<1>1. CASE DeadlineExceeded
  BY <1>1, Deadline, KeepBoard DEF importVars
<1>2. CASE SupersetUp \/ ImportDatabase \/ SupersetDown
  <2>1. /\ superset'.charts = superset.charts /\ superset'.boards = superset.boards
        /\ superset'.listsUuid = superset.listsUuid /\ UNCHANGED <<at, import>>
    BY <1>2, <1>inv DEF SupersetUp, ImportDatabase, SupersetDown, Shape
  <2>2. Board(import.board)' = Board(import.board)
    BY <2>1 DEF Board
  <2> QED
    BY <2>1, <2>2 DEF BoardParts, Known
<1>3. CASE Edit
  <2>1. at'[S] = "none"
    BY <1>3, <1>inv DEF Edit, Places
  <2>2. superset'.charts \subseteq superset.charts
    BY <1>3, <1>inv DEF Edit, Shape
  <2> QED
    BY <2>1, <2>2 DEF BoardParts
<1> QED
  BY <1>1, <1>2, <1>3 DEF Superset

\* A list that has outgrown a page stays so.
LEMMA NextCrowded ==
  TypeOK /\ ImportInv /\ [Next]_vars => superset.crowded \subseteq superset'.crowded
<1> SUFFICES ASSUME TypeOK, ImportInv, [Next]_vars PROVE superset.crowded \subseteq superset'.crowded
  OBVIOUS
<1>inv. Shape
  BY DEF ImportInv
<1>1. ASSUME ImportResources PROVE superset'.crowded = superset.crowded
  <2>1. CASE UNCHANGED importVars
    BY <2>1 DEF importVars
  <2>2. CASE EnsureDataset \/ UpdateChart \/ CreateChart \/ LinkChart
    BY <2>2, <1>inv DEF EnsureDataset, UpdateChart, CreateChart, LinkChart, Shape
  <2>3. CASE EnsureDashboard
    BY <2>3, <1>inv DEF EnsureDashboard, StoreDashboard, Shape
  <2> QED
    BY <1>1, <2>1, <2>2, <2>3 DEF ImportResources, Login, WaitForSuperset, SupersetGone,
       SkipDataset, DatasetRefused, ChartRefused
<1>2. ASSUME Superset PROVE superset.crowded \subseteq superset'.crowded
  BY <1>2, <1>inv DEF Superset, SupersetUp, ImportDatabase, SupersetDown, DeadlineExceeded, Edit,
     importVars, Shape
<1>3. ASSUME NEW j \in Job, StartPod(j) \/ KillPod(j) \/ ExitPod(j) \/ Sync(j)
      PROVE  superset' = superset
  BY <1>3, PodOfImport
<1>4. ASSUME GarageInit \/ PolarisInit \/ KafkaCaInit \/ Services PROVE superset' = superset
  BY <1>4, OtherSteps DEF importVars
<1>5. ASSUME UNCHANGED vars PROVE superset' = superset
  BY <1>5 DEF vars, importVars
<1> QED
  BY <1>1, <1>2, <1>3, <1>4, <1>5 DEF Next

LEMMA NextBoard == TypeOK /\ ImportInv /\ BoardInv /\ [Next]_vars => BoardInv'
<1> SUFFICES ASSUME TypeOK, ImportInv, BoardParts, [Next]_vars, "chart" \notin superset.crowded
             PROVE  BoardParts'
  BY NextCrowded DEF BoardInv
<1>1. ASSUME UNCHANGED vars PROVE BoardParts'
  BY <1>1, KeepBoard DEF vars, podVars, importVars
<1>2. ASSUME NEW j \in Job, StartPod(j) \/ KillPod(j) \/ ExitPod(j) \/ Sync(j) PROVE BoardParts'
  BY <1>2, PodOfImport, KeepBoard
<1>3. ASSUME GarageInit \/ PolarisInit \/ KafkaCaInit \/ Services PROVE BoardParts'
  BY <1>3, OtherSteps, KeepBoard DEF importVars
<1> QED
  BY <1>1, <1>2, <1>3, ScriptBoard, ServiceBoard DEF Next

\* What the invariant says of the end of the script.
LEMMA BoardIsComplete == ImportInv /\ BoardInv => DashboardComplete
<1> SUFFICES ASSUME ImportInv, BoardParts, at[S] = "exit" PROVE DashboardComplete
  BY DEF BoardInv, DashboardComplete
<1>inv. ImportTypes /\ Places
  BY DEF ImportInv
<1>1. PICK results : results = import.charts
  OBVIOUS
<1>2. PICK lists : lists = superset.listsUuid
  OBVIOUS
<1>3. Len(results) = Charts /\ Charts \in Nat /\ import.linked = Charts
  BY <1>1, <1>inv, ImportAssumption DEF Places, BoardParts
<1>4. \A n \in 1..Charts : /\ \E c \in superset.charts : c.name = n
                           /\ \A c \in superset.charts : c.name = n => Known(c, results[n], lists)
  BY <1>1, <1>2, <1>3 DEF BoardParts
<1>5. IsResults(results, lists)
  <2>1. ASSUME NEW m \in 1..Charts, NEW n \in 1..Charts, results[m].id = results[n].id PROVE m = n
    <3>1. PICK c \in superset.charts : c.name = m
      BY <1>4
    <3>2. PICK d \in superset.charts : d.name = n
      BY <1>4
    <3>3. c.id = d.id
      BY <1>4, <2>1, <3>1, <3>2 DEF Known
    <3> QED
      BY <3>1, <3>2, <3>3 DEF BoardParts
  <2>2. ASSUME NEW n \in 1..Charts
        PROVE  results[n].uuid = <<results[n].id, 1>> \/ (results[n].uuid = <<>> /\ ~lists)
    <3>1. PICK c \in superset.charts : c.name = n
      BY <1>4
    <3> QED
      BY <1>2, <1>4, <3>1 DEF Known
  <2> QED
    BY <1>3, <2>1, <2>2 DEF IsResults
<1>6. PICK ids : ids = {c.id : c \in superset.charts}
  OBVIOUS
<1>7. ids = ResultIds(results)
  <2>1. ASSUME NEW c \in superset.charts PROVE c.id \in ResultIds(results)
    <3>1. c.name \in 1..Charts
      BY <1>inv DEF ImportTypes
    <3> QED
      BY <1>4, <3>1 DEF Known, ResultIds
  <2>2. ASSUME NEW n \in 1..Charts PROVE results[n].id \in ids
    <3>1. PICK c \in superset.charts : c.name = n
      BY <1>4
    <3> QED
      BY <1>4, <1>6, <3>1 DEF Known
  <2> QED
    BY <1>6, <2>1, <2>2 DEF ResultIds
<1>8. PICK board \in superset.boards : board = Board(import.board)
  BY DEF BoardParts
<1>9. /\ board.id = import.board /\ board.layout = Layout(results)
      /\ board.scopes = UpdateJsonMetadata(Exported.scopes, results)
      /\ board.global = {IdMap(results, chart) : chart \in Exported.global}
  BY <1>1, <1>8 DEF Board, Layout
<1>10. PICK layout : layout = Layout(results)
  OBVIOUS
<1>11. \A place \in DOMAIN layout : \A i \in DOMAIN layout[place].children :
         LET child == layout[place].children[i]
         IN  child \in DOMAIN layout /\ layout[child].parents = Append(layout[place].parents, place)
  BY <1>10, TreeMapped
<1>12. PICK nodes : nodes = {layout[place] : place \in DOMAIN layout}
  OBVIOUS
<1>13. ASSUME NEW c \in superset.charts
       PROVE  /\ c.boards = {board.id}
              /\ \E node \in nodes : node.name = c.name /\ node.chart = c.id
  <2>1. c.name \in 1..Charts
    BY <1>inv DEF ImportTypes
  <2>2. c.boards = {import.board}
    BY <1>3, <2>1 DEF BoardParts
  <2>3. PICK place \in DOMAIN layout :
          layout[place].name = c.name /\ layout[place].chart = results[c.name].id
    BY <1>5, <1>10, <2>1, ChartMapped
  <2>4. results[c.name].id = c.id
    BY <1>4, <2>1 DEF Known
  <2> QED
    BY <1>9, <1>12, <2>2, <2>3, <2>4
<1>14. ASSUME NEW node \in nodes, node.type = "CHART"
       PROVE  node.uuid = <<node.chart, 1>> \/ ~superset.listsUuid
  <2>1. PICK place \in DOMAIN layout : node = layout[place]
    BY <1>12
  <2> QED
    BY <1>2, <1>5, <1>10, <1>14, <2>1, NodeUuids
<1>15. /\ board.scopes = {[key |-> id, id |-> id, inScope |-> ids \ {id}] : id \in ids}
       /\ board.global = ids
  BY <1>5, <1>7, <1>9, ScopesMapped
<1>16. board.layout = layout
  BY <1>9, <1>10
<1> DEFINE Fits(b) ==
      LET all == {b.layout[place] : place \in DOMAIN b.layout}
      IN  /\ \A place \in DOMAIN b.layout : \A i \in DOMAIN b.layout[place].children :
               LET child == b.layout[place].children[i]
               IN  /\ child \in DOMAIN b.layout
                   /\ b.layout[child].parents = Append(b.layout[place].parents, place)
          /\ \A c \in superset.charts :
               /\ c.boards = {b.id}
               /\ \E node \in all : node.name = c.name /\ node.chart = c.id
          /\ \A node \in all : node.type = "CHART" =>
               node.uuid = <<node.chart, 1>> \/ ~superset.listsUuid
          /\ b.scopes = {[key |-> id, id |-> id, inScope |-> ids \ {id}] : id \in ids}
          /\ b.global = ids
<1>17. Fits(board)
  BY <1>11, <1>12, <1>13, <1>14, <1>15, <1>16
<1>18. \E b \in superset.boards : Fits(b)
  BY <1>17
<1> QED
  BY ZenonT(30), <1>6, <1>18 DEF DashboardComplete

\* An import that comes to its end leaves a whole dashboard of the charts that are here, for
\* any dashboard exported, any number of charts, whatever numbers they had and have, as long
\* as the list of charts fits on a page (import_resources.py 213-307, 362-365).
THEOREM Dashboard == Spec => []DashboardComplete
<1>1. Init => TypeOK /\ ImportInv /\ BoardInv
  BY InitTypes, InitImport, InitBoard
<1>2. TypeOK /\ ImportInv /\ BoardInv /\ [Next]_vars => (TypeOK /\ ImportInv /\ BoardInv)'
  BY NextTypes, NextImport, NextBoard
<1> QED
  BY <1>1, <1>2, BoardIsComplete, PTL DEF Spec

=============================================================================
