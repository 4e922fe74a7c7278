----------------------------- MODULE MCInitJobs -----------------------------
(* A small instance of InitJobs for TLC: the jobs that share a service     *)
(* together, the others each on its own.  Exported is the dashboard of     *)
(* resources.json.                                                         *)
EXTENDS InitJobs

MCBackoffLimit == [j \in Job |-> IF j = "garage-init" THEN 2 ELSE 1]

MCDeployments == {{"garage-init", "polaris-init"}, {"kafka-ca-init"}, {"superset-import"}}

MCOldRefs == <<1, 2>>

Root == <<"ROOT_ID", 0>>
Grid == <<"GRID_ID", 0>>
Row  == <<"ROW-z4", 0>>
Bars == <<"CHART-5f", 0>>
Pie  == <<"CHART-du", 0>>

Node(type, children, parents) ==
  [type |-> type, children |-> children, parents |-> parents,
   name |-> 0, chart |-> 0, uuid |-> <<>>]

ChartNode(name) ==
  [Node("CHART", <<>>, <<Root, Grid, Row>>) EXCEPT
     !.name = name, !.chart = name, !.uuid = <<name, 0>>]

MCLayout ==
  [k \in {Root, Grid, Row, Bars, Pie} |->
     CASE k = Root -> Node("ROOT", <<Grid>>, <<>>)
       [] k = Grid -> Node("GRID", <<Row>>, <<Root>>)
       [] k = Row  -> Node("ROW", <<Pie, Bars>>, <<Root, Grid>>)
       [] k = Bars -> ChartNode(1)
       [] k = Pie  -> ChartNode(2)]

MCExported ==
  [layout |-> MCLayout, global |-> {1, 2},
   scopes |-> {[key |-> 1, id |-> 1, inScope |-> {2}], [key |-> 2, id |-> 2, inScope |-> {1}]}]

=============================================================================
