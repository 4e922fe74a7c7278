-------------------------- MODULE ChatAgentProofs --------------------------
(***************************************************************************)
(* Proofs about ChatAgent: what the user sees of a chat, which connections *)
(* are open, and the history sent to the provider.                         *)
(*                                                                         *)
(* IInv relates the locals of on_message and of run_agent to the items of  *)
(* the thread, TextInv the texts that tools closed to those tools, LinkInv *)
(* the exit stacks to the chat, HistoryInv the history to the calls still  *)
(* to execute.                                                             *)
(***************************************************************************)
EXTENDS ChatAgent, DataLemmas

Shape ==
  /\ turn \in 0..MaxTurns
  /\ broken \subseteq 1..MaxTurns
  /\ ui \in Seq(Items)
  /\ groupStep \in 0..Len(ui) /\ response \in 0..Len(ui) /\ closed \subseteq 1..Len(ui)
  /\ inGroup \in BOOLEAN /\ forceFinal \in BOOLEAN

\* Outside run_agent its locals are at rest; a round that is to be executed has calls
\* left as long as a text stands open above them.
Locals ==
  /\ chat = "new" => pc = "idle"
  /\ pc # "idle" => turn > 0
  /\ ~ Running => groupStep = 0 /\ response = 0 /\ ~ inGroup /\ ~ forceFinal
  /\ pc = "idle" => closed = {}
  /\ pc \in {"request", "stream", "text", "record"} => response = 0
  /\ pc = "record" => groupStep # 0
  /\ pc = "text" => todo # <<>>
  /\ pc = "tools" /\ response # 0 => todo # <<>>
  /\ pc = "finish" => groupStep = 0

\* An item is open or waits to be saved only while its turn can still see to it.
Marks ==
  /\ \A i \in 1..Len(ui) :
       ui[i].open => ui[i].turn \in broken \/ (i = groupStep /\ ui[i].turn = turn)
  /\ \A i \in 1..Len(ui) :
       ui[i].saved = "no" =>
         ui[i].turn \in broken \/ (i \in closed \union {response} /\ ui[i].turn = turn)

IInv == Shape /\ Locals /\ Marks /\ OpenItemIsLast /\ GroupFlagAgrees /\ LimitEndsTurn

-----------------------------------------------------------------------------
(* Items.                                                                  *)

LEMMA ItemType ==
  ASSUME turn \in 0..MaxTurns, NEW saved \in {"no", "yes", "failed"},
         NEW kind \in {"user", "tools", "text", "blank", "warning"}
  PROVE  /\ Item(kind, saved) \in Items
         /\ Item(kind, saved).turn = turn /\ ~ Item(kind, saved).open
         /\ Item(kind, saved).saved = saved /\ Item(kind, saved).kind = kind
BY DEF Item, Items

LEMMA Indices ==
  ASSUME NEW n \in Nat, NEW S, S \subseteq 1..n
  PROVE  S \subseteq 1..n + 1
OBVIOUS

LEMMA FunctionOfItems ==
  ASSUME NEW n \in Nat, NEW s \in [1..n -> Items]
  PROVE  s \in Seq(Items) /\ Len(s) = n
OBVIOUS

LEMMA AppendItem ==
  ASSUME NEW s \in Seq(Items), NEW x \in Items
  PROVE  /\ Append(s, x) \in Seq(Items)
         /\ Len(s) \in Nat /\ Len(Append(s, x)) = Len(s) + 1
         /\ \A i \in 1..Len(s) : Append(s, x)[i] = s[i]
         /\ Append(s, x)[Len(s) + 1] = x
OBVIOUS

\* Removing the last item.
LEMMA RemoveLast ==
  ASSUME NEW s \in Seq(Items), s # <<>>
  PROVE  /\ RemoveAt(s, Len(s)) \in Seq(Items)
         /\ Len(RemoveAt(s, Len(s))) = Len(s) - 1
         /\ \A i \in 1..Len(s) - 1 : RemoveAt(s, Len(s))[i] = s[i]
<1> DEFINE front == SubSeq(s, 1, Len(s) - 1)
<1>1. SubSeq(s, Len(s) + 1, Len(s)) = <<>>
  OBVIOUS
<1>2. /\ front \in Seq(Items) /\ Len(front) = Len(s) - 1
      /\ \A i \in 1..Len(s) - 1 : front[i] = s[i]
  <2>1. Len(s) \in Nat \ {0}
    OBVIOUS
  <2>2. front \in Seq(Items)
    OBVIOUS
  <2>3. Len(front) = Len(s) - 1
    <3> DEFINE n == Len(s) - 1
    <3>1. n \in Nat /\ n <= Len(s)
      BY <2>1
    <3> HIDE DEF n
    <3>2. Len(SubSeq(s, 1, n)) = n
      BY <3>1
    <3> QED
      BY <3>2 DEF n
  <2>4. \A i \in 1..Len(s) - 1 : front[i] = s[i]
    BY <2>1
  <2> QED
    BY <2>2, <2>3, <2>4
<1>3. RemoveAt(s, Len(s)) = front \o <<>>
  <2>1. RemoveAt(s, Len(s)) = SubSeq(s, 1, Len(s) - 1) \o SubSeq(s, Len(s) + 1, Len(s))
    BY Zenon DEF RemoveAt
  <2> QED
    BY <2>1, <1>1, Zenon
<1>4. front \o <<>> = front
  <2> HIDE DEF front
  <2> QED
    BY <1>2
<1> HIDE DEF front
<1> QED
  BY <1>2, <1>3, <1>4

\* on_group_end changes nothing but the open mark of the group.
LEMMA GroupEndedItems ==
  ASSUME ui \in Seq(Items), groupStep \in 0..Len(ui)
  PROVE  /\ GroupEnded(ui) \in Seq(Items)
         /\ Len(GroupEnded(ui)) = Len(ui)
         /\ \A i \in 1..Len(ui) :
              /\ GroupEnded(ui)[i].turn = ui[i].turn
              /\ GroupEnded(ui)[i].saved = ui[i].saved
              /\ GroupEnded(ui)[i].kind = ui[i].kind
              /\ GroupEnded(ui)[i].open <=> ui[i].open /\ i # groupStep
<1>1. CASE groupStep = 0
  BY <1>1 DEF GroupEnded
<1>2. CASE groupStep # 0
  <2>1. ui[groupStep] \in Items
    BY <1>2
  <2>2. [ui[groupStep] EXCEPT !.open = FALSE] \in Items
    BY <2>1 DEF Items
  <2>3. GroupEnded(ui) = [ui EXCEPT ![groupStep] = [ui[groupStep] EXCEPT !.open = FALSE]]
    BY <1>2 DEF GroupEnded
  <2>4. \A i \in 1..Len(ui) : ui[i] \in Items
    OBVIOUS
  <2>5. /\ GroupEnded(ui) \in Seq(Items)
        /\ Len(GroupEnded(ui)) = Len(ui)
        /\ \A i \in 1..Len(ui) : i # groupStep => GroupEnded(ui)[i] = ui[i]
        /\ GroupEnded(ui)[groupStep] = [ui[groupStep] EXCEPT !.open = FALSE]
    <3> DEFINE g == GroupEnded(ui)
               x == [ui[groupStep] EXCEPT !.open = FALSE]
    <3>1. ui \in [1..Len(ui) -> Items] /\ Len(ui) \in Nat /\ groupStep \in 1..Len(ui)
      BY <1>2
    <3>2. g = [ui EXCEPT ![groupStep] = x] /\ x \in Items
      BY <2>2, <2>3
    <3> HIDE DEF g, x
    <3>3. /\ g \in [1..Len(ui) -> Items] /\ g[groupStep] = x
          /\ \A i \in 1..Len(ui) : i # groupStep => g[i] = ui[i]
      BY <3>1, <3>2
    <3>4. g \in Seq(Items) /\ Len(g) = Len(ui)
      BY <3>1, <3>3, FunctionOfItems
    <3> QED
      BY <3>3, <3>4 DEF g, x
  <2>6. /\ [ui[groupStep] EXCEPT !.open = FALSE].turn = ui[groupStep].turn
        /\ [ui[groupStep] EXCEPT !.open = FALSE].saved = ui[groupStep].saved
        /\ [ui[groupStep] EXCEPT !.open = FALSE].kind = ui[groupStep].kind
        /\ ~ [ui[groupStep] EXCEPT !.open = FALSE].open
    BY <2>1 DEF Items
  <2> QED
    BY <2>5, <2>6
<1> QED
  BY <1>1, <1>2

\* The thread only grows, by items that are closed and saved.
Grows(s, t) ==
  /\ t \in Seq(Items) /\ Len(s) <= Len(t)
  /\ \A i \in 1..Len(s) : t[i] = s[i]
  /\ \A i \in 1..Len(t) : i \notin 1..Len(s) => ~ t[i].open /\ t[i].saved = "yes"

LEMMA GrowsByOne ==
  ASSUME NEW s \in Seq(Items), NEW x \in Items, ~ x.open, x.saved = "yes"
  PROVE  Grows(s, Append(s, x))
<1>1. /\ Append(s, x) \in Seq(Items)
      /\ Len(s) \in Nat /\ Len(Append(s, x)) = Len(s) + 1
      /\ \A i \in 1..Len(s) : Append(s, x)[i] = s[i]
      /\ Append(s, x)[Len(s) + 1] = x
  BY AppendItem
<1> QED
  BY <1>1 DEF Grows

LEMMA GrowsAgain ==
  ASSUME NEW s \in Seq(Items), NEW t, NEW u, Grows(s, t), Grows(t, u)
  PROVE  Grows(s, u)
<1>1. Len(s) \in Nat /\ Len(t) \in Nat /\ Len(u) \in Nat
  BY DEF Grows
<1> QED
  BY <1>1 DEF Grows

LEMMA WarnedGrows ==
  ASSUME turn \in 0..MaxTurns, NEW s \in Seq(Items), NEW t \in Warned(s)
  PROVE  Grows(s, t)
<1>1. CASE t = s
  BY <1>1 DEF Grows
<1>2. CASE t = Append(s, Item("warning", "yes"))
  BY <1>2, ItemType, GrowsByOne
<1> QED
  BY <1>1, <1>2 DEF Warned

\* What an update changes of the thread: which items are saved.
LEMMA UpdatedItems ==
  ASSUME ui \in Seq(Items), NEW done, NEW failed
  PROVE  /\ Updated(done, failed) \in Seq(Items)
         /\ Len(Updated(done, failed)) = Len(ui)
         /\ \A i \in 1..Len(ui) :
              /\ Updated(done, failed)[i].turn = ui[i].turn
              /\ Updated(done, failed)[i].open = ui[i].open
              /\ Updated(done, failed)[i].kind = ui[i].kind
              /\ i \in done => Updated(done, failed)[i].saved = "yes"
              /\ i \in failed \ done => Updated(done, failed)[i].saved = "failed"
              /\ i \notin done \union failed => Updated(done, failed)[i].saved = ui[i].saved
<1> DEFINE new(i) == IF i \in done THEN "yes" ELSE IF i \in failed THEN "failed" ELSE ui[i].saved
           mark(i) == [ui[i] EXCEPT !.saved = new(i)]
           stored == Updated(done, failed)
<1>1. DOMAIN ui = 1..Len(ui) /\ Len(ui) \in Nat /\ \A i \in 1..Len(ui) : ui[i] \in Items
  OBVIOUS
<1>2. \A i \in 1..Len(ui) : new(i) \in {"no", "yes", "failed"}
  BY <1>1 DEF Items
<1>3. stored = [i \in 1..Len(ui) |-> mark(i)]
  BY <1>1 DEF Updated
<1>4. \A i \in 1..Len(ui) :
        /\ mark(i) \in Items /\ mark(i).turn = ui[i].turn /\ mark(i).open = ui[i].open
        /\ mark(i).kind = ui[i].kind /\ mark(i).saved = new(i)
  <2> SUFFICES ASSUME NEW i \in 1..Len(ui)
               PROVE  /\ mark(i) \in Items /\ mark(i).turn = ui[i].turn
                      /\ mark(i).open = ui[i].open
                      /\ mark(i).kind = ui[i].kind /\ mark(i).saved = new(i)
    OBVIOUS
  <2>1. PICK x, n : x = ui[i] /\ n = new(i) /\ x \in Items /\ n \in {"no", "yes", "failed"}
    BY <1>1, <1>2
  <2>2. /\ [x EXCEPT !.saved = n] \in Items /\ [x EXCEPT !.saved = n].turn = x.turn
        /\ [x EXCEPT !.saved = n].open = x.open
        /\ [x EXCEPT !.saved = n].kind = x.kind /\ [x EXCEPT !.saved = n].saved = n
    BY <2>1 DEF Items
  <2>3. mark(i) = [x EXCEPT !.saved = n]
    BY <2>1
  <2> HIDE DEF mark, new
  <2> QED
    BY <2>1, <2>2, <2>3
<1> HIDE DEF mark, stored
<1>5. stored \in [1..Len(ui) -> Items] /\ \A i \in 1..Len(ui) : stored[i] = mark(i)
  BY <1>3, <1>4
<1>6. stored \in Seq(Items) /\ Len(stored) = Len(ui)
  BY <1>1, <1>5, FunctionOfItems
<1>7. \A i \in 1..Len(ui) :
        /\ i \in done => new(i) = "yes"
        /\ i \in failed \ done => new(i) = "failed"
        /\ i \notin done \union failed => new(i) = ui[i].saved
  OBVIOUS
<1> HIDE DEF new
<1>8. \A i \in 1..Len(ui) :
        /\ stored[i].turn = ui[i].turn /\ stored[i].open = ui[i].open
        /\ stored[i].kind = ui[i].kind /\ stored[i].saved = new(i)
  BY <1>4, <1>5
<1> QED
  BY <1>6, <1>7, <1>8 DEF stored

-----------------------------------------------------------------------------
(* Each action preserves IInv.                                             *)

LEMMA InitIInv == Init => IInv
<1> SUFFICES ASSUME Init PROVE IInv
  OBVIOUS
<1>1. Shape
  <2>1. ui \in Seq(Items) /\ Len(ui) = 0
    BY DEF Init
  <2>2. turn \in 0..MaxTurns
    BY ChatAssumption DEF Init
  <2>3. groupStep \in 0..Len(ui) /\ response \in 0..Len(ui) /\ closed \subseteq 1..Len(ui)
    BY <2>1 DEF Init
  <2> QED
    BY <2>1, <2>2, <2>3 DEF Init, Shape
<1>2. Locals
  BY DEF Init, Locals, Running
<1>3. Marks
  BY DEF Init, Marks
<1> QED
  BY <1>1, <1>2, <1>3 DEF Init, IInv, Running, OpenItemIsLast, GroupFlagAgrees, LimitEndsTurn

\* A step that leaves the thread alone keeps what is known of its items.
LEMMA SameView ==
  ASSUME IInv, UNCHANGED <<viewVars, turn, broken>>, inGroup' \in BOOLEAN,
         forceFinal' \in BOOLEAN
  PROVE  Shape' /\ Marks'
BY DEF IInv, Shape, Marks, viewVars

\* The user's message, with the warning that it is not answered.
LEMMA AskedGrows ==
  ASSUME Shape, Send \/ Refuse
  PROVE  Grows(ui, ui')
<1> DEFINE it == [Item("user", "yes") EXCEPT !.turn = turn + 1]
           wa == [Item("warning", "yes") EXCEPT !.turn = turn + 1]
<1>1. ui' \in {Append(ui, it), Append(Append(ui, it), wa)}
  BY DEF Send, Refuse
<1>2. turn + 1 \in 0..MaxTurns
  BY ChatAssumption DEF Send, Refuse, Shape
<1>3. it \in Items /\ ~ it.open /\ it.saved = "yes"
  BY <1>2 DEF Item, Items
<1>4. wa \in Items /\ ~ wa.open /\ wa.saved = "yes"
  BY <1>2 DEF Item, Items
<1> HIDE DEF it, wa
<1>5. Grows(ui, Append(ui, it)) /\ ui \in Seq(Items)
  BY <1>3, GrowsByOne DEF Shape
<1>6. Grows(Append(ui, it), Append(Append(ui, it), wa))
  BY <1>4, <1>5, GrowsByOne DEF Grows
<1> QED
  BY <1>1, <1>5, <1>6, GrowsAgain

\* The items as they are stored, with an empty response below if there was none.
LEMMA StoredGrows ==
  ASSUME ui \in Seq(Items), turn \in 0..MaxTurns, NEW done, NEW failed,
         ui' = IF response = 0 THEN Append(Updated(done, failed), Item("blank", "yes"))
               ELSE Updated(done, failed)
  PROVE  Grows(Updated(done, failed), ui')
<1>1. Item("blank", "yes") \in Items /\ ~ Item("blank", "yes").open
      /\ Item("blank", "yes").saved = "yes"
  BY ItemType
<1>2. Updated(done, failed) \in Seq(Items)
  BY UpdatedItems
<1>3. Grows(Updated(done, failed), Updated(done, failed))
  BY <1>2 DEF Grows
<1>4. Grows(Updated(done, failed), Append(Updated(done, failed), Item("blank", "yes")))
  BY <1>1, <1>2, GrowsByOne
<1> QED
  BY <1>3, <1>4

LEMMA LifecyclePreserves ==
  ASSUME IInv, Lifecycle \/ LinkLost \/ Send \/ Refuse
  PROVE  IInv'
<1>1. ASSUME ChatStart \/ ChatEnd \/ Resume \/ LinkLost PROVE IInv'
  <2>1. UNCHANGED <<pc, loopVars, viewVars, turn, broken>> /\ (chat' = "new" => chat = "new")
    BY <1>1 DEF ChatStart, ChatEnd, Resume, LinkLost
  <2>2. Shape' /\ Marks'
    BY <2>1, SameView DEF IInv, Shape, loopVars
  <2> QED
    BY <2>1, <2>2 DEF IInv, Locals, Running, OpenItemIsLast, GroupFlagAgrees, LimitEndsTurn,
       loopVars, viewVars
<1>2. ASSUME ChatStartFail \/ ResumeFail \/ Send \/ Refuse PROVE IInv'
  <2>1. /\ UNCHANGED <<loopVars, groupStep, response, closed, broken>>
        /\ pc = "idle" /\ pc' \in {"idle", "ensure"} /\ (chat' = "new" => pc' = "idle")
        /\ groupStep = 0 /\ response = 0 /\ closed = {} /\ ~ inGroup /\ ~ forceFinal
    <3>1. pc = "idle"
      BY <1>2 DEF ChatStartFail, ResumeFail, Send, Refuse, IInv, Locals
    <3>2. groupStep = 0 /\ response = 0 /\ closed = {} /\ ~ inGroup /\ ~ forceFinal
      BY <3>1 DEF IInv, Locals, Running
    <3> QED
      BY <1>2, <3>1, <3>2 DEF ChatStartFail, ResumeFail, Send, Refuse, linkVars
  <2>2. turn' \in 0..MaxTurns /\ (pc' = "ensure" => turn' > 0)
    <3>1. \/ turn' = turn /\ pc' = "idle"
          \/ turn < MaxTurns /\ turn' = turn + 1
      BY <1>2, <2>1 DEF ChatStartFail, ResumeFail, Send, Refuse
    <3> QED
      BY <3>1, ChatAssumption DEF IInv, Shape
  <2>3. Grows(ui, ui')
    <3>1. CASE ChatStartFail \/ ResumeFail
      BY <3>1, WarnedGrows DEF ChatStartFail, ResumeFail, IInv, Shape
    <3>2. CASE Send \/ Refuse
      BY <3>2, AskedGrows DEF IInv
    <3> QED
      BY <1>2, <3>1, <3>2
  <2>4. Shape'
    <3>1. inGroup' \in BOOLEAN /\ forceFinal' \in BOOLEAN /\ closed' = {}
          /\ groupStep' = 0 /\ response' = 0 /\ broken' = broken
      BY <2>1 DEF loopVars, IInv, Shape
    <3>2. ui' \in Seq(Items) /\ Len(ui') \in Nat
      BY <2>3 DEF Grows
    <3> QED
      BY <2>2, <3>1, <3>2 DEF IInv, Shape
  <2>5. Marks'
    <3>1. Len(ui) \in Nat /\ broken' = broken
      BY <2>1 DEF IInv, Shape
    <3>2. \A i \in 1..Len(ui) :
             /\ ui[i].open => ui[i].turn \in broken
             /\ ui[i].saved = "no" => ui[i].turn \in broken
      BY <2>1, <3>1 DEF IInv, Marks
    <3>3. \A i \in 1..Len(ui') :
             /\ ui'[i].open => ui'[i].turn \in broken'
             /\ ui'[i].saved = "no" => ui'[i].turn \in broken'
      <4> SUFFICES ASSUME NEW i \in 1..Len(ui')
                   PROVE  /\ ui'[i].open => ui'[i].turn \in broken'
                          /\ ui'[i].saved = "no" => ui'[i].turn \in broken'
        OBVIOUS
      <4>1. CASE i \in 1..Len(ui)
        BY <2>3, <3>1, <3>2, <4>1 DEF Grows
      <4>2. CASE i \notin 1..Len(ui)
        BY <2>3, <4>2 DEF Grows
      <4> QED
        BY <4>1, <4>2
    <3> QED
      BY <3>3 DEF Marks
  <2> QED
    BY <2>1, <2>2, <2>4, <2>5 DEF IInv, Locals, Running, OpenItemIsLast, GroupFlagAgrees,
       LimitEndsTurn, loopVars
<1> QED
  BY <1>1, <1>2 DEF Lifecycle

LEMMA ReturnBooleans == Return => inGroup' \in BOOLEAN /\ forceFinal' \in BOOLEAN
BY DEF Return

\* A handler that ends, after saying of which items it answers no more.
LEMMA ReturnPreserves ==
  ASSUME IInv, Return, UNCHANGED <<chat, turn>>, broken' \subseteq 1..MaxTurns,
         broken \subseteq broken', ui' \in Seq(Items),
         \A i \in 1..Len(ui') :
           \/ ui'[i].turn \in broken'
           \/ (~ ui'[i].open /\ ui'[i].saved # "no")
  PROVE  IInv'
<1>1. Shape'
  <2>1. Len(ui') \in Nat
    OBVIOUS
  <2>2. closed' = {} /\ groupStep' = 0 /\ response' = 0 /\ ~ inGroup' /\ ~ forceFinal'
    BY DEF Return
  <2>3. turn' \in 0..MaxTurns
    BY DEF IInv, Shape
  <2> QED
    BY <2>1, <2>2, <2>3, ReturnBooleans DEF Shape
<1>2. Marks'
  BY DEF Marks, Return
<1> QED
  BY <1>1, <1>2 DEF IInv, Locals, Running, OpenItemIsLast, GroupFlagAgrees, LimitEndsTurn, Return

\* When a turn fails, every item that is open or unsaved belongs to a failed turn.
LEMMA FailedTurn ==
  ASSUME IInv, pc # "idle", broken' = broken \union {turn}
  PROVE  /\ broken' \subseteq 1..MaxTurns /\ broken \subseteq broken'
         /\ \A i \in 1..Len(ui) : ui[i].turn \in broken' \/ (~ ui[i].open /\ ui[i].saved # "no")
<1>1. turn \in 1..MaxTurns
  BY DEF IInv, Shape, Locals
<1>2. broken' \subseteq 1..MaxTurns /\ broken \subseteq broken' /\ turn \in broken'
  BY <1>1 DEF IInv, Shape
<1>3. \A i \in 1..Len(ui) : ui[i].turn \in broken' \/ (~ ui[i].open /\ ui[i].saved # "no")
  <2> SUFFICES ASSUME NEW i \in 1..Len(ui), ui[i].turn \notin broken'
               PROVE  ~ ui[i].open /\ ui[i].saved # "no"
    OBVIOUS
  <2>1. ui[i].turn \notin broken /\ ui[i].turn # turn
    BY <1>2
  <2> QED
    BY <2>1 DEF IInv, Marks
<1> QED
  BY <1>2, <1>3

\* What an error leaves of the thread before the warning: all of it, or all but the
\* message being streamed, perhaps with the group ended.
RestOf(rest) ==
  /\ rest \in Seq(Items)
  /\ Len(rest) = Len(ui) \/ (response = Len(ui) /\ response # 0 /\ Len(rest) = Len(ui) - 1)
  /\ \A i \in 1..Len(rest) :
       /\ rest[i].turn = ui[i].turn /\ rest[i].saved = ui[i].saved
       /\ rest[i].kind = ui[i].kind /\ (rest[i].open => ui[i].open)

LEMMA ErrorItems ==
  ASSUME Shape, OpenItemIsLast, AgentError
  PROVE  \E rest : RestOf(rest) /\ Grows(rest, ui')
<1>1. PICK shown \in {ui} \union {GroupEnded(ui) : c \in {"stream", "text"} \intersect {pc}} :
        \E rest \in {shown} \union {RemoveAt(shown, response) : c \in {response} \ {0}} :
          ui' \in Warned(rest)
  BY DEF AgentError
<1>2. PICK rest \in {shown} \union {RemoveAt(shown, response) : c \in {response} \ {0}} :
        ui' \in Warned(rest)
  BY <1>1
<1>3. /\ shown \in Seq(Items) /\ Len(shown) = Len(ui) /\ Len(ui) \in Nat
      /\ \A i \in 1..Len(ui) :
           /\ shown[i].turn = ui[i].turn /\ shown[i].saved = ui[i].saved
           /\ shown[i].kind = ui[i].kind /\ (shown[i].open => ui[i].open)
  <2>1. shown = ui \/ shown = GroupEnded(ui)
    BY <1>1
  <2>2. CASE shown = ui
    BY <2>2 DEF Shape
  <2>3. CASE shown = GroupEnded(ui)
    BY <2>3, GroupEndedItems DEF Shape
  <2> QED
    BY <2>1, <2>2, <2>3
<1>4. RestOf(rest)
  <2>1. CASE rest = shown
    BY <1>3, <2>1 DEF RestOf
  <2>2. CASE rest = RemoveAt(shown, response) /\ response # 0
    <3>1. response = Len(shown) /\ shown # <<>>
      BY <1>3, <2>2 DEF AgentError, Running, OpenItemIsLast, Shape
    <3>2. rest = RemoveAt(shown, Len(shown))
      BY <2>2, <3>1
    <3>3. /\ rest \in Seq(Items) /\ Len(rest) = Len(ui) - 1
          /\ \A i \in 1..Len(ui) - 1 : rest[i] = shown[i]
      BY <1>3, <3>1, <3>2, RemoveLast
    <3>4. response = Len(ui) /\ response # 0
      BY <1>3, <2>2, <3>1
    <3>5. \A i \in 1..Len(rest) : i \in 1..Len(ui) /\ rest[i] = shown[i]
      BY <1>3, <3>3
    <3>6. \A i \in 1..Len(rest) :
            /\ rest[i].turn = ui[i].turn /\ rest[i].saved = ui[i].saved
            /\ rest[i].kind = ui[i].kind /\ (rest[i].open => ui[i].open)
      BY <1>3, <3>5
    <3> QED
      BY <3>3, <3>4, <3>6 DEF RestOf
  <2> QED
    BY <1>2, <2>1, <2>2
<1>5. Grows(rest, ui')
  BY <1>2, <1>4, WarnedGrows DEF Shape, RestOf
<1> QED
  BY <1>4, <1>5

LEMMA HandlerPreserves ==
  ASSUME IInv, Handler \/ Cancel
  PROVE  IInv'
<1>1. ASSUME EnsureOk \/ EnsureLost \/ Reconnect \/ Request PROVE IInv'
  <2>1. /\ UNCHANGED <<chat, loopVars, viewVars, turn, broken>>
        /\ pc \in {"ensure", "reconnect", "request"}
        /\ pc' \in {"reconnect", "request", "stream"}
        /\ pc = "request" <=> pc' = "stream"
        /\ pc' = "reconnect" => pc = "ensure"
    BY <1>1 DEF EnsureOk, EnsureLost, Reconnect, Request, linkVars
  <2>2. Shape' /\ Marks'
    BY <2>1, SameView DEF IInv, Shape, loopVars
  <2>3. Locals'
    BY <2>1 DEF IInv, Locals, Running, loopVars, viewVars
  <2>4. OpenItemIsLast'
    BY <2>1 DEF IInv, Locals, Running, OpenItemIsLast, viewVars
  <2>5. GroupFlagAgrees' /\ LimitEndsTurn'
    BY <2>1 DEF IInv, Locals, Running, GroupFlagAgrees, LimitEndsTurn, loopVars, viewVars
  <2> QED
    BY <2>2, <2>3, <2>4, <2>5 DEF IInv
<1>2. ASSUME ReconnectFail PROVE IInv'
  <2>1. /\ Return /\ UNCHANGED <<chat, turn>> /\ broken' = broken \union {turn}
        /\ pc = "reconnect" /\ ui' \in Warned(ui)
    BY <1>2 DEF ReconnectFail, linkVars
  <2>2. Grows(ui, ui')
    BY <2>1, WarnedGrows DEF IInv, Shape
  <2>3. /\ broken' \subseteq 1..MaxTurns /\ broken \subseteq broken'
        /\ \A i \in 1..Len(ui) : ui[i].turn \in broken' \/ (~ ui[i].open /\ ui[i].saved # "no")
    BY <2>1, FailedTurn
  <2>4. /\ ui' \in Seq(Items)
        /\ \A i \in 1..Len(ui') :
             ui'[i].turn \in broken' \/ (~ ui'[i].open /\ ui'[i].saved # "no")
    BY <2>2, <2>3 DEF Grows
  <2> QED
    BY <2>1, <2>3, <2>4, ReturnPreserves
<1>3. ASSUME NEW calls \in Rounds, NEW text \in BOOLEAN, ReplyTools(calls, text) PROVE IInv'
  <2>1. /\ UNCHANGED <<chat, forceFinal, inGroup, viewVars, turn, broken>>
        /\ pc = "stream" /\ ~ forceFinal /\ todo' = calls /\ calls # <<>>
        /\ pc' \in {"text", "tools"}
    BY <1>3, ChatAssumption DEF ReplyTools, linkVars
  <2>2. Shape' /\ Marks'
    BY <2>1, SameView DEF IInv, Shape
  <2>3. Locals'
    BY <2>1 DEF IInv, Locals, Running, viewVars
  <2>4. OpenItemIsLast'
    BY <2>1 DEF IInv, Running, OpenItemIsLast, viewVars
  <2>5. GroupFlagAgrees' /\ LimitEndsTurn'
    BY <2>1 DEF IInv, GroupFlagAgrees, LimitEndsTurn, viewVars
  <2> QED
    BY <2>2, <2>3, <2>4, <2>5 DEF IInv
<1>4. ASSUME ShowText PROVE IInv'
  <2> DEFINE it == Item("text", "no")
  <2>1. /\ UNCHANGED <<chat, todo, forceFinal, closed, turn, broken>>
        /\ pc = "text" /\ pc' = "tools" /\ groupStep' = 0 /\ inGroup' = FALSE
        /\ response' = Len(ui) + 1 /\ ui' = Append(GroupEnded(ui), it)
    BY <1>4 DEF ShowText, linkVars
  <2>2. it \in Items /\ it.turn = turn /\ ~ it.open /\ it.saved = "no"
    BY ItemType DEF IInv, Shape
  <2> HIDE DEF it
  <2>3. /\ GroupEnded(ui) \in Seq(Items) /\ Len(GroupEnded(ui)) = Len(ui)
        /\ \A i \in 1..Len(ui) :
             /\ GroupEnded(ui)[i].turn = ui[i].turn
             /\ GroupEnded(ui)[i].saved = ui[i].saved
             /\ GroupEnded(ui)[i].open <=> ui[i].open /\ i # groupStep
    BY GroupEndedItems DEF IInv, Shape
  <2>4. /\ ui' \in Seq(Items) /\ Len(ui') = Len(ui) + 1 /\ ui'[Len(ui) + 1] = it
        /\ \A i \in 1..Len(ui) : ui'[i] = GroupEnded(ui)[i]
    BY <2>1, <2>2, <2>3, AppendItem
  <2>5. Shape'
    <3>1. closed' \subseteq 1..Len(ui') /\ Len(ui) \in Nat
      BY <2>1, <2>4, Indices DEF IInv, Shape
    <3>2. inGroup' \in BOOLEAN /\ forceFinal' \in BOOLEAN
      BY <2>1 DEF IInv, Shape
    <3>3. groupStep' \in 0..Len(ui') /\ response' \in 0..Len(ui')
      BY <2>1, <2>4, <3>1
    <3> QED
      BY <2>1, <2>4, <3>1, <3>2, <3>3 DEF IInv, Shape
  <2>6. Marks'
    BY <2>1, <2>2, <2>3, <2>4 DEF IInv, Shape, Marks, Locals
  <2>7. Locals'
    BY <2>1 DEF IInv, Locals, Running
  <2>8. OpenItemIsLast'
    BY <2>1, <2>4 DEF OpenItemIsLast
  <2>9. GroupFlagAgrees' /\ LimitEndsTurn'
    BY <2>1 DEF IInv, GroupFlagAgrees, LimitEndsTurn
  <2> QED
    BY <2>5, <2>6, <2>7, <2>8, <2>9 DEF IInv
<1>5. ASSUME ShowResult PROVE IInv'
  <2>1. /\ UNCHANGED <<chat, loopVars, turn, broken>>
        /\ pc = "tools" /\ pc' = "record" /\ response' = 0
        /\ closed' = IF response = 0 THEN closed ELSE closed \union {response}
    BY <1>5 DEF ShowResult, linkVars
  <2>2. closed' \subseteq 1..Len(ui) /\ closed \union {response} \subseteq closed' \union {0}
    BY <2>1 DEF IInv, Shape
  <2>3. CASE groupStep = 0
    <3> DEFINE it == [Item("tools", "yes") EXCEPT !.open = TRUE]
    <3>1. ui' = Append(ui, it) /\ groupStep' = Len(ui) + 1
      BY <1>5, <2>3 DEF ShowResult
    <3>2. it \in Items /\ it.turn = turn /\ it.open /\ it.saved = "yes"
      BY DEF IInv, Shape, Item, Items
    <3> HIDE DEF it
    <3>3. /\ ui' \in Seq(Items) /\ Len(ui') = Len(ui) + 1
          /\ \A i \in 1..Len(ui) : ui'[i] = ui[i]
          /\ ui'[Len(ui) + 1] = it
      BY <3>1, <3>2, AppendItem DEF IInv, Shape
    <3>4. Shape'
      BY <2>1, <2>2, <3>1, <3>3 DEF IInv, Shape, loopVars
    <3>5. Marks'
      BY <2>1, <2>2, <2>3, <3>1, <3>2, <3>3 DEF IInv, Shape, Marks
    <3>6. Locals' /\ OpenItemIsLast'
      BY <2>1, <3>1, <3>2, <3>3 DEF IInv, Shape, Locals, Running, OpenItemIsLast
    <3> QED
      BY <2>1, <3>4, <3>5, <3>6 DEF IInv, GroupFlagAgrees, LimitEndsTurn, loopVars
  <2>4. CASE groupStep # 0
    <3>1. ui' = ui /\ groupStep' = groupStep
      BY <1>5, <2>4 DEF ShowResult
    <3>2. Shape'
      BY <2>1, <2>2, <3>1 DEF IInv, Shape, loopVars
    <3>3. Marks'
      BY <2>1, <2>2, <3>1 DEF IInv, Shape, Marks
    <3>4. Locals' /\ OpenItemIsLast'
      BY <2>1, <2>4, <3>1 DEF IInv, Shape, Locals, Running, OpenItemIsLast
    <3> QED
      BY <2>1, <3>2, <3>3, <3>4 DEF IInv, GroupFlagAgrees, LimitEndsTurn, loopVars
  <2> QED
    BY <2>3, <2>4
<1>6. ASSUME RecordResult \/ FinishRound PROVE IInv'
  <2>1. UNCHANGED <<chat, viewVars, turn, broken>>
    BY <1>6 DEF RecordResult, FinishRound, linkVars
  <2>2. inGroup' \in BOOLEAN /\ forceFinal' \in BOOLEAN
    BY <1>6 DEF RecordResult, FinishRound, IInv, Shape
  <2>3. Shape' /\ Marks'
    BY <2>1, <2>2, SameView
  <2>4. CASE RecordResult
    <3>1. /\ pc = "record" /\ pc' = "tools" /\ inGroup' = TRUE /\ forceFinal' = forceFinal
          /\ response = 0 /\ groupStep # 0
      BY <2>4 DEF RecordResult, IInv, Locals
    <3> QED
      BY <2>1, <2>3, <3>1 DEF IInv, Locals, Running, OpenItemIsLast, GroupFlagAgrees,
         LimitEndsTurn, viewVars
  <2>5. CASE FinishRound
    <3>1. /\ pc = "tools" /\ pc' = "request" /\ inGroup' = inGroup /\ response = 0
          /\ UNCHANGED todo
      BY <2>5 DEF FinishRound, IInv, Locals
    <3> QED
      BY <2>1, <2>3, <3>1 DEF IInv, Locals, Running, OpenItemIsLast, GroupFlagAgrees,
         LimitEndsTurn, viewVars
  <2> QED
    BY <1>6, <2>4, <2>5
<1>7. ASSUME NEW text \in BOOLEAN, ReplyFinal(text) PROVE IInv'
  <2> DEFINE shown == IF inGroup THEN GroupEnded(ui) ELSE ui
             it == Item("text", "no")
  <2>1. /\ UNCHANGED <<chat, forceFinal, closed, turn, broken>>
        /\ pc = "stream" /\ pc' = "finish" /\ inGroup' = FALSE
        /\ response' = IF text THEN Len(ui) + 1 ELSE response
        /\ ui' = IF text THEN Append(shown, it) ELSE shown
    BY <1>7 DEF ReplyFinal, linkVars
  <2>2. response = 0 /\ groupStep' = 0 /\ (inGroup <=> groupStep # 0)
    BY <1>7 DEF ReplyFinal, IInv, Locals, GroupFlagAgrees
  <2>3. it \in Items /\ it.turn = turn /\ ~ it.open /\ it.saved = "no"
    BY ItemType DEF IInv, Shape
  <2>4. /\ shown \in Seq(Items) /\ Len(shown) = Len(ui)
        /\ \A i \in 1..Len(ui) :
             /\ shown[i].turn = ui[i].turn
             /\ shown[i].saved = ui[i].saved
             /\ shown[i].open <=> ui[i].open /\ i # groupStep
    BY <2>2, GroupEndedItems DEF IInv, Shape
  <2> HIDE DEF it, shown
  <2>5. /\ ui' \in Seq(Items) /\ Len(ui') = IF text THEN Len(ui) + 1 ELSE Len(ui)
        /\ \A i \in 1..Len(ui) : ui'[i] = shown[i]
        /\ text => ui'[Len(ui) + 1] = it
    BY <2>1, <2>3, <2>4, AppendItem
  <2>6. Shape'
    <3>1. closed' \subseteq 1..Len(ui') /\ Len(ui) \in Nat
      BY <2>1, <2>5, Indices DEF IInv, Shape
    <3>2. inGroup' \in BOOLEAN /\ forceFinal' \in BOOLEAN
      BY <2>1 DEF IInv, Shape
    <3>3. groupStep' \in 0..Len(ui') /\ response' \in 0..Len(ui')
      BY <2>1, <2>2, <2>5, <3>1
    <3> QED
      BY <2>1, <2>5, <3>1, <3>2, <3>3 DEF IInv, Shape
  <2>7. Marks'
    BY <2>1, <2>2, <2>3, <2>4, <2>5 DEF IInv, Shape, Marks
  <2>8. Locals'
    BY <2>1, <2>2 DEF IInv, Locals, Running
  <2>9. OpenItemIsLast'
    BY <2>1, <2>2, <2>5 DEF OpenItemIsLast
  <2> QED
    BY <2>1, <2>6, <2>7, <2>8, <2>9 DEF IInv, GroupFlagAgrees, LimitEndsTurn
<1>8. ASSUME Finish \/ FinishFail PROVE IInv'
  <2>1. Return /\ UNCHANGED <<chat, turn>> /\ pc = "finish"
    BY <1>8 DEF Finish, FinishFail, linkVars
  <2>2. ui \in Seq(Items) /\ Len(ui) \in Nat /\ groupStep = 0 /\ broken \subseteq 1..MaxTurns
    BY <2>1 DEF IInv, Shape, Locals
  <2>3. turn \in 0..MaxTurns
    BY DEF IInv, Shape
  <2>4. ASSUME NEW done, NEW failed,
               ui' = IF response = 0 THEN Append(Updated(done, failed), Item("blank", "yes"))
                     ELSE Updated(done, failed)
        PROVE  Grows(Updated(done, failed), ui')
    BY <2>2, <2>3, <2>4, StoredGrows
  <2>5. CASE Finish
    <3>1. PICK kept \in SUBSET closed :
            ui' = IF response = 0
                  THEN Append(Updated(kept \union {response}, closed \ kept), Item("blank", "yes"))
                  ELSE Updated(kept \union {response}, closed \ kept)
      BY <2>5 DEF Finish
    <3>2. PICK done, failed : done = kept \union {response} /\ failed = closed \ kept
      OBVIOUS
    <3>3. PICK stored : stored = Updated(done, failed) /\ Grows(stored, ui')
      BY <2>4, <3>1, <3>2
    <3>4. /\ Len(stored) = Len(ui)
          /\ \A i \in 1..Len(ui) :
               /\ stored[i].turn = ui[i].turn /\ stored[i].open = ui[i].open
               /\ i \in done \union failed => stored[i].saved # "no"
               /\ i \notin done \union failed => stored[i].saved = ui[i].saved
      <4>1. PICK s : s = Updated(done, failed)
        OBVIOUS
      <4> QED
        BY <2>2, <3>3, <4>1, UpdatedItems
    <3>5. \A i \in 1..Len(ui') :
            ui'[i].turn \in broken \/ (~ ui'[i].open /\ ui'[i].saved # "no")
      <4> SUFFICES ASSUME NEW i \in 1..Len(ui'), ui'[i].turn \notin broken
                   PROVE  ~ ui'[i].open /\ ui'[i].saved # "no"
        OBVIOUS
      <4>1. CASE i \in 1..Len(ui)
        <5>1. ui'[i] = stored[i] /\ ui[i].turn \notin broken
          BY <3>3, <3>4, <4>1 DEF Grows
        <5>2. ~ ui[i].open
          BY <2>2, <4>1, <5>1 DEF IInv, Marks
        <5>3. ui[i].saved # "no" \/ i \in done \union failed
          BY <3>2, <4>1, <5>1 DEF IInv, Marks
        <5> QED
          BY <3>4, <4>1, <5>1, <5>2, <5>3
      <4>2. CASE i \notin 1..Len(ui)
        BY <3>3, <3>4, <4>2 DEF Grows
      <4> QED
        BY <4>1, <4>2
    <3>6. ui' \in Seq(Items) /\ broken' = broken
      BY <2>5, <3>3 DEF Grows, Finish
    <3> QED
      BY <2>1, <2>2, <3>5, <3>6, ReturnPreserves
  <2>6. CASE FinishFail
    <3>1. broken' = broken \union {turn}
      BY <2>6 DEF FinishFail
    <3>2. /\ broken' \subseteq 1..MaxTurns /\ broken \subseteq broken'
          /\ \A i \in 1..Len(ui) :
               ui[i].turn \in broken' \/ (~ ui[i].open /\ ui[i].saved # "no")
      BY <2>1, <3>1, FailedTurn
    <3>3. CASE ui' = ui
      BY <2>1, <2>2, <3>2, <3>3, ReturnPreserves
    <3>4. ASSUME NEW done,
                 ui' = IF response = 0 THEN Append(Updated(done, {}), Item("blank", "yes"))
                       ELSE Updated(done, {})
          PROVE  IInv'
      <4>1. PICK stored : stored = Updated(done, {}) /\ Grows(stored, ui')
        BY <2>4, <3>4
      <4>2. /\ Len(stored) = Len(ui)
            /\ \A i \in 1..Len(ui) :
                 /\ stored[i].turn = ui[i].turn /\ stored[i].open = ui[i].open
                 /\ stored[i].saved = "yes" \/ stored[i].saved = ui[i].saved
        <5>1. PICK none : none = {}
          OBVIOUS
        <5>2. stored = Updated(done, none)
          BY <4>1, <5>1
        <5> QED
          BY <2>2, <5>1, <5>2, UpdatedItems
      <4>3. /\ ui' \in Seq(Items)
            /\ \A i \in 1..Len(ui') :
                 ui'[i].turn \in broken' \/ (~ ui'[i].open /\ ui'[i].saved # "no")
        BY <3>2, <4>1, <4>2 DEF Grows
      <4> QED
        BY <2>1, <3>2, <4>3, ReturnPreserves
    <3> QED
      BY <2>6, <3>3, <3>4 DEF FinishFail
  <2> QED
    BY <1>8, <2>5, <2>6
<1>9. ASSUME AgentError PROVE IInv'
  <2>1. /\ Return /\ UNCHANGED <<chat, turn>> /\ broken' = broken \union {turn}
        /\ pc \in {"stream", "text", "tools", "record"}
    BY <1>9 DEF AgentError, linkVars
  <2>2. PICK rest : RestOf(rest) /\ Grows(rest, ui')
    BY <1>9, ErrorItems DEF IInv
  <2>3. /\ broken' \subseteq 1..MaxTurns /\ broken \subseteq broken'
        /\ \A i \in 1..Len(ui) : ui[i].turn \in broken' \/ (~ ui[i].open /\ ui[i].saved # "no")
    BY <2>1, FailedTurn
  <2>4. ui' \in Seq(Items) /\ Len(ui) \in Nat /\ Len(rest) \in Nat
    BY <2>2 DEF IInv, Shape, Grows, RestOf
  <2>5. \A i \in 1..Len(ui') : ui'[i].turn \in broken' \/ (~ ui'[i].open /\ ui'[i].saved # "no")
    <3> SUFFICES ASSUME NEW i \in 1..Len(ui')
                 PROVE  ui'[i].turn \in broken' \/ (~ ui'[i].open /\ ui'[i].saved # "no")
      OBVIOUS
    <3>1. CASE i \in 1..Len(rest)
      BY <2>2, <2>3, <2>4, <3>1 DEF Grows, RestOf
    <3>2. CASE i \notin 1..Len(rest)
      BY <2>2, <3>2 DEF Grows
    <3> QED
      BY <3>1, <3>2
  <2> QED
    BY <2>1, <2>3, <2>4, <2>5, ReturnPreserves
<1>10. ASSUME Cancel PROVE IInv'
  <2>1. /\ Return /\ UNCHANGED <<chat, turn, ui>> /\ broken' = broken \union {turn}
        /\ pc # "idle"
    BY <1>10 DEF Cancel, Awaiting, linkVars
  <2>2. /\ broken' \subseteq 1..MaxTurns /\ broken \subseteq broken'
        /\ \A i \in 1..Len(ui) : ui[i].turn \in broken' \/ (~ ui[i].open /\ ui[i].saved # "no")
    BY <2>1, FailedTurn
  <2> QED
    BY <2>1, <2>2, ReturnPreserves DEF IInv, Shape
<1> QED
  BY <1>1, <1>2, <1>3, <1>4, <1>5, <1>6, <1>7, <1>8, <1>9, <1>10 DEF Handler

LEMMA NextIInv == IInv /\ [Next]_vars => IInv'
<1>1. ASSUME IInv, UNCHANGED vars PROVE IInv'
  BY <1>1 DEF IInv, Shape, Locals, Marks, Running, OpenItemIsLast, GroupFlagAgrees, LimitEndsTurn, vars, linkVars, loopVars, viewVars
<1> QED
  BY <1>1, LifecyclePreserves, HandlerPreserves DEF Next

LEMMA Invariance == Spec => []IInv
BY InitIInv, NextIInv, PTL DEF Spec

-----------------------------------------------------------------------------
(* What stands below the messages that were closed by tools.               *)

\* A group of tool steps of the same turn stands below the i-th item.
Below(items, i) ==
  \E j \in i + 1 .. Len(items) : items[j].kind = "tools" /\ items[j].turn = items[i].turn

\* The message being streamed is a text of this turn; one that tools have closed, or
\* whose update failed, has those tools below it.
TextInv ==
  /\ response # 0 => ui[response].kind = "text" /\ ui[response].turn = turn
  /\ \A i \in 1..Len(ui) : i \in closed \/ ui[i].saved = "failed" => Below(ui, i)

\* A step that keeps every group of tool steps keeps what they are below of.
LEMMA TextKept ==
  ASSUME TextInv, Len(ui) \in Nat, Len(ui') \in Nat,
         response' # 0 => ui'[response'].kind = "text" /\ ui'[response'].turn = turn',
         \A j \in 1..Len(ui) : ui[j].kind = "tools" =>
           j \in 1..Len(ui') /\ ui'[j].kind = "tools" /\ ui'[j].turn = ui[j].turn,
         \A i \in 1..Len(ui') : i \in closed' \/ ui'[i].saved = "failed" =>
           \/ Below(ui', i)
           \/ /\ i \in 1..Len(ui) /\ ui'[i].turn = ui[i].turn
              /\ i \in closed \/ ui[i].saved = "failed"
  PROVE  TextInv'
<1> SUFFICES ASSUME NEW i \in 1..Len(ui'), i \in closed' \/ ui'[i].saved = "failed",
                    i \in 1..Len(ui), ui'[i].turn = ui[i].turn,
                    i \in closed \/ ui[i].saved = "failed"
             PROVE  Below(ui', i)
  BY DEF TextInv, Below
<1>1. PICK j \in i + 1 .. Len(ui) : ui[j].kind = "tools" /\ ui[j].turn = ui[i].turn
  BY DEF TextInv, Below
<1>2. j \in 1..Len(ui) /\ i \in Nat /\ j \in Nat /\ j > i
  BY <1>1
<1>3. j \in 1..Len(ui') /\ ui'[j].kind = "tools" /\ ui'[j].turn = ui[j].turn
  BY <1>1, <1>2
<1>4. j \in i + 1 .. Len(ui')
  BY <1>2, <1>3
<1> QED
  BY <1>1, <1>3, <1>4 DEF Below

\* Steps that leave what is shown alone, or only add settled items to it.
LEMMA TextGrows ==
  ASSUME TextInv, IInv, Grows(ui, ui'), response' = 0 \/ (response' = response /\ turn' = turn),
         closed' = closed \/ closed' = {}
  PROVE  TextInv'
<1>1. Len(ui) \in Nat /\ Len(ui') \in Nat /\ Len(ui) <= Len(ui') /\ response \in 0..Len(ui)
      /\ closed \subseteq 1..Len(ui)
  BY DEF Grows, IInv, Shape
<1>2. response' # 0 => ui'[response'].kind = "text" /\ ui'[response'].turn = turn'
  <2>1. response # 0 => response \in 1..Len(ui)
    BY <1>1
  <2> QED
    BY <2>1 DEF TextInv, Grows
<1>3. \A j \in 1..Len(ui) : j \in 1..Len(ui') /\ ui'[j] = ui[j]
  BY <1>1 DEF Grows
<1>4. \A i \in 1..Len(ui') : i \in closed' \/ ui'[i].saved = "failed" =>
        /\ i \in 1..Len(ui) /\ ui'[i].turn = ui[i].turn
        /\ i \in closed \/ ui[i].saved = "failed"
  <2> SUFFICES ASSUME NEW i \in 1..Len(ui'), i \in closed' \/ ui'[i].saved = "failed"
               PROVE  /\ i \in 1..Len(ui) /\ ui'[i].turn = ui[i].turn
                      /\ i \in closed \/ ui[i].saved = "failed"
    OBVIOUS
  <2>1. i \in 1..Len(ui)
    BY <1>1 DEF Grows
  <2> QED
    BY <1>3, <2>1
<1> QED
  BY <1>1, <1>2, <1>3, <1>4, TextKept

\* A text is shown below everything else.
LEMMA TextShown ==
  ASSUME TextInv, IInv, NEW shown, turn' = turn, closed' = closed, response' = Len(ui) + 1,
         shown = ui \/ shown = GroupEnded(ui), ui' = Append(shown, Item("text", "no"))
  PROVE  TextInv'
<1>1. Item("text", "no") \in Items /\ Item("text", "no").turn = turn
      /\ Item("text", "no").kind = "text" /\ Item("text", "no").saved = "no"
  BY ItemType DEF IInv, Shape
<1>2. /\ shown \in Seq(Items) /\ Len(shown) = Len(ui) /\ Len(ui) \in Nat
      /\ \A i \in 1..Len(ui) :
           /\ shown[i].turn = ui[i].turn /\ shown[i].saved = ui[i].saved
           /\ shown[i].kind = ui[i].kind
  <2>1. CASE shown = ui
    BY <2>1 DEF IInv, Shape
  <2>2. CASE shown = GroupEnded(ui)
    BY <2>2, GroupEndedItems DEF IInv, Shape
  <2> QED
    BY <2>1, <2>2
<1>3. /\ Len(ui') = Len(ui) + 1 /\ ui'[Len(ui) + 1] = Item("text", "no")
      /\ \A i \in 1..Len(ui) : ui'[i] = shown[i]
  BY <1>1, <1>2, AppendItem
<1>4. Len(ui') \in Nat /\ closed \subseteq 1..Len(ui)
  BY <1>2, <1>3 DEF IInv, Shape
<1>5. response' # 0 => ui'[response'].kind = "text" /\ ui'[response'].turn = turn'
  BY <1>1, <1>3
<1>6. \A j \in 1..Len(ui) :
        /\ j \in 1..Len(ui') /\ ui'[j].turn = ui[j].turn /\ ui'[j].kind = ui[j].kind
        /\ ui'[j].saved = ui[j].saved
  BY <1>2, <1>3
<1>7. \A i \in 1..Len(ui') : i \in closed' \/ ui'[i].saved = "failed" =>
        /\ i \in 1..Len(ui) /\ ui'[i].turn = ui[i].turn
        /\ i \in closed \/ ui[i].saved = "failed"
  <2> SUFFICES ASSUME NEW i \in 1..Len(ui'), i \in closed' \/ ui'[i].saved = "failed"
               PROVE  /\ i \in 1..Len(ui) /\ ui'[i].turn = ui[i].turn
                      /\ i \in closed \/ ui[i].saved = "failed"
    OBVIOUS
  <2>1. CASE i = Len(ui) + 1
    BY <1>1, <1>2, <1>3, <1>4, <2>1
  <2>2. CASE i \in 1..Len(ui)
    BY <1>6, <2>2
  <2> QED
    BY <1>2, <1>3, <2>1, <2>2
<1> QED
  BY <1>2, <1>4, <1>5, <1>6, <1>7, TextKept

\* The updates of Finish and FinishFail fail for closed messages only.
LEMMA TextStored ==
  ASSUME TextInv, IInv, NEW done, NEW failed \in SUBSET closed, response' = 0, closed' = {},
         Grows(Updated(done, failed), ui')
  PROVE  TextInv'
<1>1. PICK stored : stored = Updated(done, failed) /\ Grows(stored, ui')
  OBVIOUS
<1>2. /\ stored \in Seq(Items) /\ Len(stored) = Len(ui) /\ Len(ui) \in Nat /\ Len(ui') \in Nat
      /\ Len(ui) <= Len(ui')
      /\ \A i \in 1..Len(ui) :
           /\ stored[i].turn = ui[i].turn /\ stored[i].kind = ui[i].kind
           /\ stored[i].saved = "failed" => i \in failed \/ ui[i].saved = "failed"
  <2>1. ui \in Seq(Items)
    BY DEF IInv, Shape
  <2>2. /\ stored \in Seq(Items) /\ Len(stored) = Len(ui)
        /\ \A i \in 1..Len(ui) :
             /\ stored[i].turn = ui[i].turn /\ stored[i].kind = ui[i].kind
             /\ i \in done => stored[i].saved = "yes"
             /\ i \notin done \union failed => stored[i].saved = ui[i].saved
    BY <1>1, <2>1, UpdatedItems
  <2>3. Len(ui) \in Nat /\ Len(ui') \in Nat /\ Len(ui) <= Len(ui')
    BY <1>1, <2>1, <2>2 DEF Grows
  <2> QED
    BY <2>2, <2>3
<1>3. \A j \in 1..Len(ui) : j \in 1..Len(ui') /\ ui'[j] = stored[j]
  BY <1>1, <1>2 DEF Grows
<1>4. \A i \in 1..Len(ui') : i \in closed' \/ ui'[i].saved = "failed" =>
        /\ i \in 1..Len(ui) /\ ui'[i].turn = ui[i].turn
        /\ i \in closed \/ ui[i].saved = "failed"
  <2> SUFFICES ASSUME NEW i \in 1..Len(ui'), ui'[i].saved = "failed"
               PROVE  /\ i \in 1..Len(ui) /\ ui'[i].turn = ui[i].turn
                      /\ i \in closed \/ ui[i].saved = "failed"
    OBVIOUS
  <2>1. i \in 1..Len(ui)
    BY <1>1, <1>2 DEF Grows
  <2> QED
    BY <1>2, <1>3, <2>1
<1> QED
  BY <1>2, <1>3, <1>4, TextKept

LEMMA TextError ==
  ASSUME TextInv, IInv, AgentError
  PROVE  TextInv'
<1>1. PICK rest : RestOf(rest) /\ Grows(rest, ui')
  BY ErrorItems DEF IInv
<1>2. response' = 0 /\ closed' = {}
  BY DEF AgentError, Return
<1>3. /\ Len(ui) \in Nat /\ Len(rest) \in Nat /\ Len(ui') \in Nat /\ Len(rest) <= Len(ui')
      /\ Len(rest) <= Len(ui)
  BY <1>1 DEF IInv, Shape, RestOf, Grows
<1>4. \A j \in 1..Len(rest) : j \in 1..Len(ui') /\ ui'[j] = rest[j]
  BY <1>1, <1>3 DEF Grows
<1>5. \A j \in 1..Len(ui) : ui[j].kind = "tools" => j \in 1..Len(rest)
  BY <1>1, <1>3 DEF RestOf, TextInv
<1>6. \A j \in 1..Len(ui) : ui[j].kind = "tools" =>
        j \in 1..Len(ui') /\ ui'[j].kind = "tools" /\ ui'[j].turn = ui[j].turn
  BY <1>1, <1>4, <1>5 DEF RestOf
<1>7. \A i \in 1..Len(ui') : i \in closed' \/ ui'[i].saved = "failed" =>
        /\ i \in 1..Len(ui) /\ ui'[i].turn = ui[i].turn
        /\ i \in closed \/ ui[i].saved = "failed"
  <2> SUFFICES ASSUME NEW i \in 1..Len(ui'), ui'[i].saved = "failed"
               PROVE  /\ i \in 1..Len(ui) /\ ui'[i].turn = ui[i].turn
                      /\ i \in closed \/ ui[i].saved = "failed"
    BY <1>2
  <2>1. i \in 1..Len(rest)
    BY <1>1 DEF Grows
  <2>2. i \in 1..Len(ui)
    BY <1>3, <2>1
  <2>3. ui'[i] = rest[i] /\ rest[i].turn = ui[i].turn /\ rest[i].saved = ui[i].saved
    BY <1>1, <1>4, <2>1 DEF RestOf
  <2> QED
    BY <2>2, <2>3
<1> QED
  BY <1>2, <1>3, <1>6, <1>7, TextKept

LEMMA TextShowResult ==
  ASSUME TextInv, IInv, ShowResult
  PROVE  TextInv'
<1>1. /\ pc = "tools" /\ response' = 0 /\ turn' = turn
      /\ closed' = IF response = 0 THEN closed ELSE closed \union {response}
  BY DEF ShowResult
<1>2. /\ ui \in Seq(Items) /\ Len(ui) \in Nat /\ response \in 0..Len(ui) /\ turn \in 0..MaxTurns
      /\ closed \subseteq 1..Len(ui)
  BY DEF IInv, Shape
<1>3. response # 0 => response = Len(ui) /\ groupStep = 0
  BY <1>1 DEF IInv, Running, OpenItemIsLast
<1>4. CASE groupStep # 0
  <2>1. ui' = ui /\ closed' = closed
    BY <1>1, <1>3, <1>4 DEF ShowResult
  <2>2. Grows(ui, ui')
    BY <1>2, <2>1 DEF Grows
  <2> QED
    BY <1>1, <2>1, <2>2, TextGrows
<1>5. CASE groupStep = 0
  <2> DEFINE it == [Item("tools", "yes") EXCEPT !.open = TRUE]
  <2>1. ui' = Append(ui, it)
    BY <1>5 DEF ShowResult
  <2>2. it \in Items /\ it.turn = turn /\ it.kind = "tools" /\ it.saved = "yes"
    BY <1>2 DEF Item, Items
  <2> HIDE DEF it
  <2>3. /\ Len(ui') = Len(ui) + 1 /\ Len(ui') \in Nat /\ ui'[Len(ui) + 1] = it
        /\ \A i \in 1..Len(ui) : ui'[i] = ui[i]
    BY <1>2, <2>1, <2>2, AppendItem
  <2>4. \A j \in 1..Len(ui) : j \in 1..Len(ui') /\ ui'[j] = ui[j]
    BY <1>2, <2>3
  <2>5. ASSUME response # 0 PROVE Below(ui', response)
    <3>1. response = Len(ui) /\ ui[response].turn = turn /\ response \in 1..Len(ui)
      BY <1>2, <1>3, <2>5 DEF TextInv
    <3>2. Len(ui) + 1 \in response + 1 .. Len(ui')
      BY <1>2, <2>3, <3>1
    <3>3. ui'[response].turn = ui'[Len(ui) + 1].turn /\ ui'[Len(ui) + 1].kind = "tools"
      BY <2>2, <2>3, <2>4, <3>1
    <3> QED
      BY <3>2, <3>3 DEF Below
  <2>6. \A i \in 1..Len(ui') : i \in closed' \/ ui'[i].saved = "failed" =>
          \/ Below(ui', i)
          \/ /\ i \in 1..Len(ui) /\ ui'[i].turn = ui[i].turn
             /\ i \in closed \/ ui[i].saved = "failed"
    <3> SUFFICES ASSUME NEW i \in 1..Len(ui'), i \in closed' \/ ui'[i].saved = "failed",
                        i # response \/ response = 0
                 PROVE  /\ i \in 1..Len(ui) /\ ui'[i].turn = ui[i].turn
                        /\ i \in closed \/ ui[i].saved = "failed"
      BY <2>5
    <3>1. i \in closed \/ ui'[i].saved = "failed"
      BY <1>1
    <3>2. i # Len(ui) + 1
      BY <1>2, <2>2, <2>3, <3>1
    <3>3. i \in 1..Len(ui)
      BY <1>2, <2>3, <3>2
    <3> QED
      BY <2>4, <3>1, <3>3
  <2> QED
    BY <1>1, <1>2, <2>3, <2>4, <2>6, TextKept
<1> QED
  BY <1>4, <1>5

LEMMA TextNext == IInv /\ TextInv /\ [Next]_vars => TextInv'
<1> SUFFICES ASSUME IInv, TextInv, [Next]_vars PROVE TextInv'
  OBVIOUS
<1>1. ui \in Seq(Items) /\ turn \in 0..MaxTurns /\ Grows(ui, ui)
  BY DEF IInv, Shape, Grows
<1>2. CASE Lifecycle \/ LinkLost \/ Send \/ Refuse
  <2>1. /\ Grows(ui, ui') /\ closed' = closed /\ response' = response
        /\ response' = 0 \/ turn' = turn
    <3>1. CASE ChatStart \/ ChatEnd \/ Resume \/ LinkLost
      BY <1>1, <3>1 DEF ChatStart, ChatEnd, Resume, LinkLost, viewVars
    <3>2. CASE ChatStartFail \/ ResumeFail
      BY <1>1, <3>2, WarnedGrows DEF ChatStartFail, ResumeFail
    <3>3. CASE Send \/ Refuse
      <4>1. Grows(ui, ui')
        BY <3>3, AskedGrows DEF IInv
      <4>2. response = 0
        BY <3>3 DEF Send, Refuse, IInv, Locals, Running
      <4> QED
        BY <3>3, <4>1, <4>2 DEF Send, Refuse
    <3> QED
      BY <1>2, <3>1, <3>2, <3>3 DEF Lifecycle
  <2> QED
    BY <2>1, TextGrows
<1>3. CASE ReconnectFail
  <2>1. Grows(ui, ui') /\ response' = 0 /\ closed' = {}
    BY <1>1, <1>3, WarnedGrows DEF ReconnectFail, Return
  <2> QED
    BY <2>1, TextGrows
<1>4. CASE \/ EnsureOk \/ EnsureLost \/ Reconnect \/ Request \/ RecordResult \/ FinishRound
           \/ UNCHANGED vars
  <2>1. UNCHANGED <<viewVars, turn>>
    BY <1>4 DEF EnsureOk, EnsureLost, Reconnect, Request, RecordResult, FinishRound, vars
  <2> QED
    BY <1>1, <2>1, TextGrows DEF viewVars
<1>5. ASSUME NEW calls \in Rounds, NEW text \in BOOLEAN, ReplyTools(calls, text) PROVE TextInv'
  <2>1. UNCHANGED <<viewVars, turn>>
    BY <1>5 DEF ReplyTools
  <2> QED
    BY <1>1, <2>1, TextGrows DEF viewVars
<1>6. CASE ShowText
  BY <1>6, TextShown DEF ShowText
<1>7. ASSUME NEW text \in BOOLEAN, ReplyFinal(text) PROVE TextInv'
  <2>1. PICK shown : shown = IF inGroup THEN GroupEnded(ui) ELSE ui
    OBVIOUS
  <2>2. /\ turn' = turn /\ closed' = closed
        /\ ui' = IF text THEN Append(shown, Item("text", "no")) ELSE shown
        /\ response' = IF text THEN Len(ui) + 1 ELSE response
    BY <1>7, <2>1 DEF ReplyFinal
  <2>3. CASE text
    BY <2>1, <2>2, <2>3, TextShown
  <2>4. CASE ~ text
    <3>1. /\ ui' = shown /\ response' = 0
      BY <1>7, <2>2, <2>4 DEF ReplyFinal, IInv, Locals
    <3>2. /\ Len(ui') = Len(ui) /\ Len(ui) \in Nat
          /\ \A i \in 1..Len(ui) :
               /\ ui'[i].turn = ui[i].turn /\ ui'[i].saved = ui[i].saved
               /\ ui'[i].kind = ui[i].kind
      BY <2>1, <3>1, GroupEndedItems DEF IInv, Shape
    <3> QED
      BY <2>2, <3>1, <3>2, TextKept
  <2> QED
    BY <2>3, <2>4
<1>8. CASE ShowResult
  BY <1>8, TextShowResult
<1>9. CASE Finish \/ FinishFail
  <2>1. response' = 0 /\ closed' = {}
    BY <1>9 DEF Finish, FinishFail, Return
  <2>2. ASSUME NEW done, NEW failed \in SUBSET closed,
               ui' = IF response = 0 THEN Append(Updated(done, failed), Item("blank", "yes"))
                     ELSE Updated(done, failed)
        PROVE  TextInv'
    <3>1. Grows(Updated(done, failed), ui')
      BY <1>1, <2>2, StoredGrows
    <3> QED
      BY <2>1, <3>1, TextStored
  <2>3. CASE Finish
    BY <2>2, <2>3 DEF Finish
  <2>4. CASE FinishFail
    <3>1. CASE ui' = ui
      BY <1>1, <2>1, <3>1, TextGrows
    <3>2. CASE ui' # ui
      <4>1. PICK kept \in SUBSET closed :
              ui' = IF response = 0
                    THEN Append(Updated(kept \union {response}, {}), Item("blank", "yes"))
                    ELSE Updated(kept \union {response}, {})
        BY <2>4, <3>2 DEF FinishFail
      <4>2. {} \in SUBSET closed
        OBVIOUS
      <4> QED
        BY <2>2, <4>1, <4>2
    <3> QED
      BY <3>1, <3>2
  <2> QED
    BY <1>9, <2>3, <2>4
<1>10. CASE AgentError
  BY <1>10, TextError
<1>11. CASE Cancel
  <2>1. ui' = ui /\ response' = 0 /\ closed' = {}
    BY <1>11 DEF Cancel, Return
  <2> QED
    BY <1>1, <2>1, TextGrows
<1>12. CASE Handler
  BY <1>3, <1>4, <1>5, <1>6, <1>7, <1>8, <1>9, <1>10, <1>12 DEF Handler
<1> QED
  BY <1>2, <1>4, <1>11, <1>12 DEF Next

LEMMA TextInvariance == Spec => [](IInv /\ TextInv)
<1>1. Init => IInv /\ TextInv
  BY InitIInv DEF Init, TextInv
<1>2. IInv /\ TextInv /\ [Next]_vars => (IInv /\ TextInv)'
  BY NextIInv, TextNext
<1> QED
  BY <1>1, <1>2, PTL DEF Spec

-----------------------------------------------------------------------------
(* The theorems.                                                           *)

\* Tokens and tool steps always appear below what was already shown, whatever is
\* cancelled or fails (app.py 418-420, 454-455).
THEOREM OpenItem == Spec => []OpenItemIsLast
<1>1. IInv => OpenItemIsLast
  BY DEF IInv
<1> QED
  BY <1>1, Invariance, PTL

\* The loop and its callbacks agree on whether a group is open (tool_loop.py 162-177,
\* 204, app.py 416-452).
THEOREM GroupFlag == Spec => []GroupFlagAgrees
<1>1. IInv => GroupFlagAgrees
  BY DEF IInv
<1> QED
  BY <1>1, Invariance, PTL

\* After the last round of tools no tool runs again in the turn (tool_loop.py 191-201).
THEOREM Limit == Spec => []LimitEndsTurn
<1>1. IInv => LimitEndsTurn
  BY DEF IInv
<1> QED
  BY <1>1, Invariance, PTL

\* A completed turn leaves no group open, and every item of it is saved but for a text
\* with tools below it whose one update failed (app.py 484-495).
THEOREM Settled == Spec => []CompletedTurnIsSettled
<1>1. IInv /\ TextInv => CompletedTurnIsSettled
  <2> SUFFICES ASSUME IInv, TextInv, NEW i \in 1..Len(ui), ui[i].turn \notin broken,
                      ui[i].turn # turn \/ pc = "idle"
               PROVE  /\ ~ ui[i].open
                      /\ ui[i].saved = "yes" \/ (ui[i].saved = "failed" /\ Below(ui, i))
    BY DEF IInv, Shape, CompletedTurnIsSettled, Below
  <2>1. ~ ui[i].open /\ ui[i].saved # "no"
    BY DEF IInv, Shape, Locals, Marks, Running
  <2>2. ui[i] \in Items
    BY DEF IInv, Shape
  <2>3. ui[i].saved \in {"no", "yes", "failed"}
    BY <2>2 DEF Items
  <2> QED
    BY <2>1, <2>3 DEF TextInv
<1> QED
  BY <1>1, TextInvariance, PTL

-----------------------------------------------------------------------------
(* The history sent to the provider.                                       *)

Call == Id \union {NoId}

\* At the k-th message: a tool result has no calls, the calls of a message are
\* different, and the results in its block are results of its calls, once each.
AnsweredAt(ms, k) ==
  /\ ms[k].role = "tool" => ms[k].calls = <<>>
  /\ Once(ms[k].calls, NoId)
  /\ \A i \in Results(ms, k) : ms[i].id \in ToSet(ms[k].calls)
  /\ \A i, j \in Results(ms, k) : ms[i].id = ms[j].id /\ ms[i].id # NoId => i = j

\* Each call with an id has its result.
CompleteAt(ms, k) ==
  \A c \in ToSet(ms[k].calls) \ {NoId} : \E i \in Results(ms, k) : ms[i].id = c

Answered(ms) == ms \in Seq(Messages) /\ \A k \in 1..Len(ms) : AnsweredAt(ms, k)
Complete(ms) == Answered(ms) /\ \A k \in 1..Len(ms) : CompleteAt(ms, k)

\* A message that is no tool result, with the results of all its calls.
IsBlock(p) ==
  /\ p \in Seq(Messages) /\ Len(p) > 0
  /\ p[1].role # "tool" /\ Once(p[1].calls, NoId)
  /\ \A j \in 2..Len(p) : /\ p[j].role = "tool" /\ p[j].calls = <<>>
                          /\ p[j].id \in ToSet(p[1].calls)
  /\ \A i, j \in 2..Len(p) : p[i].id = p[j].id /\ p[i].id # NoId => i = j
  /\ \A c \in ToSet(p[1].calls) \ {NoId} : \E j \in 2..Len(p) : p[j].id = c

\* Placeholders.
Fill(gone) == [n \in DOMAIN gone |-> ToolMsg(gone[n])]

\* What the k-th message of a history becomes.
Piece(ms, k) ==
  IF ms[k].role = "tool"
  THEN <<>>
  ELSE LET gone == Missing(ms, k)
       IN  SubSeq(ms, k, k + Cardinality(Results(ms, k))) \o Fill(gone)

LEMMA SanitizePieces ==
  ASSUME NEW ms
  PROVE  Sanitize(ms) = FlattenSeq([k \in DOMAIN ms |-> Piece(ms, k)])
BY DEF Sanitize, Piece, Fill

LEMMA MsgType ==
  /\ \A c \in Call : /\ ToolMsg(c) \in Messages /\ ToolMsg(c).role = "tool"
                     /\ ToolMsg(c).id = c /\ ToolMsg(c).calls = <<>>
  /\ \A role \in {"system", "user", "assistant", "tool"} :
       Msg(role) \in Messages /\ Msg(role).role = role /\ Msg(role).calls = <<>>
  /\ \A calls \in Seq(Call), text \in BOOLEAN :
       /\ Assistant(calls, text) \in Messages /\ Assistant(calls, text).role = "assistant"
       /\ Assistant(calls, text).calls = calls
<1>1. <<>> \in Seq(Call)
  BY EmptySeq
<1>2. ASSUME NEW role \in {"system", "user", "assistant", "tool"}
      PROVE  Msg(role) \in Messages /\ Msg(role).role = role /\ Msg(role).calls = <<>>
  BY <1>1 DEF Msg, Messages, Call
<1>3. ASSUME NEW c \in Call
      PROVE  /\ ToolMsg(c) \in Messages /\ ToolMsg(c).role = "tool"
             /\ ToolMsg(c).id = c /\ ToolMsg(c).calls = <<>>
  BY <1>1, <1>3 DEF ToolMsg, Msg, Messages, Call
<1>4. ASSUME NEW calls \in Seq(Call), NEW text \in BOOLEAN
      PROVE  /\ Assistant(calls, text) \in Messages /\ Assistant(calls, text).role = "assistant"
             /\ Assistant(calls, text).calls = calls
  BY <1>1, <1>4 DEF Assistant, Msg, Messages, Call
<1> QED
  BY <1>2, <1>3, <1>4

LEMMA OnceEmpty == Once(<<>>, NoId)
BY EmptySeq DEF Once

LEMMA MessageFields ==
  ASSUME NEW ms \in Seq(Messages), NEW k \in 1..Len(ms)
  PROVE  ms[k] \in Messages /\ ms[k].calls \in Seq(Call) /\ ms[k].id \in Call
<1>1. ms[k] \in Messages
  BY ElementOfSeq
<1> QED
  BY <1>1 DEF Messages, Call

\* Among the n numbers after k, those of R are the first r.
Reach(R, k, n, r) == r \in Nat /\ r <= n /\ \A i \in (k + 1)..(k + n) : i \in R <=> i <= k + r
HasReach(R, k, n) == \E r : Reach(R, k, n, r)

LEMMA ReachGrows ==
  ASSUME NEW k \in Nat, NEW R, \A i \in R : i \in Nat /\ \A j \in (k + 1)..i : j \in R,
         NEW n \in Nat, HasReach(R, k, n)
  PROVE  HasReach(R, k, n + 1)
<1>1. PICK r : Reach(R, k, n, r)
  BY DEF HasReach
<1>2. r \in Nat /\ r <= n /\ \A i \in (k + 1)..(k + n) : i \in R <=> i <= k + r
  BY <1>1 DEF Reach
<1>3. \A i \in (k + 1)..(k + (n + 1)) : i = k + (n + 1) \/ i \in (k + 1)..(k + n)
  OBVIOUS
<1>4. CASE k + (n + 1) \in R
  <2>1. \A i \in (k + 1)..(k + (n + 1)) : i \in R /\ i <= k + (n + 1)
    BY <1>4
  <2>2. Reach(R, k, n + 1, n + 1)
    BY <2>1 DEF Reach
  <2> QED
    BY <2>2 DEF HasReach
<1>5. CASE k + (n + 1) \notin R
  <2>1. ASSUME NEW i \in (k + 1)..(k + (n + 1)) PROVE i \in R <=> i <= k + r
    <3>1. CASE i = k + (n + 1)
      BY <1>2, <1>5, <3>1
    <3>2. CASE i \in (k + 1)..(k + n)
      BY <1>2, <3>2
    <3> QED
      BY <1>3, <3>1, <3>2
  <2>2. Reach(R, k, n + 1, r)
    BY <1>2, <2>1 DEF Reach
  <2> QED
    BY <2>2 DEF HasReach
<1> QED
  BY <1>4, <1>5

LEMMA ReachExists ==
  ASSUME NEW k \in Nat, NEW R, \A i \in R : i \in Nat /\ \A j \in (k + 1)..i : j \in R,
         NEW n \in Nat
  PROVE  HasReach(R, k, n)
<1> DEFINE T == {x \in Nat : HasReach(R, k, x)}
<1>1. HasReach(R, k, 0)
  <2>1. Reach(R, k, 0, 0)
    BY DEF Reach
  <2> QED
    BY <2>1 DEF HasReach
<1>2. 0 \in T
  BY <1>1
<1>3. ASSUME NEW x \in T PROVE x + 1 \in T
  <2>1. x \in Nat /\ HasReach(R, k, x)
    OBVIOUS
  <2>2. HasReach(R, k, x + 1)
    BY <2>1, ReachGrows
  <2> QED
    BY <2>1, <2>2
<1> HIDE DEF T
<1>4. T \in SUBSET Nat
  BY DEF T
<1>5. T = Nat
  BY <1>2, <1>3, <1>4, NatSetInduction
<1> QED
  BY <1>5 DEF T

\* A block is an interval.
LEMMA ResultsInterval ==
  ASSUME NEW ms \in Seq(Messages), NEW k \in 1..Len(ms)
  PROVE  \E r \in Nat : /\ k + r <= Len(ms) /\ Results(ms, k) = (k + 1)..(k + r)
                        /\ Cardinality(Results(ms, k)) = r
<1>1. PICK N : N = Len(ms) /\ N \in Nat
  BY LenProperties
<1>2. PICK R : R = Results(ms, k)
  OBVIOUS
<1>3. /\ k \in Nat /\ k <= N
      /\ \A i \in R : i \in (k + 1)..N
      /\ \A i \in R : \A j \in (k + 1)..i : j \in R
  BY <1>1, <1>2 DEF Results
<1>4. N - k \in Nat /\ k + (N - k) = N
  BY <1>1, <1>3
<1>5. HasReach(R, k, N - k)
  <2>1. \A i \in R : i \in Nat /\ \A j \in (k + 1)..i : j \in R
    BY <1>1, <1>3
  <2> QED
    BY <1>3, <1>4, <2>1, ReachExists
<1>6. PICK r : Reach(R, k, N - k, r)
  BY <1>5 DEF HasReach
<1>7. r \in Nat /\ r <= N - k /\ \A i \in (k + 1)..N : i \in R <=> i <= k + r
  BY <1>4, <1>6 DEF Reach
<1>8. k + r <= N /\ R = (k + 1)..(k + r)
  <2>1. k + r <= N
    BY <1>1, <1>3, <1>7
  <2>2. \A i \in (k + 1)..(k + r) : i \in (k + 1)..N /\ i <= k + r
    BY <1>1, <1>3, <1>7, <2>1
  <2>3. \A i \in R : i \in (k + 1)..N /\ i <= k + r
    BY <1>3, <1>7
  <2>4. \A i \in R : i \in (k + 1)..(k + r)
    BY <1>1, <1>3, <1>7, <2>3
  <2> QED
    BY <1>7, <2>1, <2>2, <2>4
<1>9. Cardinality((k + 1)..(k + r)) = r
  <2>1. PICK a, b : a = k + 1 /\ b = k + r /\ a \in Int /\ b \in Int
    BY <1>3, <1>7
  <2>2. Cardinality(a..b) = IF a > b THEN 0 ELSE b - a + 1
    BY <2>1, FS_Interval
  <2> QED
    BY <1>3, <1>7, <2>1, <2>2
<1> QED
  BY <1>1, <1>2, <1>7, <1>8, <1>9

\* A message that is no tool result ends every block.
LEMMA AppendOther ==
  ASSUME NEW ms, Answered(ms), NEW m \in Messages, m.role # "tool", Once(m.calls, NoId)
  PROVE  Answered(Append(ms, m))
<1>0. PICK t, n : IsAppend(t, n, ms, m)
  BY AppendFacts DEF Answered
<1>1. /\ t = Append(ms, m) /\ n \in Nat /\ Len(ms) = n /\ Len(t) = n + 1 /\ t[n + 1] = m
      /\ t \in Seq(Messages) /\ \A i \in 1..n : t[i] = ms[i]
  BY <1>0, AppendProperties DEF IsAppend, Answered
<1>2. ASSUME NEW k \in 1..n PROVE AnsweredAt(t, k)
  <2>1. \A i \in Results(t, k) : i \in (k + 1)..n /\ \A j \in (k + 1)..i : j \in 1..n
    <3> SUFFICES ASSUME NEW i \in Results(t, k)
                 PROVE  i \in (k + 1)..n /\ \A j \in (k + 1)..i : j \in 1..n
      OBVIOUS
    <3>1. i \in (k + 1)..(n + 1) /\ t[i].role = "tool"
      BY <1>1 DEF Results
    <3>2. i # n + 1
      BY <1>1, <3>1
    <3> QED
      BY <1>1, <3>1, <3>2
  <2>2. Results(t, k) = Results(ms, k)
    <3>1. ASSUME NEW i \in Results(t, k) PROVE i \in Results(ms, k)
      BY <1>1, <2>1, <3>1 DEF Results
    <3>2. ASSUME NEW i \in Results(ms, k) PROVE i \in Results(t, k)
      <4>1. i \in (k + 1)..n /\ ms[k].role # "tool" /\ \A j \in (k + 1)..i : ms[j].role = "tool"
        BY <1>1 DEF Results
      <4>2. i \in (k + 1)..(n + 1) /\ \A j \in (k + 1)..i : j \in 1..n
        BY <1>1, <4>1
      <4> QED
        BY <1>1, <4>1, <4>2 DEF Results
    <3> QED
      BY <3>1, <3>2
  <2>3. t[k] = ms[k] /\ \A i \in Results(ms, k) : t[i] = ms[i]
    <3>1. \A i \in Results(ms, k) : i \in 1..n
      BY <1>1 DEF Results
    <3> QED
      BY <1>1, <3>1
  <2>4. AnsweredAt(ms, k)
    BY <1>1 DEF Answered
  <2> QED
    BY <2>2, <2>3, <2>4 DEF AnsweredAt
<1>3. AnsweredAt(t, n + 1)
  <2>1. Results(t, n + 1) = {}
    BY <1>1 DEF Results
  <2> QED
    BY <1>1, <2>1 DEF AnsweredAt
<1>4. \A k \in 1..(n + 1) : k = n + 1 \/ k \in 1..n
  BY <1>1
<1> QED
  BY <1>1, <1>2, <1>3, <1>4 DEF Answered

\* The results of the calls of the last message that makes any: n of them are there.
IsPending(ms, left, k, n) ==
  /\ k \in 1..Len(ms) /\ n \in Nat /\ Len(ms) = k + n
  /\ ms[k].role # "tool" /\ Len(ms[k].calls) = n + Len(left)
  /\ \A i \in 1..n : ms[k + i].role = "tool" /\ ms[k + i].id = ms[k].calls[i]
  /\ \A i \in 1..Len(left) : left[i] = ms[k].calls[n + i]

Pending(ms, left) == \E k, n : IsPending(ms, left, k, n)

\* A message with calls makes them pending.
LEMMA PendingCalls ==
  ASSUME NEW ms \in Seq(Messages), NEW m \in Messages, m.role # "tool"
  PROVE  Pending(Append(ms, m), m.calls)
<1>0. PICK t, n : IsAppend(t, n, ms, m)
  BY AppendFacts
<1>1. t = Append(ms, m) /\ n \in Nat /\ Len(t) = n + 1 /\ t[n + 1] = m
  BY <1>0 DEF IsAppend
<1>2. m.calls \in Seq(Call)
  BY DEF Messages, Call
<1>3. Len(m.calls) \in Nat
  BY <1>2, LenProperties
<1>4. IsPending(t, m.calls, n + 1, 0)
  BY <1>1, <1>3 DEF IsPending
<1> QED
  BY <1>1, <1>4 DEF Pending

\* The next result belongs to the last block.
LEMMA AppendTool ==
  ASSUME NEW ms, Answered(ms), NEW left \in Seq(Call), left # <<>>, Pending(ms, left)
  PROVE  /\ Answered(Append(ms, ToolMsg(Head(left))))
         /\ Pending(Append(ms, ToolMsg(Head(left))), Tail(left))
<1>1. PICK k, n : IsPending(ms, left, k, n)
  BY DEF Pending
<1>2. PICK c : c = Head(left) /\ c \in Call
  BY HeadTailProperties
<1>3. PICK m : m = ToolMsg(c) /\ m \in Messages /\ m.role = "tool" /\ m.id = c /\ m.calls = <<>>
  BY <1>2, MsgType
<1>4. PICK t, N : IsAppend(t, N, ms, m)
  BY <1>3, AppendFacts DEF Answered
<1>5. /\ t = Append(ms, m) /\ N \in Nat /\ Len(ms) = N /\ Len(t) = N + 1 /\ t[N + 1] = m
      /\ t \in Seq(Messages) /\ \A i \in 1..N : t[i] = ms[i]
  BY <1>3, <1>4, AppendProperties DEF IsAppend, Answered
<1>6. PICK q, l : q = Tail(left) /\ l = Len(left)
  OBVIOUS
<1>7. /\ q \in Seq(Call) /\ l \in Nat \ {0} /\ Len(q) = l - 1
      /\ c = left[1] /\ \A i \in 1..(l - 1) : q[i] = left[i + 1]
  BY <1>2, <1>6, HeadTailProperties, LenProperties, EmptySeq
<1>8. /\ k \in 1..N /\ k \in Nat /\ n \in Nat /\ N = k + n
      /\ ms[k].role # "tool" /\ Len(ms[k].calls) = n + l
      /\ \A i \in 1..n : ms[k + i].role = "tool" /\ ms[k + i].id = ms[k].calls[i]
      /\ \A i \in 1..l : left[i] = ms[k].calls[n + i]
  BY <1>1, <1>5, <1>6 DEF IsPending
<1>9. PICK s : s = ms[k].calls
  OBVIOUS
<1>10. s \in Seq(Call) /\ Once(s, NoId)
  BY <1>8, <1>9, <1>5, MessageFields DEF Answered, AnsweredAt
<1>11. /\ Len(s) = n + l /\ \A i \in 1..n : ms[k + i].role = "tool" /\ ms[k + i].id = s[i]
       /\ \A i \in 1..l : left[i] = s[n + i]
  BY <1>8, <1>9
<1>12. c = s[n + 1] /\ n + 1 \in 1..Len(s)
  BY <1>7, <1>8, <1>11
<1>13. \A i \in 1..(n + 1) : t[k + i].role = "tool" /\ t[k + i].id = s[i]
  <2>1. \A i \in 1..n : t[k + i].role = "tool" /\ t[k + i].id = s[i]
    <3>1. \A i \in 1..n : k + i \in 1..N
      BY <1>8
    <3> QED
      BY <1>5, <1>11, <3>1
  <2>2. t[k + (n + 1)].role = "tool" /\ t[k + (n + 1)].id = s[n + 1]
    <3>1. k + (n + 1) = N + 1
      BY <1>8
    <3> QED
      BY <1>3, <1>5, <1>12, <3>1
  <2>3. \A i \in 1..(n + 1) : i = n + 1 \/ i \in 1..n
    BY <1>8
  <2> QED
    BY <2>1, <2>2, <2>3
<1>14. Pending(t, q)
  <2>4. \A i \in 1..Len(q) : q[i] = s[(n + 1) + i]
    <3>1. \A i \in 1..(l - 1) : i + 1 \in 1..l /\ n + (i + 1) = (n + 1) + i
      BY <1>7, <1>8
    <3> QED
      BY <1>7, <1>11, <3>1
  <2>5. t[k].calls = s /\ t[k].role # "tool"
    BY <1>5, <1>8, <1>9
  <2>6. /\ k \in 1..Len(t) /\ n + 1 \in Nat /\ Len(t) = k + (n + 1)
        /\ Len(s) = (n + 1) + Len(q)
    BY <1>5, <1>7, <1>8, <1>11
  <2>7. IsPending(t, q, k, n + 1)
    BY <1>13, <2>4, <2>5, <2>6 DEF IsPending
  <2> QED
    BY <2>7 DEF Pending
<1>15. AnsweredAt(t, N + 1)
  <2>1. Results(t, N + 1) = {}
    BY <1>5 DEF Results
  <2> QED
    BY <1>3, <1>5, <2>1, OnceEmpty DEF AnsweredAt
<1>16. ASSUME NEW j \in 1..N, j # k PROVE AnsweredAt(t, j)
  <2>1. Results(t, j) = Results(ms, j)
    <3>1. j \in Nat /\ t[j] = ms[j] /\ t[k] = ms[k]
      BY <1>5, <1>8
    <3>2. CASE j > k
      <4>1. ms[j].role = "tool"
        <5>1. j - k \in 1..n /\ k + (j - k) = j
          BY <1>8, <3>1, <3>2, <1>16
        <5> QED
          BY <1>8, <5>1
      <4> QED
        BY <3>1, <4>1 DEF Results
    <3>3. CASE j < k
      <4>1. \A i \in Results(t, j) : i \in (j + 1)..(k - 1)
        <5> SUFFICES ASSUME NEW i \in Results(t, j) PROVE i \in (j + 1)..(k - 1)
          OBVIOUS
        <5>1. i \in (j + 1)..(N + 1) /\ \A x \in (j + 1)..i : t[x].role = "tool"
          BY <1>5 DEF Results
        <5>2. k \notin (j + 1)..i
          BY <1>8, <3>1, <5>1
        <5> QED
          BY <1>8, <3>1, <3>3, <5>1, <5>2
      <4>2. \A i \in Results(ms, j) : i \in (j + 1)..(k - 1)
        <5> SUFFICES ASSUME NEW i \in Results(ms, j) PROVE i \in (j + 1)..(k - 1)
          OBVIOUS
        <5>1. i \in (j + 1)..N /\ \A x \in (j + 1)..i : ms[x].role = "tool"
          BY <1>5 DEF Results
        <5>2. k \notin (j + 1)..i
          BY <1>8, <3>1, <5>1
        <5> QED
          BY <1>8, <3>1, <3>3, <5>1, <5>2
      <4>3. \A i \in (j + 1)..(k - 1) : /\ i \in (j + 1)..N /\ i \in (j + 1)..(N + 1)
                                      /\ \A x \in (j + 1)..i : x \in 1..N
        BY <1>8, <3>1
      <4>4. \A i \in (j + 1)..(k - 1) : i \in Results(t, j) <=> i \in Results(ms, j)
        BY <1>5, <3>1, <4>3 DEF Results
      <4> QED
        BY <4>1, <4>2, <4>4
    <3> QED
      BY <1>8, <1>16, <3>1, <3>2, <3>3
  <2>2. t[j] = ms[j] /\ \A i \in Results(ms, j) : t[i] = ms[i]
    <3>1. \A i \in Results(ms, j) : i \in 1..N
      BY <1>5 DEF Results
    <3> QED
      BY <1>5, <3>1
  <2>3. AnsweredAt(ms, j)
    BY <1>5 DEF Answered
  <2> QED
    BY <2>1, <2>2, <2>3 DEF AnsweredAt
<1>17. AnsweredAt(t, k)
  <2>1. \A i \in Results(t, k) : i - k \in 1..(n + 1) /\ k + (i - k) = i /\ i - k \in 1..Len(s)
    <3> SUFFICES ASSUME NEW i \in Results(t, k)
                 PROVE  i - k \in 1..(n + 1) /\ k + (i - k) = i /\ i - k \in 1..Len(s)
      OBVIOUS
    <3>1. i \in (k + 1)..(N + 1)
      BY <1>5 DEF Results
    <3>2. i - k \in 1..(n + 1) /\ k + (i - k) = i
      BY <1>8, <3>1
    <3>3. n + 1 <= Len(s) /\ Len(s) \in Nat
      BY <1>7, <1>8, <1>11
    <3> QED
      BY <1>8, <3>2, <3>3
  <2>2. \A i \in Results(t, k) : t[i].id = s[i - k]
    BY <1>13, <2>1
  <2>3. \A i \in 1..Len(s) : s[i] \in ToSet(s)
    BY <1>10, LenProperties DEF ToSet
  <2>4. \A i \in Results(t, k) : t[i].id \in ToSet(s)
    BY <2>1, <2>2, <2>3
  <2>5. ASSUME NEW i \in Results(t, k), NEW j \in Results(t, k),
               t[i].id = t[j].id, t[i].id # NoId
        PROVE  i = j
    <3>1. i - k = j - k
      BY <1>10, <2>1, <2>2, <2>5 DEF Once
    <3> QED
      BY <2>1, <3>1
  <2>6. t[k].calls = s /\ t[k].role # "tool"
    BY <1>5, <1>8, <1>9
  <2> QED
    BY <1>10, <2>4, <2>5, <2>6 DEF AnsweredAt
<1>18. Answered(t)
  <2>1. \A j \in 1..(N + 1) : j = N + 1 \/ j \in 1..N
    BY <1>5
  <2>2. \A j \in 1..Len(t) : AnsweredAt(t, j)
    BY <1>5, <1>15, <1>16, <1>17, <2>1
  <2> QED
    BY <1>5, <2>2 DEF Answered
<1> QED
  BY <1>2, <1>3, <1>5, <1>6, <1>14, <1>18

-----------------------------------------------------------------------------
(* Sanitize makes a history complete.                                      *)

\* A block at the end of a complete history.
LEMMA JoinBlock ==
  ASSUME NEW f, Complete(f), NEW p, IsBlock(p)
  PROVE  Complete(f \o p)
<1>1. PICK t : t = f \o p
  OBVIOUS
<1>2. PICK n, l : n = Len(f) /\ l = Len(p)
  OBVIOUS
<1>3. /\ f \in Seq(Messages) /\ p \in Seq(Messages) /\ n \in Nat /\ l \in Nat \ {0}
  BY <1>2, LenProperties DEF Complete, Answered, IsBlock
<1>4. /\ t \in Seq(Messages) /\ Len(t) = n + l
      /\ \A i \in 1..(n + l) : t[i] = IF i <= n THEN f[i] ELSE p[i - n]
  BY <1>1, <1>2, <1>3, ConcatProperties
<1>5. \A i \in 1..n : t[i] = f[i]
  BY <1>3, <1>4
<1>6. \A j \in 1..l : t[n + j] = p[j] /\ n + j \in 1..(n + l)
  <2> SUFFICES ASSUME NEW j \in 1..l PROVE t[n + j] = p[j] /\ n + j \in 1..(n + l)
    OBVIOUS
  <2>1. n + j \in 1..(n + l) /\ ~ (n + j <= n) /\ (n + j) - n = j
    BY <1>3
  <2> QED
    BY <1>4, <2>1
<1>b. /\ \A j \in 2..l : /\ p[j].role = "tool" /\ p[j].calls = <<>>
                          /\ p[j].id \in ToSet(p[1].calls)
      /\ \A i, j \in 2..l : p[i].id = p[j].id /\ p[i].id # NoId => i = j
  BY <1>2 DEF IsBlock
<1>7. t[n + 1] = p[1] /\ p[1].role # "tool" /\ 1 \in 1..l
  BY <1>3, <1>6 DEF IsBlock
<1>8. ASSUME NEW k \in 1..n PROVE AnsweredAt(t, k) /\ CompleteAt(t, k)
  <2>1. \A i \in Results(t, k) : i \in (k + 1)..n
    <3> SUFFICES ASSUME NEW i \in Results(t, k) PROVE i \in (k + 1)..n
      OBVIOUS
    <3>1. i \in (k + 1)..(n + l) /\ \A j \in (k + 1)..i : t[j].role = "tool"
      BY <1>4 DEF Results
    <3>2. n + 1 \notin (k + 1)..i
      BY <1>7, <3>1
    <3> QED
      BY <1>3, <3>1, <3>2
  <2>2. \A i \in Results(f, k) : i \in (k + 1)..n
    BY <1>2 DEF Results
  <2>3. \A i \in (k + 1)..n : i \in (k + 1)..(n + l) /\ \A j \in (k + 1)..i : j \in 1..n
    BY <1>3
  <2>4. \A i \in (k + 1)..n : i \in Results(t, k) <=> i \in Results(f, k)
    BY <1>2, <1>4, <1>5, <2>3 DEF Results
  <2>5. Results(t, k) = Results(f, k)
    BY <2>1, <2>2, <2>4
  <2>6. t[k] = f[k] /\ \A i \in Results(f, k) : t[i] = f[i]
    <3>1. \A i \in (k + 1)..n : i \in 1..n
      BY <1>3
    <3> QED
      BY <1>5, <2>2, <3>1
  <2>7. AnsweredAt(f, k) /\ CompleteAt(f, k)
    BY <1>2 DEF Complete, Answered
  <2> QED
    BY <2>5, <2>6, <2>7 DEF AnsweredAt, CompleteAt
<1>9. AnsweredAt(t, n + 1) /\ CompleteAt(t, n + 1)
  <2>1. \A i \in Results(t, n + 1) : i - n \in 2..l /\ n + (i - n) = i
    <3>1. \A i \in Results(t, n + 1) : i \in ((n + 1) + 1)..(n + l)
      BY <1>4 DEF Results
    <3> QED
      BY <1>3, <3>1
  <2>2. \A i \in Results(t, n + 1) : t[i] = p[i - n]
    <3>1. \A i \in Results(t, n + 1) : i - n \in 1..l
      BY <1>3, <2>1
    <3> QED
      BY <1>6, <2>1, <3>1
  <2>3. ASSUME NEW j \in 2..l PROVE n + j \in Results(t, n + 1) /\ t[n + j] = p[j]
    <3>1. n + j \in ((n + 1) + 1)..(n + l) /\ j \in 1..l
      BY <1>3
    <3>2. ASSUME NEW i \in ((n + 1) + 1)..(n + j) PROVE t[i].role = "tool"
      <4>1. i - n \in 2..l /\ i - n \in 1..l /\ n + (i - n) = i
        BY <1>3
      <4>2. PICK x : x = i - n
        OBVIOUS
      <4>3. x \in 2..l /\ t[i] = p[x]
        BY <1>6, <4>1, <4>2
      <4> QED
        BY <1>b, <4>3
    <3> QED
      BY <1>4, <1>6, <1>7, <3>1, <3>2 DEF Results
  <2>4. \A i \in Results(t, n + 1) : t[i].id \in ToSet(p[1].calls)
    BY <1>2, <2>1, <2>2 DEF IsBlock
  <2>5. ASSUME NEW i \in Results(t, n + 1), NEW j \in Results(t, n + 1),
               t[i].id = t[j].id, t[i].id # NoId
        PROVE  i = j
    <3>1. PICK x, y : x = i - n /\ y = j - n
      OBVIOUS
    <3>2. x \in 2..l /\ y \in 2..l /\ t[i] = p[x] /\ t[j] = p[y] /\ n + x = i /\ n + y = j
      BY <2>1, <2>2, <3>1
    <3>3. x = y
      BY <1>b, <2>5, <3>2
    <3> QED
      BY <3>2, <3>3
  <2>6. ASSUME NEW c \in ToSet(p[1].calls) \ {NoId}
        PROVE  \E i \in Results(t, n + 1) : t[i].id = c
    <3>1. PICK j \in 2..l : p[j].id = c
      BY <1>2 DEF IsBlock
    <3> QED
      BY <2>3, <3>1
  <2> QED
    BY <1>7, <2>4, <2>5, <2>6 DEF AnsweredAt, CompleteAt, IsBlock
<1>10. ASSUME NEW k \in 1..(n + l), k > n + 1 PROVE AnsweredAt(t, k) /\ CompleteAt(t, k)
  <2>1. k - n \in 2..l /\ k - n \in 1..l /\ n + (k - n) = k
    BY <1>3, <1>10
  <2>2. t[k].role = "tool" /\ t[k].calls = <<>>
    <3>1. PICK x : x = k - n
      OBVIOUS
    <3>2. x \in 2..l /\ t[k] = p[x]
      BY <1>6, <2>1, <3>1
    <3> QED
      BY <1>b, <3>2
  <2>3. Results(t, k) = {}
    BY <2>2 DEF Results
  <2>4. ToSet(<<>>) = {}
    BY EmptySeq DEF ToSet
  <2> QED
    BY <2>2, <2>3, <2>4, OnceEmpty DEF AnsweredAt, CompleteAt
<1>11. \A k \in 1..(n + l) : k \in 1..n \/ k = n + 1 \/ k > n + 1
  BY <1>3
<1>12. \A k \in 1..Len(t) : AnsweredAt(t, k) /\ CompleteAt(t, k)
  BY <1>4, <1>8, <1>9, <1>10, <1>11
<1> QED
  BY <1>1, <1>4, <1>12 DEF Complete, Answered

\* The sequences that are empty or a block.
Blocks == {p \in Seq(Messages) : p = <<>> \/ IsBlock(p)}

LEMMA FlattenBlocks ==
  ASSUME NEW s \in Seq(Blocks)
  PROVE  Complete(FlattenSeq(s))
<1> DEFINE T == {x \in Seq(Blocks) : Complete(FlattenSeq(x))}
<1>0. Blocks \subseteq Seq(Messages)
  BY DEF Blocks
<1>1. <<>> \in T
  <2>1. Complete(<<>>)
    BY EmptySeq DEF Complete, Answered
  <2> QED
    BY <2>1, EmptySeq, FlattenEmpty
<1>2. ASSUME NEW x \in T, NEW p \in Blocks PROVE Append(x, p) \in T
  <2>1. x \in Seq(Blocks) /\ Append(x, p) \in Seq(Blocks) /\ Complete(FlattenSeq(x))
    BY AppendProperties
  <2>2. x \in Seq(Seq(Messages)) /\ p \in Seq(Messages)
    BY <1>0, <2>1, SeqDef
  <2>3. PICK f : f = FlattenSeq(x) /\ Complete(f)
    BY <2>1
  <2>4. FlattenSeq(Append(x, p)) = f \o p
    BY <2>2, <2>3, FlattenAppend
  <2>5. CASE p = <<>>
    <3>1. f \in Seq(Messages)
      BY <2>3 DEF Complete, Answered
    <3>2. f \o <<>> = f
      BY <3>1, ConcatEmptySeq
    <3> QED
      BY <2>1, <2>3, <2>4, <2>5, <3>2
  <2>6. CASE IsBlock(p)
    <3>1. Complete(f \o p)
      BY <2>3, <2>6, JoinBlock
    <3> QED
      BY <2>1, <2>4, <3>1
  <2> QED
    BY <2>5, <2>6 DEF Blocks
<1> HIDE DEF T
<1>3. T \in SUBSET Seq(Blocks)
  BY DEF T
<1>4. T = Seq(Blocks)
  BY <1>1, <1>2, <1>3, SeqSetInduction
<1> QED
  BY <1>4 DEF T

LEMMA FillFacts ==
  ASSUME NEW gone \in Seq(Call)
  PROVE  /\ Fill(gone) \in Seq(Messages) /\ Len(Fill(gone)) = Len(gone)
         /\ \A n \in 1..Len(gone) : Fill(gone)[n] = ToolMsg(gone[n])
<1>1. PICK g : g = Fill(gone)
  OBVIOUS
<1>2. DOMAIN gone = 1..Len(gone) /\ Len(gone) \in Nat
  BY LenProperties
<1>3. ASSUME NEW n \in 1..Len(gone) PROVE ToolMsg(gone[n]) \in Messages
  BY MsgType, ElementOfSeq
<1>4. g \in [1..Len(gone) -> Messages] /\ \A n \in 1..Len(gone) : g[n] = ToolMsg(gone[n])
  BY <1>1, <1>2, <1>3 DEF Fill
<1>5. g \in Seq(Messages)
  BY <1>2, <1>4, SeqDef
<1>6. Len(g) = Len(gone)
  BY <1>2, <1>4, <1>5, LenProperties
<1> QED
  BY <1>1, <1>4, <1>5, <1>6

\* Sanitize keeps the results that are there and adds those that are missing.
LEMMA PieceIsBlock ==
  ASSUME NEW ms, Answered(ms), NEW k \in 1..Len(ms)
  PROVE  Piece(ms, k) \in Blocks
<1>1. CASE ms[k].role = "tool"
  BY <1>1, EmptySeq DEF Piece, Blocks
<1>2. CASE ms[k].role # "tool"
  <2>1. ms \in Seq(Messages) /\ AnsweredAt(ms, k)
    BY DEF Answered
  <2>2. PICK r : /\ r \in Nat /\ k + r <= Len(ms) /\ Results(ms, k) = (k + 1)..(k + r)
                 /\ Cardinality(Results(ms, k)) = r
    BY <2>1, ResultsInterval
  <2>3. PICK s : s = ms[k].calls
    OBVIOUS
  <2>4. s \in Seq(Call) /\ Once(s, NoId)
    BY <2>1, <2>3, MessageFields DEF AnsweredAt
  <2>5. PICK G : G = {c \in ToSet(s) \ {NoId} : \A i \in Results(ms, k) : ms[i].id # c}
    OBVIOUS
  <2>6. PICK gone : gone = Only(s, G)
    OBVIOUS
  <2>7. gone \in Seq(Call) /\ ToSet(gone) = ToSet(s) \cap G /\ Once(gone, NoId)
    BY <2>4, <2>6, OnlyMembers
  <2>8. gone = Missing(ms, k)
    BY <2>3, <2>5, <2>6 DEF Missing
  <2>9. PICK a : a = SubSeq(ms, k, k + r)
    OBVIOUS
  <2>10. PICK h : h = Fill(gone)
    OBVIOUS
  <2>11. PICK p : p = a \o h
    OBVIOUS
  <2>12. PICK l : l = Len(gone)
    OBVIOUS
  <2>13. /\ k \in Nat \ {0} /\ r \in Nat /\ l \in Nat /\ Len(ms) \in Nat
    BY <2>1, <2>2, <2>7, <2>12, LenProperties
  <2>14. a \in Seq(Messages) /\ Len(a) = r + 1 /\ \A j \in 1..(r + 1) : a[j] = ms[k + j - 1]
    <3>1. k \in 1..(Len(ms) + 1) /\ k + r \in (k - 1)..Len(ms)
      BY <2>2, <2>13
    <3>2. \A j \in 1..(r + 1) : j \in 1..((k + r) - k + 1)
      BY <2>13
    <3>3. (k + r) - k + 1 = r + 1
      BY <2>13
    <3> QED
      BY <2>1, <2>9, <3>1, <3>2, <3>3, SubSeqProperties
  <2>15. h \in Seq(Messages) /\ Len(h) = l /\ \A n \in 1..l : h[n] = ToolMsg(gone[n])
    BY <2>7, <2>10, <2>12, FillFacts
  <2>16. /\ p \in Seq(Messages) /\ Len(p) = r + 1 + l
         /\ \A j \in 1..(r + 1 + l) : p[j] = IF j <= r + 1 THEN a[j] ELSE h[j - (r + 1)]
    <3>1. /\ p \in Seq(Messages) /\ Len(p) = Len(a) + Len(h)
          /\ \A j \in 1..(Len(a) + Len(h)) : p[j] = IF j <= Len(a) THEN a[j] ELSE h[j - Len(a)]
      BY <2>11, <2>14, <2>15, ConcatProperties
    <3> QED
      BY <2>14, <2>15, <3>1, Zenon
  <2>17. p[1] = ms[k]
    <3>1. 1 \in 1..(r + 1) /\ 1 \in 1..(r + 1 + l) /\ k + 1 - 1 = k
      BY <2>13
    <3>2. a[1] = ms[k]
      BY <2>14, <3>1
    <3> QED
      BY <2>13, <2>16, <3>1, <3>2
  <2>18. ASSUME NEW j \in 2..(r + 1) 
         PROVE  k + j - 1 \in Results(ms, k) /\ p[j] = ms[k + j - 1]
    <3>1. /\ j \in 1..(r + 1) /\ j \in 1..(r + 1 + l) /\ j <= r + 1
          /\ k + j - 1 \in (k + 1)..(k + r)
      BY <2>13
    <3>2. p[j] = a[j]
      BY <2>16, <3>1
    <3> QED
      BY <2>2, <2>14, <3>1, <3>2
  <2>19. ASSUME NEW j \in (r + 2)..(r + 1 + l)
         PROVE  j - (r + 1) \in 1..l /\ p[j] = ToolMsg(gone[j - (r + 1)])
    <3>1. j \in 1..(r + 1 + l) /\ ~ (j <= r + 1) /\ j - (r + 1) \in 1..l
      BY <2>13
    <3>2. p[j] = h[j - (r + 1)]
      BY <2>16, <3>1
    <3> QED
      BY <2>15, <3>1, <3>2
  <2>20. \A i \in Results(ms, k) : /\ i \in 1..Len(ms) /\ ms[i].role = "tool" /\ ms[i].calls = <<>>
                                  /\ ms[i].id \in ToSet(s)
    <3> SUFFICES ASSUME NEW i \in Results(ms, k)
                 PROVE  /\ i \in 1..Len(ms) /\ ms[i].role = "tool" /\ ms[i].calls = <<>>
                        /\ ms[i].id \in ToSet(s)
      OBVIOUS
    <3>1. i \in (k + 1)..Len(ms) /\ i \in (k + 1)..i /\ \A j \in (k + 1)..i : ms[j].role = "tool"
      BY <2>13 DEF Results
    <3>2. i \in 1..Len(ms) /\ ms[i].role = "tool"
      BY <2>13, <3>1
    <3>3. AnsweredAt(ms, i)
      BY <3>2 DEF Answered
    <3> QED
      BY <2>1, <2>3, <3>2, <3>3 DEF AnsweredAt
  <2>21. \A n \in 1..l : gone[n] \in Call /\ gone[n] \in ToSet(gone)
    BY <2>7, <2>12, ElementOfSeq, LenProperties DEF ToSet
  <2>22. \A c \in ToSet(gone) :
           c \in ToSet(s) /\ c # NoId /\ \A i \in Results(ms, k) : ms[i].id # c
    BY <2>5, <2>7
  <2>23. \A j \in 2..(r + 1 + l) : j \in 2..(r + 1) \/ j \in (r + 2)..(r + 1 + l)
    BY <2>13
  \* A result that was there, or a placeholder.
  <2>24. ASSUME NEW j \in 2..(r + 1)
         PROVE  /\ p[j].role = "tool" /\ p[j].calls = <<>> /\ p[j].id \in ToSet(s)
                /\ p[j].id \notin ToSet(gone)
    BY <2>18, <2>20, <2>22
  <2>25. ASSUME NEW j \in (r + 2)..(r + 1 + l)
         PROVE  /\ p[j].role = "tool" /\ p[j].calls = <<>> /\ p[j].id = gone[j - (r + 1)]
                /\ p[j].id \in ToSet(s) /\ p[j].id \in ToSet(gone)
    <3>1. PICK x : x = j - (r + 1)
      OBVIOUS
    <3>2. x \in 1..l /\ p[j] = ToolMsg(gone[x])
      BY <2>19, <3>1
    <3>3. gone[x] \in Call /\ gone[x] \in ToSet(gone)
      BY <2>21, <3>2
    <3> QED
      BY <2>22, <3>1, <3>2, <3>3, MsgType
  <2>26. ASSUME NEW i \in 2..(r + 1 + l), NEW j \in 2..(r + 1 + l),
                p[i].id = p[j].id, p[i].id # NoId
         PROVE  i = j
    <3>1. CASE i \in 2..(r + 1) /\ j \in 2..(r + 1)
      <4>1. PICK x, y : x = k + i - 1 /\ y = k + j - 1
        OBVIOUS
      <4>2. /\ x \in Results(ms, k) /\ y \in Results(ms, k)
            /\ ms[x].id = ms[y].id /\ ms[x].id # NoId
        BY <2>18, <2>26, <3>1, <4>1
      <4>3. x = y
        BY <2>1, <4>2 DEF AnsweredAt
      <4> QED
        BY <2>13, <4>1, <4>3
    <3>2. CASE i \in 2..(r + 1) /\ j \in (r + 2)..(r + 1 + l)
      BY <2>24, <2>25, <2>26, <3>2
    <3>3. CASE i \in (r + 2)..(r + 1 + l) /\ j \in 2..(r + 1)
      BY <2>24, <2>25, <2>26, <3>3
    <3>4. CASE i \in (r + 2)..(r + 1 + l) /\ j \in (r + 2)..(r + 1 + l)
      <4>1. PICK x, y : x = i - (r + 1) /\ y = j - (r + 1)
        OBVIOUS
      <4>2. x \in 1..l /\ y \in 1..l /\ gone[x] = gone[y] /\ gone[x] # NoId
        BY <2>19, <2>25, <2>26, <3>4, <4>1
      <4>3. x = y
        BY <2>7, <2>12, <4>2 DEF Once
      <4> QED
        BY <2>13, <4>1, <4>3
    <3> QED
      BY <2>23, <3>1, <3>2, <3>3, <3>4
  <2>27. ASSUME NEW c \in ToSet(s) \ {NoId}
         PROVE  \E j \in 2..(r + 1 + l) : p[j].id = c
    <3>1. CASE c \in G
      <4>1. c \in ToSet(gone)
        BY <2>7, <3>1
      <4>2. PICK n \in 1..l : gone[n] = c
        BY <2>7, <2>12, <4>1, LenProperties DEF ToSet
      <4>3. PICK j : j = n + (r + 1)
        OBVIOUS
      <4>4. j \in (r + 2)..(r + 1 + l) /\ j - (r + 1) = n
        BY <2>13, <4>3
      <4>5. j \in 2..(r + 1 + l)
        BY <2>13, <4>4
      <4> QED
        BY <2>25, <4>2, <4>4, <4>5
    <3>2. CASE c \notin G
      <4>1. PICK i \in Results(ms, k) : ms[i].id = c
        BY <2>5, <3>2
      <4>2. i \in (k + 1)..(k + r)
        BY <2>2
      <4>3. PICK j : j = i - k + 1
        OBVIOUS
      <4>4. j \in 2..(r + 1) /\ k + j - 1 = i /\ j \in 2..(r + 1 + l)
        BY <2>13, <4>2, <4>3
      <4> QED
        BY <2>18, <4>1, <4>4
    <3> QED
      BY <3>1, <3>2
  <2>28. IsBlock(p)
    <3>1. Len(p) > 0
      BY <2>13, <2>16
    <3>2. \A j \in 2..Len(p) : /\ p[j].role = "tool" /\ p[j].calls = <<>>
                              /\ p[j].id \in ToSet(p[1].calls)
      BY <2>3, <2>16, <2>17, <2>23, <2>24, <2>25
    <3>3. p[1].role # "tool" /\ Once(p[1].calls, NoId)
      BY <1>2, <2>3, <2>4, <2>17
    <3>4. \A i, j \in 2..Len(p) : p[i].id = p[j].id /\ p[i].id # NoId => i = j
      BY <2>16, <2>26
    <3>5. \A c \in ToSet(p[1].calls) \ {NoId} : \E j \in 2..Len(p) : p[j].id = c
      BY <2>3, <2>16, <2>17, <2>27
    <3> QED
      BY <2>16, <3>1, <3>2, <3>3, <3>4, <3>5 DEF IsBlock
  <2>29. Piece(ms, k) = p
    BY <1>2, <2>2, <2>8, <2>9, <2>10, <2>11, Zenon DEF Piece
  <2> QED
    BY <2>16, <2>28, <2>29 DEF Blocks
<1> QED
  BY <1>1, <1>2

LEMMA SanitizeCompletes ==
  ASSUME NEW ms, Answered(ms)
  PROVE  Complete(Sanitize(ms))
<1>1. PICK s : s = [k \in DOMAIN ms |-> Piece(ms, k)]
  OBVIOUS
<1>2. DOMAIN ms = 1..Len(ms) /\ Len(ms) \in Nat
  BY LenProperties DEF Answered
<1>3. s \in [1..Len(ms) -> Blocks]
  BY <1>1, <1>2, PieceIsBlock
<1>4. s \in Seq(Blocks)
  BY <1>2, <1>3, SeqDef
<1> QED
  BY <1>1, <1>4, FlattenBlocks, SanitizePieces

\* What a reopened thread starts with has no calls at all.
LEMMA RebuiltAnswered ==
  ASSUME NEW items \in Seq(Items)
  PROVE  Answered(Rebuilt(items))
<1>1. PICK kept : kept = Only(items, {x \in ToSet(items) :
                                     x.saved = "yes" /\ x.kind \in {"user", "text", "warning"}})
  OBVIOUS
<1>2. kept \in Seq(Items)
  BY <1>1, OnlyMembers
<1>3. PICK h : h = [n \in DOMAIN kept |->
                     IF kept[n].kind = "user" THEN Msg("user") ELSE Assistant(<<>>, TRUE)]
  OBVIOUS
<1>4. /\ Msg("system") \in Messages /\ Msg("system").role = "system" /\ Msg("system").calls = <<>>
      /\ Msg("user") \in Messages /\ Msg("user").role = "user" /\ Msg("user").calls = <<>>
      /\ Assistant(<<>>, TRUE) \in Messages /\ Assistant(<<>>, TRUE).role = "assistant"
      /\ Assistant(<<>>, TRUE).calls = <<>>
  BY MsgType, EmptySeq
<1> DEFINE B == {m \in Messages : m.role # "tool" /\ m.calls = <<>>}
<1>5. DOMAIN kept = 1..Len(kept) /\ Len(kept) \in Nat
  BY <1>2, LenProperties
<1>6. h \in [1..Len(kept) -> B]
  BY <1>3, <1>4, <1>5
<1>7. h \in Seq(B)
  BY <1>5, <1>6, SeqDef
<1>8. Rebuilt(items) = <<Msg("system")>> \o h
  BY <1>1, <1>3 DEF Rebuilt
<1>9. <<Msg("system")>> \in Seq(B)
  BY <1>4
<1>10. PICK t : t = Rebuilt(items) /\ t \in Seq(B)
  BY <1>7, <1>8, <1>9, ConcatProperties
<1>11. B \subseteq Messages
  OBVIOUS
<1>12. t \in Seq(Messages)
  BY <1>10, <1>11, SeqDef
<1>13. ASSUME NEW k \in 1..Len(t) PROVE AnsweredAt(t, k)
  <2>1. t[k] \in B
    BY <1>10, ElementOfSeq
  <2>2. Results(t, k) = {}
    <3>1. ASSUME NEW i \in Results(t, k) PROVE FALSE
      <4>1. i \in (k + 1)..Len(t) /\ k \in Nat /\ Len(t) \in Nat
        BY <1>12, LenProperties DEF Results
      <4>2. i \in 1..Len(t) /\ i \in (k + 1)..i
        BY <4>1
      <4>3. t[i].role = "tool" /\ t[i] \in B
        BY <1>10, <4>2, ElementOfSeq DEF Results
      <4> QED
        BY <4>3
    <3> QED
      BY <3>1
  <2> QED
    BY <2>1, <2>2, OnceEmpty DEF AnsweredAt
<1> QED
  BY <1>10, <1>12, <1>13 DEF Answered

\* A complete history is what the provider asks for.
LEMMA CompleteIsWellFormed ==
  ASSUME NEW ms, Complete(ms), NEW k \in DOMAIN ms
  PROVE  /\ \A i \in Results(ms, k) : ms[i].id \in ToSet(ms[k].calls)
         /\ \A c \in ToSet(ms[k].calls) \ {NoId} :
              Cardinality({i \in Results(ms, k) : ms[i].id = c}) = 1
<1>1. AnsweredAt(ms, k) /\ CompleteAt(ms, k)
  BY LenProperties DEF Complete, Answered
<1>2. ASSUME NEW c \in ToSet(ms[k].calls) \ {NoId}
      PROVE  Cardinality({i \in Results(ms, k) : ms[i].id = c}) = 1
  <2>1. PICK j \in Results(ms, k) : ms[j].id = c
    BY <1>1 DEF CompleteAt
  <2>2. \A i \in Results(ms, k) : ms[i].id = c => i = j
    BY <1>1, <2>1 DEF AnsweredAt
  <2>3. {i \in Results(ms, k) : ms[i].id = c} = {j}
    BY <2>1, <2>2
  <2> QED
    BY <2>3, FS_Singleton
<1> QED
  BY <1>1, <1>2 DEF AnsweredAt

-----------------------------------------------------------------------------
(* Types.                                                                  *)

\* The types that IInv and HistoryInv leave open; the iteration limit sets forceFinal.
TypesInv ==
  /\ chat \in {"new", "ready", "unavailable", "ended"} /\ link \in BOOLEAN
  /\ mcp \in [open : SUBSET Nat, stored : Nat, lost : SUBSET Nat] /\ IsFiniteSet(mcp.open)
  /\ pc \in {"idle", "ensure", "reconnect", "request", "stream", "text", "tools", "record",
             "finish"}
  /\ answer \in BOOLEAN
  /\ iteration \in 0..MaxIterations /\ (~ forceFinal => iteration < MaxIterations)
  /\ resumes \in 0..MaxResumes

\* What the operators on stacks do.
LEMMA Stacks ==
  ASSUME NEW o, NEW d, NEW l, NEW m, m = [open |-> o, stored |-> d, lost |-> l]
  PROVE  /\ Store(m) = [open |-> o \union {Fresh(m)}, stored |-> Fresh(m), lost |-> l]
         /\ Lose(m) = [open |-> o \union {Fresh(m)}, stored |-> d, lost |-> l \union {Fresh(m)}]
         /\ Close(m) = [open |-> o \ {d}, stored |-> d, lost |-> l]
         /\ CloseFailed(m) = [open |-> o, stored |-> d, lost |-> l \union ({d} \intersect o)]
         /\ NewSession(m) = [open |-> o, stored |-> 0, lost |-> l]
         /\ \A b \in Broken(m) : b = m \/ b = Lose(m)
         /\ \A b \in Closed(m) : IF d \in l THEN b = m ELSE b = Close(m) \/ b = CloseFailed(m)
<1>1. m.open = o /\ m.stored = d /\ m.lost = l
  OBVIOUS
<1>2. /\ Close(m) = [open |-> o \ {d}, stored |-> d, lost |-> l]
      /\ NewSession(m) = [open |-> o, stored |-> 0, lost |-> l]
  BY DEF Close, NewSession
<1>3. CloseFailed(m) = [open |-> o, stored |-> d, lost |-> l \union ({d} \intersect o)]
  <2>1. PICK e : e = {d} \intersect o
    OBVIOUS
  <2>2. CloseFailed(m) = [m EXCEPT !.lost = m.lost \union e]
    BY <1>1, <2>1 DEF CloseFailed
  <2> QED
    BY <2>1, <2>2
<1>4. \A b \in Broken(m) : b = m \/ b = Lose(m)
  BY Zenon DEF Broken
<1>5. \A b \in Closed(m) : IF d \in l THEN b = m ELSE b = Close(m) \/ b = CloseFailed(m)
  <2>1. CASE d \in l
    BY <1>1, <2>1 DEF Closed
  <2>2. CASE d \notin l
    <3>1. Closed(m) = {Close(m)} \union {CloseFailed(m) : c \in 1 .. MaxLost - Cardinality(m.lost)}
      BY <1>1, <2>2 DEF Closed
    <3> QED
      BY <2>2, <3>1, Zenon
  <2> QED
    BY <2>1, <2>2
<1> QED
  BY <1>1, <1>2, <1>3, <1>4, <1>5, Zenon DEF Store, Lose

McpOk(m) ==
  m \in [open : SUBSET Nat, stored : Nat, lost : SUBSET Nat] /\ IsFiniteSet(m.open)

\* There is always a stack that is not open yet.
LEMMA FreshIsNew ==
  ASSUME NEW m, McpOk(m)
  PROVE  Fresh(m) \in Nat /\ Fresh(m) \notin m.open
<1>1. PICK o, d : o = m.open /\ d = m.stored
  OBVIOUS
<1>2. IsFiniteSet(o) /\ Cardinality(o) \in Nat
  BY <1>1, FS_CardinalityType DEF McpOk
<1>3. /\ IsFiniteSet(o \cup {d})
      /\ Cardinality(o \cup {d}) = IF d \in o THEN Cardinality(o) ELSE Cardinality(o) + 1
  BY <1>2, FS_AddElement
<1>4. PICK n : n = Cardinality(o) + 2 /\ n \in Nat \ {0}
  BY <1>2
<1>5. Cardinality(1..n) = n
  BY <1>4, FS_Interval
<1>6. \E c \in 1..n : c \notin o \cup {d}
  <2> SUFFICES ASSUME 1..n \subseteq o \cup {d} PROVE FALSE
    OBVIOUS
  <2>1. Cardinality(1..n) <= Cardinality(o \cup {d})
    BY <1>3, FS_Subset
  <2> QED
    BY <1>2, <1>3, <1>4, <1>5, <2>1
<1>7. Fresh(m) = CHOOSE c \in 1..n : c \notin o \cup {d}
  BY <1>1, <1>4 DEF Fresh
<1>8. Fresh(m) \in 1..n /\ Fresh(m) \notin o \cup {d}
  BY <1>6, <1>7
<1> QED
  BY <1>1, <1>4, <1>8

LEMMA StacksType ==
  ASSUME NEW m, McpOk(m)
  PROVE  /\ McpOk(Store(m)) /\ McpOk(NewSession(m))
         /\ \A b \in Broken(m) : McpOk(b)
         /\ \A b \in Closed(m) : McpOk(b)
         /\ \A S \in SUBSET Nat : McpOk([Store(m) EXCEPT !.lost = @ \union S])
<1>1. PICK o, d, l : m = [open |-> o, stored |-> d, lost |-> l]
  BY DEF McpOk
<1>2. o \in SUBSET Nat /\ d \in Nat /\ l \in SUBSET Nat /\ IsFiniteSet(o)
  BY <1>1 DEF McpOk
<1>3. PICK f : f = Fresh(m) /\ f \in Nat
  BY FreshIsNew
<1>4. IsFiniteSet(o \cup {f}) /\ IsFiniteSet(o \ {d})
  BY <1>2, FS_AddElement, FS_RemoveElement
<1>5. /\ Store(m) = [open |-> o \cup {f}, stored |-> f, lost |-> l]
      /\ Lose(m) = [open |-> o \cup {f}, stored |-> d, lost |-> l \cup {f}]
      /\ Close(m) = [open |-> o \ {d}, stored |-> d, lost |-> l]
      /\ CloseFailed(m) = [open |-> o, stored |-> d, lost |-> l \cup ({d} \cap o)]
      /\ NewSession(m) = [open |-> o, stored |-> 0, lost |-> l]
      /\ \A b \in Broken(m) : b = m \/ b = Lose(m)
      /\ \A b \in Closed(m) : b = m \/ b = Close(m) \/ b = CloseFailed(m)
  <2>1. m = [open |-> m.open, stored |-> m.stored, lost |-> m.lost]
    BY <1>1
  <2>2. /\ Store(m) = [open |-> m.open \cup {Fresh(m)}, stored |-> Fresh(m), lost |-> m.lost]
        /\ Lose(m) = [open |-> m.open \cup {Fresh(m)}, stored |-> m.stored,
                      lost |-> m.lost \cup {Fresh(m)}]
        /\ Close(m) = [open |-> m.open \ {m.stored}, stored |-> m.stored, lost |-> m.lost]
        /\ CloseFailed(m) = [open |-> m.open, stored |-> m.stored,
                             lost |-> m.lost \cup ({m.stored} \cap m.open)]
        /\ NewSession(m) = [open |-> m.open, stored |-> 0, lost |-> m.lost]
        /\ \A b \in Broken(m) : b = m \/ b = Lose(m)
    BY <2>1, Stacks
  <2>3. \A b \in Closed(m) : b = m \/ b = Close(m) \/ b = CloseFailed(m)
    BY <2>1, Stacks
  <2>4. m.open = o /\ m.stored = d /\ m.lost = l
    BY <1>1
  <2> QED
    BY <1>3, <2>2, <2>3, <2>4, Zenon
<1>r. ASSUME NEW x \in SUBSET Nat, NEW y \in Nat, NEW z \in SUBSET Nat, IsFiniteSet(x)
      PROVE  McpOk([open |-> x, stored |-> y, lost |-> z])
  BY <1>r DEF McpOk
<1>6. /\ McpOk(Store(m)) /\ McpOk(Close(m)) /\ McpOk(CloseFailed(m)) /\ McpOk(NewSession(m))
      /\ McpOk(Lose(m))
  <2>1. /\ o \cup {f} \in SUBSET Nat /\ o \ {d} \in SUBSET Nat /\ l \cup {f} \in SUBSET Nat
        /\ 0 \in Nat /\ l \cup ({d} \cap o) \in SUBSET Nat
    BY <1>2, <1>3
  <2>2. McpOk(Store(m))
    BY <1>2, <1>3, <1>4, <1>5, <1>r, <2>1, Zenon
  <2>3. McpOk(Close(m))
    BY <1>2, <1>4, <1>5, <1>r, <2>1, Zenon
  <2>4. McpOk(NewSession(m))
    BY <1>2, <1>5, <1>r, <2>1, Zenon
  <2>5. McpOk(Lose(m))
    BY <1>2, <1>4, <1>5, <1>r, <2>1, Zenon
  <2>6. McpOk(CloseFailed(m))
    BY <1>2, <1>5, <1>r, <2>1, Zenon
  <2> QED
    BY <2>2, <2>3, <2>4, <2>5, <2>6
<1>7. ASSUME NEW S \in SUBSET Nat PROVE McpOk([Store(m) EXCEPT !.lost = @ \union S])
  <2>1. [Store(m) EXCEPT !.lost = @ \union S]
          = [open |-> o \cup {f}, stored |-> f, lost |-> l \cup S]
    <3>1. PICK u : u = o \cup {f}
      OBVIOUS
    <3>2. Store(m) = [open |-> u, stored |-> f, lost |-> l]
      BY <1>5, <3>1
    <3> QED
      BY <3>1, <3>2
  <2>2. o \cup {f} \in SUBSET Nat /\ l \cup S \in SUBSET Nat
    BY <1>2, <1>3
  <2>3. McpOk([open |-> o \cup {f}, stored |-> f, lost |-> l \cup S])
    BY <1>3, <1>4, <1>r, <2>2, Zenon
  <2> QED
    BY <2>1, <2>3
<1> QED
  BY <1>5, <1>6, <1>7

LEMMA TypesInit == Init => TypesInv
<1>1. IsFiniteSet({})
  BY FS_EmptySet
<1> SUFFICES ASSUME Init PROVE TypesInv
  OBVIOUS
<1>2. mcp \in [open : SUBSET Nat, stored : Nat, lost : SUBSET Nat] /\ IsFiniteSet(mcp.open)
  <2>1. mcp = [open |-> {}, stored |-> 0, lost |-> {}]
    BY DEF Init, NoStacks
  <2> QED
    BY <1>1, <2>1
<1>3. 0 \in 0..MaxIterations /\ 0 < MaxIterations /\ 0 \in 0..MaxResumes
  BY ChatAssumption
<1> QED
  BY <1>2, <1>3 DEF Init, TypesInv

LEMMA TypesNext ==
  ASSUME TypesInv, IInv, [Next]_vars
  PROVE  TypesInv'
<1> DEFINE Rest ==
     /\ chat' \in {"new", "ready", "unavailable", "ended"} /\ link' \in BOOLEAN
     /\ pc' \in {"idle", "ensure", "reconnect", "request", "stream", "text", "tools", "record",
                 "finish"}
     /\ answer' \in BOOLEAN
     /\ iteration' \in 0..MaxIterations /\ (~ forceFinal' => iteration' < MaxIterations)
     /\ resumes' \in 0..MaxResumes
<1>0. McpOk(mcp)
  BY DEF TypesInv, McpOk
<1>1. /\ McpOk(Store(mcp)) /\ \A b \in Broken(mcp) \union Closed(mcp) : McpOk(b)
      /\ McpOk(Store(NewSession(mcp))) /\ \A b \in Broken(NewSession(mcp)) : McpOk(b)
  BY <1>0, StacksType
<1>2. McpOk(mcp')
  <2>1. CASE mcp' \in {mcp, Store(mcp), Store(NewSession(mcp))}
    BY <1>0, <1>1, <2>1
  <2>2. CASE mcp' \in Broken(mcp) \union Closed(mcp) \/ mcp' \in Broken(NewSession(mcp))
    BY <1>1, <2>2
  <2>3. CASE Reconnect
    <3>1. PICK S : S = {c \in {Fresh(mcp)} : chat = "ended"}
      OBVIOUS
    <3>2. S \in SUBSET Nat
      BY <1>0, <3>1, FreshIsNew
    <3>3. mcp' = [Store(mcp) EXCEPT !.lost = @ \union S]
      BY <2>3, <3>1, Zenon DEF Reconnect
    <3>4. McpOk([Store(mcp) EXCEPT !.lost = @ \union S])
      BY <1>0, <3>2, StacksType
    <3> QED
      BY <3>3, <3>4
  <2>4. CASE Lifecycle
    BY <2>1, <2>2, <2>4 DEF Lifecycle, ChatStart, ChatStartFail, ChatEnd, Resume, ResumeFail
  <2>5. CASE Cancel
    <3>1. mcp' \in Broken(mcp) \/ mcp' \in {mcp} \union Closed(mcp)
      BY <2>5 DEF Cancel
    <3> QED
      BY <2>1, <2>2, <3>1
  <2>6. CASE LinkLost \/ Send \/ Refuse \/ UNCHANGED vars
    BY <2>1, <2>6 DEF LinkLost, Send, Refuse, vars, linkVars
  <2>7. CASE Handler
    BY <2>1, <2>2, <2>3, <2>7
       DEF Handler, EnsureOk, EnsureLost, ReconnectFail, Request, ShowText, ShowResult,
           RecordResult, FinishRound, Finish, FinishFail, AgentError, ReplyTools, ReplyFinal,
           linkVars
  <2> QED
    BY <2>4, <2>5, <2>6, <2>7 DEF Next
<1>z. 0 \in 0..MaxIterations /\ 0 < MaxIterations
  BY ChatAssumption
<1>3. ASSUME Return, chat' = chat, link' = link, resumes' = resumes PROVE Rest
  <2>1. pc' = "idle" /\ answer' = FALSE /\ iteration' = 0
    BY <1>3 DEF Return
  <2> QED
    BY <1>3, <1>z, <2>1 DEF TypesInv
<1>4. CASE Lifecycle \/ LinkLost \/ Send \/ Refuse
  <2>1. /\ chat' \in {"new", "ready", "unavailable", "ended"} /\ link' \in BOOLEAN
        /\ UNCHANGED loopVars /\ pc' \in {pc, "ensure"}
    BY <1>4 DEF TypesInv, Lifecycle, ChatStart, ChatStartFail, ChatEnd, Resume,
       ResumeFail, LinkLost, Send, Refuse, linkVars
  <2>2. resumes' \in 0..MaxResumes
    <3>1. resumes' = resumes \/ (resumes < MaxResumes /\ resumes' = resumes + 1)
      BY <1>4 DEF Lifecycle, ChatStart, ChatStartFail, ChatEnd, Resume, ResumeFail,
         LinkLost, Send, Refuse
    <3> QED
      BY <3>1, ChatAssumption DEF TypesInv
  <2>3. Rest
    BY <2>1, <2>2 DEF TypesInv, loopVars
  <2> QED
    BY <1>2, <2>3 DEF TypesInv, McpOk
<1>5. CASE ReconnectFail \/ Finish \/ FinishFail \/ AgentError \/ Cancel
  <2>1. Rest
    BY <1>3, <1>5 DEF ReconnectFail, Finish, FinishFail, AgentError, Cancel, linkVars
  <2> QED
    BY <1>2, <2>1 DEF TypesInv, McpOk
<1>6. CASE EnsureOk \/ EnsureLost \/ Reconnect \/ Request \/ ShowText \/ ShowResult \/ RecordResult
  <2>1. Rest
    BY <1>6 DEF TypesInv, EnsureOk, EnsureLost, Reconnect, Request, ShowText, ShowResult,
       RecordResult, linkVars, loopVars
  <2> QED
    BY <1>2, <2>1 DEF TypesInv, McpOk
<1>7. CASE FinishRound
  <2>1. ~ forceFinal
    BY <1>7 DEF FinishRound, IInv, LimitEndsTurn
  <2>2. /\ iteration \in Nat /\ iteration < MaxIterations /\ MaxIterations \in Nat
        /\ iteration' = iteration + 1
        /\ iteration + 1 >= MaxIterations => forceFinal'
    BY <1>7, <2>1, ChatAssumption DEF FinishRound, TypesInv
  <2>3. iteration' \in 0..MaxIterations /\ (~ forceFinal' => iteration' < MaxIterations)
    BY <2>2
  <2>4. Rest
    BY <1>7, <2>3 DEF FinishRound, TypesInv, linkVars
  <2> QED
    BY <1>2, <2>4 DEF TypesInv, McpOk
<1>8. ASSUME NEW calls \in Rounds, NEW text \in BOOLEAN, ReplyTools(calls, text)
      PROVE  TypesInv'
  <2>1. Rest
    BY <1>8 DEF ReplyTools, TypesInv, linkVars
  <2> QED
    BY <1>2, <2>1 DEF TypesInv, McpOk
<1>9. ASSUME NEW text \in BOOLEAN, ReplyFinal(text)
      PROVE  TypesInv'
  <2>1. Rest
    BY <1>9 DEF ReplyFinal, TypesInv, linkVars
  <2> QED
    BY <1>2, <2>1 DEF TypesInv, McpOk
<1>10. CASE UNCHANGED vars
  BY <1>10 DEF vars, linkVars, loopVars, TypesInv
<1>11. CASE Handler
  BY <1>5, <1>6, <1>7, <1>8, <1>9, <1>11 DEF Handler
<1> QED
  BY <1>4, <1>5, <1>10, <1>11 DEF Next

-----------------------------------------------------------------------------
(* Connections.                                                            *)

\* What ConnectionsAccounted needs to be inductive: a link that works is an open
\* connection that will be closed, a handler runs only in a chat that had one, and one
\* that reconnects has closed it or lost it.
LinkInv ==
  /\ mcp.lost \subseteq mcp.open
  /\ chat \in {"new", "unavailable"} => pc = "idle"
  /\ chat = "ready" /\ link => mcp.stored \in mcp.open \ mcp.lost
  /\ pc = "reconnect" => mcp.open \subseteq mcp.lost
  /\ ConnectionsAccounted

\* The stacks after a connection was made, one failed, or one was closed.
LEMMA StoreFields ==
  ASSUME NEW m, McpOk(m)
  PROVE  /\ Store(m).open = m.open \union {Fresh(m)} /\ Store(m).stored = Fresh(m)
         /\ Store(m).lost = m.lost /\ Fresh(m) \notin m.open
BY FreshIsNew DEF Store

LEMMA BrokenFields ==
  ASSUME NEW m, McpOk(m), NEW b \in Broken(m)
  PROVE  /\ b.stored = m.stored
         /\ \E f : /\ b.open = m.open \union f /\ b.lost = m.lost \union f
                  /\ f \intersect m.open = {}
<1>1. b = m \/ b = Lose(m)
  BY Zenon DEF Broken
<1>2. CASE b = m
  <2>1. /\ b.open = m.open \union {} /\ b.lost = m.lost \union {} /\ {} \intersect m.open = {}
    BY <1>2
  <2> QED
    BY <1>2, <2>1
<1>3. CASE b = Lose(m)
  <2>1. /\ b.open = m.open \union {Fresh(m)} /\ b.lost = m.lost \union {Fresh(m)}
        /\ b.stored = m.stored
    BY <1>3 DEF Lose
  <2>2. {Fresh(m)} \intersect m.open = {}
    BY FreshIsNew
  <2> QED
    BY <2>1, <2>2
<1> QED
  BY <1>1, <1>2, <1>3

LEMMA ClosedFields ==
  ASSUME NEW m, McpOk(m), m.lost \subseteq m.open, m.open \subseteq m.lost \union {m.stored},
         NEW b \in Closed(m)
  PROVE  b.stored = m.stored /\ b.lost \subseteq b.open /\ b.open \subseteq b.lost
<1>1. PICK o, d, l : m = [open |-> o, stored |-> d, lost |-> l]
  BY DEF McpOk
<1>2. m.open = o /\ m.stored = d /\ m.lost = l
  BY <1>1
<1>3. \/ d \in l /\ b = m
      \/ d \notin l /\ b = [open |-> o \ {d}, stored |-> d, lost |-> l]
      \/ d \notin l /\ b = [open |-> o, stored |-> d, lost |-> l \union ({d} \intersect o)]
  BY <1>1, Stacks
<1>4. CASE d \in l /\ b = m
  BY <1>2, <1>4
<1>5. CASE d \notin l /\ b = [open |-> o \ {d}, stored |-> d, lost |-> l]
  <2>1. b.open = o \ {d} /\ b.stored = d /\ b.lost = l
    BY <1>5
  <2> QED
    BY <1>2, <1>5, <2>1
<1>6. CASE b = [open |-> o, stored |-> d, lost |-> l \union ({d} \intersect o)]
  <2>1. b.open = o /\ b.stored = d /\ b.lost = l \union ({d} \intersect o)
    BY <1>6
  <2> QED
    BY <1>2, <2>1
<1> QED
  BY <1>3, <1>4, <1>5, <1>6

LEMMA LinkInvNext ==
  ASSUME LinkInv, TypesInv, [Next]_vars
  PROVE  LinkInv'
<1> DEFINE Replies == \E calls \in Rounds, text \in BOOLEAN : ReplyTools(calls, text)
           Final == \E text \in BOOLEAN : ReplyFinal(text)
           Held == {c \in {mcp.stored} : chat = "ready"}
<1>0. McpOk(mcp)
  BY DEF TypesInv, McpOk
<1>n. /\ McpOk(NewSession(mcp)) /\ NewSession(mcp).open = mcp.open
      /\ NewSession(mcp).lost = mcp.lost
  BY <1>0, StacksType DEF NewSession, McpOk
<1>a. /\ mcp.lost \subseteq mcp.open
      /\ mcp.open \subseteq mcp.lost \union Held
      /\ mcp.open \subseteq mcp.lost \union {mcp.stored}
      /\ chat # "ready" => mcp.open \subseteq mcp.lost
  BY DEF LinkInv, ConnectionsAccounted
<1>b. ASSUME mcp' \in Closed(mcp)
      PROVE  mcp'.stored = mcp.stored /\ mcp'.lost \subseteq mcp'.open /\ mcp'.open \subseteq mcp'.lost
  BY <1>0, <1>a, <1>b, ClosedFields
<1>c. ASSUME NEW m, McpOk(m), m.lost \subseteq m.open, NEW S, m.open \subseteq m.lost \union S,
             mcp' \in Broken(m)
      PROVE  mcp'.stored = m.stored /\ mcp'.lost \subseteq mcp'.open
             /\ mcp'.open \subseteq mcp'.lost \union S
  <2>1. PICK f : /\ mcp'.open = m.open \union f /\ mcp'.lost = m.lost \union f
                 /\ mcp'.stored = m.stored
    BY <1>c, BrokenFields
  <2> QED
    BY <1>c, <2>1
<1>1. CASE ChatStart
  <2>1. /\ mcp'.open = mcp.open \union {Fresh(mcp)} /\ mcp'.stored = Fresh(mcp)
        /\ mcp'.lost = mcp.lost /\ Fresh(mcp) \notin mcp.open
    BY <1>0, <1>1, StoreFields DEF ChatStart
  <2>2. chat = "new" /\ chat' = "ready" /\ pc' = pc /\ pc = "idle"
    BY <1>1 DEF ChatStart, LinkInv
  <2> QED
    BY <1>a, <2>1, <2>2 DEF LinkInv, ConnectionsAccounted, Running
<1>2. CASE ChatStartFail
  <2>1. mcp' \in Broken(mcp) /\ chat = "new" /\ chat' = "unavailable" /\ pc' = pc /\ pc = "idle"
    BY <1>2 DEF ChatStartFail, LinkInv
  <2>2. mcp'.lost \subseteq mcp'.open /\ mcp'.open \subseteq mcp'.lost \union {}
    BY <1>0, <1>a, <1>c, <2>1
  <2> QED
    BY <2>1, <2>2 DEF LinkInv, ConnectionsAccounted, Running
<1>3. CASE ChatEnd
  <2>1. mcp' \in Closed(mcp) /\ chat' = "ended"
    BY <1>3 DEF ChatEnd
  <2> QED
    BY <1>b, <2>1 DEF LinkInv, ConnectionsAccounted
<1>4. CASE Resume
  <2> DEFINE n == NewSession(mcp)
  <2>1. mcp' = Store(n) /\ chat \in {"ended", "unavailable"} /\ chat' = "ready"
        /\ pc' = pc /\ pc = "idle"
    BY <1>4 DEF Resume
  <2> HIDE DEF n
  <2>2. /\ mcp'.open = mcp.open \union {Fresh(n)} /\ mcp'.stored = Fresh(n)
        /\ mcp'.lost = mcp.lost /\ Fresh(n) \notin mcp.open
    BY <1>n, <2>1, StoreFields DEF n
  <2> QED
    BY <1>a, <2>1, <2>2 DEF LinkInv, ConnectionsAccounted, Running
<1>5. CASE ResumeFail
  <2>1. /\ mcp' \in Broken(NewSession(mcp)) /\ chat \in {"ended", "unavailable"}
        /\ chat' = "unavailable" /\ pc' = pc /\ pc = "idle"
    BY <1>5 DEF ResumeFail
  <2>2. mcp'.lost \subseteq mcp'.open /\ mcp'.open \subseteq mcp'.lost \union {}
    BY <1>n, <1>a, <1>c, <2>1
  <2> QED
    BY <2>1, <2>2 DEF LinkInv, ConnectionsAccounted, Running
<1>6. CASE LinkLost
  BY <1>6 DEF LinkLost, LinkInv, ConnectionsAccounted, Running
<1>7. CASE Send \/ Refuse
  BY <1>7 DEF Send, Refuse, linkVars, LinkInv, ConnectionsAccounted, Running
<1>8. CASE EnsureOk
  BY <1>8 DEF EnsureOk, linkVars, LinkInv, ConnectionsAccounted, Running
<1>9. CASE EnsureLost
  <2>1. /\ mcp' \in Closed(mcp) /\ ~ link /\ link' = link /\ chat' = chat /\ pc = "ensure"
        /\ pc' = "reconnect"
    BY <1>9 DEF EnsureLost
  <2> QED
    BY <1>b, <2>1 DEF LinkInv, ConnectionsAccounted, Running
<1>10. CASE Reconnect
  <2> DEFINE f == Fresh(mcp)
             late == {c \in {f} : chat = "ended"}
  <2>1. mcp' = [Store(mcp) EXCEPT !.lost = @ \union late]
    BY <1>10, Zenon DEF Reconnect
  <2>2. Store(mcp) = [open |-> mcp.open \union {f}, stored |-> f, lost |-> mcp.lost]
    BY Zenon DEF Store
  <2>3. f \notin mcp.open
    BY <1>0, FreshIsNew
  <2> HIDE DEF late, f
  <2>4. /\ mcp'.open = mcp.open \union {f} /\ mcp'.stored = f
        /\ mcp'.lost = mcp.lost \union late
    BY <2>1, <2>2
  <2>5. chat \in {"ready", "ended"} /\ chat' = chat /\ pc' = "request" /\ pc = "reconnect"
    BY <1>10 DEF Reconnect, LinkInv, TypesInv
  <2>6. mcp.open \subseteq mcp.lost
    BY <2>5 DEF LinkInv
  <2>7. CASE chat = "ready"
    <3>1. late = {}
      BY <2>7 DEF late
    <3> QED
      BY <1>a, <2>3, <2>4, <2>5, <2>6, <2>7, <3>1 DEF LinkInv, ConnectionsAccounted, Running
  <2>8. CASE chat = "ended"
    <3>1. late = {f}
      BY <2>8 DEF late
    <3> QED
      BY <1>a, <2>4, <2>5, <2>6, <2>8, <3>1 DEF LinkInv, ConnectionsAccounted, Running
  <2> QED
    BY <2>5, <2>7, <2>8
<1>11. CASE ReconnectFail \/ Cancel
  <2>1. /\ pc' = "idle" /\ chat' = chat /\ link' = link
        /\ \/ mcp' = mcp
           \/ mcp' \in Broken(mcp) /\ pc = "reconnect"
           \/ mcp' \in Closed(mcp) /\ ~ link
    BY <1>11 DEF ReconnectFail, Cancel, Return
  <2>2. CASE mcp' = mcp
    BY <2>1, <2>2 DEF LinkInv, ConnectionsAccounted, Running
  <2>3. CASE mcp' \in Broken(mcp) /\ pc = "reconnect"
    <3>1. PICK f : /\ mcp'.open = mcp.open \union f /\ mcp'.lost = mcp.lost \union f
                   /\ mcp'.stored = mcp.stored /\ f \intersect mcp.open = {}
      BY <1>0, <2>3, BrokenFields
    <3>2. chat = "ready" /\ link => mcp'.stored \in mcp'.open \ mcp'.lost
      BY <3>1 DEF LinkInv
    <3> QED
      BY <1>a, <2>1, <3>1, <3>2 DEF LinkInv, ConnectionsAccounted, Running
  <2>4. CASE mcp' \in Closed(mcp) /\ ~ link
    BY <1>b, <2>1, <2>4 DEF LinkInv, ConnectionsAccounted, Running
  <2> QED
    BY <2>1, <2>2, <2>3, <2>4
<1>r. /\ Replies => \E calls \in Rounds, text \in BOOLEAN : ReplyTools(calls, text)
      /\ Final => \E text \in BOOLEAN : ReplyFinal(text)
  OBVIOUS
<1> HIDE DEF Replies, Final
<1>12. CASE \/ Request \/ ShowText \/ ShowResult \/ RecordResult \/ FinishRound
           \/ Finish \/ FinishFail \/ AgentError \/ Replies \/ Final
  <2>1. /\ mcp' = mcp /\ chat' = chat /\ link' = link
        /\ pc \in {"request", "stream", "text", "tools", "record", "finish"}
    BY <1>12, <1>r, Zenon
       DEF Request, ShowText, ShowResult, RecordResult, FinishRound, Finish, FinishFail,
           AgentError, ReplyTools, ReplyFinal, linkVars
  <2>2. pc' \in {"idle", "request", "stream", "text", "tools", "record", "finish"}
    BY <1>12, <1>r
       DEF Request, ShowText, ShowResult, RecordResult, FinishRound, Finish, FinishFail,
           AgentError, ReplyTools, ReplyFinal, Return
  <2> QED
    BY <2>1, <2>2 DEF LinkInv, ConnectionsAccounted, Running
<1>13. CASE UNCHANGED vars
  BY <1>13 DEF vars, linkVars, LinkInv, ConnectionsAccounted, Running
<1>14. CASE Lifecycle
  BY <1>14, <1>1, <1>2, <1>3, <1>4, <1>5 DEF Lifecycle
<1>15. CASE Handler
  BY <1>15, <1>8, <1>9, <1>10, <1>11, <1>12, Zenon DEF Handler, Replies, Final
<1> QED
  BY <1>6, <1>7, <1>11, <1>13, <1>14, <1>15 DEF Next

\* mcp_client.py 50-51, 79-84, app.py 385-397 and 527-534: a connection that nobody has
\* closed is the running session's or was lost, by a connect or by an aclose that
\* failed, and a loop in a running chat holds one that is not lost, however often the
\* server drops it, the handler reconnects and the thread is reopened.
THEOREM Connections == Spec => []ConnectionsAccounted
<1>1. Init => IInv /\ TypesInv /\ LinkInv
  <2>1. Init => LinkInv
    BY DEF Init, NoStacks, LinkInv, ConnectionsAccounted, Running
  <2> QED
    BY <2>1, InitIInv, TypesInit
<1>2. IInv /\ TypesInv /\ LinkInv /\ [Next]_vars => (IInv /\ TypesInv /\ LinkInv)'
  BY NextIInv, TypesNext, LinkInvNext
<1>3. LinkInv => ConnectionsAccounted
  BY DEF LinkInv
<1> QED
  BY <1>1, <1>2, <1>3, PTL DEF Spec

-----------------------------------------------------------------------------
(* HistoryWellFormed.                                                      *)

\* Whatever happened before, every result in the history stands in the block of the
\* message that called for it; while a round is executed, the results of the last
\* message are those of its first calls and the other calls are still to execute.
HistoryInv ==
  /\ Answered(msgs)
  /\ todo \in Seq(Call)
  /\ pc \in {"text", "tools", "record"} => Pending(msgs, todo)
  /\ pc = "record" => todo # <<>>
  /\ pc = "stream" => Complete(msgs)

LEMMA EmptyAnswered == Answered(<<>>)
BY EmptySeq DEF Answered

LEMMA HistoryInit == Init => HistoryInv
BY EmptyAnswered, EmptySeq DEF Init, HistoryInv

\* A message without calls at the end.
LEMMA AppendPlain ==
  ASSUME NEW ms, Answered(ms), NEW m \in Messages, m.role # "tool", m.calls = <<>>
  PROVE  Answered(Append(ms, m))
BY AppendOther, OnceEmpty

LEMMA HistoryNext ==
  ASSUME HistoryInv, IInv, TypesInv, [Next]_vars
  PROVE  HistoryInv'
<1>0. /\ Answered(msgs) /\ todo \in Seq(Call) /\ ui \in Seq(Items)
      /\ pc \in {"text", "tools", "record"} => Pending(msgs, todo)
      /\ pc = "record" => todo # <<>>
  BY DEF HistoryInv, IInv, Shape
<1>e. <<>> \in Seq(Call)
  BY EmptySeq
<1>m. /\ Msg("system") \in Messages /\ Msg("system").role # "tool" /\ Msg("system").calls = <<>>
      /\ Msg("user") \in Messages /\ Msg("user").role # "tool" /\ Msg("user").calls = <<>>
  BY MsgType
\* Steps that leave the history alone and begin or end no round.
<1>1. ASSUME msgs' = msgs, todo' = todo, pc' = pc \/ pc' \notin {"stream", "text", "tools", "record"}
      PROVE  HistoryInv'
  BY <1>1 DEF HistoryInv
<1>2. ASSUME Return, Answered(msgs') PROVE HistoryInv'
  BY <1>2, <1>e DEF Return, HistoryInv
<1>3. CASE ChatStart \/ Resume \/ ResumeFail
  <2>1. pc' = pc /\ todo' = todo
    BY <1>3 DEF ChatStart, Resume, ResumeFail, loopVars
  <2>2. pc = "idle"
    BY <1>3 DEF ChatStart, Resume, ResumeFail, IInv, Locals
  <2>3. Answered(msgs')
    <3>1. CASE ChatStart
      <4>1. Append(<<>>, Msg("system")) = <<Msg("system")>>
        OBVIOUS
      <4>2. Answered(Append(<<>>, Msg("system")))
        BY <1>m, EmptyAnswered, AppendPlain
      <4> QED
        BY <3>1, <4>1, <4>2 DEF ChatStart
    <3>2. CASE Resume
      BY <1>0, <3>2, RebuiltAnswered DEF Resume
    <3>3. CASE ResumeFail
      BY <3>3, EmptyAnswered DEF ResumeFail
    <3> QED
      BY <1>3, <3>1, <3>2, <3>3
  <2> QED
    BY <1>0, <2>1, <2>2, <2>3 DEF HistoryInv
<1>4. CASE ChatStartFail \/ ChatEnd \/ LinkLost \/ Refuse \/ EnsureOk \/ EnsureLost \/ Reconnect
  <2>1. /\ msgs' = msgs /\ todo' = todo
        /\ pc' = pc \/ pc' \notin {"stream", "text", "tools", "record"}
    BY <1>4 DEF ChatStartFail, ChatEnd, LinkLost, Refuse, EnsureOk, EnsureLost, Reconnect, loopVars
  <2> QED
    BY <1>1, <2>1
<1>5. CASE Send
  <2>1. Answered(msgs')
    BY <1>0, <1>5, <1>m, AppendPlain DEF Send
  <2> QED
    BY <1>0, <1>5, <2>1 DEF Send, HistoryInv, loopVars
<1>6. CASE ReconnectFail \/ FinishFail \/ AgentError \/ Cancel
  BY <1>0, <1>2, <1>6 DEF ReconnectFail, FinishFail, AgentError, Cancel
<1>7. CASE Request
  <2>1. Complete(msgs')
    BY <1>0, <1>7, SanitizeCompletes DEF Request
  <2> QED
    BY <1>0, <1>7, <2>1 DEF Request, HistoryInv, loopVars, Complete
<1>8. ASSUME NEW calls \in Rounds, NEW text \in BOOLEAN, ReplyTools(calls, text)
      PROVE  HistoryInv'
  <2>1. calls \in Seq(Call) /\ calls # <<>>
    BY ChatAssumption DEF Call
  <2>2. Once(calls, NoId)
    <3>1. \A m, n \in DOMAIN calls : calls[m] = calls[n] /\ calls[m] # NoId => m = n
      BY ChatAssumption
    <3>2. DOMAIN calls = 1..Len(calls)
      BY <2>1, LenProperties
    <3> QED
      BY <3>1, <3>2 DEF Once
  <2>3. PICK m : /\ m = Assistant(calls, text) /\ m \in Messages /\ m.role # "tool"
                 /\ m.calls = calls
    BY <2>1, MsgType
  <2>4. msgs' = Append(msgs, m) /\ todo' = calls /\ pc' \in {"text", "tools"}
    BY <1>8, <2>3 DEF ReplyTools
  <2>5. Answered(msgs')
    BY <1>0, <2>2, <2>3, <2>4, AppendOther
  <2>6. Pending(msgs', todo')
    BY <1>0, <2>3, <2>4, PendingCalls DEF Answered
  <2> QED
    BY <2>1, <2>4, <2>5, <2>6 DEF HistoryInv
<1>9. CASE ShowText \/ ShowResult
  <2>1. /\ msgs' = msgs /\ todo' = todo /\ pc \in {"text", "tools"}
        /\ pc' \in {"tools", "record"} /\ (pc' = "record" => todo # <<>>)
    BY <1>9 DEF ShowText, ShowResult, loopVars
  <2> QED
    BY <1>0, <2>1 DEF HistoryInv
<1>10. CASE RecordResult
  <2>1. /\ msgs' = Append(msgs, ToolMsg(Head(todo))) /\ todo' = Tail(todo) /\ pc' = "tools"
        /\ todo # <<>> /\ Pending(msgs, todo)
    BY <1>0, <1>10 DEF RecordResult
  <2>2. Answered(msgs') /\ Pending(msgs', todo')
    BY <1>0, <2>1, AppendTool
  <2>3. todo' \in Seq(Call)
    BY <1>0, <2>1, HeadTailProperties
  <2> QED
    BY <2>1, <2>2, <2>3 DEF HistoryInv
<1>11. CASE FinishRound
  <2>1. Answered(msgs')
    <3>1. msgs' = msgs \/ msgs' = Append(msgs, Msg("system"))
      BY <1>11 DEF FinishRound
    <3> QED
      BY <1>0, <1>m, <3>1, AppendPlain
  <2> QED
    BY <1>0, <1>11, <2>1 DEF FinishRound, HistoryInv
<1>12. ASSUME NEW text \in BOOLEAN, ReplyFinal(text) PROVE HistoryInv'
  <2>1. msgs' = msgs /\ todo' = todo /\ pc' = "finish"
    BY <1>12 DEF ReplyFinal
  <2> QED
    BY <1>1, <2>1
<1>13. CASE Finish
  <2>1. Answered(msgs')
    <3>1. msgs' = Append(msgs, Assistant(<<>>, answer))
      BY <1>13 DEF Finish
    <3>2. /\ Assistant(<<>>, answer) \in Messages /\ Assistant(<<>>, answer).role # "tool"
          /\ Assistant(<<>>, answer).calls = <<>>
      BY <1>e, MsgType DEF TypesInv
    <3> QED
      BY <1>0, <3>1, <3>2, AppendPlain
  <2> QED
    BY <1>2, <1>13, <2>1 DEF Finish
<1>14. CASE UNCHANGED vars
  BY <1>1, <1>14 DEF vars, loopVars
<1>15. CASE Handler
  BY <1>4, <1>6, <1>7, <1>8, <1>9, <1>10, <1>11, <1>12, <1>13, <1>15 DEF Handler
<1> QED
  BY <1>3, <1>4, <1>5, <1>6, <1>14, <1>15 DEF Next, Lifecycle

LEMMA HistoryInvariance == Spec => [](IInv /\ TypesInv /\ HistoryInv)
<1>1. Init => IInv /\ TypesInv /\ HistoryInv
  BY InitIInv, TypesInit, HistoryInit
<1>2. IInv /\ TypesInv /\ HistoryInv /\ [Next]_vars => (IInv /\ TypesInv /\ HistoryInv)'
  BY NextIInv, TypesNext, HistoryNext
<1> QED
  BY <1>1, <1>2, PTL DEF Spec

\* tool_loop.py 17-50: whatever was cancelled, failed or reopened before, and whatever
\* the provider called its calls, each call with an id in the history sent to it is
\* answered exactly once, directly after its message.
THEOREM History == Spec => []HistoryWellFormed
<1>1. HistoryInv => HistoryWellFormed
  BY CompleteIsWellFormed DEF HistoryInv, HistoryWellFormed
<1> QED
  BY <1>1, HistoryInvariance, PTL

\* The state of the chat has its type; so the rounds of a turn never pass
\* _MAX_ITERATIONS, the calls left to execute are calls, and the indices of the open
\* group, the streamed message and the closed ones are items of the thread.
THEOREM ChatTypes == Spec => []TypeOK
<1>1. IInv /\ TypesInv /\ HistoryInv => TypeOK
  BY DEF IInv, Shape, TypesInv, HistoryInv, Answered, Call, TypeOK
<1> QED
  BY <1>1, HistoryInvariance, PTL
=============================================================================
