----------------------------- MODULE ChatAgent -----------------------------
(***************************************************************************)
(* One chat of dwh-chat: the tool-call loop (tool_loop.py, run_agent) with *)
(* the message handler that runs it and its callbacks (app.py, on_message, *)
(* on_chat_start, on_chat_end, on_chat_resume) and the exit stacks that    *)
(* connect_mcp hands to them (mcp_client.py).                              *)
(*                                                                         *)
(* The handler is one asyncio task.  It may be cancelled at every await    *)
(* (the Stop button), so each await ends a step.  The model provider and   *)
(* the MCP server answer anything the code accepts, or fail.               *)
(***************************************************************************)
EXTENDS Naturals, Sequences, FiniteSets, SequencesExt, Selection

CONSTANTS
  Id,             \* ids a provider gives to tool calls; may repeat from round to round
  NoId,           \* the empty id of a call the provider sent without one
  Rounds,         \* the tool calls of one reply, as a sequence of ids
  MaxIterations,  \* _MAX_ITERATIONS
  MaxTurns,       \* bound: messages of the user
  MaxResumes,     \* bound: how often the thread is reopened
  MaxLost         \* bound: connections nobody will close

ASSUME ChatAssumption ==
  /\ NoId \notin Id
  /\ Rounds \subseteq Seq(Id \union {NoId}) \ {<<>>}
  \* The provider gives the calls of one reply different ids, but for those without one.
  /\ \A calls \in Rounds : \A m, n \in DOMAIN calls :
       calls[m] = calls[n] /\ calls[m] # NoId => m = n
  /\ MaxIterations \in Nat \ {0}
  /\ MaxTurns \in Nat /\ MaxResumes \in Nat /\ MaxLost \in Nat

VARIABLES
  chat,       \* of the user session: "new", "ready", "unavailable" (no MCP session), "ended"
  link,       \* whether the stored MCP session works
  mcp,        \* the exit stacks of the connections to the MCP server
  msgs,       \* messages, the history sent to the provider
  pc,         \* where the handler is
  todo,       \* tool calls of this round still to execute
  answer,     \* whether the final reply has text
  iteration, forceFinal, inGroup,   \* locals of run_agent
  ui,         \* the items of the thread, in the order they were sent
  groupStep,  \* group_step: index of the open group in ui, or 0
  response,   \* response_msg: index of the message being streamed, or 0
  closed,     \* closed_msgs: indices of the messages of earlier rounds
  turn,       \* messages the user has sent
  broken,     \* history: the turns that failed or were cancelled
  resumes

loopVars == <<todo, answer, iteration, forceFinal, inGroup>>
viewVars == <<ui, groupStep, response, closed>>
linkVars == <<chat, link, mcp>>
vars == <<linkVars, msgs, pc, loopVars, viewVars, turn, broken, resumes>>

-----------------------------------------------------------------------------
(* Messages and items.                                                     *)

Msg(role) == [role |-> role, calls |-> <<>>, id |-> NoId, text |-> role # "tool"]
ToolMsg(c) == [Msg("tool") EXCEPT !.id = c]
Assistant(calls, text) == [Msg("assistant") EXCEPT !.calls = calls, !.text = text]

\* The tool results in the block of the k-th message, which follow it directly.
Results(ms, k) ==
  {i \in k + 1 .. Len(ms) : ms[k].role # "tool" /\ \A j \in k + 1 .. i : ms[j].role = "tool"}

\* The calls of the k-th message that have an id and no result in its block.
Missing(ms, k) ==
  Only(ms[k].calls, {c \in ToSet(ms[k].calls) \ {NoId} : \A i \in Results(ms, k) : ms[i].id # c})

\* Mutant: the placeholders go to the end of the history.
MutantSanitize(ms) ==
  ms \o FlattenSeq([k \in DOMAIN ms |->
          LET gone == Missing(ms, k) IN [n \in DOMAIN gone |-> ToolMsg(gone[n])]])

\* _sanitize_messages: a placeholder for each missing result, after the results that
\* are there.  A history begins with the system message, so every result is in a block.
Sanitize(ms) ==
  FlattenSeq([k \in DOMAIN ms |->
    IF ms[k].role = "tool"
    THEN <<>>
    ELSE LET gone == Missing(ms, k)
         IN  SubSeq(ms, k, k + Cardinality(Results(ms, k))) \o
             [n \in DOMAIN gone |-> ToolMsg(gone[n])]])

\* An item of the thread; saved says whether the data layer has its content: "no",
\* "yes", or "failed" when the one update that would have saved it failed.
Item(kind, saved) == [kind |-> kind, turn |-> turn, open |-> FALSE, saved |-> saved]

\* The history on_chat_resume rebuilds from the saved items: tool steps are skipped,
\* and a warning is an assistant message like any other.
Rebuilt(items) ==
  LET shown == {x \in ToSet(items) : x.saved = "yes" /\ x.kind \in {"user", "text", "warning"}}
      kept  == Only(items, shown)
  IN  <<Msg("system")>> \o
      [n \in DOMAIN kept |->
         IF kept[n].kind = "user" THEN Msg("user") ELSE Assistant(<<>>, TRUE)]

-----------------------------------------------------------------------------
(* Exit stacks: those still open, mcp_exit_stack of the user session (0:   *)
(* none), and the open ones that nobody will close any more.               *)

NoStacks == [open |-> {}, stored |-> 0, lost |-> {}]

Fresh(m) == CHOOSE c \in 1 .. Cardinality(m.open) + 2 : c \notin m.open \union {m.stored}

\* connect_mcp enters the transport and the session, and its caller stores the stack.
Store(m) == [open |-> m.open \union {Fresh(m)}, stored |-> Fresh(m), lost |-> m.lost]

\* It entered them and nobody will close them.
Lose(m) == [open |-> m.open \union {Fresh(m)}, stored |-> m.stored,
            lost |-> m.lost \union {Fresh(m)}]

\* connect_mcp raises or is cancelled, before it entered anything or after: then
\* only its own local held the stack.
Broken(m) == {m} \union {Lose(m) : c \in 1 .. MaxLost - Cardinality(m.lost)}

\* aclose on the stored stack.  Both _ExitStack and its callers drop an exception; an
\* AsyncExitStack has by then given its callbacks away, so a second aclose does nothing.
Close(m) == [m EXCEPT !.open = @ \ {m.stored}]
CloseFailed(m) == [m EXCEPT !.lost = @ \union ({m.stored} \intersect m.open)]
Closed(m) ==
  IF m.stored \in m.lost THEN {m}
  ELSE {Close(m)} \union {CloseFailed(m) : c \in 1 .. MaxLost - Cardinality(m.lost)}

\* The user session of a reopened thread starts empty.
NewSession(m) == [m EXCEPT !.stored = 0]

Init ==
  /\ chat = "new" /\ link = FALSE /\ mcp = NoStacks
  /\ msgs = <<>>
  /\ pc = "idle" /\ todo = <<>> /\ answer = FALSE
  /\ iteration = 0 /\ forceFinal = FALSE /\ inGroup = FALSE
  /\ ui = <<>> /\ groupStep = 0 /\ response = 0 /\ closed = {}
  /\ turn = 0 /\ broken = {} /\ resumes = 0

\* A warning is sent; sending it may raise in its turn.
Warned(items) == {items, Append(items, Item("warning", "yes"))}

-----------------------------------------------------------------------------
(* The life of the chat.                                                   *)

\* on_chat_start with a connection to the server.
ChatStart ==
  /\ chat = "new"
  /\ chat' = "ready" /\ link' = TRUE /\ mcp' = Store(mcp)
  /\ msgs' = <<Msg("system")>>
  /\ UNCHANGED <<pc, loopVars, viewVars, turn, broken, resumes>>

\* connect_mcp raises: a warning, and the session holds nothing.
ChatStartFail ==
  /\ chat = "new"
  /\ chat' = "unavailable" /\ mcp' \in Broken(mcp)
  /\ ui' \in Warned(ui)
  /\ UNCHANGED <<link, msgs, pc, loopVars, groupStep, response, closed, turn, broken,
                 resumes>>

\* on_chat_end closes the MCP session, under a running handler too.
ChatEnd ==
  /\ chat \in {"ready", "unavailable"}
  /\ chat' = "ended" /\ link' = FALSE /\ mcp' \in Closed(mcp)
  /\ UNCHANGED <<msgs, pc, loopVars, viewVars, turn, broken, resumes>>

\* The thread is reopened in a new session, once no handler runs in it; the browser
\* has left the session before, so that on_chat_end ran if there was a connection.
Resume ==
  /\ chat \in {"ended", "unavailable"} /\ pc = "idle" /\ resumes < MaxResumes
  /\ resumes' = resumes + 1
  /\ chat' = "ready" /\ link' = TRUE /\ mcp' = Store(NewSession(mcp))
  /\ msgs' = Rebuilt(ui)
  /\ UNCHANGED <<pc, loopVars, viewVars, turn, broken>>

ResumeFail ==
  /\ chat \in {"ended", "unavailable"} /\ pc = "idle" /\ resumes < MaxResumes
  /\ resumes' = resumes + 1
  /\ chat' = "unavailable" /\ link' = FALSE /\ mcp' \in Broken(NewSession(mcp))
  /\ msgs' = <<>>
  /\ ui' \in Warned(ui)
  /\ UNCHANGED <<pc, loopVars, groupStep, response, closed, turn, broken>>

\* The MCP server drops the session (it restarted, or the network failed).
LinkLost ==
  /\ link
  /\ link' = FALSE
  /\ UNCHANGED <<chat, mcp, msgs, pc, loopVars, viewVars, turn, broken, resumes>>

-----------------------------------------------------------------------------
(* on_message and _ensure_mcp.                                             *)

\* The handler is over; its locals and those of run_agent are gone.
Return ==
  /\ pc' = "idle"
  /\ todo' = <<>> /\ answer' = FALSE
  /\ iteration' = 0 /\ forceFinal' = FALSE /\ inGroup' = FALSE
  /\ groupStep' = 0 /\ response' = 0 /\ closed' = {}

\* The user's message is shown and appended.
Send ==
  /\ chat = "ready" /\ pc = "idle" /\ turn < MaxTurns
  /\ turn' = turn + 1
  /\ ui' = Append(ui, [Item("user", "yes") EXCEPT !.turn = turn + 1])
  /\ msgs' = Append(msgs, Msg("user"))
  /\ pc' = "ensure"
  /\ UNCHANGED <<linkVars, loopVars, groupStep, response, closed, broken, resumes>>

\* No MCP session: a warning and nothing else.
Refuse ==
  /\ chat = "unavailable" /\ pc = "idle" /\ turn < MaxTurns
  /\ turn' = turn + 1
  /\ LET asked == Append(ui, [Item("user", "yes") EXCEPT !.turn = turn + 1])
     IN  ui' \in {asked, Append(asked, [Item("warning", "yes") EXCEPT !.turn = turn + 1])}
  /\ UNCHANGED <<linkVars, msgs, pc, loopVars, groupStep, response, closed, broken, resumes>>

\* list_tools answers.
EnsureOk ==
  /\ pc = "ensure" /\ link
  /\ pc' = "request"
  /\ UNCHANGED <<linkVars, msgs, loopVars, viewVars, turn, broken, resumes>>

\* Mutant: the old session is not closed.
MutantEnsureLost ==
  /\ pc = "ensure" /\ ~ link
  /\ pc' = "reconnect"
  /\ UNCHANGED <<linkVars, msgs, loopVars, viewVars, turn, broken, resumes>>

\* list_tools raises: the old session is closed.
EnsureLost ==
  /\ pc = "ensure" /\ ~ link
  /\ mcp' \in Closed(mcp)
  /\ pc' = "reconnect"
  /\ UNCHANGED <<chat, link, msgs, loopVars, viewVars, turn, broken, resumes>>

\* The new stack is stored, also when the chat ended meanwhile and will not be
\* ended again.
Reconnect ==
  /\ pc = "reconnect"
  /\ link' = TRUE
  /\ mcp' = [Store(mcp) EXCEPT !.lost = @ \union {c \in {Fresh(mcp)} : chat = "ended"}]
  /\ pc' = "request"
  /\ UNCHANGED <<chat, msgs, loopVars, viewVars, turn, broken, resumes>>

\* Mutant: the handler tries again and again.
MutantReconnectFail ==
  /\ pc = "reconnect"
  /\ pc' = "ensure"
  /\ UNCHANGED <<linkVars, msgs, loopVars, viewVars, turn, broken, resumes>>

\* The one retry fails too: a warning, and the user's message stays unanswered.
ReconnectFail ==
  /\ pc = "reconnect"
  /\ ui' \in Warned(ui)
  /\ broken' = broken \union {turn}
  /\ mcp' \in Broken(mcp)
  /\ Return
  /\ UNCHANGED <<chat, link, msgs, turn, resumes>>

-----------------------------------------------------------------------------
(* run_agent.                                                              *)

\* The history is sanitized and sent.
Request ==
  /\ pc = "request"
  /\ msgs' = Sanitize(msgs)
  /\ pc' = "stream"
  /\ UNCHANGED <<linkVars, loopVars, viewVars, turn, broken, resumes>>

\* Mutant: the loop looks at tool calls even when it is to end.
MutantReplyTools(calls, text) ==
  /\ pc = "stream"
  /\ msgs' = Append(msgs, Assistant(calls, text))
  /\ todo' = calls
  /\ pc' = IF text /\ inGroup THEN "text" ELSE "tools"
  /\ UNCHANGED <<linkVars, answer, iteration, forceFinal, inGroup, viewVars, turn, broken,
                 resumes>>

\* The reply has tool calls.  Its text is shown only if it breaks a group.
ReplyTools(calls, text) ==
  /\ pc = "stream" /\ ~ forceFinal
  /\ msgs' = Append(msgs, Assistant(calls, text))
  /\ todo' = calls
  /\ pc' = IF text /\ inGroup THEN "text" ELSE "tools"
  /\ UNCHANGED <<linkVars, answer, iteration, forceFinal, inGroup, viewVars, turn, broken,
                 resumes>>

\* on_group_end on a thread: the open group is ended.
GroupEnded(items) == IF groupStep = 0 THEN items ELSE [items EXCEPT ![groupStep].open = FALSE]

\* on_group_end, then stream_callback with every part of the text.
ShowText ==
  /\ pc = "text"
  /\ ui' = Append(GroupEnded(ui), Item("text", "no"))
  /\ groupStep' = 0 /\ inGroup' = FALSE
  /\ response' = Len(ui) + 1
  /\ pc' = "tools"
  /\ UNCHANGED <<linkVars, msgs, todo, answer, iteration, forceFinal, closed, turn, broken,
                 resumes>>

\* Mutant: a message being streamed is not closed by the tools that follow it.
MutantShowResult ==
  /\ pc = "tools" /\ todo # <<>> /\ link
  /\ IF groupStep = 0
     THEN /\ ui' = Append(ui, [Item("tools", "yes") EXCEPT !.open = TRUE])
          /\ groupStep' = Len(ui) + 1
     ELSE UNCHANGED <<ui, groupStep>>
  /\ pc' = "record"
  /\ UNCHANGED <<linkVars, msgs, loopVars, response, closed, turn, broken, resumes>>

\* A tool answers; on_tool_result closes a message being streamed, opens a group
\* if there is none, and shows the call in it.
ShowResult ==
  /\ pc = "tools" /\ todo # <<>> /\ link
  /\ closed' = IF response = 0 THEN closed ELSE closed \union {response}
  /\ response' = 0
  /\ IF groupStep = 0
     THEN /\ ui' = Append(ui, [Item("tools", "yes") EXCEPT !.open = TRUE])
          /\ groupStep' = Len(ui) + 1
     ELSE UNCHANGED <<ui, groupStep>>
  /\ pc' = "record"
  /\ UNCHANGED <<linkVars, msgs, loopVars, turn, broken, resumes>>

\* Mutant: in_group is not set after a tool was shown.
MutantRecordResult ==
  /\ pc = "record"
  /\ msgs' = Append(msgs, ToolMsg(Head(todo)))
  /\ todo' = Tail(todo)
  /\ pc' = "tools"
  /\ UNCHANGED <<linkVars, answer, iteration, forceFinal, inGroup, viewVars, turn, broken,
                 resumes>>

\* The result joins the history, cut to _MAX_TOOL_RESULT_BYTES.
RecordResult ==
  /\ pc = "record"
  /\ msgs' = Append(msgs, ToolMsg(Head(todo)))
  /\ todo' = Tail(todo)
  /\ inGroup' = TRUE
  /\ pc' = "tools"
  /\ UNCHANGED <<linkVars, answer, iteration, forceFinal, viewVars, turn, broken, resumes>>

\* Mutant: the limit is compared with > instead of >=.
MutantFinishRound ==
  /\ pc = "tools" /\ todo = <<>>
  /\ iteration' = iteration + 1
  /\ IF iteration + 1 > MaxIterations
     THEN msgs' = Append(msgs, Msg("system")) /\ forceFinal' = TRUE
     ELSE UNCHANGED <<msgs, forceFinal>>
  /\ pc' = "request"
  /\ UNCHANGED <<linkVars, todo, answer, inGroup, viewVars, turn, broken, resumes>>

\* Every tool of the round was executed.  The last round adds the limit notice.
FinishRound ==
  /\ pc = "tools" /\ todo = <<>>
  /\ iteration' = iteration + 1
  /\ IF iteration + 1 >= MaxIterations
     THEN msgs' = Append(msgs, Msg("system")) /\ forceFinal' = TRUE
     ELSE UNCHANGED <<msgs, forceFinal>>
  /\ pc' = "request"
  /\ UNCHANGED <<linkVars, todo, answer, inGroup, viewVars, turn, broken, resumes>>

\* Mutant: the group that is still open is not ended.
MutantReplyFinal(text) ==
  /\ pc = "stream"
  /\ answer' = text
  /\ inGroup' = FALSE
  /\ ui' = IF text THEN Append(ui, Item("text", "no")) ELSE ui
  /\ response' = IF text THEN Len(ui) + 1 ELSE response
  /\ pc' = "finish"
  /\ UNCHANGED <<linkVars, msgs, todo, iteration, forceFinal, groupStep, closed, turn, broken,
                 resumes>>

\* The final reply (tool calls in it are ignored once the limit is reached): the
\* open group is ended and the text is streamed.
ReplyFinal(text) ==
  /\ pc = "stream"
  /\ answer' = text
  /\ inGroup' = FALSE
  /\ groupStep' = IF inGroup THEN 0 ELSE groupStep
  /\ LET shown == IF inGroup THEN GroupEnded(ui) ELSE ui
     IN  ui' = IF text THEN Append(shown, Item("text", "no")) ELSE shown
  /\ response' = IF text THEN Len(ui) + 1 ELSE response
  /\ pc' = "finish"
  /\ UNCHANGED <<linkVars, msgs, todo, iteration, forceFinal, closed, turn, broken, resumes>>

\* update() on the items of `done`, and on those of `failed` in vain.
Updated(done, failed) ==
  [i \in DOMAIN ui |->
     [ui[i] EXCEPT !.saved = IF i \in done THEN "yes" ELSE IF i \in failed THEN "failed" ELSE @]]

\* Back in on_message: the response is saved, or an empty one sent; of the closed
\* messages any update may fail, which nobody notices; and the final text joins the
\* history.
Finish ==
  /\ pc = "finish"
  /\ \E kept \in SUBSET closed :
       LET stored == Updated(kept \union {response}, closed \ kept)
       IN  ui' = IF response = 0 THEN Append(stored, Item("blank", "yes")) ELSE stored
  /\ msgs' = Append(msgs, Assistant(<<>>, answer))
  /\ Return
  /\ UNCHANGED <<linkVars, turn, broken, resumes>>

\* Saving the response raises, outside the try of on_message, or the task is cancelled
\* at an update; the rest of on_message is not run.
FinishFail ==
  /\ pc = "finish"
  /\ \/ UNCHANGED ui
     \/ \E kept \in SUBSET closed :
          LET stored == Updated(kept \union {response}, {})
          IN  ui' = IF response = 0 THEN Append(stored, Item("blank", "yes")) ELSE stored
  /\ broken' = broken \union {turn}
  /\ Return
  /\ UNCHANGED <<linkVars, msgs, turn, resumes>>

\* Where the handler awaits; the other steps follow without giving up the thread.
Awaiting == pc \notin {"idle", "request"} /\ ~ (pc = "tools" /\ todo = <<>>)

\* The provider, a tool or one of the callbacks raises in run_agent: the message being
\* streamed is removed and a warning shown, either of which may raise again.
\* on_group_end may have ended the group before, and on_tool_result taken the message
\* over; nothing else ends the group or saves the closed messages.
AgentError ==
  /\ Awaiting /\ pc \in {"stream", "text", "tools", "record"}
  /\ \E shown \in {ui} \union {GroupEnded(ui) : c \in {"stream", "text"} \intersect {pc}} :
     \E rest \in {shown} \union {RemoveAt(shown, response) : c \in {response} \ {0}} :
       ui' \in Warned(rest)
  /\ broken' = broken \union {turn}
  /\ Return
  /\ UNCHANGED <<linkVars, msgs, turn, resumes>>

\* The user stops the task.  CancelledError passes every except clause.
Cancel ==
  /\ Awaiting /\ pc # "finish"
  /\ broken' = broken \union {turn}
  /\ mcp' \in CASE pc = "reconnect"       -> Broken(mcp)
                [] pc = "ensure" /\ ~ link -> {mcp} \union Closed(mcp)
                [] OTHER                   -> {mcp}
  /\ Return
  /\ UNCHANGED <<chat, link, msgs, ui, turn, resumes>>

-----------------------------------------------------------------------------
Lifecycle == ChatStart \/ ChatStartFail \/ ChatEnd \/ Resume \/ ResumeFail

Handler ==
  \/ EnsureOk \/ EnsureLost \/ Reconnect \/ ReconnectFail
  \/ Request \/ ShowText \/ ShowResult \/ RecordResult \/ FinishRound \/ Finish \/ FinishFail
  \/ AgentError
  \/ \E calls \in Rounds, text \in BOOLEAN : ReplyTools(calls, text)
  \/ \E text \in BOOLEAN : ReplyFinal(text)

Next == Lifecycle \/ LinkLost \/ Send \/ Refuse \/ Handler \/ Cancel

\* The event loop runs the handler, and a call to the provider or to a tool ends
\* in an answer or in an exception.  The provider's client has a timeout; call_tool is
\* given none (tool_loop.py 173), so that a tool answers is assumed of the server.
Spec == Init /\ [][Next]_vars /\ WF_vars(Handler)

-----------------------------------------------------------------------------
Messages ==
  [role : {"system", "user", "assistant", "tool"}, calls : Seq(Id \union {NoId}),
   id : Id \union {NoId}, text : BOOLEAN]

Items ==
  [kind : {"user", "tools", "text", "blank", "warning"}, turn : 0..MaxTurns,
   open : BOOLEAN, saved : {"no", "yes", "failed"}]

TypeOK ==
  /\ chat \in {"new", "ready", "unavailable", "ended"}
  /\ link \in BOOLEAN
  /\ mcp \in [open : SUBSET Nat, stored : Nat, lost : SUBSET Nat]
  /\ msgs \in Seq(Messages)
  /\ pc \in {"idle", "ensure", "reconnect", "request", "stream", "text", "tools", "record",
             "finish"}
  /\ todo \in Seq(Id \union {NoId})
  /\ answer \in BOOLEAN /\ forceFinal \in BOOLEAN /\ inGroup \in BOOLEAN
  /\ iteration \in 0..MaxIterations
  /\ ui \in Seq(Items)
  /\ groupStep \in 0..Len(ui) /\ response \in 0..Len(ui) /\ closed \subseteq 1..Len(ui)
  /\ turn \in 0..MaxTurns /\ broken \subseteq 1..MaxTurns /\ resumes \in 0..MaxResumes

\* tool_loop.py 17-50: whatever was cancelled or failed before, in the history sent to
\* the provider every tool call that has an id is answered exactly once, directly
\* after the message that made it, and no result stands anywhere else.
HistoryWellFormed ==
  pc = "stream" =>
    \A k \in DOMAIN msgs :
      /\ \A i \in Results(msgs, k) : msgs[i].id \in ToSet(msgs[k].calls)
      /\ \A c \in ToSet(msgs[k].calls) \ {NoId} :
           Cardinality({i \in Results(msgs, k) : msgs[i].id = c}) = 1

Running == pc \in {"request", "stream", "text", "tools", "record", "finish"}

\* What the handler has open, a message being streamed or a group of tool steps, is
\* the last item of the thread, and there is only one of them: tokens and steps are
\* added below what the user has already seen (app.py 418-420, 454-455).
OpenItemIsLast ==
  Running =>
    /\ response # 0 => response = Len(ui) /\ groupStep = 0
    /\ groupStep # 0 => groupStep = Len(ui) /\ ui[groupStep].open

\* run_agent's in_group and on_message's group_step are kept by two functions that
\* see each other only through callbacks; they agree whenever the loop decides.
GroupFlagAgrees ==
  pc \in {"request", "stream", "text", "tools"} => (inGroup <=> groupStep # 0)

\* A turn that is over, and neither failed nor was cancelled, leaves no group open,
\* and a reopened thread lacks a text of it only if the update of that text failed
\* and was dropped, which can only be a text with tools below it: the final reply is
\* there (app.py 484-495).
CompletedTurnIsSettled ==
  \A i \in DOMAIN ui :
    (ui[i].turn \notin broken /\ (ui[i].turn # turn \/ pc = "idle")) =>
      /\ ~ ui[i].open
      /\ \/ ui[i].saved = "yes"
         \/ /\ ui[i].saved = "failed"
            /\ \E j \in i + 1 .. Len(ui) : ui[j].kind = "tools" /\ ui[j].turn = ui[i].turn

\* mcp_client.py 50-51 leaves the closing of a connection to its holder.  One that is
\* open is the running session's, or was lost: by a connect that raised or was
\* cancelled, by one that came back after the end of its chat, or by an aclose that
\* failed (mcp_client.py 79-84); and a loop that runs in a chat has an open one that
\* will be closed.
ConnectionsAccounted ==
  /\ mcp.open \subseteq mcp.lost \union {c \in {mcp.stored} : chat = "ready"}
  /\ Running /\ chat = "ready" => mcp.stored \in mcp.open \ mcp.lost

\* Once the limit is reached the provider is asked once more and no tool runs
\* again in this turn, even if the reply asks for one (tool_loop.py 102, 150, 191).
LimitEndsTurn ==
  forceFinal => pc \notin {"text", "tools", "record"}

\* Every message of the user gets a reply, a warning or a cancellation: the loop is
\* bounded and the reconnect is tried once.
TurnEnds == pc # "idle" ~> pc = "idle"

\* tool_loop.py 82: "stream_callback receives tokens for the final (and any mid-loop)
\* text response".  When the tools of a reply are run, the reply's text has been shown.
MidLoopTextIsStreamed ==
  [][(pc' = "tools" /\ pc \in {"stream", "text"} /\ msgs'[Len(msgs')].text) =>
       response' # 0]_vars
=============================================================================
