------------------------------ MODULE AgentLoop ------------------------------
(***************************************************************************)
(* aegis/integrations/langgraph_adapter.py: an agent graph whose tool node  *)
(* asks the gateway before it calls a tool function.  The model node        *)
(* proposes a batch of calls; the tool node takes them in order, judges     *)
(* each on the latest content that is not the agent's own, calls the        *)
(* function of an executed one and answers the model with one message per   *)
(* call.  Each graph runs in the thread of its host, a worker of the        *)
(* gateway, and process is an ordinary call in it.                          *)
(*                                                                         *)
(* The chat model is any model: it proposes any batch of a given set.       *)
(***************************************************************************)
EXTENDS GatewayProperties, SequencesExt

CONSTANTS
    Graph,          \* the agent and the role each worker's graph acts for
    Batches,        \* the sequences of proposals a model message can carry
    Contents,       \* texts of messages, with what scrubbing makes of them
    Functions,      \* names in the tools dictionary
    MaxTurns        \* bound on the model's messages (the runtime has a limit, too)

Proposal == [call : Calls(Tools), args : Text]

\* The request for a proposed call with the content that motivated it.
RequestFor(graph, content, proposal) ==
    [agent |-> graph.agent, role |-> graph.role, untrusted |-> TRUE,
     content |-> content.text, scrubbed |-> content.scrubbed,
     call |-> proposal.call, args |-> proposal.args]

\* Requests, what callers may submit, has whatever the graphs can ask.
ASSUME LoopAssumption ==
    /\ Graph \in [Workers -> [agent : Agents, role : STRING]]
    /\ Batches \subseteq Seq(Proposal)
    /\ Contents \subseteq [text : Text, scrubbed : Text]
    /\ MaxTurns \in Nat
    /\ \A w \in Workers, content \in Contents, batch \in Batches :
         \A k \in 1..Len(batch) : RequestFor(Graph[w], content, batch[k]) \in Requests

VARIABLES
    loop,       \* each graph: its node and its messages
    called      \* the function calls made so far, in order

lvars == <<allvars, loop, called>>

\* In a graph's record, k is the position in the batch, id the request being
\* judged (0 if none), and out holds the tool messages made so far.  A message
\* has the type "human" or "tool" and content, or "ai" and calls; the id of a
\* tool message is the request that judged its call.

LastOf(msgs) == msgs[Len(msgs)]

\* Mutant: the first content of the conversation instead of the latest.
OldestContent(msgs) == msgs[1].content

\* The latest message that is not the agent's.
LatestContent(msgs) ==
    msgs[SelectLastInSeq(msgs, LAMBDA msg : msg.type \in {"human", "tool"})].content

Proposed(w) == LastOf(loop[w].messages).calls[loop[w].k]

RequestOf(w) == RequestFor(Graph[w], LatestContent(loop[w].messages), Proposed(w))

-----------------------------------------------------------------------------
\* agent_node and route: a message without calls ends the graph.
AgentNode(w) ==
    LET l == loop[w]
    IN  /\ l.node = "agent"
        /\ Cardinality({i \in 1..Len(l.messages) : l.messages[i].type = "ai"}) < MaxTurns
        /\ \E batch \in Batches :
             loop' = [loop EXCEPT ![w] =
                        [l EXCEPT !.messages = Append(@, [type |-> "ai", calls |-> batch]),
                                  !.node = IF batch = <<>> THEN "ended" ELSE "tools",
                                  !.k = 1]]
        /\ UNCHANGED <<allvars, called>>

\* guarded_tools_node asks the gateway about the next call of the batch.
GuardCall(w) ==
    /\ loop[w].node = "tools" /\ loop[w].id = 0
    /\ Submit(w, RequestOf(w))
    /\ loop' = [loop EXCEPT ![w].id = Len(asked) + 1]
    /\ UNCHANGED called

\* The messages msgs answer the current call; with the last one of the batch
\* the node returns them to the model.
Answers(w, msgs) ==
    LET l == loop[w]
        out == l.out \o msgs
    IN  loop' = [loop EXCEPT ![w] =
                   IF l.k < Len(LastOf(l.messages).calls)
                   THEN [l EXCEPT !.k = @ + 1, !.id = 0, !.out = out]
                   ELSE [node |-> "agent", messages |-> l.messages \o out,
                         k |-> 0, id |-> 0, out |-> <<>>]]

ToolMessage(w, content) == <<[type |-> "tool", content |-> content, id |-> loop[w].id]>>

Judged(w) == loop[w].id # 0 /\ Answered(loop[w].id)

\* Mutant: everything but a BLOCK is taken for executed.
NotBlocked(dec) == dec.verdict # "block"

MayCall(dec) == dec.executed

\* seen is the position of the content the model had when it proposed the call.
ThisCall(w) ==
    [graph |-> w, id |-> loop[w].id, seen |-> Len(loop[w].messages) - 1]

\* Mutant: an exception of the tool skips its message.
SkipsErrors(w) ==
    /\ Judged(w) /\ MayCall(answer[loop[w].id])
    /\ Proposed(w).call.tool \in Functions
    /\ called' = Append(called, ThisCall(w))
    /\ \/ \E content \in Contents : Answers(w, ToolMessage(w, content))
       \/ Answers(w, <<>>)
    /\ UNCHANGED allvars


\* The call is executed: the function returns some content, or raises and the
\* exception's text is the content.
CallFunction(w) ==
    /\ Judged(w) /\ MayCall(answer[loop[w].id])
    /\ Proposed(w).call.tool \in Functions
    /\ called' = Append(called, ThisCall(w))
    /\ \E content \in Contents : Answers(w, ToolMessage(w, content))
    /\ UNCHANGED allvars

\* An executed call without a function, and a call that was not executed: the
\* adapter words the message, and its text may get any score.
AnswerWithoutCall(w) ==
    /\ Judged(w)
    /\ ~MayCall(answer[loop[w].id]) \/ Proposed(w).call.tool \notin Functions
    /\ \E content \in Contents : Answers(w, ToolMessage(w, content))
    /\ UNCHANGED <<allvars, called>>

-----------------------------------------------------------------------------
\* graph.invoke with a user's message.
LInit ==
    /\ GInit
    /\ called = <<>>
    /\ loop \in [Workers ->
                   {[node |-> "agent", k |-> 0, id |-> 0, out |-> <<>>,
                     messages |-> <<[type |-> "human", content |-> content]>>] :
                    content \in Contents}]

InGateway(w) == Step(w) /\ UNCHANGED <<loop, called>>

\* What a graph does on its own once the model has answered.
Work(w) == InGateway(w) \/ GuardCall(w) \/ CallFunction(w) \/ AnswerWithoutCall(w)

LTick == GTick /\ UNCHANGED <<loop, called>>
LRaise(w) == Raise(w) /\ UNCHANGED <<loop, called>>

LNext == LTick \/ \E w \in Workers : AgentNode(w) \/ Work(w) \/ LRaise(w)

LSpec == LInit /\ [][LNext]_lvars

\* The host's thread goes on; nothing is assumed of the chat model.
FairLSpec == LSpec /\ \A w \in Workers : WF_lvars(Work(w))

-----------------------------------------------------------------------------
\* A tool function runs at most once for a request, and only if the gateway
\* executed that request within the policy and without a leak, whatever raised
\* (langgraph_adapter.py:97-100).
FunctionsAreGuarded ==
    /\ \A i, j \in 1..Len(called) : called[i].id = called[j].id => i = j
    /\ \A i \in 1..Len(called) :
         LET id == called[i].id
         IN  /\ effect[id].ran /\ ~effect[id].leaked
             /\ PolicyAllows(asked[id])

\* When the model is asked again, every call it proposed has exactly one tool
\* message, in order, whatever was denied or raised (langgraph_adapter.py:88-109).
EveryCallAnswered ==
    \A w \in Workers : loop[w].node = "agent" =>
        LET msgs == loop[w].messages
        IN  \A i \in 1..Len(msgs) : msgs[i].type = "ai" =>
              LET n == Len(msgs[i].calls)
              IN  /\ i + n <= Len(msgs)
                  /\ \A j \in 1..n : /\ msgs[i + j].type = "tool"
                                     /\ asked[msgs[i + j].id].call = msgs[i].calls[j].call
                  /\ i + n < Len(msgs) => msgs[i + n + 1].type = "ai"

\* "the proposed call (plus the untrusted context that motivated it) is run
\* through the gateway" (langgraph_adapter.py:4-6): no function runs on a
\* proposal whose latest context, when the model made it, was an attack.
AttackStopsNextCall ==
    \A i \in 1..Len(called) :
        LET context == loop[called[i].graph].messages[called[i].seen].content
        IN  InspectText(context.text, TRUE) < Config.thresholds.injection_block

\* "a sensitive read followed within a window by a risky egress"
\* (behavior.py:12-13): as one graph judges, runs and records one call at a
\* time, it calls no risky egress function after a sensitive read's, even if the
\* gateway raises in between (the runs keep the clock within the window).
NoEgressFunctionAfterRead ==
    \A i, j \in 1..Len(called) :
        /\ i < j /\ called[i].graph = called[j].graph
        /\ asked[called[i].id].call.tool \in SensitiveReads
        => ~IsRisky(asked[called[j].id].call)

=============================================================================
