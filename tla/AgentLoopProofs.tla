--------------------------- MODULE AgentLoopProofs ---------------------------
(***************************************************************************)
(* The agent graphs of any number of hosts, with any models, tools and      *)
(* conversations, drive the gateway as its specification allows, and keep   *)
(* what langgraph_adapter.py promises of their tool functions.              *)
(***************************************************************************)
EXTENDS AgentLoop, GatewayProofs

-----------------------------------------------------------------------------
(* The invariant *)

\* The messages of a conversation: from a human, from a tool, from the model.
Message ==
    [type : {"human"}, content : Contents]
      \cup [type : {"tool"}, content : Contents, id : Nat]
      \cup [type : {"ai"}, calls : Batches]

\* The state of one graph.
GraphState ==
    [node : {"agent", "tools", "ended"}, k : Nat, id : Nat, out : Seq(Message),
     messages : Seq(Message)]

\* A tool function call: by which graph, for which request, on which message.
CallRecord == [graph : Workers, id : Nat, seen : Nat]

\* The messages that _latest_untrusted_content looks for.
FromOutside(msg) == msg.type \in {"human", "tool"}

\* A tool message for a proposal, from a request about it (reqs: those asked).
Replies(reqs, msg, proposal) ==
    /\ msg.type = "tool" /\ msg.id \in 1..Len(reqs)
    /\ reqs[msg.id].call = proposal.call

\* The proposals among the first m messages have their replies there.
AnsweredUpTo(reqs, msgs, m) ==
    \A i \in 1..m : msgs[i].type = "ai" =>
        /\ i + Len(msgs[i].calls) <= m
        /\ \A j \in 1..Len(msgs[i].calls) : Replies(reqs, msgs[i + j], msgs[i].calls[j])
        /\ i + Len(msgs[i].calls) < m => msgs[i + Len(msgs[i].calls) + 1].type = "ai"

\* The model is asked with a conversation that ends in a message not its own.
AtAgent(reqs, l) ==
    /\ l.id = 0 /\ l.out = <<>>
    /\ Len(l.messages) >= 1 /\ FromOutside(l.messages[Len(l.messages)])
    /\ AnsweredUpTo(reqs, l.messages, Len(l.messages))

\* The last message proposes calls, on content that is the message before it.
Proposing(reqs, msgs, m) ==
    /\ m \in Nat /\ m >= 1 /\ Len(msgs) = m + 1
    /\ FromOutside(msgs[m]) /\ msgs[m + 1].type = "ai"
    /\ AnsweredUpTo(reqs, msgs, m)

\* The tool node is at call k of the last message: it has replied to those
\* before, and a request in flight is the one for this call and the content
\* the model had seen.
AtTools(reqs, g, l) ==
    LET m == Len(l.messages) - 1
        calls == l.messages[m + 1].calls
    IN  /\ Proposing(reqs, l.messages, m)
        /\ l.k \in 1..Len(calls) /\ Len(l.out) = l.k - 1
        /\ \A j \in 1..(l.k - 1) : Replies(reqs, l.out[j], calls[j])
        /\ l.id # 0 => /\ l.id \in 1..Len(reqs)
                       /\ reqs[l.id] = RequestFor(g, l.messages[m].content, calls[l.k])

\* What is true of one graph, by its node.
GraphOK(reqs, g, l) ==
    /\ l.node = "agent" => AtAgent(reqs, l)
    /\ l.node = "tools" => AtTools(reqs, g, l)
    /\ l.node = "ended" => l.id = 0

\* A call made, of a graph with messages msgs, was executed for a request of its
\* agent on the content it names.
Justified(reqs, answers, c, msgs) ==
    /\ c.id \in 1..Len(reqs) /\ answers[c.id] # Pending /\ answers[c.id].executed
    /\ c.seen \in 1..Len(msgs) /\ reqs[c.id].agent = Graph[c.graph].agent
    /\ reqs[c.id].untrusted /\ reqs[c.id].content = msgs[c.seen].content.text

\* No two graphs wait for the same request, and none for one already used.
CallsOK ==
    /\ \A i \in 1..Len(called) :
         Justified(asked, answer, called[i], loop[called[i].graph].messages)
    /\ \A i, j \in 1..Len(called) : called[i].id = called[j].id => i = j
    /\ \A i \in 1..Len(called), w \in Workers : loop[w].id # called[i].id

\* The inductive invariant of the graphs.
LoopInv ==
    /\ loop \in [Workers -> GraphState]
    /\ called \in Seq(CallRecord)
    /\ \A w \in Workers : GraphOK(asked, Graph[w], loop[w])
    /\ \A v, w \in Workers : loop[v].id = loop[w].id /\ loop[v].id # 0 => v = w
    /\ CallsOK

-----------------------------------------------------------------------------
(* Requests are only added, answers only given, conversations only continued *)

\* t continues s.
Grown(s, t) ==
    /\ Len(s) \in Nat /\ Len(t) \in Nat /\ Len(s) <= Len(t)
    /\ \A i \in 1..Len(s) : t[i] = s[i]

\* The fields of a message.
LEMMA MessageFacts ==
    ASSUME NEW msg \in Message
    PROVE  /\ msg.type \in {"human", "tool", "ai"}
           /\ msg.type = "ai" => msg.calls \in Batches /\ Len(msg.calls) \in Nat
           /\ FromOutside(msg) => msg.content \in Contents
<1>1. \A batch \in Batches : Len(batch) \in Nat
  BY LoopAssumption
<1> QED BY <1>1 DEF Message, FromOutside

\* A reply stays one when requests are added.
LEMMA ReplyGrows ==
    \A reqs, more, msg, proposal :
        Grown(reqs, more) /\ Replies(reqs, msg, proposal) => Replies(more, msg, proposal)
BY DEF Grown, Replies

\* Replies stay replies.
LEMMA AnsweredGrows ==
    ASSUME NEW reqs, NEW more, Grown(reqs, more),
           NEW msgs \in Seq(Message), NEW longer \in Seq(Message), Grown(msgs, longer),
           NEW m \in 0..Len(msgs), AnsweredUpTo(reqs, msgs, m)
    PROVE  AnsweredUpTo(more, longer, m)
<1> SUFFICES ASSUME NEW i \in 1..m, longer[i].type = "ai"
             PROVE  /\ i + Len(longer[i].calls) <= m
                    /\ \A j \in 1..Len(longer[i].calls) :
                         Replies(more, longer[i + j], longer[i].calls[j])
                    /\ i + Len(longer[i].calls) < m
                         => longer[i + Len(longer[i].calls) + 1].type = "ai"
  BY DEF AnsweredUpTo
<1>1. Len(msgs) \in Nat /\ m \in Nat /\ i \in Nat /\ m <= Len(msgs)
  OBVIOUS
<1>2. \A p \in 1..m : longer[p] = msgs[p]
  BY <1>1 DEF Grown
<1>3. msgs[i].type = "ai" /\ msgs[i] \in Message
  BY <1>1, <1>2
<1> DEFINE calls == msgs[i].calls
           n == Len(calls)
<1>4. n \in Nat
  BY <1>3, MessageFacts
<1>5. longer[i].calls = calls
  BY <1>2
<1>6. /\ i + n <= m
      /\ \A j \in 1..n : Replies(reqs, msgs[i + j], calls[j])
      /\ i + n < m => msgs[i + n + 1].type = "ai"
  BY <1>3 DEF AnsweredUpTo
<1> HIDE DEF n, calls
<1>7. ASSUME NEW j \in 1..n PROVE Replies(more, longer[i + j], calls[j])
  <2>1. i + j \in 1..m /\ Replies(reqs, msgs[i + j], calls[j])
    BY <1>1, <1>4, <1>6
  <2>2. longer[i + j] = msgs[i + j]
    BY <1>2, <2>1
  <2> QED BY <2>1, <2>2 DEF Replies, Grown
<1>8. i + n < m => longer[i + n + 1].type = "ai"
  <2>1. i + n < m => i + n + 1 \in 1..m
    BY <1>1, <1>4
  <2> QED BY <1>2, <1>6, <2>1
<1> QED BY <1>5, <1>6, <1>7, <1>8 DEF n

\* A sequence that stays continues itself.
LEMMA GrownToItself ==
    ASSUME NEW S, NEW s \in Seq(S)
    PROVE  Grown(s, s)
BY DEF Grown

\* append continues a list by one element.
LEMMA AppendGrows ==
    ASSUME NEW S, NEW s \in Seq(S), NEW x \in S
    PROVE  /\ Grown(s, Append(s, x)) /\ Append(s, x) \in Seq(S)
           /\ Len(Append(s, x)) = Len(s) + 1 /\ Append(s, x)[Len(s) + 1] = x
BY DEF Grown

\* extend continues a list by another one.
LEMMA ConcatGrows ==
    ASSUME NEW S, NEW s \in Seq(S), NEW t \in Seq(S)
    PROVE  /\ Grown(s, s \o t) /\ s \o t \in Seq(S)
           /\ Len(s \o t) = Len(s) + Len(t)
           /\ \A i \in 1..Len(t) : (s \o t)[Len(s) + i] = t[i]
BY DEF Grown

\* Whatever the gateway goes on to do, a graph that waits is as it was.
LEMMA GraphGrows ==
    ASSUME NEW reqs, NEW more, Grown(reqs, more), NEW g, NEW l \in GraphState,
           GraphOK(reqs, g, l)
    PROVE  GraphOK(more, g, l)
<1>1. l.messages \in Seq(Message) /\ Len(l.messages) \in Nat
  BY DEF GraphState
<1>2. \A m \in 0..Len(l.messages) :
        AnsweredUpTo(reqs, l.messages, m) => AnsweredUpTo(more, l.messages, m)
  BY <1>1, AnsweredGrows, GrownToItself
<1>3. AtAgent(reqs, l) => AtAgent(more, l)
  BY <1>1, <1>2 DEF AtAgent
<1>4. ASSUME AtTools(reqs, g, l) PROVE AtTools(more, g, l)
  <2> DEFINE m == Len(l.messages) - 1
             calls == l.messages[m + 1].calls
  <2>1. Proposing(reqs, l.messages, m)
    BY <1>4 DEF AtTools
  <2>2. m \in 0..Len(l.messages)
    BY <1>1, <2>1 DEF Proposing
  <2>3. Proposing(more, l.messages, m)
    BY <1>2, <2>1, <2>2 DEF Proposing
  <2>4. /\ l.k \in 1..Len(calls) /\ Len(l.out) = l.k - 1
        /\ \A j \in 1..(l.k - 1) : Replies(reqs, l.out[j], calls[j])
        /\ l.id # 0 => /\ l.id \in 1..Len(reqs)
                       /\ reqs[l.id] = RequestFor(g, l.messages[m].content, calls[l.k])
    BY <1>4 DEF AtTools
  <2> HIDE DEF m, calls
  <2>5. \A j \in 1..(l.k - 1) : Replies(more, l.out[j], calls[j])
    BY <2>4, ReplyGrows
  <2>6. l.id # 0 => /\ l.id \in 1..Len(more)
                    /\ more[l.id] = RequestFor(g, l.messages[m].content, calls[l.k])
    BY <2>4 DEF Grown
  <2> QED BY <2>3, <2>4, <2>5, <2>6 DEF AtTools, m, calls
<1> QED BY <1>3, <1>4 DEF GraphOK

\* The grounds of a call made stay.
LEMMA JustifiedGrows ==
    ASSUME NEW reqs, NEW more, Grown(reqs, more), NEW answers, NEW later,
           \A id \in 1..Len(reqs) : answers[id] # Pending => later[id] = answers[id],
           NEW msgs, NEW longer, Grown(msgs, longer), NEW c, Justified(reqs, answers, c, msgs)
    PROVE  Justified(more, later, c, longer)
<1>1. /\ c.id \in 1..Len(reqs) /\ answers[c.id] # Pending /\ answers[c.id].executed
      /\ c.seen \in 1..Len(msgs) /\ reqs[c.id].agent = Graph[c.graph].agent
      /\ reqs[c.id].untrusted /\ reqs[c.id].content = msgs[c.seen].content.text
  BY DEF Justified
<1>2. c.id \in 1..Len(more) /\ c.seen \in 1..Len(longer)
  BY <1>1 DEF Grown
<1>3. more[c.id] = reqs[c.id] /\ later[c.id] = answers[c.id]
      /\ longer[c.seen] = msgs[c.seen]
  BY <1>1 DEF Grown
<1> QED BY <1>1, <1>2, <1>3 DEF Justified

\* No step of the gateway takes back a request or an answer.
LEMMA GatewayGrows ==
    ASSUME GatewayTypeOK, RequestInv, [GNext]_allvars, GatewayTypeOK'
    PROVE  /\ Grown(asked, asked')
           /\ \A id \in 1..Len(asked) : answer[id] # Pending => answer'[id] = answer[id]
<1>1. Len(asked) \in Nat /\ Len(asked') \in Nat /\ Ids = 1..Len(asked)
  BY DEF GatewayTypeOK, Ids
<1>2. ASSUME NEW w \in Workers, NEW req \in Requests, Submit(w, req)
      PROVE  /\ Grown(asked, asked')
             /\ \A id \in Ids : answer[id] # Pending => answer'[id] = answer[id]
  <2>1. Len(asked') = Len(asked) + 1
    BY <1>2 DEF Submit, GatewayTypeOK
  <2> QED BY <1>1, <1>2, <2>1, SubmitFacts DEF Grown
<1>3. ASSUME NEW w \in Workers, Step(w) \/ Raise(w)
      PROVE  /\ Grown(asked, asked')
             /\ \A id \in Ids : answer[id] # Pending => answer'[id] = answer[id]
  <2>1. asked' = asked /\ \A id \in Ids \ {job[w].id} : answer'[id] = answer[id]
    BY <1>3, FrameStep
  <2>2. answer[job[w].id] = Pending
    BY <1>3, StepFacts DEF RequestInv, Owned, Answered
  <2> QED BY <1>1, <2>1, <2>2 DEF Grown
<1>4. CASE GTick \/ UNCHANGED allvars
  <2>1. asked' = asked /\ answer' = answer
    BY <1>4 DEF GTick, gvars, allvars
  <2> QED BY <1>1, <2>1 DEF Grown
<1> QED BY <1>1, <1>2, <1>3, <1>4 DEF GNext

-----------------------------------------------------------------------------
(* The graphs' own steps *)

\* The content a call is judged on is that of the message before the proposal.
LEMMA LatestFacts ==
    ASSUME NEW reqs, NEW msgs \in Seq(Message), NEW m, Proposing(reqs, msgs, m)
    PROVE  LatestContent(msgs) = msgs[m].content
<1> DEFINE I == {i \in 1..Len(msgs) : msgs[i].type \in {"human", "tool"}}
<1>1. m \in Nat /\ m >= 1 /\ Len(msgs) = m + 1 /\ m \in I /\ m + 1 \notin I
  BY DEF Proposing, FromOutside
<1>2. \A i \in I : m >= i
  BY <1>1
<1>3. \A x \in I : (\A y \in I : x >= y) => x = m
  BY <1>1, <1>2
<1>4. (CHOOSE x \in I : \A y \in I : x >= y) = m
  BY <1>1, <1>2, <1>3
<1>5. I # {}
  BY <1>1
<1>6. SelectLastInSeq(msgs, LAMBDA msg : msg.type \in {"human", "tool"})
        = CHOOSE x \in I : \A y \in I : x >= y
  BY <1>5 DEF SelectLastInSeq, Max
<1> QED BY <1>4, <1>6 DEF LatestContent

\* With the replies to a batch the conversation is complete.
LEMMA BatchAnswered ==
    ASSUME NEW reqs, NEW msgs \in Seq(Message), NEW m, Proposing(reqs, msgs, m),
           Len(reqs) \in Nat,
           NEW out \in Seq(Message), Len(out) = Len(msgs[m + 1].calls), Len(out) >= 1,
           \A j \in 1..Len(out) : Replies(reqs, out[j], msgs[m + 1].calls[j])
    PROVE  /\ FromOutside((msgs \o out)[Len(msgs \o out)])
           /\ AnsweredUpTo(reqs, msgs \o out, Len(msgs \o out))
<1> DEFINE all == msgs \o out
           n == Len(out)
<1>0. Grown(reqs, reqs)
  BY DEF Grown
<1>1. m \in Nat /\ m >= 1 /\ Len(msgs) = m + 1 /\ n \in Nat /\ n >= 1
  BY DEF Proposing
<1>2. /\ Grown(msgs, all) /\ all \in Seq(Message) /\ Len(all) = m + 1 + n
      /\ \A j \in 1..n : all[m + 1 + j] = out[j]
  <2>0. msgs \in Seq(Message) /\ out \in Seq(Message)
    OBVIOUS
  <2>1. /\ Grown(msgs, all) /\ all \in Seq(Message)
        /\ Len(all) = Len(msgs) + n
        /\ \A j \in 1..n : all[Len(msgs) + j] = out[j]
    BY ONLY <2>0, ConcatGrows, Zenon
  <2> HIDE DEF all, n
  <2>2. Len(msgs) = m + 1
    BY <1>1
  <2>3. ASSUME NEW j \in 1..n PROVE all[m + 1 + j] = out[j]
    <3>1. all[Len(msgs) + j] = out[j]
      BY <2>1
    <3> QED BY ONLY <2>2, <3>1, Zenon
  <2>4. Len(all) = m + 1 + n
    BY ONLY <2>1, <2>2, Zenon
  <2> QED BY ONLY <2>1, <2>3, <2>4, Zenon
<1>3. /\ \A i \in 1..(m + 1) : all[i] = msgs[i]
      /\ m \in 0..Len(msgs) /\ m + 1 \in 1..Len(msgs)
  BY <1>1, <1>2 DEF Grown
<1> DEFINE calls == msgs[m + 1].calls
<1>4. \A j \in 1..n : Replies(reqs, all[m + 1 + j], calls[j])
  BY <1>2
<1>5. all[m + 1].type = "ai" /\ all[m + 1].calls = calls /\ Len(calls) = n
  BY <1>1, <1>3 DEF Proposing
<1> HIDE DEF all, n, calls
<1>6. \A j \in 1..n : all[m + 1 + j].type = "tool"
  BY <1>4 DEF Replies
<1>7. AnsweredUpTo(reqs, all, m)
  <2>1. AnsweredUpTo(reqs, msgs, m)
    BY DEF Proposing
  <2>2. Grown(reqs, reqs)
    BY <1>0
  <2> QED BY <1>2, <1>3, <2>1, <2>2, AnsweredGrows
<1>8. ASSUME NEW i \in 1..(m + 1 + n), all[i].type = "ai"
      PROVE  LET c == all[i].calls
             IN  /\ i + Len(c) <= m + 1 + n
                 /\ \A j \in 1..Len(c) : Replies(reqs, all[i + j], c[j])
                 /\ i + Len(c) < m + 1 + n => all[i + Len(c) + 1].type = "ai"
  <2>1. CASE i \in 1..m
    <3> DEFINE c == all[i].calls
    <3>1. /\ i + Len(c) <= m
          /\ \A j \in 1..Len(c) : Replies(reqs, all[i + j], c[j])
          /\ i + Len(c) < m => all[i + Len(c) + 1].type = "ai"
      BY <1>7, <1>8, <2>1 DEF AnsweredUpTo
    <3>2. Len(c) \in Nat
      <4>1. all[i] \in Message
        BY <1>2
      <4> QED BY <1>8, <4>1, MessageFacts
    <3> HIDE DEF c
    <3>3. i + Len(c) = m \/ i + Len(c) < m
      <4>1. i + Len(c) \in Int /\ m \in Int
        BY <1>1, <3>2
      <4> QED BY ONLY <3>1, <4>1
    <3>4. i + Len(c) = m => all[i + Len(c) + 1].type = "ai"
      BY <1>5
    <3>5. /\ i + Len(c) <= m + 1 + n
          /\ i + Len(c) < m + 1 + n => all[i + Len(c) + 1].type = "ai"
      <4>1. i \in Nat
        BY <1>1
      <4>2. i + Len(c) <= m + 1 + n
        BY <1>1, <3>1, <3>2, <4>1
      <4> QED BY <3>1, <3>3, <3>4, <4>2
    <3> QED BY <3>1, <3>5 DEF c
  <2>2. CASE i = m + 1
    <3>1. all[i].calls = calls /\ Len(calls) = n
      BY <1>5, <2>2
    <3>2. \A j \in 1..n : Replies(reqs, all[i + j], calls[j])
      BY <1>4, <2>2
    <3>3. i + n = m + 1 + n
      BY <2>2
    <3> QED BY <1>1, <3>1, <3>2, <3>3
  <2>3. CASE i > m + 1
    <3>1. i - (m + 1) \in 1..n /\ i = m + 1 + (i - (m + 1))
      BY <1>1, <2>3
    <3>2. all[i].type = "tool"
      BY <1>6, <3>1
    <3> QED BY <1>8, <3>2
  <2> QED BY <1>1, <2>1, <2>2, <2>3
<1>9. AnsweredUpTo(reqs, all, m + 1 + n)
  BY <1>8 DEF AnsweredUpTo
<1>10. FromOutside(all[m + 1 + n])
  BY <1>1, <1>6 DEF FromOutside
<1> QED BY <1>2, <1>9, <1>10 DEF all

\* Asking the model adds its message; the proposals in it are not answered yet.
LEMMA AgentNodeFacts ==
    ASSUME loop \in [Workers -> GraphState], NEW w \in Workers, GatewayTypeOK,
           GraphOK(asked, Graph[w], loop[w]), AgentNode(w)
    PROVE  /\ loop' \in [Workers -> GraphState]
           /\ \A v \in Workers \ {w} : loop'[v] = loop[v]
           /\ loop'[w].id = 0 /\ GraphOK(asked, Graph[w], loop'[w])
           /\ Grown(loop[w].messages, loop'[w].messages)
<1> DEFINE l == loop[w]
           m == Len(l.messages)
<1>1. PICK batch \in Batches :
        loop' = [loop EXCEPT ![w] =
                   [l EXCEPT !.messages = Append(@, [type |-> "ai", calls |-> batch]),
                             !.node = IF batch = <<>> THEN "ended" ELSE "tools",
                             !.k = 1]]
  BY DEF AgentNode
<1> DEFINE msg == [type |-> "ai", calls |-> batch]
           msgs == Append(l.messages, msg)
<1>2. l \in GraphState /\ l.messages \in Seq(Message) /\ m \in Nat /\ l.out \in Seq(Message)
  BY DEF GraphState
<1>3. msg \in Message /\ msg.type = "ai" /\ msg.calls = batch
  BY DEF Message
<1>4. AtAgent(asked, l)
  BY DEF GraphOK, AgentNode
<1> HIDE DEF msg
<1>5. /\ Grown(l.messages, msgs) /\ msgs \in Seq(Message)
      /\ Len(msgs) = m + 1 /\ msgs[m + 1] = msg
  BY <1>2, <1>3, AppendGrows
<1> HIDE DEF msgs
<1>6. /\ loop'[w].messages = msgs /\ loop'[w].id = l.id /\ loop'[w].out = l.out
      /\ loop'[w].k = 1 /\ loop'[w].node = IF batch = <<>> THEN "ended" ELSE "tools"
      /\ \A v \in Workers \ {w} : loop'[v] = loop[v]
  BY <1>1, <1>2 DEF GraphState, msgs, msg
<1>7. loop' \in [Workers -> GraphState]
  BY <1>1, <1>2, <1>5 DEF GraphState, msgs, msg
<1>8. Proposing(asked, msgs, m)
  <2>1. m >= 1 /\ FromOutside(l.messages[m]) /\ AnsweredUpTo(asked, l.messages, m)
    BY <1>4 DEF AtAgent
  <2>2. msgs[m] = l.messages[m] /\ m \in 0..m
    BY <1>2, <1>5, <2>1 DEF Grown
  <2>3. Grown(asked, asked)
    BY DEF GatewayTypeOK, Grown
  <2>4. AnsweredUpTo(asked, msgs, m)
    BY <1>2, <1>5, <2>1, <2>2, <2>3, AnsweredGrows
  <2> QED BY <1>2, <1>3, <1>5, <2>1, <2>2, <2>4 DEF Proposing
<1>9. ASSUME batch # <<>> PROVE AtTools(asked, Graph[w], loop'[w])
  <2>1. batch \in Seq(Proposal) /\ Len(batch) \in Nat /\ Len(batch) >= 1
    BY <1>9, LoopAssumption
  <2>2. l.id = 0 /\ l.out = <<>>
    BY <1>4 DEF AtAgent
  <2>3. Len(loop'[w].messages) - 1 = m /\ loop'[w].messages[m + 1].calls = batch
    BY <1>2, <1>3, <1>5, <1>6
  <2>4. loop'[w].id = 0 /\ Len(loop'[w].out) = 0 /\ loop'[w].k = 1
    BY <1>6, <2>2
  <2> QED BY <1>6, <1>8, <2>1, <2>3, <2>4 DEF AtTools
<1>10. l.id = 0
  BY <1>4 DEF AtAgent
<1>11. GraphOK(asked, Graph[w], loop'[w])
  BY <1>6, <1>9, <1>10 DEF GraphOK
<1> QED BY <1>5, <1>6, <1>7, <1>10, <1>11

\* The tool node's request is one that callers may submit.
LEMMA RequestOfFacts ==
    ASSUME loop \in [Workers -> GraphState], NEW w \in Workers, AtTools(asked, Graph[w], loop[w])
    PROVE  LET m == Len(loop[w].messages) - 1
               calls == loop[w].messages[m + 1].calls
           IN  /\ RequestOf(w)
                    = RequestFor(Graph[w], loop[w].messages[m].content, calls[loop[w].k])
               /\ RequestOf(w) \in Requests
               /\ loop[w].messages[m].content \in Contents
               /\ Proposed(w) = calls[loop[w].k]
<1> DEFINE msgs == loop[w].messages
           m == Len(msgs) - 1
           calls == msgs[m + 1].calls
<1>1. msgs \in Seq(Message)
  BY DEF GraphState
<1>2. Proposing(asked, msgs, m) /\ loop[w].k \in 1..Len(calls)
  BY DEF AtTools
<1>3. /\ m \in Nat /\ Len(msgs) = m + 1 /\ msgs[m] \in Message /\ msgs[m + 1] \in Message
      /\ FromOutside(msgs[m]) /\ msgs[m + 1].type = "ai"
  BY <1>1, <1>2 DEF Proposing
<1>4. msgs[m].content \in Contents /\ calls \in Batches
  BY <1>3, MessageFacts
<1>5. LatestContent(msgs) = msgs[m].content
  BY <1>1, <1>2, LatestFacts
<1>6. Proposed(w) = calls[loop[w].k]
  BY <1>3 DEF Proposed, LastOf
<1> HIDE DEF calls, m
<1>7. RequestOf(w) = RequestFor(Graph[w], msgs[m].content, calls[loop[w].k])
  BY <1>5, <1>6 DEF RequestOf
<1>8. RequestFor(Graph[w], msgs[m].content, calls[loop[w].k]) \in Requests
  BY <1>2, <1>4, LoopAssumption
<1> QED BY <1>4, <1>6, <1>7, <1>8 DEF calls, m

\* Calling process adds the request for the current call, and only that.
LEMMA GuardCallFacts ==
    ASSUME LoopInv, GatewayTypeOK, NEW w \in Workers, GuardCall(w)
    PROVE  /\ RequestOf(w) \in Requests
           /\ loop' \in [Workers -> GraphState]
           /\ \A v \in Workers \ {w} : loop'[v] = loop[v]
           /\ loop'[w].id = Len(asked) + 1 /\ GraphOK(asked', Graph[w], loop'[w])
           /\ loop'[w].messages = loop[w].messages
<1> DEFINE l == loop[w]
           m == Len(l.messages) - 1
           calls == l.messages[m + 1].calls
           new == Len(asked) + 1
<1>1. l \in GraphState /\ l.node = "tools" /\ l.id = 0 /\ Len(asked) \in Nat
  BY DEF LoopInv, GuardCall, GatewayTypeOK
<1>2. AtTools(asked, Graph[w], l)
  BY <1>1 DEF LoopInv, GraphOK
<1>3. RequestOf(w) \in Requests
      /\ RequestOf(w) = RequestFor(Graph[w], l.messages[m].content, calls[l.k])
  BY <1>2, RequestOfFacts DEF LoopInv
<1>4. loop' = [loop EXCEPT ![w].id = new] /\ Submit(w, RequestOf(w))
  BY DEF GuardCall
<1>5. /\ loop'[w].messages = l.messages /\ loop'[w].id = new /\ loop'[w].out = l.out
      /\ loop'[w].k = l.k /\ loop'[w].node = "tools"
      /\ \A v \in Workers \ {w} : loop'[v] = loop[v]
      /\ loop' \in [Workers -> GraphState]
  <2>1. loop \in [Workers -> GraphState] /\ new \in Nat
    BY <1>1 DEF LoopInv
  <2> HIDE DEF new
  <2>2. loop' = [loop EXCEPT ![w] = [l EXCEPT !.id = new]]
    BY <1>4, <2>1
  <2>3. /\ [l EXCEPT !.id = new] \in GraphState /\ [l EXCEPT !.id = new].id = new
        /\ [l EXCEPT !.id = new].messages = l.messages /\ [l EXCEPT !.id = new].out = l.out
        /\ [l EXCEPT !.id = new].k = l.k /\ [l EXCEPT !.id = new].node = "tools"
    BY ZenonT(60), <1>1, <2>1 DEF GraphState
  <2> QED BY <2>1, <2>2, <2>3
<1>6. Len(asked') = new /\ asked'[new] = RequestOf(w) /\ Grown(asked, asked')
  <2>1. /\ asked' = Append(asked, RequestOf(w)) /\ asked \in Seq(Requests)
    BY <1>4 DEF Submit, GatewayTypeOK
  <2> QED BY ZenonT(60), <1>1, <1>3, <2>1, AppendGrows
<1>7. GraphOK(asked', Graph[w], l)
  BY <1>1, <1>6, GraphGrows DEF LoopInv
<1>8. AtTools(asked', Graph[w], loop'[w])
  <2>1. AtTools(asked', Graph[w], l)
    BY <1>1, <1>7 DEF GraphOK
  <2>2. new \in 1..Len(asked') /\ new # 0
    BY <1>1, <1>6
  <2> HIDE DEF new, l
  <2> QED BY <1>3, <1>5, <1>6, <2>1, <2>2 DEF AtTools
<1> QED BY <1>3, <1>5, <1>8 DEF GraphOK

\* A reply moves the tool node to its next call, or the batch to the model.
LEMMA AnswersFacts ==
    ASSUME LoopInv, GatewayTypeOK, NEW w \in Workers, Judged(w), NEW content \in Contents,
           Answers(w, ToolMessage(w, content))
    PROVE  /\ loop' \in [Workers -> GraphState]
           /\ \A v \in Workers \ {w} : loop'[v] = loop[v]
           /\ loop'[w].id = 0 /\ GraphOK(asked, Graph[w], loop'[w])
           /\ Grown(loop[w].messages, loop'[w].messages)
<1> DEFINE l == loop[w]
           m == Len(l.messages) - 1
           calls == l.messages[m + 1].calls
           msg == [type |-> "tool", content |-> content, id |-> l.id]
           out == Append(l.out, msg)
<1>1. /\ l \in GraphState /\ l.messages \in Seq(Message) /\ l.out \in Seq(Message)
      /\ l.id \in Nat /\ l.id # 0 /\ l.k \in Nat
  BY DEF LoopInv, GraphState, Judged
<1>2. AtTools(asked, Graph[w], l)
  BY <1>1 DEF LoopInv, GraphOK, AtAgent, GraphState
<1>3. /\ Proposing(asked, l.messages, m)
      /\ l.k \in 1..Len(calls) /\ Len(l.out) = l.k - 1
      /\ \A j \in 1..(l.k - 1) : Replies(asked, l.out[j], calls[j])
      /\ l.id \in 1..Len(asked)
      /\ asked[l.id] = RequestFor(Graph[w], l.messages[m].content, calls[l.k])
  BY <1>1, <1>2 DEF AtTools
<1>4. msg \in Message /\ Replies(asked, msg, calls[l.k])
  <2>1. msg \in Message
    BY <1>1 DEF Message
  <2>2. asked[l.id].call = calls[l.k].call
    BY <1>3 DEF RequestFor
  <2>3. msg.type = "tool" /\ msg.id = l.id
    OBVIOUS
  <2> QED BY <1>3, <2>1, <2>2, <2>3 DEF Replies
<1>5. m \in Nat /\ Len(l.messages) = m + 1 /\ Len(calls) \in Nat
  <2>1. m \in Nat /\ Len(l.messages) = m + 1 /\ l.messages[m + 1].type = "ai"
    BY <1>3 DEF Proposing
  <2>2. l.messages[m + 1] \in Message
    BY <1>1, <2>1
  <2> QED BY <2>1, <2>2, MessageFacts
<1>6. LastOf(l.messages).calls = calls
  BY <1>5 DEF LastOf
<1>7. /\ out \in Seq(Message) /\ Len(out) = l.k
      /\ \A j \in 1..l.k : Replies(asked, out[j], calls[j])
  <2>1. /\ Grown(l.out, out) /\ out \in Seq(Message)
        /\ Len(out) = Len(l.out) + 1 /\ out[Len(l.out) + 1] = msg
    BY <1>1, <1>4, AppendGrows
  <2> HIDE DEF out, msg, calls
  <2>2. out[l.k] = msg /\ Len(out) = l.k
    BY <1>1, <1>3, <2>1
  <2>3. \A j \in 1..(l.k - 1) : out[j] = l.out[j]
    BY <1>3, <2>1 DEF Grown
  <2>4. \A j \in 1..l.k : j \in 1..(l.k - 1) \/ j = l.k
    BY <1>1
  <2> QED BY <1>3, <1>4, <2>1, <2>2, <2>3, <2>4
<1>8. l.out \o ToolMessage(w, content) = out
  BY <1>1 DEF ToolMessage
<1>9. loop' = [loop EXCEPT ![w] =
                IF l.k < Len(calls)
                THEN [l EXCEPT !.k = @ + 1, !.id = 0, !.out = out]
                ELSE [node |-> "agent", messages |-> l.messages \o out,
                      k |-> 0, id |-> 0, out |-> <<>>]]
  BY <1>6, <1>8 DEF Answers
<1> HIDE DEF out, msg, calls, m
<1>10. CASE l.k < Len(calls)
  <2>1. loop' = [loop EXCEPT ![w] = [l EXCEPT !.k = @ + 1, !.id = 0, !.out = out]]
    BY <1>9, <1>10
  <2>2. /\ loop'[w].messages = l.messages /\ loop'[w].id = 0 /\ loop'[w].out = out
        /\ loop'[w].k = l.k + 1 /\ loop'[w].node = l.node
        /\ \A v \in Workers \ {w} : loop'[v] = loop[v]
        /\ loop' \in [Workers -> GraphState]
    <3> DEFINE next == l.k + 1
               r == [l EXCEPT !.k = next, !.id = 0, !.out = out]
    <3>1. /\ r \in GraphState /\ r.messages = l.messages /\ r.id = 0 /\ r.out = out
          /\ r.k = next /\ r.node = l.node
      <4>1. l \in GraphState /\ next \in Nat /\ out \in Seq(Message)
        BY <1>1, <1>7
      <4> HIDE DEF l, next
      <4>2. r = [l EXCEPT !.k = next, !.id = 0, !.out = out]
        OBVIOUS
      <4> HIDE DEF r
      <4> QED BY ONLY <4>1, <4>2 DEF GraphState
    <3> HIDE DEF r
    <3>2. loop' = [loop EXCEPT ![w] = r] /\ loop \in [Workers -> GraphState]
      BY <2>1 DEF r, LoopInv
    <3> QED BY <3>1, <3>2
  <2>3. l.node = "tools"
    BY <1>1 DEF LoopInv, GraphOK, AtAgent, GraphState
  <2>4. l.k + 1 \in 1..Len(calls) /\ Len(out) = (l.k + 1) - 1 /\ (l.k + 1) - 1 = l.k
    BY <1>1, <1>5, <1>7, <1>10
  <2>5. AtTools(asked, Graph[w], loop'[w])
    BY <1>3, <1>7, <2>2, <2>4 DEF AtTools, calls, m
  <2>6. Grown(l.messages, l.messages)
    BY <1>1, GrownToItself
  <2> QED BY <2>2, <2>3, <2>5, <2>6 DEF GraphOK
<1>11. CASE ~(l.k < Len(calls))
  <2> DEFINE msgs == l.messages \o out
  <2>1. l.k = Len(calls)
    BY <1>3, <1>5, <1>11
  <2>2. /\ Grown(l.messages, msgs) /\ msgs \in Seq(Message)
        /\ Len(msgs) = Len(l.messages) + Len(out)
    BY <1>1, <1>7, ConcatGrows
  <2>3. FromOutside(msgs[Len(msgs)]) /\ AnsweredUpTo(asked, msgs, Len(msgs))
    <3>1. /\ Len(out) = Len(l.messages[m + 1].calls) /\ Len(out) >= 1
          /\ \A j \in 1..Len(out) : Replies(asked, out[j], l.messages[m + 1].calls[j])
      BY <1>3, <1>7, <2>1 DEF calls
    <3>2. Len(asked) \in Nat
      BY DEF GatewayTypeOK
    <3> QED BY <1>1, <1>3, <1>7, <3>1, <3>2, BatchAnswered
  <2> HIDE DEF msgs
  <2>4. loop' = [loop EXCEPT ![w] = [node |-> "agent", messages |-> msgs,
                                     k |-> 0, id |-> 0, out |-> <<>>]]
    BY <1>9, <1>11 DEF msgs
  <2>5. /\ loop'[w].messages = msgs /\ loop'[w].id = 0 /\ loop'[w].out = <<>>
        /\ loop'[w].node = "agent"
        /\ \A v \in Workers \ {w} : loop'[v] = loop[v]
        /\ loop' \in [Workers -> GraphState]
    BY <2>2, <2>4 DEF LoopInv, GraphState
  <2>6. Len(msgs) >= 1
    BY <1>5, <1>7, <1>1, <2>2
  <2> QED BY <2>2, <2>3, <2>5, <2>6 DEF GraphOK, AtAgent
<1> QED BY <1>10, <1>11

-----------------------------------------------------------------------------
(* The invariant holds *)

\* A step of one graph, or none: what it must show for the rest to follow.
LEMMA GraphStep ==
    ASSUME LoopInv, Grown(asked, asked'),
           \A id \in 1..Len(asked) : answer[id] # Pending => answer'[id] = answer[id],
           NEW w \in Workers, loop' \in [Workers -> GraphState],
           \A v \in Workers \ {w} : loop'[v] = loop[v],
           GraphOK(asked', Graph[w], loop'[w]),
           Grown(loop[w].messages, loop'[w].messages),
           loop'[w].id = 0 \/ loop'[w].id \notin 1..Len(asked),
           \A v \in Workers : loop[v].id = 0 \/ loop[v].id \in 1..Len(asked),
           \/ called' = called
           \/ /\ loop'[w].id = 0
              /\ \E c \in CallRecord :
                   /\ called' = Append(called, c)
                   /\ c.graph = w /\ c.id = loop[w].id
                   /\ Justified(asked, answer, c, loop[w].messages)
    PROVE  LoopInv'
<1>1. /\ loop \in [Workers -> GraphState] /\ called \in Seq(CallRecord)
      /\ \A v \in Workers : GraphOK(asked, Graph[v], loop[v])
      /\ \A u, v \in Workers : loop[u].id = loop[v].id /\ loop[u].id # 0 => u = v
      /\ \A i \in 1..Len(called) :
           Justified(asked, answer, called[i], loop[called[i].graph].messages)
      /\ \A i, j \in 1..Len(called) : called[i].id = called[j].id => i = j
      /\ \A i \in 1..Len(called), v \in Workers : loop[v].id # called[i].id
  BY DEF LoopInv, CallsOK
<1>2. \A v \in Workers : GraphOK(asked', Graph[v], loop'[v])
  <2>1. ASSUME NEW v \in Workers, v # w PROVE GraphOK(asked', Graph[v], loop'[v])
    <3>1. loop'[v] = loop[v] /\ loop[v] \in GraphState /\ GraphOK(asked, Graph[v], loop[v])
      BY <1>1, <2>1
    <3> QED BY <3>1, GraphGrows
  <2> QED BY <2>1
<1>3. ASSUME NEW u \in Workers, NEW v \in Workers, loop'[u].id = loop'[v].id, loop'[u].id # 0
      PROVE  u = v
  BY <1>1, <1>3
<1>4. \A v \in Workers : Grown(loop[v].messages, loop'[v].messages)
  <2> SUFFICES ASSUME NEW v \in Workers, v # w
               PROVE  Grown(loop[v].messages, loop'[v].messages)
    OBVIOUS
  <2>1. loop'[v].messages = loop[v].messages /\ loop[v].messages \in Seq(Message)
    BY <1>1 DEF GraphState
  <2> QED BY <2>1, GrownToItself
<1>5. ASSUME NEW c \in CallRecord, Justified(asked, answer, c, loop[c.graph].messages)
      PROVE  Justified(asked', answer', c, loop'[c.graph].messages)
  <2>1. c.graph \in Workers
    BY DEF CallRecord
  <2> DEFINE msgs == loop[c.graph].messages
             longer == loop'[c.graph].messages
  <2>2. Grown(msgs, longer) /\ Justified(asked, answer, c, msgs)
    BY <1>4, <1>5, <2>1
  <2> HIDE DEF msgs, longer
  <2>3. Justified(asked', answer', c, longer)
    BY <2>2, JustifiedGrows
  <2> QED BY <2>3 DEF longer
<1>6. \A c \in CallRecord : \A msgs : Justified(asked, answer, c, msgs) => c.id \in 1..Len(asked)
  BY DEF Justified
<1>7. \A i \in 1..Len(called) : called[i] \in CallRecord /\ called[i].id \in 1..Len(asked)
  BY <1>1, <1>6
<1>8. Len(asked) \in Nat
  BY DEF Grown
<1>9. CASE called' = called
  <2>1. \A i \in 1..Len(called') :
          Justified(asked', answer', called'[i], loop'[called'[i].graph].messages)
    BY <1>1, <1>5, <1>7, <1>9
  <2>2. \A i \in 1..Len(called'), v \in Workers : loop'[v].id # called'[i].id
    <3> SUFFICES ASSUME NEW i \in 1..Len(called), NEW v \in Workers
                 PROVE  loop'[v].id # called[i].id
      BY <1>9
    <3>1. called[i].id \in 1..Len(asked) /\ loop[v].id # called[i].id
      BY <1>1, <1>7
    <3>2. called[i].id # 0
      BY <1>8, <3>1
    <3> QED BY <3>1, <3>2
  <2>3. CallsOK'
    BY <1>1, <1>9, <2>1, <2>2 DEF CallsOK
  <2> QED BY <1>1, <1>2, <1>3, <1>9, <2>3 DEF LoopInv
<1>10. ASSUME loop'[w].id = 0, NEW c \in CallRecord, called' = Append(called, c),
              c.graph = w, c.id = loop[w].id, Justified(asked, answer, c, loop[w].messages)
       PROVE  LoopInv'
  <2> DEFINE n == Len(called)
  <2>1. /\ n \in Nat /\ called' \in Seq(CallRecord) /\ Len(called') = n + 1
        /\ called'[n + 1] = c /\ \A i \in 1..n : called'[i] = called[i]
    BY <1>1, <1>10
  <2>2. c.id \in 1..Len(asked) /\ \A i \in 1..n : called[i].id # c.id
    BY <1>1, <1>6, <1>10
  <2> HIDE DEF n
  <2>3. \A i \in 1..(n + 1) : i = n + 1 \/ i \in 1..n
    BY <2>1
  <2>4. \A i \in 1..(n + 1) :
          Justified(asked', answer', called'[i], loop'[called'[i].graph].messages)
    <3>1. Justified(asked', answer', c, loop'[c.graph].messages)
      BY <1>5, <1>10
    <3>2. \A i \in 1..n : Justified(asked', answer', called[i], loop'[called[i].graph].messages)
      BY <1>1, <1>5, <1>7 DEF n
    <3> QED BY <2>1, <2>3, <3>1, <3>2
  <2>5. \A i, j \in 1..(n + 1) : called'[i].id = called'[j].id => i = j
    BY <1>1, <2>1, <2>2, <2>3 DEF n
  <2>6. \A i \in 1..(n + 1), v \in Workers : loop'[v].id # called'[i].id
    <3> SUFFICES ASSUME NEW i \in 1..(n + 1), NEW v \in Workers
                 PROVE  loop'[v].id # called'[i].id
      OBVIOUS
    <3>1. called'[i].id \in 1..Len(asked)
      BY <1>7, <2>1, <2>2, <2>3 DEF n
    <3>2. called'[i].id # 0
      BY <1>8, <3>1
    <3>3. CASE v = w
      BY <1>10, <3>2, <3>3
    <3>4. CASE v # w
      <4>1. loop'[v].id = loop[v].id
        BY <3>4
      <4>2. loop[v].id # c.id
        BY <1>1, <1>8, <1>10, <2>2, <3>4
      <4>3. \A p \in 1..n : loop[v].id # called[p].id
        BY <1>1 DEF n
      <4> QED BY <2>1, <2>3, <4>1, <4>2, <4>3
    <3> QED BY <3>3, <3>4
  <2>7. CallsOK'
    BY <2>1, <2>4, <2>5, <2>6 DEF CallsOK
  <2> QED BY <1>2, <1>3, <2>1, <2>7 DEF LoopInv
<1> QED BY <1>9, <1>10

\* A graph waits for nothing or for a request that was asked.
LEMMA WaitsForAsked ==
    ASSUME LoopInv, NEW v \in Workers
    PROVE  loop[v].id = 0 \/ loop[v].id \in 1..Len(asked)
<1>1. loop[v] \in GraphState /\ GraphOK(asked, Graph[v], loop[v])
  BY DEF LoopInv
<1> QED BY <1>1 DEF GraphState, GraphOK, AtAgent, AtTools

\* The gateway's steps leave the graphs alone.
LEMMA LoopStutter ==
    ASSUME LoopInv, Grown(asked, asked'),
           \A id \in 1..Len(asked) : answer[id] # Pending => answer'[id] = answer[id],
           UNCHANGED <<loop, called>>
    PROVE  LoopInv'
<1>1. /\ loop \in [Workers -> GraphState] /\ called \in Seq(CallRecord)
      /\ \A v \in Workers : GraphOK(asked, Graph[v], loop[v])
      /\ \A u, v \in Workers : loop[u].id = loop[v].id /\ loop[u].id # 0 => u = v
      /\ \A i \in 1..Len(called) :
           Justified(asked, answer, called[i], loop[called[i].graph].messages)
      /\ \A i, j \in 1..Len(called) : called[i].id = called[j].id => i = j
      /\ \A i \in 1..Len(called), v \in Workers : loop[v].id # called[i].id
  BY DEF LoopInv, CallsOK
<1>2. \A v \in Workers : GraphOK(asked', Graph[v], loop[v])
  BY <1>1, GraphGrows
<1>3. \A i \in 1..Len(called) :
        Justified(asked', answer', called[i], loop[called[i].graph].messages)
  <2> SUFFICES ASSUME NEW i \in 1..Len(called)
               PROVE  Justified(asked', answer', called[i], loop[called[i].graph].messages)
    OBVIOUS
  <2>1. loop[called[i].graph].messages \in Seq(Message)
    <3>1. called[i].graph \in Workers
      <4>1. called[i] \in CallRecord
        BY <1>1
      <4> QED BY <4>1 DEF CallRecord
    <3>2. loop[called[i].graph] \in GraphState
      BY <1>1, <3>1
    <3> QED BY <3>2 DEF GraphState
  <2> DEFINE c == called[i]
             msgs == loop[c.graph].messages
  <2>2. Grown(msgs, msgs) /\ Justified(asked, answer, c, msgs)
    BY <1>1, <2>1, GrownToItself
  <2> HIDE DEF c, msgs
  <2>3. Justified(asked', answer', c, msgs)
    BY <2>2, JustifiedGrows
  <2> QED BY <2>3 DEF c, msgs
<1>4. CallsOK'
  BY <1>1, <1>3 DEF CallsOK
<1> QED BY <1>1, <1>2, <1>4 DEF LoopInv

\* A graph starts with a message from outside, before any call.
LEMMA LoopInvInit == LInit => LoopInv
<1> SUFFICES ASSUME LInit PROVE LoopInv
  OBVIOUS
<1>1. /\ asked = <<>> /\ called = <<>>
      /\ loop \in [Workers -> {[node |-> "agent", k |-> 0, id |-> 0, out |-> <<>>,
            messages |-> <<[type |-> "human", content |-> content]>>] : content \in Contents}]
  BY DEF LInit, GInit
<1>2. ASSUME NEW w \in Workers
      PROVE  loop[w] \in GraphState /\ GraphOK(asked, Graph[w], loop[w]) /\ loop[w].id = 0
  <2>1. PICK content \in Contents :
          loop[w] = [node |-> "agent", k |-> 0, id |-> 0, out |-> <<>>,
                     messages |-> <<[type |-> "human", content |-> content]>>]
    BY <1>1
  <2> DEFINE msg == [type |-> "human", content |-> content]
             msgs == <<msg>>
  <2>2. msg \in Message /\ msg.type = "human"
    BY DEF Message
  <2> HIDE DEF msg
  <2>3. msgs \in Seq(Message) /\ Len(msgs) = 1 /\ msgs[1] = msg /\ 1 >= 1
    BY <2>2
  <2> HIDE DEF msgs
  <2>4. /\ loop[w].node = "agent" /\ loop[w].id = 0 /\ loop[w].out = <<>>
        /\ loop[w].messages = msgs /\ loop[w] \in GraphState
    BY <2>1, <2>3 DEF GraphState, msgs, msg
  <2>5. AnsweredUpTo(asked, msgs, 1) /\ FromOutside(msgs[1])
    BY <2>2, <2>3 DEF AnsweredUpTo, FromOutside
  <2>6. AtAgent(asked, loop[w])
    BY <2>3, <2>4, <2>5, Zenon DEF AtAgent
  <2> QED BY <2>4, <2>6 DEF GraphOK
<1>3. loop \in [Workers -> GraphState]
  BY <1>1, <1>2
<1>4. CallsOK /\ called \in Seq(CallRecord)
  BY <1>1 DEF CallsOK
<1> QED BY <1>2, <1>3, <1>4 DEF LoopInv

\* Every step of the graphs is a step of the gateway or leaves it alone: a graph
\* asks only what callers may submit.
LEMMA LoopStepIsGatewayStep ==
    ASSUME LoopInv, GatewayTypeOK, [LNext]_lvars
    PROVE  [GNext]_allvars
<1>1. ASSUME NEW w \in Workers, GuardCall(w) PROVE GNext
  <2>1. RequestOf(w) \in Requests /\ Submit(w, RequestOf(w))
    BY <1>1, GuardCallFacts DEF GuardCall
  <2> QED BY <2>1 DEF GNext
<1>2. ASSUME NEW w \in Workers, AgentNode(w) \/ CallFunction(w) \/ AnswerWithoutCall(w)
      PROVE  UNCHANGED allvars
  BY <1>2 DEF AgentNode, CallFunction, AnswerWithoutCall
<1>3. ASSUME NEW w \in Workers, InGateway(w) \/ LRaise(w) PROVE GNext
  BY <1>3 DEF InGateway, LRaise, GNext
<1>4. LTick => GNext
  BY DEF LTick, GNext
<1>5. UNCHANGED lvars => UNCHANGED allvars
  BY DEF lvars
<1> QED BY <1>1, <1>2, <1>3, <1>4, <1>5 DEF LNext, Work

\* A function is called for an executed request about the content that the
\* proposal was made on.
LEMMA CallIsJustified ==
    ASSUME LoopInv, NEW w \in Workers, Judged(w), MayCall(answer[loop[w].id])
    PROVE  ThisCall(w) \in CallRecord /\ Justified(asked, answer, ThisCall(w), loop[w].messages)
<1> DEFINE l == loop[w]
           m == Len(l.messages) - 1
           calls == l.messages[m + 1].calls
<1>1. l \in GraphState /\ l.id # 0 /\ l.id \in Nat /\ answer[l.id] # Pending
      /\ answer[l.id].executed
  BY DEF LoopInv, Judged, MayCall, Answered, GraphState
<1>2. AtTools(asked, Graph[w], l)
  BY <1>1 DEF LoopInv, GraphOK, AtAgent, GraphState
<1>3. /\ Proposing(asked, l.messages, m) /\ l.id \in 1..Len(asked)
      /\ asked[l.id] = RequestFor(Graph[w], l.messages[m].content, calls[l.k])
  BY <1>1, <1>2 DEF AtTools
<1>4. m \in 1..Len(l.messages) /\ m \in Nat
  BY <1>3 DEF Proposing
<1>5. /\ asked[l.id].untrusted /\ asked[l.id].content = l.messages[m].content.text
      /\ asked[l.id].agent = Graph[w].agent
  BY <1>3 DEF RequestFor
<1>6. ThisCall(w) = [graph |-> w, id |-> l.id, seen |-> m]
  BY DEF ThisCall
<1> HIDE DEF l, m, calls
<1>7. ThisCall(w) \in CallRecord
  BY <1>1, <1>4, <1>6 DEF CallRecord
<1> QED BY <1>1, <1>3, <1>4, <1>5, <1>6, <1>7 DEF Justified, l

\* Every step of graphs and gateway keeps the invariant.
LEMMA LoopInvStep ==
    ASSUME LoopInv, TypeInv, RequestInv, TypeInv', [LNext]_lvars
    PROVE  LoopInv'
<1>1. GatewayTypeOK /\ GatewayTypeOK'
  BY DEF TypeInv
<1>2. [GNext]_allvars
  BY <1>1, LoopStepIsGatewayStep
<1>3. /\ Grown(asked, asked')
      /\ \A id \in 1..Len(asked) : answer[id] # Pending => answer'[id] = answer[id]
  BY <1>1, <1>2, GatewayGrows
<1>4. \A v \in Workers : loop[v].id = 0 \/ loop[v].id \in 1..Len(asked)
  BY WaitsForAsked
<1>5. ASSUME NEW w \in Workers
      PROVE  GraphOK(asked, Graph[w], loop[w]) /\ loop \in [Workers -> GraphState]
             /\ loop[w].messages \in Seq(Message)
  BY DEF LoopInv, GraphState
<1>6. CASE UNCHANGED <<loop, called>>
  BY <1>3, <1>6, LoopStutter
<1>7. ASSUME NEW w \in Workers, AgentNode(w) PROVE LoopInv'
  <2>1. /\ loop' \in [Workers -> GraphState]
        /\ \A v \in Workers \ {w} : loop'[v] = loop[v]
        /\ loop'[w].id = 0 /\ GraphOK(asked, Graph[w], loop'[w])
        /\ Grown(loop[w].messages, loop'[w].messages)
    BY <1>1, <1>5, <1>7, AgentNodeFacts
  <2>2. asked' = asked /\ called' = called
    BY <1>7 DEF AgentNode, allvars, gvars
  <2> QED BY <1>3, <1>4, <2>1, <2>2, GraphStep
<1>8. ASSUME NEW w \in Workers, GuardCall(w) PROVE LoopInv'
  <2>1. /\ loop' \in [Workers -> GraphState]
        /\ \A v \in Workers \ {w} : loop'[v] = loop[v]
        /\ loop'[w].id = Len(asked) + 1 /\ GraphOK(asked', Graph[w], loop'[w])
        /\ loop'[w].messages = loop[w].messages
    BY <1>1, <1>8, GuardCallFacts
  <2>2. called' = called /\ loop'[w].id \notin 1..Len(asked)
    BY <1>8, <2>1 DEF GuardCall, TypeInv, GatewayTypeOK
  <2>3. Grown(loop[w].messages, loop'[w].messages)
    BY <1>5, <2>1, GrownToItself
  <2> QED BY <1>3, <1>4, <2>1, <2>2, <2>3, GraphStep
<1>9. ASSUME NEW w \in Workers, CallFunction(w) \/ AnswerWithoutCall(w) PROVE LoopInv'
  <2>1. PICK content \in Contents : Answers(w, ToolMessage(w, content))
    BY <1>9 DEF CallFunction, AnswerWithoutCall
  <2>2. Judged(w)
    BY <1>9 DEF CallFunction, AnswerWithoutCall
  <2>3. /\ loop' \in [Workers -> GraphState]
        /\ \A v \in Workers \ {w} : loop'[v] = loop[v]
        /\ loop'[w].id = 0 /\ GraphOK(asked, Graph[w], loop'[w])
        /\ Grown(loop[w].messages, loop'[w].messages)
    BY <1>1, <2>1, <2>2, AnswersFacts
  <2>4. asked' = asked
    BY <1>9 DEF CallFunction, AnswerWithoutCall, allvars, gvars
  <2>5. \/ called' = called
        \/ \E c \in CallRecord :
             /\ called' = Append(called, c)
             /\ c.graph = w /\ c.id = loop[w].id
             /\ Justified(asked, answer, c, loop[w].messages)
    <3>1. CASE CallFunction(w)
      <4>1. called' = Append(called, ThisCall(w)) /\ MayCall(answer[loop[w].id])
        BY <3>1 DEF CallFunction
      <4>2. /\ ThisCall(w) \in CallRecord
            /\ Justified(asked, answer, ThisCall(w), loop[w].messages)
        BY <2>2, <4>1, CallIsJustified
      <4>3. ThisCall(w).graph = w /\ ThisCall(w).id = loop[w].id
        BY DEF ThisCall
      <4> QED BY <4>1, <4>2, <4>3
    <3>2. CASE AnswerWithoutCall(w)
      BY <3>2 DEF AnswerWithoutCall
    <3> QED BY <1>9, <3>1, <3>2
  <2> QED BY <1>3, <1>4, <2>3, <2>4, <2>5, GraphStep
<1>10. ASSUME NEW w \in Workers, InGateway(w) \/ LRaise(w) PROVE UNCHANGED <<loop, called>>
  BY <1>10 DEF InGateway, LRaise
<1>11. LTick \/ UNCHANGED lvars => UNCHANGED <<loop, called>>
  BY DEF LTick, lvars
<1> QED BY <1>6, <1>7, <1>8, <1>9, <1>10, <1>11 DEF LNext, Work

\* The graphs are clients of the gateway (langgraph_adapter.py:65-76): whatever
\* the models propose, every behaviour of the graphs is one of the gateway, so
\* all that is proved of it holds under them.
THEOREM GraphsImplementGateway == LSpec => GSpec
<1>1. LInit => GInit /\ LoopInv
  BY LoopInvInit DEF LInit
<1>2. TypeInv /\ RequestInv /\ LoopInv /\ [LNext]_lvars
        => [GNext]_allvars /\ (TypeInv /\ RequestInv /\ LoopInv)'
  <2> SUFFICES ASSUME TypeInv, RequestInv, LoopInv, [LNext]_lvars
               PROVE  [GNext]_allvars /\ (TypeInv /\ RequestInv /\ LoopInv)'
    OBVIOUS
  <2>1. [GNext]_allvars
    BY LoopStepIsGatewayStep DEF TypeInv
  <2>2. TypeInv' /\ RequestInv'
    BY <2>1, TypeInvStep, RequestInvStep
  <2> QED BY <2>1, <2>2, LoopInvStep
<1> QED BY <1>1, <1>2, TypeInvInit, RequestInvInit, PTL DEF LSpec, GSpec

\* The three invariants hold together: requests are those of the graphs.
LEMMA GraphsOnCourse == LSpec => [](TypeInv /\ RequestInv /\ LoopInv)
<1>1. LInit => GInit /\ LoopInv
  BY LoopInvInit DEF LInit
<1>2. TypeInv /\ RequestInv /\ LoopInv /\ [LNext]_lvars
        => (TypeInv /\ RequestInv /\ LoopInv)'
  <2> SUFFICES ASSUME TypeInv, RequestInv, LoopInv, [LNext]_lvars
               PROVE  (TypeInv /\ RequestInv /\ LoopInv)'
    OBVIOUS
  <2>1. [GNext]_allvars
    BY LoopStepIsGatewayStep DEF TypeInv
  <2>2. TypeInv' /\ RequestInv'
    BY <2>1, TypeInvStep, RequestInvStep
  <2> QED BY <2>2, LoopInvStep
<1> QED BY <1>1, <1>2, TypeInvInit, RequestInvInit, PTL DEF LSpec

\* In protected mode a tool function runs at most once for a request, and only
\* for one whose call the sandbox executed within the policy and without a leak
\* (langgraph_adapter.py:97-100), for any number of graphs.
THEOREM FunctionsStayGuarded == Enforce => (LSpec => []FunctionsAreGuarded)
<1> SUFFICES ASSUME Enforce PROVE LSpec => []FunctionsAreGuarded
  OBVIOUS
<1>1. RequestInv /\ LoopInv /\ NoLeak /\ RunsArePermitted => FunctionsAreGuarded
  <2> SUFFICES ASSUME RequestInv, LoopInv, NoLeak, RunsArePermitted, NEW i \in 1..Len(called)
               PROVE  /\ effect[called[i].id].ran /\ ~effect[called[i].id].leaked
                      /\ PolicyAllows(asked[called[i].id])
    BY DEF FunctionsAreGuarded, LoopInv, CallsOK
  <2> DEFINE id == called[i].id
  <2>1. id \in Ids /\ answer[id] # Pending /\ answer[id].executed
    BY DEF LoopInv, CallsOK, Justified, Ids
  <2>2. Concluded(answer[id], asked[id], effect[id], audited[id])
    BY <2>1 DEF RequestInv, Answered
  <2>3. effect[id].ran
    BY <2>1, <2>2, FailClosedFacts DEF Concluded, Sound
  <2> QED BY <2>1, <2>3 DEF NoLeak, RunsArePermitted
<1> QED BY <1>1, GraphsOnCourse, GraphsImplementGateway, GatewayNeverLeaks,
           OnlyPermittedCallsRun, PTL

\* Whenever the model is asked again, each call it proposed has exactly one tool
\* message, in order, from a request about it (langgraph_adapter.py:88-109).
THEOREM CallsAreAnswered == LSpec => []EveryCallAnswered
<1>1. LoopInv => EveryCallAnswered
  <2> SUFFICES ASSUME LoopInv, NEW w \in Workers, loop[w].node = "agent",
                      NEW i \in 1..Len(loop[w].messages), loop[w].messages[i].type = "ai"
               PROVE  LET msgs == loop[w].messages
                          n == Len(msgs[i].calls)
                      IN  /\ i + n <= Len(msgs)
                          /\ \A j \in 1..n :
                               /\ msgs[i + j].type = "tool"
                               /\ asked[msgs[i + j].id].call = msgs[i].calls[j].call
                          /\ i + n < Len(msgs) => msgs[i + n + 1].type = "ai"
    BY DEF EveryCallAnswered
  <2>1. AnsweredUpTo(asked, loop[w].messages, Len(loop[w].messages))
    BY DEF LoopInv, GraphOK, AtAgent
  <2> DEFINE msgs == loop[w].messages
             n == Len(msgs[i].calls)
  <2>2. i \in 1..Len(msgs) /\ msgs[i].type = "ai"
    OBVIOUS
  <2>3. AnsweredUpTo(asked, msgs, Len(msgs))
    BY <2>1
  <2> HIDE DEF msgs
  <2>4. /\ i + n <= Len(msgs)
        /\ \A j \in 1..n : Replies(asked, msgs[i + j], msgs[i].calls[j])
        /\ i + n < Len(msgs) => msgs[i + n + 1].type = "ai"
    BY ONLY Zenon, <2>2, <2>3 DEF AnsweredUpTo
  <2>5. \A j \in 1..n : /\ msgs[i + j].type = "tool"
                       /\ asked[msgs[i + j].id].call = msgs[i].calls[j].call
    BY ONLY Zenon, <2>4 DEF Replies
  <2> QED BY Zenon, <2>4, <2>5 DEF msgs
<1> QED BY <1>1, GraphsOnCourse, PTL

\* A call is never judged milder than its context.
LEMMA ContentScoreCounts ==
    ASSUME NEW req \in Requests
    PROVE  ContentScore(req) \in Percent /\ ContentScore(req) <= InjectionScore(req)
<1> DEFINE arg == InspectText(req.args, TRUE)
           own == ContentScore(req)
<1>1. req.content \in Text /\ req.args \in Text /\ req.untrusted \in BOOLEAN
  BY GatewayAssumption DEF Request
<1>2. own \in Percent /\ arg \in Percent
  BY <1>1, InspectTextType DEF ContentScore
<1>3. InjectionScore(req) = IF HasCall(req) /\ arg > own THEN arg ELSE own
  BY DEF InjectionScore
<1> HIDE DEF arg, own
<1>4. own <= InjectionScore(req)
  BY <1>2, <1>3 DEF Percent
<1> QED BY <1>2, <1>4 DEF own

\* In protected mode no function runs on a proposal whose context was an attack
\* (langgraph_adapter.py:4-6), provided that the role table gives no role an
\* unguarded tool above its trust.
THEOREM AttacksStopTheNextCall ==
    Enforce /\ TrustedRoles => (LSpec => []AttackStopsNextCall)
<1> SUFFICES ASSUME Enforce, TrustedRoles PROVE LSpec => []AttackStopsNextCall
  BY SMTT(60)
<1>1. TypeInv /\ RequestInv /\ LoopInv /\ BlockWorthyRefused => AttackStopsNextCall
  <2> SUFFICES ASSUME TypeInv, RequestInv, LoopInv, BlockWorthyRefused,
                      NEW i \in 1..Len(called)
               PROVE  InspectText(
                        loop[called[i].graph].messages[called[i].seen].content.text, TRUE)
                          < Config.thresholds.injection_block
    BY DEF AttackStopsNextCall
  <2> DEFINE id == called[i].id
             req == asked[id]
             text == loop[called[i].graph].messages[called[i].seen].content.text
  <2>1. /\ id \in Ids /\ answer[id] # Pending /\ answer[id].executed
        /\ req.untrusted /\ req.content = text
    BY DEF LoopInv, CallsOK, Justified, Ids
  <2>2. effect[id].ran
    <3>1. Concluded(answer[id], req, effect[id], audited[id])
      BY <2>1 DEF RequestInv, Answered
    <3> QED BY <2>1, <3>1, FailClosedFacts DEF Concluded, Sound
  <2>4. req \in Requests /\ req.untrusted = TRUE
    <3>1. req \in Requests /\ req \in Request
      BY <2>1, GatewayAssumption DEF TypeInv, GatewayTypeOK, Ids
    <3> QED BY <2>1, <3>1 DEF Request
  <2>3. ~(InjectionScore(req) >= Config.thresholds.injection_block)
    BY <2>1, <2>2, <2>4 DEF BlockWorthyRefused, TrustedRoles
  <2>5. ContentScore(req) = InspectText(text, TRUE)
    BY <2>1, <2>4 DEF ContentScore
  <2> HIDE DEF text, req
  <2>6. /\ ContentScore(req) \in Percent /\ InjectionScore(req) \in Percent
        /\ ContentScore(req) <= InjectionScore(req)
        /\ Config.thresholds.injection_block \in Percent
    BY <2>4, ContentScoreCounts, InjectionScoreType, ThresholdFacts
  <2>7. ContentScore(req) < Config.thresholds.injection_block
    <3>1. \A a, b, c \in Percent : a <= b /\ ~(b >= c) => a < c
      BY DEF Percent
    <3> QED BY ONLY <2>3, <2>6, <3>1, Zenon
  <2> QED BY <2>5, <2>7 DEF text
<1> QED BY <1>1, GraphsOnCourse, GraphsImplementGateway, AttacksAreRefused, PTL
-----------------------------------------------------------------------------
(* No risky egress function after a sensitive read's *)

\* Graph w has called the function of a sensitive read.
AfterRead(w) ==
    \E i \in 1..Len(called) : /\ called[i].graph = w
                              /\ asked[called[i].id].call.tool \in SensitiveReads

\* The request a graph waits for is the one its host has in the gateway; a risky
\* one of a graph after a read does not run, and is on its way to isolation.
SequenceInv ==
    /\ \A w \in Workers : Busy(w) => loop[w].id = job[w].id
    /\ \A w \in Workers :
         AfterRead(w) /\ loop[w].id # 0 /\ IsRisky(asked[loop[w].id].call) =>
           /\ ~effect[loop[w].id].ran
           /\ Busy(w) => Restrained(job[w], Req(w), op[w])
    /\ NoEgressFunctionAfterRead

\* A graph asks for its own agent.
LEMMA AsksForItsAgent ==
    ASSUME LoopInv, NEW w \in Workers, loop[w].id # 0
    PROVE  loop[w].id \in Ids /\ asked[loop[w].id].agent = Graph[w].agent
<1>1. loop[w] \in GraphState /\ GraphOK(asked, Graph[w], loop[w])
  BY DEF LoopInv
<1>2. AtTools(asked, Graph[w], loop[w])
  BY <1>1 DEF GraphState, GraphOK, AtAgent
<1> QED BY <1>2 DEF AtTools, RequestFor, Ids

\* The monitor remembers the sensitive reads whose functions were called.
LEMMA ReadsAreKnown ==
    ASSUME LoopInv, ReadsInv, NEW w \in Workers, AfterRead(w)
    PROVE  profiles[Graph[w].agent].read_at # Never
<1>1. PICK i \in 1..Len(called) : /\ called[i].graph = w
                                  /\ asked[called[i].id].call.tool \in SensitiveReads
  BY DEF AfterRead
<1> DEFINE id == called[i].id
<1>2. /\ id \in Ids /\ Answered(id) /\ answer[id].executed
      /\ asked[id].agent = Graph[w].agent
  BY <1>1 DEF LoopInv, CallsOK, Justified, Ids, Answered
<1> QED BY <1>1, <1>2 DEF ReadsInv, ReadRan

\* Only its own calls put a graph after a read.
LEMMA AfterReadBefore ==
    ASSUME LoopInv, Grown(asked, asked'), NEW w \in Workers, called' = called
    PROVE  AfterRead(w)' = AfterRead(w)
<1>1. \A i \in 1..Len(called) : called[i].id \in 1..Len(asked)
  BY DEF LoopInv, CallsOK, Justified
<1>2. \A i \in 1..Len(called) : asked'[called[i].id] = asked[called[i].id]
  BY <1>1 DEF Grown
<1> QED BY <1>2 DEF AfterRead

\* What a step of the gateway that leaves the graphs alone does to the invariant.
LEMMA SequenceInGateway ==
    ASSUME ReadsCount, TypeInv, TypeInv', LoopInv, ReadsInv, SequenceInv,
           NEW w \in Workers, Step(w) \/ Raise(w), UNCHANGED <<loop, called>>
    PROVE  SequenceInv'
<1>1. /\ GatewayTypeOK /\ Busy(w) /\ job[w].id \in Ids /\ asked' = asked
      /\ \A v \in Workers \ {w} : job'[v] = job[v] /\ op'[v] = op[v]
      /\ job'[w] = IdleJob \/ job'[w].id = job[w].id
      /\ \A i \in Ids \ {job[w].id} : effect'[i] = effect[i]
  <2>1. GatewayTypeOK
    BY DEF TypeInv
  <2>2. Raise(w) => op' = op
    BY DEF Raise, vars
  <2> QED BY <2>1, <2>2, FrameStep, StepFacts, OthersStay
<1>2. \A v \in Workers : AfterRead(v)' = AfterRead(v)
  BY <1>1 DEF AfterRead
<1>3. loop[w].id = job[w].id /\ loop[w].id # 0
  BY <1>1 DEF SequenceInv, Ids
<1>4. \A v \in Workers : Busy(v)' => loop'[v].id = job'[v].id
  BY <1>1, <1>3 DEF SequenceInv, Busy
<1>5. ASSUME AfterRead(w), IsRisky(asked[loop[w].id].call)
      PROVE  ~effect'[loop[w].id].ran /\ Restrained(job'[w], Req(w), op'[w])
  <2>1. Req(w).agent = Graph[w].agent /\ IsRisky(Req(w).call)
    BY <1>3, <1>5, AsksForItsAgent DEF Req
  <2>2. profiles[Req(w).agent].read_at # Never
    BY <1>5, <2>1, ReadsAreKnown
  <2>3. ~effect[job[w].id].ran /\ Restrained(job[w], Req(w), op[w])
    BY <1>1, <1>3, <1>5 DEF SequenceInv
  <2>4. TellsRead(job[w], Req(w), op[w], profiles[Req(w).agent])
    BY <1>1 DEF ReadsInv
  <2> QED BY <1>3, <2>1, <2>2, <2>3, <2>4, RestrainedStep
<1>6. ASSUME NEW v \in Workers, AfterRead(v), loop[v].id # 0,
             IsRisky(asked[loop[v].id].call)
      PROVE  /\ ~effect'[loop[v].id].ran
             /\ Busy(v)' => Restrained(job'[v], asked[job'[v].id], op'[v])
  <2>1. CASE v = w
    <3>1. Busy(w)' => job'[w].id = job[w].id
      BY <1>1 DEF Busy
    <3> QED BY <1>5, <1>6, <2>1, <3>1 DEF Req
  <2>2. CASE v # w
    <3>1. loop[v].id # job[w].id /\ loop[v].id \in Ids
      BY <1>3, <1>6, <2>2, AsksForItsAgent DEF LoopInv
    <3>2. effect'[loop[v].id] = effect[loop[v].id] /\ job'[v] = job[v] /\ op'[v] = op[v]
      BY <1>1, <2>2, <3>1
    <3>3. ~effect[loop[v].id].ran /\ (Busy(v) => Restrained(job[v], Req(v), op[v]))
      BY <1>6 DEF SequenceInv
    <3> QED BY <3>2, <3>3 DEF Busy, Req
  <2> QED BY <2>1, <2>2
<1>7. NoEgressFunctionAfterRead'
  BY <1>1 DEF SequenceInv, NoEgressFunctionAfterRead
<1> QED BY <1>1, <1>2, <1>4, <1>6, <1>7 DEF SequenceInv, Req

\* A function is not called if it is risky and a read came before it.
LEMMA SequenceCall ==
    ASSUME RequestInv, LoopInv, SequenceInv, NEW w \in Workers, CallFunction(w)
    PROVE  NoEgressFunctionAfterRead'
<1> DEFINE n == Len(called)
           c == ThisCall(w)
<1>1. /\ called' = Append(called, c) /\ called \in Seq(CallRecord) /\ asked' = asked
      /\ Judged(w) /\ MayCall(answer[loop[w].id])
  BY DEF CallFunction, LoopInv, allvars, gvars
<1>2. c \in CallRecord /\ Justified(asked, answer, c, loop[w].messages)
      /\ c.graph = w /\ c.id = loop[w].id
  BY <1>1, CallIsJustified DEF ThisCall
<1>3. effect[c.id].ran /\ loop[w].id # 0
  <2>1. c.id \in Ids /\ Answered(c.id) /\ answer[c.id].executed
    BY <1>2 DEF Justified, Ids, Answered
  <2>2. Concluded(answer[c.id], asked[c.id], effect[c.id], audited[c.id])
    BY <2>1 DEF RequestInv
  <2> QED BY <1>1, <2>1, <2>2, FailClosedFacts DEF Concluded, Sound, Judged
<1>4. AfterRead(w) => ~IsRisky(asked[c.id].call)
  BY <1>2, <1>3 DEF SequenceInv
<1> HIDE DEF c
<1>5. /\ n \in Nat /\ Len(called') = n + 1 /\ called'[n + 1] = c
      /\ \A i \in 1..n : called'[i] = called[i]
  BY <1>1, <1>2
<1> SUFFICES ASSUME NEW i \in 1..(n + 1), NEW j \in 1..(n + 1), i < j,
                    called'[i].graph = called'[j].graph,
                    asked[called'[i].id].call.tool \in SensitiveReads
             PROVE  ~IsRisky(asked[called'[j].id].call)
  BY <1>1, <1>5 DEF NoEgressFunctionAfterRead
<1>6. i \in 1..n /\ called'[i] = called[i]
  BY <1>5
<1>7. CASE j = n + 1
  <2>1. AfterRead(w)
    BY <1>2, <1>5, <1>6, <1>7 DEF AfterRead
  <2> QED BY <1>4, <1>5, <1>7, <2>1
<1>8. CASE j \in 1..n
  BY <1>5, <1>6, <1>8 DEF SequenceInv, NoEgressFunctionAfterRead
<1> QED BY <1>5, <1>7, <1>8

\* Every step of graphs and gateway keeps risky calls after a read from running.
LEMMA SequenceStep ==
    ASSUME ReadsCount, TypeInv, TypeInv', RequestInv, LoopInv, ReadsInv, SequenceInv,
           [LNext]_lvars
    PROVE  SequenceInv'
<1>1. GatewayTypeOK /\ GatewayTypeOK' /\ Len(asked) \in Nat
  BY DEF TypeInv, GatewayTypeOK
<1>2. Grown(asked, asked')
  BY <1>1, LoopStepIsGatewayStep, GatewayGrows
<1>3. ASSUME UNCHANGED <<asked, effect, job, op, loop, called>>
      PROVE  SequenceInv'
  <2>1. \A v \in Workers : AfterRead(v)' = AfterRead(v)
    BY <1>3 DEF AfterRead
  <2>2. NoEgressFunctionAfterRead' = NoEgressFunctionAfterRead
    BY <1>3 DEF NoEgressFunctionAfterRead
  <2> QED BY <1>3, <2>1, <2>2 DEF SequenceInv, Busy, Req
<1>4. CASE LTick \/ UNCHANGED lvars
  <2>1. UNCHANGED <<asked, effect, job, op, loop, called>>
    BY <1>4 DEF LTick, GTick, Tick, lvars, allvars, gvars, vars
  <2> QED BY <1>3, <2>1
\* A step of a graph of its own, when its host has no request in the gateway.
<1>5. ASSUME NEW w \in Workers, UNCHANGED allvars, ~Busy(w) \/ loop'[w].id = loop[w].id,
             \A v \in Workers \ {w} : loop'[v] = loop[v], loop'[w].id = 0,
             \A v \in Workers \ {w} : AfterRead(v)' = AfterRead(v),
             NoEgressFunctionAfterRead'
      PROVE  SequenceInv'
  <2>1. UNCHANGED <<asked, effect, job, op>>
    BY <1>5 DEF allvars, gvars, vars
  <2>2. \A v \in Workers : Busy(v)' => loop'[v].id = job'[v].id
    BY <1>5, <2>1 DEF SequenceInv, Busy
  <2>3. ASSUME NEW v \in Workers, AfterRead(v)', loop'[v].id # 0,
               IsRisky(asked[loop'[v].id].call)
        PROVE  /\ ~effect[loop'[v].id].ran
               /\ Busy(v) => Restrained(job[v], Req(v), op[v])
    BY <1>5, <2>3 DEF SequenceInv
  <2> QED BY <1>5, <2>1, <2>2, <2>3 DEF SequenceInv, Busy, Req
<1>6. ASSUME NEW w \in Workers, AgentNode(w) PROVE SequenceInv'
  <2>1. GraphOK(asked, Graph[w], loop[w]) /\ loop \in [Workers -> GraphState]
    BY DEF LoopInv
  <2>2. loop'[w].id = 0 /\ \A v \in Workers \ {w} : loop'[v] = loop[v]
    BY <1>1, <1>6, <2>1, AgentNodeFacts
  <2>3. loop[w].id = 0
    BY <1>6, <2>1 DEF AgentNode, GraphOK, AtAgent
  <2>4. UNCHANGED allvars /\ called' = called /\ asked' = asked
    BY <1>6 DEF AgentNode, allvars, gvars
  <2>5. NoEgressFunctionAfterRead'
    BY <2>4 DEF SequenceInv, NoEgressFunctionAfterRead
  <2> QED BY <1>2, <1>5, <2>2, <2>3, <2>4, <2>5, AfterReadBefore
<1>7. ASSUME NEW w \in Workers, CallFunction(w) \/ AnswerWithoutCall(w)
      PROVE  SequenceInv'
  <2>1. Judged(w) /\ UNCHANGED allvars /\ asked' = asked
    BY <1>7 DEF CallFunction, AnswerWithoutCall, allvars, gvars
  <2>2. PICK content \in Contents : Answers(w, ToolMessage(w, content))
    BY <1>7 DEF CallFunction, AnswerWithoutCall
  <2>3. loop'[w].id = 0 /\ \A v \in Workers \ {w} : loop'[v] = loop[v]
    BY <1>1, <2>1, <2>2, AnswersFacts
  <2>4. ~Busy(w)
    BY <2>1 DEF Judged, SequenceInv, RequestInv, Owned
  <2>5. CASE AnswerWithoutCall(w)
    <3>1. called' = called
      BY <2>5 DEF AnswerWithoutCall
    <3>2. NoEgressFunctionAfterRead'
      BY <2>1, <3>1 DEF SequenceInv, NoEgressFunctionAfterRead
    <3> QED BY <1>2, <1>5, <2>1, <2>3, <2>4, <3>1, <3>2, AfterReadBefore
  <2>6. CASE CallFunction(w)
    <3>1. NoEgressFunctionAfterRead'
      BY <2>6, SequenceCall
    <3>2. ASSUME NEW v \in Workers \ {w}
          PROVE  AfterRead(v)' = AfterRead(v)
      <4> DEFINE n == Len(called)
                 c == ThisCall(w)
      <4>1. called' = Append(called, c) /\ called \in Seq(CallRecord)
        BY <2>6 DEF CallFunction, LoopInv
      <4>2. c.graph # v /\ c \in CallRecord
        BY <2>1, <2>6, CallIsJustified DEF ThisCall, CallFunction
      <4> HIDE DEF c
      <4>3. /\ n \in Nat /\ Len(called') = n + 1 /\ called'[n + 1] = c
            /\ \A i \in 1..n : called'[i] = called[i]
        BY <4>1, <4>2
      <4> HIDE DEF n
      <4>4. \A i : i \in 1..(n + 1) <=> i \in 1..n \/ i = n + 1
        BY <4>3
      <4> QED BY <2>1, <4>2, <4>3, <4>4 DEF AfterRead, n
    <3> QED BY <1>5, <2>1, <2>3, <2>4, <3>1, <3>2
  <2> QED BY <1>7, <2>5, <2>6
<1>8. ASSUME NEW w \in Workers, GuardCall(w) PROVE SequenceInv'
  <2> DEFINE new == Len(asked) + 1
  <2>1. RequestOf(w) \in Requests /\ Submit(w, RequestOf(w)) /\ called' = called
    BY <1>1, <1>8, GuardCallFacts DEF GuardCall
  <2>2. loop'[w].id = new /\ \A v \in Workers \ {w} : loop'[v] = loop[v]
    BY <1>1, <1>8, GuardCallFacts
  <2>3. /\ Ids' = Ids \cup {new} /\ new \notin Ids
        /\ \A i \in Ids : asked'[i] = asked[i] /\ effect'[i] = effect[i]
        /\ effect'[new] = NoEffect
        /\ \A v \in Workers \ {w} : job'[v] = job[v]
        /\ job'[w].stage = "sanitize" /\ job'[w].id = new
    BY <1>1, <2>1, SubmitFacts
  <2>4. op' = op
    BY <2>1 DEF Submit, vars
  <2> HIDE DEF new
  <2>5. \A v \in Workers : AfterRead(v)' = AfterRead(v)
    BY <1>2, <2>1, AfterReadBefore
  <2>6. \A v \in Workers : Busy(v)' => loop'[v].id = job'[v].id
    BY <2>2, <2>3 DEF SequenceInv, Busy
  <2>7. ASSUME NEW v \in Workers, AfterRead(v), loop'[v].id # 0,
               IsRisky(asked'[loop'[v].id].call)
        PROVE  /\ ~effect'[loop'[v].id].ran
               /\ Busy(v)' => Restrained(job'[v], asked'[job'[v].id], op'[v])
    <3>1. CASE v = w
      BY <2>2, <2>3, <3>1 DEF Restrained, NoEffect
    <3>2. CASE v # w
      <4>1. loop'[v] = loop[v] /\ job'[v] = job[v] /\ loop[v].id \in Ids
        BY <2>2, <2>3, <2>7, <3>2, AsksForItsAgent
      <4>2. asked'[loop[v].id] = asked[loop[v].id] /\ effect'[loop[v].id] = effect[loop[v].id]
        BY <2>3, <4>1
      <4>3. ~effect[loop[v].id].ran /\ (Busy(v) => Restrained(job[v], Req(v), op[v]))
        BY <2>7, <4>1, <4>2 DEF SequenceInv
      <4>4. Busy(v) => loop[v].id = job[v].id
        BY DEF SequenceInv
      <4> QED BY <2>4, <4>1, <4>2, <4>3, <4>4 DEF Busy, Req
    <3> QED BY <3>1, <3>2
  <2>8. NoEgressFunctionAfterRead'
    <3>1. \A i \in 1..Len(called) : called[i].id \in Ids
      BY DEF LoopInv, CallsOK, Justified, Ids
    <3>2. \A i \in 1..Len(called) : asked'[called[i].id] = asked[called[i].id]
      BY <2>3, <3>1
    <3> QED BY <2>1, <3>2 DEF SequenceInv, NoEgressFunctionAfterRead
  <2> QED BY <2>5, <2>6, <2>7, <2>8 DEF SequenceInv, Req
<1>9. ASSUME NEW w \in Workers, InGateway(w) \/ LRaise(w) PROVE SequenceInv'
  <2>1. (Step(w) \/ Raise(w)) /\ UNCHANGED <<loop, called>>
    BY <1>9 DEF InGateway, LRaise
  <2> QED BY <2>1, SequenceInGateway
<1> QED BY <1>4, <1>6, <1>7, <1>8, <1>9 DEF LNext, Work

\* Once a graph has called the function of a sensitive read, it calls none that
\* would take data out (behavior.py:12-13), whatever the models propose, however
\* many hosts share the agent, the store and the gateway, and whatever raises: in
\* protected mode, while the store has room and the time is within the window,
\* and with thresholds and an isolation tier at least as strict as ReadsCount asks.
THEOREM NoEgressFollowsARead == ReadsCount => (LSpec => []NoEgressFunctionAfterRead)
<1> SUFFICES ASSUME ReadsCount PROVE LSpec => []NoEgressFunctionAfterRead
  OBVIOUS
<1> DEFINE Inv == TypeInv /\ RequestInv /\ LoopInv /\ ReadsInv /\ SequenceInv
<1>1. LInit => Inv
  <2> SUFFICES ASSUME LInit PROVE Inv
    OBVIOUS
  <2>1. GInit /\ LoopInv /\ called = <<>>
    BY LoopInvInit DEF LInit
  <2>2. \A w \in Workers : ~Busy(w)
    BY <2>1 DEF GInit, Busy
  <2>3. SequenceInv
    BY <2>1, <2>2 DEF SequenceInv, AfterRead, NoEgressFunctionAfterRead
  <2> QED BY <2>1, <2>3, TypeInvInit, RequestInvInit, ReadsInit
<1>2. Inv /\ [LNext]_lvars => Inv'
  <2> SUFFICES ASSUME Inv, [LNext]_lvars PROVE Inv'
    OBVIOUS
  <2>1. [GNext]_allvars
    BY LoopStepIsGatewayStep DEF TypeInv
  <2>2. TypeInv' /\ RequestInv'
    BY <2>1, TypeInvStep, RequestInvStep
  <2>3. ReadsInv'
    BY <2>1, ReadsStep DEF ReadsCount
  <2> QED BY <2>2, <2>3, LoopInvStep, SequenceStep
<1>3. Inv => NoEgressFunctionAfterRead
  BY DEF SequenceInv
<1> HIDE DEF Inv
<1> QED BY <1>1, <1>2, <1>3, PTL DEF LSpec
=============================================================================
