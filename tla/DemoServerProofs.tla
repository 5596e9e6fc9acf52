--------------------------- MODULE DemoServerProofs ---------------------------
(***************************************************************************)
(* The playground's server, with any traffic, drives its gateway as the      *)
(* gateway's specification allows; a scrape of its metrics shows the replies   *)
(* sent before; and no attack of a workload runs.                             *)
(***************************************************************************)
EXTENDS DemoServer, GatewayProofs

-----------------------------------------------------------------------------
(* The server is a client of the gateway *)

\* What a connection will submit is a request that callers may submit.
ConnInv ==
    /\ traffic \in DOMAIN Traffics
    /\ DOMAIN conn = Workers
    /\ \A w \in Workers : conn[w].stage \in {"sent", "reading"}
         => conn[w].post \in Post /\ RequestOf(conn[w].post) \in Requests

\* Reading a body to its end changes nothing of the request.
LEMMA SameRequestOf ==
    ASSUME NEW post \in Post
    PROVE  LET read == [post EXCEPT !.length = "exact"]
           IN  read \in Post /\ RequestOf(read) = RequestOf(post)
<1> DEFINE read == [post EXCEPT !.length = "exact"]
<1>1. read \in Post
  BY DEF Post
<1>2. /\ read.ids = post.ids /\ read.tool = post.tool /\ read.args = post.args
      /\ read.req = post.req
  BY DEF Post
<1> HIDE DEF read
<1>3. RequestOf(read) = RequestOf(post)
  BY <1>2 DEF RequestOf
<1> QED BY <1>1, <1>3 DEF read

\* A step of the gateway, or of a connection alone.
LEMMA ServerStepIsGatewayStep ==
    ASSUME ConnInv, [DNext]_dvars
    PROVE  [GNext]_allvars
<1>1. ASSUME NEW w \in Workers, Connect(w) \/ Reply(w) \/ EndOfInput(w)
      PROVE  UNCHANGED allvars
  BY <1>1 DEF Connect, Reply, EndOfInput
<1>2. ASSUME NEW w \in Workers, NEW req \in Requests, Submitted(w, req) PROVE GNext
  BY <1>2 DEF Submitted, GNext
<1>3. ASSUME NEW w \in Workers, CallDirectly(w) PROVE GNext
  <2>1. PICK item \in Traffics[traffic].items : Submitted(w, item.req)
    BY <1>3 DEF CallDirectly
  <2>2. item.req \in Requests
    BY DemoAssumption DEF ConnInv
  <2> QED BY <1>2, <2>1, <2>2
<1>4. ASSUME NEW w \in Workers, Handle(w) PROVE GNext \/ UNCHANGED allvars
  <2>1. CASE Submitted(w, RequestOf(conn[w].post))
    <3>1. RequestOf(conn[w].post) \in Requests
      BY <1>4 DEF Handle, ConnInv
    <3> QED BY <1>2, <2>1, <3>1
  <2>2. CASE ~Submitted(w, RequestOf(conn[w].post))
    BY <1>4, <2>2 DEF Handle
  <2> QED BY <2>1, <2>2
<1>5. ASSUME NEW w \in Workers, Serve(w) \/ Fail(w) PROVE GNext
  BY <1>5 DEF Serve, Fail, GNext
<1>6. SnapshotCounters \/ SnapshotLatency \/ UNCHANGED dvars => UNCHANGED allvars
  BY DEF SnapshotCounters, SnapshotLatency, dvars
<1> QED BY <1>1, <1>3, <1>4, <1>5, <1>6 DEF DNext, Handler

LEMMA ConnInvStep == ConnInv /\ [DNext]_dvars => ConnInv'
<1> SUFFICES ASSUME ConnInv, [DNext]_dvars PROVE ConnInv'
  OBVIOUS
<1>1. traffic' = traffic
  BY DEF DNext, Handler, Connect, CallDirectly, Submitted, Handle, EndOfInput, Serve, Fail,
         Reply, SnapshotCounters, SnapshotLatency, dvars
<1>2. ASSUME NEW w \in Workers, NEW c, conn' = [conn EXCEPT ![w] = c],
             c.stage \in {"sent", "reading"} => c.post \in Post /\ RequestOf(c.post) \in Requests
      PROVE  ConnInv'
  BY <1>1, <1>2 DEF ConnInv
<1>3. CASE conn' = conn
  BY <1>1, <1>3 DEF ConnInv
<1>4. ASSUME NEW w \in Workers, Connect(w) PROVE ConnInv'
  <2>1. PICK post \in Traffics[traffic].posts : conn' = [conn EXCEPT ![w] = Sent(post)]
    BY <1>4 DEF Connect
  <2>2. post \in Post /\ RequestOf(post) \in Requests
    BY DemoAssumption DEF ConnInv
  <2>3. Sent(post).post = post
    BY DEF Sent
  <2> QED BY <1>2, <2>1, <2>2, <2>3
<1>5. ASSUME NEW w \in Workers, NEW req, Submitted(w, req) PROVE ConnInv'
  <2>1. conn' = [conn EXCEPT ![w] = InGateway(Len(asked) + 1)]
    BY <1>5 DEF Submitted
  <2>2. InGateway(Len(asked) + 1).stage = "in_gateway"
    BY DEF InGateway
  <2> QED BY <1>2, <2>1, <2>2
<1>6. ASSUME NEW w \in Workers, CallDirectly(w) PROVE ConnInv'
  BY <1>5, <1>6 DEF CallDirectly
<1>7. ASSUME NEW w \in Workers, Handle(w) PROVE ConnInv'
  <2> DEFINE post == conn[w].post
  <2>1. post \in Post /\ RequestOf(post) \in Requests
    BY <1>7 DEF Handle, ConnInv
  <2>2. CASE conn' = [conn EXCEPT ![w] = Reading(post)]
    <3>1. Reading(post).post = post
      BY DEF Reading
    <3> QED BY <1>2, <2>1, <2>2, <3>1
  <2>3. CASE \E reply : conn' = [conn EXCEPT ![w] = Closed(reply)]
    <3>1. \A reply : Closed(reply).stage = "closed"
      BY DEF Closed
    <3> QED BY <1>2, <2>3, <3>1
  <2>4. CASE Submitted(w, RequestOf(post))
    BY <1>5, <2>4
  <2> QED BY <1>7, <2>2, <2>3, <2>4 DEF Handle
<1>8. ASSUME NEW w \in Workers, EndOfInput(w) PROVE ConnInv'
  <2> DEFINE post == [conn[w].post EXCEPT !.length = "exact"]
  <2>1. conn[w].post \in Post /\ RequestOf(conn[w].post) \in Requests
    BY <1>8 DEF EndOfInput, ConnInv
  <2>2. post \in Post /\ RequestOf(post) \in Requests
    BY <2>1, SameRequestOf
  <2>3. conn' = [conn EXCEPT ![w] = Sent(post)]
    BY <1>8 DEF EndOfInput
  <2> HIDE DEF post
  <2>4. Sent(post).post = post
    BY DEF Sent
  <2> QED BY <1>2, <2>2, <2>3, <2>4
<1>9. ASSUME NEW w \in Workers, Reply(w) PROVE ConnInv'
  <2>1. conn' = [conn EXCEPT ![w] = Replied(conn[w].id)]
    BY <1>9 DEF Reply
  <2>2. Replied(conn[w].id).stage = "replied"
    BY DEF Replied
  <2> QED BY <1>2, <2>1, <2>2
<1>10. ASSUME NEW w \in Workers, Serve(w) \/ Fail(w) PROVE conn' = conn
  BY <1>10 DEF Serve, Fail
<1>11. SnapshotCounters \/ SnapshotLatency \/ UNCHANGED dvars => conn' = conn
  BY DEF SnapshotCounters, SnapshotLatency, dvars
<1> QED BY <1>3, <1>4, <1>6, <1>7, <1>8, <1>9, <1>10, <1>11 DEF DNext, Handler

LEMMA ConnInvInit == DInit => ConnInv
BY DEF DInit, ConnInv, Unused

LEMMA DSpecIsSafe == DSpec => DInit /\ [][DNext]_dvars
BY PTL DEF DSpec

\* The server and the host's direct calls are clients of the gateway
\* (server.py:149-176): whatever is posted, every behaviour of the playground is
\* one of the gateway, so all that is proved of the gateway holds of it.
THEOREM ServerImplementsGateway == DSpec => GSpec
<1>1. DInit => GInit
  BY DEF DInit
<1>2. ConnInv /\ [DNext]_dvars => [GNext]_allvars
  BY ServerStepIsGatewayStep
<1> QED BY <1>1, <1>2, ConnInvInit, ConnInvStep, DSpecIsSafe, PTL DEF GSpec

-----------------------------------------------------------------------------
(* A scrape shows the replies before it *)

\* The requests whose latency is recorded, those that failed later apart.
Recorded ==
    {id \in Ids : \/ Answered(id) /\ ~answer[id].error
                  \/ \E w \in Workers : At(w, "count_exfil") /\ job[w].id = id}

\* n latencies at least are in the histogram, or it is full.
Shown(n) == n <= samples \/ samples = HistMax

SamplesInv ==
    /\ samples \in 0..HistMax
    /\ Shown(Cardinality(Recorded))

\* The first half of a snapshot shows the replies; the second finds them in the
\* histogram if the first found the histogram.
ScrapeInv ==
    LET n == Cardinality(scrape.replied)
    IN  /\ scrape.stage \in {"none", "copied", "done"}
        /\ scrape.stage # "none" => n \in Nat /\ scrape.counters["requests"] >= n
        /\ scrape.stage = "copied" => Shown(n) /\ (~scrape.hist => n = 0)
        /\ scrape.stage = "done" => scrape.observed >= n \/ scrape.observed = HistMax

LEMMA HistMaxFacts == HistMax \in Nat /\ HistMax > 0
BY DemoAssumption

LEMMA RecordedIsFinite ==
    ASSUME GatewayTypeOK
    PROVE  IsFiniteSet(Recorded) /\ Cardinality(Recorded) \in Nat
<1>1. Len(asked) \in Nat
  BY DEF GatewayTypeOK
<1>2. IsFiniteSet(Ids) /\ Recorded \in SUBSET Ids
  BY <1>1, FS_Interval DEF Ids, Recorded
<1>3. IsFiniteSet(Recorded)
  BY <1>2, FS_Subset
<1> QED BY <1>3, FS_CardinalityType

LEMMA RecordedSubmit ==
    ASSUME GatewayTypeOK, NEW w \in Workers, NEW req \in Requests, Submit(w, req)
    PROVE  Recorded' \subseteq Recorded
<1> DEFINE new == Len(asked) + 1
<1>1. /\ Ids' = Ids \cup {new}
      /\ \A i \in Ids : answer'[i] = answer[i]
      /\ answer'[new] = Pending
      /\ \A v \in Workers \ {w} : job'[v] = job[v]
      /\ job'[w].stage = "sanitize" /\ new \notin Ids
  BY SubmitFacts
<1>2. \A v \in Workers : job[v].stage = "count_exfil" => job[v].id \in Ids
  BY BusyFacts DEF Stages
<1> HIDE DEF new
<1>3. ASSUME NEW id \in Recorded' PROVE id \in Recorded
  <2>1. id \in Ids'
    BY <1>3 DEF Recorded
  <2>2. CASE answer'[id] # Pending /\ ~answer'[id].error
    <3>1. id \in Ids
      BY <1>1, <2>1, <2>2
    <3> QED BY <1>1, <2>2, <3>1 DEF Recorded, Answered
  <2>3. CASE \E v \in Workers : job'[v].stage = "count_exfil" /\ job'[v].id = id
    <3>1. PICK v \in Workers : job'[v].stage = "count_exfil" /\ job'[v].id = id
      BY <2>3
    <3>2. v # w /\ job[v].stage = "count_exfil" /\ job[v].id = id
      BY <1>1, <3>1
    <3>3. id \in Ids
      BY <1>2, <3>2
    <3> QED BY <3>2, <3>3 DEF Recorded, At
  <2> QED BY <1>3, <2>2, <2>3 DEF Recorded, Answered, At
<1> QED BY <1>3

\* Only emitting a decision adds to the requests that are recorded: from there a
\* request is returned, and cannot fail any more.
LEMMA RecordedMove ==
    ASSUME GatewayTypeOK, NEW w \in Workers, Step(w) \/ Raise(w)
    PROVE  /\ job[w].id \in Ids
           /\ \/ Recorded' \subseteq Recorded
              \/ At(w, "emit") /\ Recorded' \subseteq Recorded \cup {job[w].id}
<1>1. /\ Busy(w) /\ job[w].id \in Ids /\ Ids' = Ids
      /\ \A v \in Workers \ {w} : job'[v] = job[v]
      /\ job'[w] = IdleJob \/ job'[w].id = job[w].id
      /\ \A i \in Ids \ {job[w].id} : answer'[i] = answer[i]
      /\ ~Return(w) /\ ~FailClosed(w) => answer' = answer
  BY StepFacts, FrameStep
<1>2. CASE Return(w)
  <2>1. answer'[job[w].id] = job[w].dec /\ At(w, "count_exfil") /\ job'[w] = IdleJob
    BY <1>1, <1>2, LaterShape, StageBefore, Conclusion DEF Step, At
  <2>2. job'[w].stage # "count_exfil" /\ job[w].id \in Recorded
    BY <1>1, <2>1 DEF IdleJob, Recorded
  <2> QED BY <1>1, <2>2 DEF Recorded, Answered, At
<1>3. CASE FailClosed(w)
  <2>1. answer'[job[w].id] = FailClosedDecision /\ job'[w] = IdleJob
    BY <1>3, LaterShape, StageBefore, Conclusion DEF Step
  <2>2. job'[w].stage # "count_exfil" /\ answer'[job[w].id].error
    BY <2>1, FailClosedFacts DEF IdleJob
  <2> QED BY <1>1, <2>2 DEF Recorded, Answered, At
<1>4. CASE Emit(w)
  <2>1. job[w].stage = "emit"
    BY <1>4, StageBefore
  <2>2. answer' = answer
    BY <1>1, <2>1, <1>4, StageBefore
  <2>3. ASSUME NEW id \in Recorded', id # job[w].id
        PROVE  id \in Recorded
    <3>1. CASE Answered(id)' /\ ~answer'[id].error
      BY <1>1, <2>2, <2>3, <3>1 DEF Recorded, Answered
    <3>2. CASE \E v \in Workers : At(v, "count_exfil")' /\ job'[v].id = id
      <4>1. PICK v \in Workers : job'[v].stage = "count_exfil" /\ job'[v].id = id
        BY <3>2 DEF At
      <4>2. v # w /\ id \in Ids
        BY <1>1, <2>3, <4>1 DEF IdleJob, Recorded
      <4> QED BY <1>1, <4>1, <4>2 DEF Recorded, At
    <3> QED BY <2>3, <3>1, <3>2 DEF Recorded
  <2> QED BY <1>1, <2>1, <2>3 DEF At
<1>5. CASE ~Return(w) /\ ~FailClosed(w) /\ ~Emit(w)
  <2>1. job'[w].stage = "count_exfil" => job[w].stage = "count_exfil"
    <3>1. job[w].stage \in Stages
      BY StepFacts
    <3>2. CASE Raise(w)
      BY <3>2, LaterShape
    <3>3. CASE Step(w)
      BY <1>5, <3>1, <3>3, StageAfter, StageBefore DEF Step
    <3> QED BY <3>2, <3>3
  <2>2. job'[w].stage = "count_exfil" => job'[w].id = job[w].id
    BY <1>1 DEF IdleJob
  <2> QED BY <1>1, <1>5, <2>1, <2>2 DEF Recorded, Answered, At
<1> QED BY <1>2, <1>3, <1>4, <1>5

\* The histogram grows by one until it is full.
LEMMA SamplesStep ==
    ASSUME samples \in 0..HistMax, [DNext]_dvars
    PROVE  /\ samples' \in 0..HistMax /\ samples' >= samples
           /\ samples = HistMax => samples' = HistMax
<1>1. /\ Sampled \in 0..HistMax /\ Sampled >= samples
      /\ samples = HistMax => Sampled = HistMax
  BY HistMaxFacts DEF Sampled
<1>2. ASSUME NEW w \in Workers, Serve(w) \/ Fail(w)
      PROVE  samples' = Sampled \/ samples' = samples
  BY <1>2 DEF Serve, Fail
<1>3. ASSUME NEW w \in Workers,
             Connect(w) \/ CallDirectly(w) \/ Handle(w) \/ EndOfInput(w) \/ Reply(w)
      PROVE  samples' = samples
  BY <1>3 DEF Connect, CallDirectly, Submitted, Handle, EndOfInput, Reply
<1>4. SnapshotCounters \/ SnapshotLatency \/ UNCHANGED dvars => samples' = samples
  BY DEF SnapshotCounters, SnapshotLatency, dvars
<1>5. samples' = samples \/ samples' = Sampled
  BY <1>2, <1>3, <1>4 DEF DNext, Handler
<1> HIDE DEF Sampled
<1> QED BY <1>1, <1>5

\* Fewer requests, or one more and its sample.
LEMMA ShownStep ==
    ASSUME GatewayTypeOK, GatewayTypeOK', SamplesInv, samples' \in 0..HistMax,
           samples' >= samples, samples = HistMax => samples' = HistMax,
           \/ Recorded' \subseteq Recorded
           \/ /\ samples' = Sampled
              /\ \E id : Recorded' \subseteq Recorded \cup {id}
    PROVE  SamplesInv'
<1> DEFINE n == Cardinality(Recorded)
           m == Cardinality(Recorded')
<1>1. IsFiniteSet(Recorded) /\ n \in Nat
  BY RecordedIsFinite
<1>2. samples \in 0..HistMax /\ (n <= samples \/ samples = HistMax) /\ HistMax \in Nat
  BY HistMaxFacts DEF SamplesInv, Shown
<1>3. CASE Recorded' \subseteq Recorded
  <2>1. m <= n /\ m \in Nat
    BY <1>1, <1>3, FS_Subset, FS_CardinalityType
  <2> HIDE DEF n, m
  <2>2. m <= samples' \/ samples' = HistMax
    BY <1>1, <1>2, <2>1
  <2> QED BY <2>2 DEF SamplesInv, Shown, m
<1>4. CASE samples' = Sampled /\ \E id : Recorded' \subseteq Recorded \cup {id}
  <2>1. PICK id : Recorded' \subseteq Recorded \cup {id}
    BY <1>4
  <2>2. /\ IsFiniteSet(Recorded \cup {id})
        /\ Cardinality(Recorded \cup {id}) = n \/ Cardinality(Recorded \cup {id}) = n + 1
    BY <1>1, FS_AddElement
  <2>3. m <= Cardinality(Recorded \cup {id}) /\ m \in Nat
    BY <2>1, <2>2, FS_Subset, FS_CardinalityType
  <2>4. samples' = IF samples < HistMax THEN samples + 1 ELSE samples
    BY <1>4 DEF Sampled
  <2> HIDE DEF n, m
  <2>5. m <= n + 1
    BY <1>1, <2>2, <2>3
  <2>6. m <= samples' \/ samples' = HistMax
    BY <1>1, <1>2, <2>3, <2>4, <2>5
  <2> QED BY <2>6 DEF SamplesInv, Shown, m
<1> QED BY <1>3, <1>4

LEMMA SamplesInvStep ==
    ASSUME GatewayTypeOK, GatewayTypeOK', ConnInv, SamplesInv, [DNext]_dvars
    PROVE  SamplesInv'
<1>1. /\ samples' \in 0..HistMax /\ samples' >= samples
      /\ samples = HistMax => samples' = HistMax
  BY SamplesStep DEF SamplesInv
<1>2. CASE Recorded' \subseteq Recorded
  BY <1>1, <1>2, ShownStep
<1>3. CASE UNCHANGED <<asked, answer, job>>
  <2>1. Recorded' = Recorded
    BY <1>3 DEF Recorded, Ids, Answered, At
  <2> QED BY <1>2, <2>1
<1>4. ASSUME NEW w \in Workers, NEW req \in Requests, Submit(w, req) PROVE SamplesInv'
  BY <1>2, <1>4, RecordedSubmit
<1>5. ASSUME NEW w \in Workers, Serve(w) \/ Fail(w) PROVE SamplesInv'
  <2>1. /\ Step(w) \/ Raise(w)
        /\ At(w, "emit") => samples' = Sampled
    BY <1>5 DEF Serve, Fail
  <2>2. CASE ~(Recorded' \subseteq Recorded)
    <3>1. At(w, "emit") /\ Recorded' \subseteq Recorded \cup {job[w].id}
      BY <2>1, <2>2, RecordedMove
    <3>2. samples' = Sampled /\ \E id : Recorded' \subseteq Recorded \cup {id}
      BY <2>1, <3>1
    <3> QED BY <1>1, <3>2, ShownStep
  <2> QED BY <1>2, <2>2
<1>6. ASSUME ~\E w \in Workers : Serve(w) \/ Fail(w) PROVE SamplesInv'
  <2>1. \/ UNCHANGED allvars
        \/ \E w \in Workers, req \in Requests : Submit(w, req)
    <3>1. ASSUME NEW w \in Workers, Connect(w) \/ Reply(w) \/ EndOfInput(w)
          PROVE  UNCHANGED allvars
      BY <3>1 DEF Connect, Reply, EndOfInput
    <3>2. ASSUME NEW w \in Workers, CallDirectly(w)
          PROVE  \E req \in Requests : Submit(w, req)
      BY <3>2, DemoAssumption DEF CallDirectly, ConnInv, Submitted
    <3>3. ASSUME NEW w \in Workers, Handle(w)
          PROVE  UNCHANGED allvars \/ \E req \in Requests : Submit(w, req)
      <4>1. RequestOf(conn[w].post) \in Requests
        BY <3>3 DEF Handle, ConnInv
      <4> QED BY <3>3, <4>1 DEF Handle, Submitted
    <3>4. SnapshotCounters \/ SnapshotLatency \/ UNCHANGED dvars => UNCHANGED allvars
      BY DEF SnapshotCounters, SnapshotLatency, dvars
    <3> QED BY <1>6, <3>1, <3>2, <3>3, <3>4 DEF DNext, Handler
  <2>2. UNCHANGED allvars => UNCHANGED <<asked, answer, job>>
    BY DEF allvars, gvars
  <2> QED BY <1>3, <1>4, <2>1, <2>2
<1> QED BY <1>5, <1>6

\* What a scrape counts as replied is in the counters, and in the histogram.
LEMMA RepliesAreCounted ==
    ASSUME GatewayTypeOK, TallyInv, SamplesInv
    PROVE  LET n == Cardinality(Decided)
           IN  n \in Nat /\ counters["requests"] >= n /\ Shown(n) /\ n <= Cardinality(Recorded)
<1> DEFINE n == Cardinality(Decided)
<1>1. IsFiniteSet(Recorded) /\ Cardinality(Recorded) \in Nat
  BY RecordedIsFinite
<1>2. Decided \subseteq Recorded
  BY DEF Decided, Recorded
<1>3. IsFiniteSet(Decided) /\ n <= Cardinality(Recorded) /\ n \in Nat
  BY <1>1, <1>2, FS_Subset, FS_CardinalityType
<1>4. PICK tally \in [Ids -> SUBSET CounterKeys] : Tallied(tally)
  BY DEF TallyInv
<1> DEFINE requests == CountedFor(tally, "requests")
<1>5. Decided \subseteq requests
  <2> SUFFICES ASSUME NEW id \in Decided PROVE id \in Ids /\ "requests" \in tally[id]
    BY DEF CountedFor
  <2>1. id \in Ids /\ Answered(id) /\ ~answer[id].error
    BY DEF Decided
  <2>2. answer[id] \in Decision /\ tally[id] = ReportKeys(asked[id], answer[id])
    BY <1>4, <2>1 DEF Tallied, Answered, GatewayTypeOK, Ids
  <2>3. "requests" \in ToSet(FinalizeKeys(asked[id], answer[id]))
    BY <2>2, FinalizeKeysFacts
  <2> QED BY <2>1, <2>2, <2>3 DEF ReportKeys
<1>6. counters["requests"] = Cardinality(requests)
  BY <1>4 DEF Tallied, CounterKeys
<1>7. IsFiniteSet(requests) /\ Cardinality(requests) \in Nat
  BY CountedIsFinite, FS_CardinalityType
<1>8. n <= Cardinality(requests)
  BY <1>5, <1>7, FS_Subset
<1>9. Shown(n)
  <2>1. Shown(Cardinality(Recorded)) /\ samples \in Int
    BY DEF SamplesInv
  <2> HIDE DEF n
  <2> QED BY <1>1, <1>3, <2>1 DEF Shown
<1> QED BY <1>3, <1>6, <1>7, <1>8, <1>9

LEMMA ScrapeInvStep ==
    ASSUME GatewayTypeOK, TallyInv, SamplesInv, ScrapeInv, [DNext]_dvars
    PROVE  ScrapeInv'
<1>1. /\ samples \in 0..HistMax /\ samples' \in 0..HistMax /\ samples' >= samples
      /\ samples = HistMax => samples' = HistMax
      /\ HistMax \in Nat /\ HistMax > 0
  BY SamplesStep, HistMaxFacts DEF SamplesInv
<1>2. CASE UNCHANGED scrape
  <2> DEFINE n == Cardinality(scrape.replied)
  <2>1. scrape.stage = "copied" => n \in Nat /\ Shown(n)
    BY DEF ScrapeInv
  <2>2. scrape.stage = "copied" => (n <= samples' \/ samples' = HistMax)
    <3> HIDE DEF n
    <3> QED BY <1>1, <2>1 DEF Shown
  <2> QED BY <1>2, <2>2 DEF ScrapeInv, Shown
<1>3. CASE SnapshotCounters
  <2> DEFINE n == Cardinality(Decided)
  <2>1. n \in Nat /\ counters["requests"] >= n /\ Shown(n) /\ n <= Cardinality(Recorded)
    BY RepliesAreCounted
  <2>2. /\ scrape' = [stage |-> "copied", replied |-> Decided, counters |-> counters,
                      hist |-> samples > 0]
        /\ samples' = samples
    BY <1>3 DEF SnapshotCounters
  <2>3. ~(samples > 0) => n = 0
    <3> HIDE DEF n
    <3> QED BY <1>1, <2>1 DEF Shown
  <2>4. /\ scrape'.stage = "copied" /\ Cardinality(scrape'.replied) = n
        /\ scrape'.counters = counters /\ scrape'.hist = (samples > 0)
    BY <2>2
  <2> HIDE DEF n
  <2> QED BY <2>1, <2>2, <2>3, <2>4 DEF ScrapeInv, Shown
<1>4. CASE SnapshotLatency
  <2> DEFINE n == Cardinality(scrape.replied)
  <2>1. scrape.stage = "copied"
    BY <1>4 DEF SnapshotLatency
  <2>2. n \in Nat /\ scrape.counters["requests"] >= n /\ Shown(n) /\ (~scrape.hist => n = 0)
    BY <2>1 DEF ScrapeInv
  <2>3. /\ scrape'.stage = "done" /\ Cardinality(scrape'.replied) = n
        /\ scrape'.counters = scrape.counters
        /\ scrape'.observed = IF scrape.hist THEN samples ELSE 0
    BY <1>4 DEF SnapshotLatency
  <2> HIDE DEF n
  <2>4. scrape'.observed >= n \/ scrape'.observed = HistMax
    BY <1>1, <2>2, <2>3 DEF Shown
  <2> QED BY <2>2, <2>3, <2>4 DEF ScrapeInv
<1>5. ASSUME ~SnapshotCounters, ~SnapshotLatency PROVE UNCHANGED scrape
  BY <1>5 DEF DNext, Handler, Connect, CallDirectly, Submitted, Handle, EndOfInput, Serve,
              Fail, Reply, dvars
<1> QED BY <1>2, <1>3, <1>4, <1>5

\* The two halves of a snapshot are taken at different times (telemetry.py:64-69),
\* while workers count and record; still every decision whose reply was sent
\* before shows in both, with any number of connections and direct callers.
THEOREM ScrapesShowReplies == DSpec => []ScrapeShowsReplies
<1> DEFINE Inv == /\ ConnInv /\ TypeInv /\ RequestInv /\ TallyInv
                  /\ SamplesInv /\ ScrapeInv
<1>1. DInit => Inv
  <2> SUFFICES ASSUME DInit PROVE Inv
    OBVIOUS
  <2>1. GInit /\ ConnInv
    BY ConnInvInit DEF DInit
  <2>2. TypeInv /\ RequestInv /\ TallyInv
    BY <2>1, TypeInvInit, RequestInvInit, TallyInit
  <2>3. Recorded = {}
    BY <2>1 DEF GInit, Recorded, Ids
  <2>4. SamplesInv
    BY <2>3, HistMaxFacts, FS_EmptySet DEF DInit, SamplesInv, Shown
  <2>5. ScrapeInv
    BY DEF DInit, ScrapeInv, NoScrape
  <2> QED BY <2>1, <2>2, <2>4, <2>5
<1>2. Inv /\ [DNext]_dvars => Inv'
  <2> SUFFICES ASSUME Inv, [DNext]_dvars PROVE Inv'
    OBVIOUS
  <2>1. [GNext]_allvars /\ ConnInv'
    BY ServerStepIsGatewayStep, ConnInvStep
  <2>2. TypeInv' /\ RequestInv' /\ TallyInv'
    BY <2>1, TypeInvStep, RequestInvStep, TallyStep
  <2>3. GatewayTypeOK /\ GatewayTypeOK'
    BY <2>2 DEF TypeInv
  <2>4. SamplesInv' /\ ScrapeInv'
    BY <2>3, SamplesInvStep, ScrapeInvStep
  <2> QED BY <2>1, <2>2, <2>4
<1>3. Inv => ScrapeShowsReplies
  BY DEF ScrapeInv, ScrapeShowsReplies
<1> HIDE DEF Inv
<1> QED BY <1>1, <1>2, <1>3, DSpecIsSafe, PTL

-----------------------------------------------------------------------------
(* No attack of a workload runs *)

\* A call leaks exactly when it ran and carries a secret to an external host: the
\* executor's ground truth does not depend on the mode or the tier.
LeaksAreRuns ==
    \A id \in Ids :
        effect[id].leaked <=> effect[id].ran /\ GroundTruthExfil(asked[id].call)

LEMMA ExecutionLeaks ==
    ASSUME NEW tier, NEW call
    PROVE  LET out == Execute(tier, call, Enforce)
           IN  out.exfiltrated <=> ~out.blocked /\ GroundTruthExfil(call)
<1>1. CASE Enforce /\ ~TierPermits(tier, call.tool)
  BY <1>1 DEF Execute
<1>2. CASE ~(Enforce /\ ~TierPermits(tier, call.tool)) /\ Enforce /\ ~Inspect(tier, call).allowed
  BY <1>2 DEF Execute
<1>3. CASE ~(Enforce /\ ~TierPermits(tier, call.tool)) /\ ~(Enforce /\ ~Inspect(tier, call).allowed)
  BY <1>3 DEF Execute
<1> QED BY <1>1, <1>2, <1>3

LEMMA LeaksAreRunsStep ==
    ASSUME GatewayTypeOK, LeaksAreRuns, [GNext]_allvars
    PROVE  LeaksAreRuns'
<1>1. CASE UNCHANGED <<asked, effect>>
  BY <1>1 DEF LeaksAreRuns, Ids
<1>2. ASSUME NEW w \in Workers, NEW req \in Requests, Submit(w, req)
      PROVE  LeaksAreRuns'
  <2>1. asked' = Append(asked, req) /\ effect' = Append(effect, NoEffect)
    BY <1>2 DEF Submit
  <2>2. ~NoEffect.leaked /\ ~NoEffect.ran
    BY DEF NoEffect
  <2>3. ASSUME NEW id \in Ids'
        PROVE  effect'[id].leaked <=> effect'[id].ran /\ GroundTruthExfil(asked'[id].call)
    <3>1. id \in Ids \/ effect'[id] = NoEffect
      BY <2>1, <2>3 DEF Ids, GatewayTypeOK
    <3>2. id \in Ids => effect'[id] = effect[id] /\ asked'[id] = asked[id]
      BY <2>1 DEF Ids, GatewayTypeOK
    <3> QED BY <2>2, <3>1, <3>2 DEF LeaksAreRuns
  <2> QED BY <2>3 DEF LeaksAreRuns
<1>3. ASSUME NEW w \in Workers, RouteAndExecute(w)
      PROVE  LeaksAreRuns'
  <2>1. job[w].id \in Ids /\ asked' = asked
    BY SMTT(60), <1>3, JobFacts DEF RouteAndExecute, At, Stages
  <2>2. PICK tier, isolate :
            LET out == Execute(tier, Req(w).call, Enforce)
            IN  effect' = [effect EXCEPT ![job[w].id] =
                             [ran |-> ~out.blocked, isolated |-> isolate,
                              leaked |-> out.exfiltrated]]
    BY <1>3 DEF RouteAndExecute
  <2> DEFINE out == Execute(tier, Req(w).call, Enforce)
             e == [ran |-> ~out.blocked, isolated |-> isolate, leaked |-> out.exfiltrated]
  <2>3. out.exfiltrated <=> ~out.blocked /\ GroundTruthExfil(Req(w).call)
    BY ExecutionLeaks
  <2>4. e.leaked <=> e.ran /\ GroundTruthExfil(asked[job[w].id].call)
    <3> HIDE DEF out
    <3> QED BY <2>3 DEF Req
  <2>5. effect' = [effect EXCEPT ![job[w].id] = e]
    BY <2>2
  <2> HIDE DEF e
  <2>6. ASSUME NEW id \in Ids
        PROVE  effect'[id] = IF id = job[w].id THEN e ELSE effect[id]
    BY SMTT(60), <2>5 DEF GatewayTypeOK, Ids
  <2> QED BY SMTT(60), <2>1, <2>4, <2>6 DEF LeaksAreRuns, Ids
<1>4. ASSUME NEW w \in Workers, Step(w) \/ Raise(w), ~RouteAndExecute(w)
      PROVE  UNCHANGED <<asked, effect>>
  BY <1>4 DEF Step, Raise, Sanitize, EnforcePolicy, ObserveAttempt, JudgeAttempt, Resolve,
              CommitBehaviour, CommitLocked, Account, Emit, CountExfil, Incr, Return,
              FailClosed, World
<1>5. GTick \/ UNCHANGED allvars => UNCHANGED <<asked, effect>>
  BY DEF GTick, gvars, allvars
<1> QED BY <1>1, <1>2, <1>3, <1>4, <1>5 DEF GNext

\* What the metrics call an exfiltration is one (executor.py:127-133), in protected
\* mode and in monitor-only mode.
LEMMA LeaksAreMeasured == GSpec => []LeaksAreRuns
<1> DEFINE Inv == TypeInv /\ LeaksAreRuns
<1>1. GInit => Inv
  BY TypeInvInit DEF GInit, LeaksAreRuns, Ids
<1>2. Inv /\ [GNext]_allvars => Inv'
  <2> SUFFICES ASSUME Inv, [GNext]_allvars PROVE Inv'
    OBVIOUS
  <2>1. TypeInv'
    BY TypeInvStep
  <2>2. LeaksAreRuns'
    BY LeaksAreRunsStep DEF TypeInv
  <2> QED BY <2>1, <2>2
<1>3. Inv => LeaksAreRuns
  OBVIOUS
<1> HIDE DEF Inv
<1> QED BY <1>1, <1>2, <1>3, PTL DEF GSpec

\* "ground truth: should this execute?" (simulated_agent.py:46): what is marked
\* no does not, whatever the agents did before and whoever runs beside them, if
\* the policy refuses it or its secret would leave the box.
THEOREM NoAttackRuns == Enforce /\ AttacksAreRecognized => (DSpec => []AttacksFail)
<1> SUFFICES ASSUME Enforce, AttacksAreRecognized PROVE DSpec => []AttacksFail
  OBVIOUS
<1>1. RunsArePermitted /\ NoLeak /\ LeaksAreRuns => AttacksFail
  <2> SUFFICES ASSUME RunsArePermitted, NoLeak, LeaksAreRuns, NEW id \in Ids,
                      asked[id] \in AttackRequests, effect[id].ran
               PROVE  FALSE
    BY DEF AttacksFail
  <2>1. PolicyAllows(asked[id])
    BY DEF RunsArePermitted
  <2>2. ~GroundTruthExfil(asked[id].call)
    BY DEF NoLeak, LeaksAreRuns
  <2> QED BY <2>1, <2>2 DEF AttacksAreRecognized
<1> QED BY <1>1, ServerImplementsGateway, OnlyPermittedCallsRun, GatewayNeverLeaks,
           LeaksAreMeasured, PTL

=============================================================================
