----------------------------- MODULE DemoServer -----------------------------
(***************************************************************************)
(* aegis/demo/server.py: a threaded HTTP server whose handlers share one     *)
(* gateway, and the telemetry that /api/metrics and /api/health read.  Each  *)
(* connection has a thread of its own and carries one request.  The program  *)
(* that starts the server may hand it its gateway and go on calling it.      *)
(***************************************************************************)
EXTENDS GatewayProperties, Workload

CONSTANTS
    Traffics,       \* the kinds of traffic, by name
    Items,          \* the workload items direct callers submit
    HistMax         \* maxlen of a LatencyHistogram (50000 in the code)

VARIABLES
    traffic,    \* the traffic of this behaviour
    conn,       \* what each connection (or direct caller) is doing
    samples,    \* length of the "total" latency histogram; 0 before it exists
    scrape      \* the one GET of /api/metrics or /api/health

dvars == <<allvars, traffic, conn, samples, scrape>>

-----------------------------------------------------------------------------
(* POST.  A post is abstracted to what do_POST and _inspect branch on; "ill"  *)
(* is a JSON value of another type than the code expects.                     *)

Post ==
    [path : {"inspect", "other"},
     length : {"exact", "beyond", "over", "negative", "not_a_number"},
     body : {"object", "not_object", "malformed"},
     tool : {"named", "blank", "ill"},
     args : {"object", "blank", "malformed", "not_object", "ill"},
     source : {"known", "unknown", "ill"},
     ids : {"text", "blank", "ill"},
     content : {"text", "ill"},
     req : Request]

Check(fails, reply) == [fails |-> fails, reply |-> reply]

FirstFailure(checks) ==
    LET failing == SelectSeq(checks, LAMBDA c : c.fails)
    IN  IF failing = <<>> THEN "none" ELSE Head(failing).reply

\* The checks before the body is read, and the read itself: a length below -1
\* passes the checks, and rfile.read raises out of the handler.
HeaderFailure(post) ==
    FirstFailure(<<Check(post.path = "other", "404"),
                   Check(post.length = "not_a_number", "400"),
                   Check(post.length = "over", "413"),
                   Check(post.length = "negative", "dropped")>>)

\* Mutant: an unknown source is not caught.
SourceEscapes(post) ==
    FirstFailure(<<Check(post.body = "malformed", "400"),
                   Check(post.body = "not_object", "dropped"),
                   Check(post.tool = "ill", "dropped"),
                   Check(post.tool = "named" /\ post.args = "ill", "dropped"),
                   Check(post.tool = "named" /\ post.args \in {"malformed", "not_object"},
                         "error"),
                   Check(post.source # "known", "dropped"),
                   Check(post.ids = "ill", "dropped"),
                   Check(post.content = "ill", "error")>>)

\* The checks on the payload, in the order of the code: an ill-typed field
\* raises out of the handler, and the connection is closed without a reply.
PayloadFailure(post) ==
    FirstFailure(<<Check(post.body = "malformed", "400"),
                   Check(post.body = "not_object", "dropped"),
                   Check(post.tool = "ill", "dropped"),
                   Check(post.tool = "named" /\ post.args = "ill", "dropped"),
                   Check(post.tool = "named" /\ post.args \in {"malformed", "not_object"},
                         "error"),
                   Check(post.source = "ill", "dropped"),
                   Check(post.source = "unknown", "error"),
                   Check(post.ids = "ill", "dropped"),
                   Check(post.content = "ill", "error")>>)

\* The AgentRequest _inspect builds; blank fields get their defaults.
RequestOf(post) ==
    LET agent == IF post.ids = "blank" THEN "playground" ELSE post.req.agent
        role == IF post.ids = "blank" THEN "researcher" ELSE post.req.role
        call == CASE post.tool = "blank" -> NoCall
                  [] post.tool = "named" /\ post.args = "blank" -> PlainCall(post.req.call.tool)
                  [] OTHER -> post.req.call
    IN  [post.req EXCEPT !.agent = agent, !.role = role, !.call = call]

ASSUME DemoAssumption ==
    /\ HistMax \in Nat \ {0}
    /\ \A item \in Items : item.req \in Requests
    /\ \A name \in DOMAIN Traffics :
          /\ Traffics[name].posts \subseteq {post \in Post : RequestOf(post) \in Requests}
          /\ Traffics[name].items \subseteq Items
          /\ Traffics[name].total \in Nat /\ Traffics[name].total <= MaxRequests
          /\ 1..Traffics[name].total \subseteq Workers

-----------------------------------------------------------------------------
(* Connections *)

Unused == [stage |-> "unused"]
Sent(post) == [stage |-> "sent", post |-> post]
Reading(post) == [stage |-> "reading", post |-> post]
InGateway(id) == [stage |-> "in_gateway", id |-> id]
Replied(id) == [stage |-> "replied", id |-> id]         \* with the Decision on id
Closed(reply) == [stage |-> "closed", reply |-> reply]

Open(w) == conn[w].stage \in {"sent", "reading", "in_gateway"}
InFlight == Cardinality({w \in Workers : Open(w)})
Begun == Cardinality({w \in Workers : conn[w] # Unused})

\* Connections are numbered in the order in which they begin.
MayBegin(w) ==
    /\ w = Begun + 1 /\ w <= Traffics[traffic].total
    /\ InFlight < Traffics[traffic].parallel

Connect(w) ==
    /\ MayBegin(w)
    /\ \E post \in Traffics[traffic].posts : conn' = [conn EXCEPT ![w] = Sent(post)]
    /\ UNCHANGED <<allvars, traffic, samples, scrape>>

Submitted(w, req) ==
    /\ Submit(w, req)
    /\ conn' = [conn EXCEPT ![w] = InGateway(Len(asked) + 1)]
    /\ UNCHANGED <<traffic, samples, scrape>>

\* The host application calls gateway.process itself.
CallDirectly(w) ==
    /\ MayBegin(w)
    /\ \E item \in Traffics[traffic].items : Submitted(w, item.req)

\* do_POST: refused before or after the body is read, or inspected.
Handle(w) ==
    LET post == conn[w].post
        failure == IF HeaderFailure(post) # "none" THEN HeaderFailure(post)
                                                   ELSE PayloadFailure(post)
    IN  /\ conn[w].stage = "sent"
        /\ \/ /\ HeaderFailure(post) = "none" /\ post.length = "beyond"
              /\ conn' = [conn EXCEPT ![w] = Reading(post)]
              /\ UNCHANGED <<allvars, traffic, samples, scrape>>
           \/ /\ HeaderFailure(post) # "none" \/ post.length # "beyond"
              /\ failure # "none"
              /\ conn' = [conn EXCEPT ![w] = Closed(failure)]
              /\ UNCHANGED <<allvars, traffic, samples, scrape>>
           \/ /\ failure = "none" /\ post.length # "beyond"
              /\ Submitted(w, RequestOf(post))

\* A length beyond what is sent, or of -1, is read until the client closes its
\* end.
EndOfInput(w) ==
    /\ conn[w].stage = "reading"
    /\ conn' = [conn EXCEPT ![w] = Sent([conn[w].post EXCEPT !.length = "exact"])]
    /\ UNCHANGED <<allvars, traffic, samples, scrape>>

Sampled == IF samples < HistMax THEN samples + 1 ELSE samples

\* Mutant: a latency is recorded for what is allowed.
SamplesAllowed(w) ==
    /\ conn[w].stage = "in_gateway"
    /\ Step(w)
    /\ samples' = IF At(w, "emit") /\ job[w].dec.allowed THEN Sampled ELSE samples
    /\ UNCHANGED <<traffic, conn, scrape>>

\* A step of the pipeline; the latency is recorded before the audit record.
Serve(w) ==
    /\ conn[w].stage = "in_gateway"
    /\ Step(w)
    /\ samples' = IF At(w, "emit") THEN Sampled ELSE samples
    /\ UNCHANGED <<traffic, conn, scrape>>

Fail(w) ==
    /\ conn[w].stage = "in_gateway"
    /\ faults < Traffics[traffic].faults
    /\ Raise(w)
    /\ samples' = IF At(w, "emit") THEN Sampled ELSE samples
    /\ UNCHANGED <<traffic, conn, scrape>>

Reply(w) ==
    /\ conn[w].stage = "in_gateway" /\ job[w] = IdleJob
    /\ conn' = [conn EXCEPT ![w] = Replied(conn[w].id)]
    /\ UNCHANGED <<allvars, traffic, samples, scrape>>

-----------------------------------------------------------------------------
(* GET of /api/metrics or /api/health *)

\* Requests the pipeline decided whose replies have been sent.
Decided == {id \in Ids : Answered(id) /\ ~answer[id].error
                           /\ \E w \in Workers : conn[w] = Replied(id)}

NoScrape == [stage |-> "none"]

\* snapshot, under the lock: the counters, and references to the histograms that
\* exist.  replied is history: the decisions whose replies precede the scrape.
SnapshotCounters ==
    /\ scrape = NoScrape /\ Traffics[traffic].scraped
    /\ scrape' = [stage |-> "copied", replied |-> Decided, counters |-> counters,
                  hist |-> samples > 0]
    /\ UNCHANGED <<allvars, traffic, conn, samples>>

\* Later and unlocked: stats of each histogram.
SnapshotLatency ==
    /\ scrape.stage = "copied"
    /\ scrape' = [stage |-> "done", replied |-> scrape.replied,
                  counters |-> scrape.counters,
                  observed |-> IF scrape.hist THEN samples ELSE 0]
    /\ UNCHANGED <<allvars, traffic, conn, samples>>

-----------------------------------------------------------------------------
DInit ==
    /\ GInit
    /\ traffic \in DOMAIN Traffics
    /\ conn = [w \in Workers |-> Unused]
    /\ samples = 0 /\ scrape = NoScrape

Handler(w) == Handle(w) \/ Serve(w) \/ Reply(w)

DNext ==
    \/ \E w \in Workers :
          Connect(w) \/ CallDirectly(w) \/ Handler(w) \/ EndOfInput(w) \/ Fail(w)
    \/ SnapshotCounters \/ SnapshotLatency

\* Threads run; a client may keep its connection open for ever.
DSpec == DInit /\ [][DNext]_dvars /\ \A w \in Workers : WF_dvars(Handler(w))

-----------------------------------------------------------------------------
(* Properties *)

\* The pipeline decided, without an internal error.
DecidedOn(id) == Answered(id) /\ ~answer[id].error

\* The injected text is gone, or the request was refused.
Neutralized(s, id) ==
    answer[id].verdict = "block" \/ (answer[id].scrubbed /\ ~StillInjected(s.req))

\* "one-click reproductions of the behaviours the README claims" (server.py:39):
\* the page plays all scenarios as one agent (index.html:237), so each is judged
\* with the history the others leave.  In every order no attack runs, and the
\* ordinary work (no guarded tool) "must pass untouched" (server.py:47).
ScenariosEndRight ==
    \A s \in Scenarios, id \in Ids :
        asked[id] = s.req /\ DecidedOn(id) =>
            /\ s.expect = "block" => ~answer[id].allowed /\ ~effect[id].ran
            /\ s.expect = "neutralized" => Neutralized(s, id)
            /\ s.expect = "allow" /\ ~IsGuarded(s.req.call.tool) =>
                 answer[id].allowed /\ effect[id].ran

\* "The scenario list is a claim about how AEGIS behaves; hold it to that"
\* (test_demo_server.py:134, which gives each scenario an agent of its own): the
\* verdict is the one the label names when the scenarios are played on the page.
EveryLabelHolds ==
    \A s \in Scenarios, id \in Ids :
        asked[id] = s.req /\ DecidedOn(id) =>
            /\ s.expect = "block" => answer[id].verdict = "block"
            /\ s.expect = "allow" => answer[id].verdict # "block"
            /\ s.expect = "neutralized" => Neutralized(s, id)

Requested(authorized) == {item.req : item \in {i \in Items : i.authorized = authorized}}
AuthorizedRequests == Requested(TRUE)
AttackRequests == Requested(FALSE)

\* Each attack asks for what the policy refuses on its request, or sends a secret
\* to an external host.
AttacksAreRecognized ==
    \A req \in AttackRequests : ~PolicyAllows(req) \/ GroundTruthExfil(req.call)

\* No attack of the workload runs its tool (a hijack, as far as the rules
\* recognise the injection that drives it).
AttacksFail == \A id \in Ids : asked[id] \in AttackRequests => ~effect[id].ran

\* Benign agents "have a distinct identity space from attackers"
\* (simulated_agent.py:85-86): what attackers do, and the history it leaves, costs
\* them no call, and neither does their own.
AuthorizedWorkRuns ==
    \A id \in Ids :
        asked[id] \in AuthorizedRequests /\ DecidedOn(id) =>
            answer[id].allowed /\ answer[id].executed /\ effect[id].ran

\* "ground truth: should this execute?" (simulated_agent.py:46): whatever each
\* agent did before, and whoever runs beside it, the workload's authorized items
\* run and no other does.
GroundTruthHolds == AttacksFail /\ AuthorizedWorkRuns

\* The two halves of a snapshot are taken at different times (telemetry.py:64-69),
\* yet a decision whose reply was sent before the scrape shows in both: in the
\* counters and, up to the histogram's length, in the latencies.
ScrapeShowsReplies ==
    scrape.stage = "done" =>
        LET n == Cardinality(scrape.replied)
        IN  /\ scrape.counters["requests"] >= n
            /\ scrape.observed >= n \/ scrape.observed = HistMax

\* A complete post with well-typed fields is answered, whatever the other
\* connections do: one that is never closed holds up its own thread only
\* (ThreadingHTTPServer, server.py:276).
WellTyped(post) ==
    /\ post.length \notin {"beyond", "negative"} /\ post.body # "not_object"
    /\ "ill" \notin {post.tool, post.args, post.source, post.ids}

PostsAnswered ==
    \A w \in Workers :
        (conn[w].stage = "sent" /\ WellTyped(conn[w].post))
          ~> \/ conn[w].stage = "replied"
             \/ conn[w].stage = "closed" /\ conn[w].reply # "dropped"
=============================================================================
