-------------------------------- MODULE MCLoop --------------------------------
(* Small instances of the agent graph for TLC: an admin's agent that reads a  *)
(* secret, posts, sends mail and searches, alone or two calls at a time.      *)
EXTENDS AgentLoop, AegisDefaults, TLC

\* Two attempts are no burst, so that the sequence signal decides alone.
SequenceConfig ==
    [DefaultConfig EXCEPT !.rate_limit = 2, !.rate_window = 1, !.max_agents = 2,
        !.profile_ttl = 9, !.sensitive_read_window = 1, !.block_window = 1]

Clean == [over |-> FALSE, model |-> 0, rule |-> 0]
Attack == [over |-> FALSE, model |-> 90, rule |-> 70]

SomeContents == {[text |-> Clean, scrubbed |-> Clean],
                 [text |-> Attack, scrubbed |-> Attack]}

Propose(tool, dests) ==
    [call |-> [tool |-> tool, dests |-> dests, text_hosts |-> dests, secret |-> FALSE],
     args |-> Clean]

SecretRead == Propose("read_secret", {})
PartnerPost == Propose("http_post", {PartnerHost})
Search == Propose("web_search", {})
Row == Propose("db_query", {})

SomeBatches == {<<>>, <<SecretRead>>, <<PartnerPost>>, <<Search>>,
                <<SecretRead, PartnerPost>>, <<PartnerPost, Row>>}

\* read_secret, http_post and db_query have functions.
SomeFunctions == {"read_secret", "http_post", "db_query"}

AdminGraph == [w \in Threads |-> [agent |-> "b", role |-> "admin"]]

LoopRequests ==
    {[agent |-> "b", role |-> "admin", untrusted |-> TRUE, content |-> c.text,
      scrubbed |-> c.scrubbed, call |-> p.call, args |-> p.args] :
        c \in SomeContents, p \in {SecretRead, PartnerPost, Search, Row}}
=============================================================================
