------------------------------ MODULE MCGateway ------------------------------
(* Small instances of the gateway for TLC: one request per case the pipeline  *)
(* tells apart, submitted in every order by two workers.                      *)
EXTENDS GatewayProperties, AegisDefaults, TLC

\* The default policy with small behavioural limits; the store and the deques
\* have room for every request of a behaviour.
SmallConfig ==
    [DefaultConfig EXCEPT !.rate_limit = 1, !.rate_window = 1, !.max_agents = 2,
        !.profile_ttl = 9, !.sensitive_read_window = 1, !.block_window = 1]

\* The same with a role that may call a tool it is not trusted with.  No pair of
\* the default tables is like that; an operator's may be (validate accepts it).
LooseConfig ==
    [SmallConfig EXCEPT !.role_tool_matrix["untrusted"] = @ \cup {"read_file"}]

\* Two attempts are no burst, so that the sequence signal decides alone.
SequenceConfig == [SmallConfig EXCEPT !.rate_limit = 2]

Clean == [over |-> FALSE, model |-> 0, rule |-> 0]
Elevated == [over |-> FALSE, model |-> 20, rule |-> 0]
Odd == [over |-> FALSE, model |-> 40, rule |-> 0]
Suspicious == [over |-> FALSE, model |-> 40, rule |-> 40]
Attack == [over |-> FALSE, model |-> 90, rule |-> 70]
Huge == [over |-> TRUE, model |-> 0, rule |-> 0]

ACall(tool, dests, secret) ==
    [tool |-> tool, dests |-> dests, text_hosts |-> dests, secret |-> secret]

ARequest(agent, role, content, scrubbed, call, args) ==
    [agent |-> agent, role |-> role, untrusted |-> TRUE, content |-> content,
     scrubbed |-> scrubbed, call |-> call, args |-> args]

ToolRequest(agent, role, tool, dests, secret) ==
    ARequest(agent, role, Clean, Clean, ACall(tool, dests, secret), Clean)

\* Agent "a" of role ops, agent "b" of role admin.
Read == ToolRequest("a", "ops", "read_file", {}, FALSE)
MailInside == ToolRequest("a", "ops", "send_email", {InternalHost}, FALSE)
MailOutside == ToolRequest("a", "ops", "send_email", {InternalHost, OtherHost}, TRUE)
Forbidden == ToolRequest("a", "ops", "exec_shell", {}, FALSE)
ShellOutside == ToolRequest("b", "admin", "exec_shell", {OtherHost}, TRUE)
SecretRead == ToolRequest("b", "admin", "read_secret", {}, FALSE)
PartnerPost == ToolRequest("b", "admin", "http_post", {PartnerHost}, FALSE)
SecretPost == ToolRequest("b", "admin", "http_post", {PartnerHost}, TRUE)
OddRead == ARequest("a", "ops", Odd, Odd, ACall("read_file", {}, FALSE), Clean)
PoisonedArgs == ARequest("a", "ops", Clean, Clean, ACall("db_query", {}, FALSE), Attack)
HugeArgs == ARequest("b", "admin", Clean, Clean, ACall("read_file", {}, FALSE), Huge)
Transfer == ARequest("b", "admin", Elevated, Elevated,
                     ACall("transfer_funds", {InternalHost}, FALSE), Clean)
SuspiciousRead == ARequest("b", "admin", Odd, Clean,
                           ACall("read_secret", {}, FALSE), Clean)
ReadBelowFloor == ToolRequest("a", "untrusted", "read_file", {}, FALSE)
AttackBelowFloor == ARequest("b", "untrusted", Attack, Attack,
                             ACall("read_file", {}, FALSE), Clean)
CleanableDoc == ARequest("a", "ops", Suspicious, Clean, NoCall, Clean)
StubbornDoc == ARequest("a", "ops", Suspicious, Suspicious, NoCall, Clean)
AttackDoc == ARequest("a", "ops", Attack, Attack, NoCall, Clean)

ToolMix == {Read, MailOutside, Forbidden, ShellOutside, SecretRead, SecretPost,
            OddRead, Transfer, SuspiciousRead}
DocMix == {CleanableDoc, StubbornDoc, AttackDoc, PoisonedArgs, HugeArgs, PartnerPost}
AllRequests ==
    ToolMix \cup DocMix \cup {MailInside, ReadBelowFloor, AttackBelowFloor}
FewRequests == {Read, MailOutside, SecretRead, CleanableDoc}
SequenceMix == {SecretRead, PartnerPost, Read, MailOutside}
Reads == {Read}
=============================================================================
