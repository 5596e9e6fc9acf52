------------------------------ MODULE MCDemo ------------------------------
(* Small instances of the playground for TLC, one per kind of traffic: the     *)
(* scenarios in every order; two at a time while the metrics are read; more    *)
(* requests than the histogram holds; ill formed posts; every generated text   *)
(* once; workload items in pairs; a few items in longer sequences and in       *)
(* parallel.                                                                   *)
EXTENDS DemoServer, TLC

ScenarioRequests == {s.req : s \in Scenarios}

WellFormed(req) ==
    [path |-> "inspect", length |-> "exact", body |-> "object", tool |-> "named",
     args |-> "object", source |-> "known", ids |-> "text", content |-> "text",
     req |-> req]

Sample == (CHOOSE s \in Scenarios : s.id = "privileged").req

\* Posts that leave the usual path in one field or two.
OddPosts ==
    {changed @@ WellFormed(Sample) : changed \in
        {[path |-> "inspect"], [path |-> "other"],
         [length |-> "not_a_number"], [length |-> "over"], [length |-> "beyond"],
         [length |-> "negative"], [length |-> "beyond", body |-> "malformed"],
         [body |-> "not_object"], [tool |-> "blank", args |-> "ill"], [tool |-> "ill"],
         [args |-> "malformed", source |-> "ill"], [args |-> "not_object"],
         [args |-> "ill"], [args |-> "blank", ids |-> "blank"], [source |-> "unknown"],
         [source |-> "unknown", ids |-> "ill"], [source |-> "ill"],
         [ids |-> "ill", content |-> "ill"], [content |-> "ill"]}}

\* The most the classifier may give a harmless text: at 14 an attempt to use an
\* egress tool the agent has not used before is routed to a tier without egress.
BenignMax == 13

User == "user-agent-1"
Attacker == "ext-agent-1"

\* The texts at their simplest and at their most suspicious.
SomeDocs == {{}, {"exfil_verb", "credential", "own"}}

BenignItems == {BenignItem(User, combo, TRUE, {}, BenignMax) : combo \in AUTHORIZED_COMBOS}

BenignTexts ==
    {BenignItem(User, combo, untrusted, doc, model) :
        combo \in AUTHORIZED_COMBOS, untrusted \in BOOLEAN, doc \in BenignDocs,
        model \in {0, BenignMax}}

\* Hijacks are stopped by their text alone: those the rules find suspicious.  The
\* classifier, whose score is 0 here, has to find the others.
Hijacks(doc) ==
    {injection \in UNION {RandomInjection(f) : f \in {"tool_hijack", "direct_override", "jailbreak"}} :
        RuleScore(Injected(doc, injection)) >= DefaultThresholds.injection_sanitize}

AttackTexts ==
    UNION {{InjectionExfilItem(Attacker, role, tool, doc, injection) :
              injection \in RandomInjection("exfil")}
             : role \in {"ops", "admin"}, tool \in {"send_email", "http_post"}, doc \in SomeDocs}
    \cup
    UNION {{HijackItem(Attacker, role, tool, doc, injection) : injection \in Hijacks(doc)}
             : role \in {"ops", "admin"}, tool \in {"delete_file", "exec_shell"}, doc \in SomeDocs}

\* The roles and tools of one kind of attack, the weaker role first.
MailRoles == {<<"ops", "send_email">>, <<"admin", "http_post">>}

AttackItems ==
    {ForbiddenItem(Attacker, combo) : combo \in RBAC_VIOLATIONS \cup TRUST_FLOOR_CASES}
      \cup {DirectExfilItem(Attacker, by[1], by[2]) : by \in MailRoles}
      \cup {InjectionExfilItem(Attacker, by[1], by[2], {}, {"exfil_verb", "own"}) : by \in MailRoles}
      \cup {HijackItem(Attacker, by[1], by[2], {}, by[3]) :
              by \in {<<"ops", "delete_file", {"tool_trigger", "coercion"}>>,
                      <<"admin", "exec_shell", {"payload"}>>}}

UserItems ==
    {BenignItem(User, <<by[1], by[2]>>, by[3], {}, BenignMax) :
        by \in {<<"admin", "transfer_funds", FALSE>>, <<"admin", "read_secret", TRUE>>,
                <<"ops", "http_post", FALSE>>, <<"analyst", "db_query", TRUE>>}}

FewItems ==
    UserItems \cup
    {ForbiddenItem(Attacker, <<"ops", "transfer_funds">>),
     DirectExfilItem(Attacker, "ops", "send_email"),
     HijackItem(Attacker, "admin", "exec_shell", {}, {"jailbreak"})}

Mix(posts, items, parallel, total, scraped, errors) ==
    [posts |-> posts, items |-> items, parallel |-> parallel, total |-> total,
     scraped |-> scraped, faults |-> errors]

DemoItems == BenignItems \cup FewItems \cup AttackItems
TextItems == BenignTexts \cup AttackTexts
AllItems == DemoItems \cup TextItems

Posts(ids) == {WellFormed(s.req) : s \in {s \in Scenarios : s.id \in ids}}

AllPosts == {WellFormed(s.req) : s \in Scenarios}
FivePosts == Posts({"benign", "indirect", "shell-exfil", "multilingual", "privileged"})
TwoPosts == Posts({"indirect", "multilingual"})
OnePost == Posts({"rbac"})

DemoTraffics ==
    [scenarios |-> Mix(AllPosts, {}, 1, 3, FALSE, 0),
     four |-> Mix(FivePosts, {}, 1, 4, FALSE, 0),
     scraped |-> Mix(TwoPosts, {}, 2, 2, TRUE, 0),
     full |-> Mix(OnePost, {}, 1, 4, TRUE, 0),
     odd_posts |-> Mix(OddPosts, {}, 2, 2, FALSE, 1),
     texts |-> Mix({}, TextItems, 1, 1, FALSE, 0),
     pairs |-> Mix({}, DemoItems, 1, 2, FALSE, 0),
     triples |-> Mix({}, FewItems, 1, 3, FALSE, 0),
     one_agent |-> Mix({}, UserItems, 1, 4, FALSE, 0),
     parallel |-> Mix({}, FewItems, 2, 2, FALSE, 0)]

\* Two scenarios, one after the other: the traffic for EveryLabelHolds.
OrderTraffics == [two |-> Mix(AllPosts, {}, 1, 2, FALSE, 0)]

DemoRequests ==
    ScenarioRequests \cup {RequestOf(post) : post \in OddPosts}
      \cup {item.req : item \in AllItems}

\* What NoAttackRuns assumes of the items.
ASSUME RecognizedAssumption == AttacksAreRecognized
=============================================================================
