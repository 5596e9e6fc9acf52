---------------------------- MODULE AegisDefaults ----------------------------
(***************************************************************************)
(* The module-level tables of aegis/config.py, and the configuration that   *)
(* AegisConfig() builds from them.  The MC modules start from               *)
(* DefaultConfig and change the fields a run needs smaller.                  *)
(***************************************************************************)
EXTENDS Naturals

ROLE_TRUST ==
    [untrusted |-> 10, researcher |-> 40, analyst |-> 55, ops |-> 75, admin |-> 95]

ReadTools == {"web_search", "read_public_doc", "read_file", "db_query"}

ROLE_TOOL_MATRIX ==
    [untrusted  |-> {"web_search", "read_public_doc"},
     researcher |-> ReadTools,
     analyst    |-> ReadTools \cup {"send_email"},
     ops        |-> ReadTools \cup {"send_email", "http_post", "delete_file"},
     admin      |-> ReadTools \cup {"send_email", "http_post", "delete_file",
                                    "read_secret", "transfer_funds", "exec_shell"}]

TOOL_SENSITIVITY ==
    [web_search |-> "low", read_public_doc |-> "low",
     read_file |-> "medium", db_query |-> "medium",
     send_email |-> "high", http_post |-> "high", delete_file |-> "high",
     read_secret |-> "critical", transfer_funds |-> "critical",
     exec_shell |-> "critical"]

SENSITIVITY_TRUST_FLOOR == [low |-> 0, medium |-> 30, high |-> 60, critical |-> 90]

\* One host per class the egress rules tell apart.
InternalHost == "api.internal.corp"     \* internal and on both allowlists
PartnerHost == "partners.trusted-vendor.com"  \* external, allowed for TRUSTED
BadHost == "evil.com"                   \* a known-bad destination
OtherHost == "news.example.org"         \* external and on no list
DefaultHosts == {InternalHost, PartnerHost, BadHost, OtherHost}

DefaultTools == DOMAIN TOOL_SENSITIVITY

TIER_CAPS ==
    [no_net     |-> [egress |-> "none", filesystem |-> "none",
                     secret_access |-> "none", allow_destinations |-> {}],
     read_only  |-> [egress |-> "none", filesystem |-> "ro",
                     secret_access |-> "scoped", allow_destinations |-> {}],
     restricted |-> [egress |-> "allowlist", filesystem |-> "scratch",
                     secret_access |-> "scoped",
                     allow_destinations |-> {InternalHost}],
     trusted    |-> [egress |-> "broad", filesystem |-> "scratch",
                     secret_access |-> "full",
                     allow_destinations |-> {InternalHost, PartnerHost}]]

DefaultThresholds ==
    [injection_block |-> 80, injection_sanitize |-> 30,
     anomaly_quarantine |-> 55, anomaly_block |-> 85]

\* AegisConfig(): durations in ticks of one second.
DefaultConfig ==
    [role_trust |-> ROLE_TRUST,
     role_tool_matrix |-> ROLE_TOOL_MATRIX,
     tool_sensitivity |-> TOOL_SENSITIVITY,
     sensitivity_trust_floor |-> SENSITIVITY_TRUST_FLOOR,
     thresholds |-> DefaultThresholds,
     egress_tools |-> {"http_post", "send_email", "transfer_funds"},
     write_tools |-> {"delete_file", "exec_shell"},
     secret_tools |-> {"read_secret"},
     tier_caps |-> TIER_CAPS,
     known_bad_destinations |-> {BadHost},
     internal_hosts |-> {InternalHost},
     rate_window |-> 1, rate_limit |-> 20, max_agents |-> 100000,
     max_content_length |-> 100000,
     profile_ttl |-> 3600, sensitive_read_window |-> 300, block_window |-> 60]
=============================================================================
