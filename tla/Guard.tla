-------------------------------- MODULE Guard --------------------------------
(***************************************************************************)
(* What the gateway promises in protected mode (SECURITY.md:27-35), without *)
(* its pipeline, threads, monitor or telemetry: a request runs its tool     *)
(* only if the policy lets it, a run leaks nothing, no answer claims a run  *)
(* that did not happen, no unacceptable content is let through, and every   *)
(* request is answered, once.                                               *)
(***************************************************************************)
EXTENDS Naturals, Sequences

CONSTANTS
    Requests,           \* the requests callers may submit
    MayRun(_),          \* the policy lets the request's tool run
    MayPass(_)          \* the policy lets a request without a tool call through

VARIABLES asked, effect, answer

vars == <<asked, effect, answer>>

Answers == [allowed : BOOLEAN, executed : BOOLEAN, error : BOOLEAN]
Open == [open |-> TRUE]

Init == asked = <<>> /\ effect = <<>> /\ answer = <<>>

Submit(req) ==
    /\ asked' = Append(asked, req)
    /\ effect' = Append(effect, "none")
    /\ answer' = Append(answer, Open)

\* The tool of an open request runs, without a leak.
Run(id) ==
    /\ answer[id] = Open
    /\ effect[id] = "none"
    /\ MayRun(asked[id])
    /\ effect' = [effect EXCEPT ![id] = "ran"]
    /\ UNCHANGED <<asked, answer>>

\* An answer reports a run truthfully; only an internal error may hide one.
Truthful(id, a) ==
    /\ a.executed => effect[id] = "ran"
    /\ a.allowed => a.executed \/ MayPass(asked[id])
    /\ a.error => ~a.allowed /\ ~a.executed
    /\ effect[id] = "ran" => a.executed \/ a.error

Answer(id) ==
    /\ answer[id] = Open
    /\ \E a \in Answers : Truthful(id, a) /\ answer' = [answer EXCEPT ![id] = a]
    /\ UNCHANGED <<asked, effect>>

Next ==
    \/ \E req \in Requests : Submit(req)
    \/ \E id \in 1..Len(asked) : Run(id) \/ Answer(id)

Spec == Init /\ [][Next]_vars
=============================================================================
