----------------------------- MODULE ConfigStore -----------------------------
(***************************************************************************)
(* The configuration objects of a process (aegis/config.py, gateway.py       *)
(* 55): the module's DEFAULT_CONFIG, copies, configurations parsed from a     *)
(* mapping or overlaid from the environment, and the private copy of each     *)
(* gateway.  Their fields refer to mutable containers, which whoever holds    *)
(* an object may change in place, unchecked, at any time.                     *)
(*                                                                         *)
(* The fields fall into four classes: tables (the mappings and lists          *)
(* from_dict keeps as they are), sets (those it converts), the Thresholds     *)
(* object and the scalars, of which rate_limit stands for all.                *)
(***************************************************************************)
EXTENDS Naturals, Sequences

CONSTANTS
    Mappings,       \* what the host parses: [keys, content] of a mapping
    Overlays,       \* what the environment sets: [thresholds, limit]
    MaxObjects,     \* bound on the objects of a behaviour
    MaxTunes        \* bound on the changes in place

VARIABLES
    objects,    \* configurations and mappings: where their containers are
    cells,      \* the containers that were made for each object
    told,       \* history: the content its own holders gave each object
    tuned       \* history: the objects changed in place, and how often

cvars == <<objects, cells, told, tuned>>

-----------------------------------------------------------------------------
(* Contents.  A table may be out of range; any set of names will do.          *)

Tables == {"default", "invalid"}
Sets == {"default", "other"}
Thresholds == [sanitize : 1..2, block : 1..2]
Limits == 0..1
Content == [tables : Tables, sets : Sets, thresholds : Thresholds, limit : Limits]

DefaultContent ==
    [tables |-> "default", sets |-> "default",
     thresholds |-> [sanitize |-> 1, block |-> 2], limit |-> 1]

\* AegisConfig.validate
ContentValid(c) ==
    /\ c.tables # "invalid"
    /\ c.thresholds.sanitize <= c.thresholds.block
    /\ c.limit >= 1

\* A "parsed" configuration comes from from_dict; keys are those of a mapping.
Kinds == {"config", "parsed", "gateway", "mapping"}
Keys == {"tables", "sets", "thresholds", "limit", "unknown"}

ASSUME StoreAssumption ==
    /\ MaxObjects \in Nat \ {0} /\ MaxTunes \in Nat
    /\ \A m \in Mappings : m.keys \subseteq Keys /\ m.content \in Content
    /\ \A o \in Overlays : o.thresholds \in Thresholds /\ o.limit \in Limits

Ids == 1..Len(objects)
Configs == {i \in Ids : objects[i].kind # "mapping"}
Gateways == {i \in Ids : objects[i].kind = "gateway"}

\* What object i holds now: container f of object i was made for objects[i][f].
Held(i) ==
    [tables |-> cells[objects[i].tables].tables,
     sets |-> cells[objects[i].sets].sets,
     thresholds |-> cells[objects[i].thresholds].thresholds,
     limit |-> objects[i].limit]

-----------------------------------------------------------------------------
New == Len(objects) + 1

\* A new object; owners says which object's containers it refers to.
Add(kind, keys, c, tables, sets, thresholds) ==
    /\ Len(objects) < MaxObjects
    /\ objects' = Append(objects,
                    [kind |-> kind, keys |-> keys, tables |-> tables, sets |-> sets,
                     thresholds |-> thresholds, limit |-> c.limit])
    /\ cells' = Append(cells, [tables |-> c.tables, sets |-> c.sets,
                               thresholds |-> c.thresholds])
    /\ told' = Append(told, c)
    /\ UNCHANGED tuned

\* Mutant: the copy keeps the Thresholds object.
SharesThresholds(kind, i) ==
    ContentValid(Held(i)) /\ Add(kind, Keys, Held(i), New, New, objects[i].thresholds)

\* Mutant: the copy is not validated.
CopiesUnchecked(kind, i) == Add(kind, Keys, Held(i), New, New, New)

\* copy: dataclasses.replace with containers of its own, so that __post_init__
\* validates the result; an invalid one raises and there is no object.
CopyAs(kind, i) ==
    ContentValid(Held(i)) /\ Add(kind, Keys, Held(i), New, New, New)

\* AegisConfig() and default_config()
Create == Add("config", Keys, DefaultContent, New, New, New)

Copy(i) == i \in Configs /\ CopyAs("config", i)

\* AegisGateway.__init__: config or DEFAULT_CONFIG, which is object 1, is copied.
NewGateway(i) == i \in Configs /\ CopyAs("gateway", i)

\* A host application's own mapping, with some of the keys.
NewMapping(m) == Add("mapping", m.keys, m.content, New, New, New)

\* from_dict (and from_file, whose mapping nobody else holds): containers that
\* need no conversion are kept, so that the mapping's holder shares them.
FromDict(i) ==
    LET keys == objects[i].keys
        c == [f \in DOMAIN DefaultContent |->
                IF f \in keys THEN Held(i)[f] ELSE DefaultContent[f]]
    IN  /\ objects[i].kind = "mapping"
        /\ "unknown" \notin keys
        /\ ContentValid(c)
        /\ Add("parsed", Keys, c,
               IF "tables" \in keys THEN objects[i].tables ELSE New, New, New)

\* from_env: a copy of the base, overlaid and validated again.
FromEnv(i, o) ==
    LET c == [Held(i) EXCEPT !.thresholds = o.thresholds, !.limit = o.limit]
    IN  /\ i \in Configs
        /\ ContentValid(Held(i)) /\ ContentValid(c)
        /\ Add("config", Keys, c, New, New, New)

\* A holder of object i changes one of its containers in place, or a scalar.
Tune(i, c) ==
    /\ Len(tuned) < MaxTunes
    /\ cells' = [cells EXCEPT ![objects[i].tables].tables = c.tables,
                              ![objects[i].sets].sets = c.sets,
                              ![objects[i].thresholds].thresholds = c.thresholds]
    /\ objects' = [objects EXCEPT ![i].limit = c.limit]
    /\ told' = [told EXCEPT ![i] = c]
    /\ tuned' = Append(tuned, i)

\* Contents that differ from c in one field.
OneChange(c) ==
    {[c EXCEPT !.tables = t] : t \in Tables \ {c.tables}}
    \cup {[c EXCEPT !.sets = t] : t \in Sets \ {c.sets}}
    \cup {[c EXCEPT !.thresholds = t] : t \in Thresholds \ {c.thresholds}}
    \cup {[c EXCEPT !.limit = n] : n \in Limits \ {c.limit}}

CInit ==
    /\ objects = <<[kind |-> "config", keys |-> Keys, tables |-> 1, sets |-> 1,
                    thresholds |-> 1, limit |-> DefaultContent.limit]>>
    /\ cells = <<[tables |-> DefaultContent.tables, sets |-> DefaultContent.sets,
                  thresholds |-> DefaultContent.thresholds]>>
    /\ told = <<DefaultContent>>
    /\ tuned = <<>>

CNext ==
    \/ Create
    \/ \E m \in Mappings : NewMapping(m)
    \/ \E i \in Ids : \/ Copy(i) \/ NewGateway(i) \/ FromDict(i)
                      \/ \E o \in Overlays : FromEnv(i, o)
                      \/ \E c \in OneChange(Held(i)) : Tune(i, c)

CSpec == CInit /\ [][CNext]_cvars

-----------------------------------------------------------------------------
(* Properties *)

\* "mutating a gateway's config never leaks into this one" (config.py:413-415),
\* "tuning this gateway's config never mutates a shared default or another
\* gateway's policy" (gateway.py:53-54): a gateway's configuration, a copy and
\* DEFAULT_CONFIG change only through their own holders.  What from_dict returns
\* is left out: it shares the tables of the mapping.
HoldersAreIsolated ==
    \A i \in Configs : objects[i].kind # "parsed" => Held(i) = told[i]

\* No gateway starts with, or later gets, an inconsistent configuration, unless
\* its own is changed in place: whatever a holder did to the mapping or to the
\* configuration before (config.py:229-230, 307).
UntunedGatewaysAreValid ==
    \A i \in Gateways :
        (\A k \in 1..Len(tuned) : tuned[k] # i) => ContentValid(Held(i))
=============================================================================
