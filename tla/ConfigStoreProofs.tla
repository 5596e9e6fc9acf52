-------------------------- MODULE ConfigStoreProofs --------------------------
(***************************************************************************)
(* For every number of objects and changes: which containers an object can   *)
(* share, and hence who can change it.  The invariant says whose containers  *)
(* each object refers to: its own, save that what from_dict returned may      *)
(* refer to a table of the mapping it was given.                              *)
(***************************************************************************)
EXTENDS ConfigStore, TLAPS

Object == [kind : Kinds, keys : SUBSET Keys, tables : Nat, sets : Nat,
           thresholds : Nat, limit : Limits]
Cell == [tables : Tables, sets : Sets, thresholds : Thresholds]

CTypeOK ==
    /\ objects \in Seq(Object)
    /\ cells \in Seq(Cell) /\ Len(cells) = Len(objects)
    /\ told \in Seq(Content) /\ Len(told) = Len(objects)
    /\ tuned \in Seq(Nat)

\* Whose containers object i refers to.
OwnerOfTables(i) ==
    \/ objects[i].tables = i
    \/ /\ objects[i].kind = "parsed"
       /\ objects[i].tables \in Ids /\ objects[objects[i].tables].kind = "mapping"

Owned(i) == objects[i].sets = i /\ objects[i].thresholds = i /\ OwnerOfTables(i)

Own(i) == objects[i].kind \notin {"parsed", "mapping"}
Untuned(i) == \A k \in 1..Len(tuned) : tuned[k] # i

\* What is said of one object.
ObjectInv(i) ==
    /\ Owned(i)
    /\ Own(i) => Held(i) = told[i]
    /\ objects[i].kind = "gateway" /\ Untuned(i) => ContentValid(told[i])

CInv == CTypeOK /\ \A i \in Ids : ObjectInv(i)

-----------------------------------------------------------------------------
LEMMA InvImpliesProperties == CInv => HoldersAreIsolated /\ UntunedGatewaysAreValid
BY DEF CInv, ObjectInv, HoldersAreIsolated, UntunedGatewaysAreValid, Own, Configs,
       Gateways, Untuned, Ids

LEMMA DefaultContentType == DefaultContent \in Content
BY DEF DefaultContent, Content, Tables, Sets, Thresholds, Limits

LEMMA InitInv == CInit => CInv
<1> SUFFICES ASSUME CInit PROVE CInv
  OBVIOUS
<1>1. CTypeOK
  BY DefaultContentType DEF CInit, CTypeOK, Object, Cell, Kinds, Content, DefaultContent
<1>2. Ids = {1}
  BY DEF CInit, Ids
<1>3. Owned(1) /\ objects[1].kind = "config"
  BY DEF CInit, Owned, OwnerOfTables
<1>4. Held(1) = told[1]
  BY DEF CInit, Held, DefaultContent
<1> QED BY <1>1, <1>2, <1>3, <1>4 DEF CInv, ObjectInv

\* What an object holds has the type of a configuration.
LEMMA HeldType ==
    ASSUME CInv, NEW i \in Ids
    PROVE  /\ Held(i) \in Content /\ objects[i] \in Object
           /\ objects[i].tables \in Ids /\ objects[i].sets = i /\ objects[i].thresholds = i
<1>1. objects[i] \in Object /\ Owned(i)
  BY DEF CInv, CTypeOK, ObjectInv, Ids
<1>2. /\ objects[i].tables \in Ids /\ objects[i].sets = i /\ objects[i].thresholds = i
  BY <1>1 DEF Owned, OwnerOfTables
<1>3. cells[i] \in Cell /\ cells[objects[i].tables] \in Cell
  BY <1>2 DEF CInv, CTypeOK, Ids
<1>4. /\ cells[objects[i].tables].tables \in Tables
      /\ cells[i].sets \in Sets /\ cells[i].thresholds \in Thresholds
  BY <1>3 DEF Cell
<1>5. objects[i].limit \in Limits
  BY <1>1 DEF Object
<1> QED BY <1>1, <1>2, <1>4, <1>5 DEF Held, Content
\* A record with the fields of a configuration is determined by them.
LEMMA ContentFields ==
    ASSUME NEW c \in Content
    PROVE  c = [tables |-> c.tables, sets |-> c.sets,
                thresholds |-> c.thresholds, limit |-> c.limit]
BY DEF Content

\* The old objects are left alone, and the new one has containers of its own
\* (unless it was parsed from a mapping).
LEMMA AddStep ==
    ASSUME CInv, NEW kind \in Kinds, NEW keys \in SUBSET Keys, NEW c \in Content,
           NEW tables \in Nat,
           \/ tables = New
           \/ kind = "parsed" /\ tables \in Ids /\ objects[tables].kind = "mapping",
           Add(kind, keys, c, tables, New, New),
           kind = "gateway" => ContentValid(c)
    PROVE  CInv'
<1> DEFINE o == [kind |-> kind, keys |-> keys, tables |-> tables, sets |-> New,
                 thresholds |-> New, limit |-> c.limit]
           x == [tables |-> c.tables, sets |-> c.sets, thresholds |-> c.thresholds]
<1>1. /\ objects' = Append(objects, o) /\ cells' = Append(cells, x)
      /\ told' = Append(told, c) /\ tuned' = tuned
  BY DEF Add
<1>2. /\ objects \in Seq(Object) /\ cells \in Seq(Cell) /\ told \in Seq(Content)
      /\ Len(cells) = Len(objects) /\ Len(told) = Len(objects)
      /\ Len(objects) \in Nat /\ tuned \in Seq(Nat)
  BY DEF CInv, CTypeOK
<1>3. o \in Object /\ x \in Cell
  BY <1>2 DEF Object, Cell, Content, New
<1>4. o.kind = kind /\ o.tables = tables /\ o.sets = New /\ o.thresholds = New
        /\ o.limit = c.limit
  OBVIOUS
<1>5. x.tables = c.tables /\ x.sets = c.sets /\ x.thresholds = c.thresholds
  OBVIOUS
<1> HIDE DEF o, x
\* A name for the new index that does not change with the step.
<1> PICK n \in Nat : n = New
  BY <1>2 DEF New
<1>6. /\ \A i \in Ids : objects'[i] = objects[i] /\ cells'[i] = cells[i] /\ told'[i] = told[i]
      /\ objects'[n] = o /\ cells'[n] = x /\ told'[n] = c
      /\ Ids' = Ids \cup {n} /\ n \notin Ids
  BY <1>1, <1>2, <1>3 DEF Ids, New
<1>7. CTypeOK'
  BY <1>1, <1>2, <1>3 DEF CTypeOK
<1>8. ASSUME NEW i \in Ids PROVE ObjectInv(i)'
  <2>1. ObjectInv(i)
    BY DEF CInv
  <2>2. Held(i)' = Held(i)
    BY <1>6, HeldType DEF Held
  <2>3. Owned(i)'
    BY <1>6, <2>1 DEF ObjectInv, Owned, OwnerOfTables
  <2> QED BY <1>1, <1>6, <2>1, <2>2, <2>3 DEF ObjectInv, Own, Untuned
<1>9. ObjectInv(n)'
  <2>1. Owned(n)'
    BY <1>4, <1>6 DEF Owned, OwnerOfTables
  <2>2. Own(n)' => Held(n)' = told'[n]
    BY <1>4, <1>5, <1>6, ContentFields DEF Held, Own
  <2> QED BY <1>4, <1>6, <2>1, <2>2 DEF ObjectInv
<1> QED BY <1>6, <1>7, <1>8, <1>9 DEF CInv
LEMMA ChangeType ==
    ASSUME NEW c \in Content, NEW d \in OneChange(c)
    PROVE  d \in Content
BY DEF OneChange, Content

LEMMA CellUpdate ==
    ASSUME NEW x \in Cell, NEW u \in Tables, NEW v \in Sets, NEW h \in Thresholds
    PROVE  /\ [x EXCEPT !.tables = u] \in Cell
           /\ [x EXCEPT !.tables = u].tables = u
           /\ [x EXCEPT !.tables = u].sets = x.sets
           /\ [x EXCEPT !.tables = u].thresholds = x.thresholds
           /\ [x EXCEPT !.sets = v] \in Cell
           /\ [x EXCEPT !.sets = v].tables = x.tables
           /\ [x EXCEPT !.sets = v].sets = v
           /\ [x EXCEPT !.sets = v].thresholds = x.thresholds
           /\ [x EXCEPT !.thresholds = h] \in Cell
           /\ [x EXCEPT !.thresholds = h].tables = x.tables
           /\ [x EXCEPT !.thresholds = h].sets = x.sets
           /\ [x EXCEPT !.thresholds = h].thresholds = h
BY DEF Cell

LEMMA CellsUpdate ==
    ASSUME NEW s \in Seq(Cell), NEW i \in 1..Len(s), NEW x \in Cell
    PROVE  /\ [s EXCEPT ![i] = x] \in Seq(Cell) /\ Len([s EXCEPT ![i] = x]) = Len(s)
           /\ \A k \in 1..Len(s) : [s EXCEPT ![i] = x][k] = IF k = i THEN x ELSE s[k]
OBVIOUS

\* A change in place reaches the objects that refer to the container: of those
\* that are told what they hold, only the one that is changed.
LEMMA TuneStep ==
    ASSUME CInv, NEW i \in Ids, NEW c \in Content, Tune(i, c)
    PROVE  CInv'
<1> DEFINE t == objects[i].tables
<1>1. /\ t \in Ids /\ objects[i].sets = i /\ objects[i].thresholds = i
      /\ objects[i] \in Object /\ Owned(i)
  BY HeldType DEF CInv, ObjectInv
<1>2. cells' = [cells EXCEPT ![t].tables = c.tables, ![i].sets = c.sets,
                             ![i].thresholds = c.thresholds]
  BY SMTT(60), <1>1 DEF Tune
<1> HIDE DEF t
<1>3. /\ objects \in Seq(Object) /\ cells \in Seq(Cell) /\ told \in Seq(Content)
      /\ Len(cells) = Len(objects) /\ Len(told) = Len(objects)
      /\ Len(objects) \in Nat /\ tuned \in Seq(Nat)
  BY SMTT(60) DEF CInv, CTypeOK
<1>4. [objects[i] EXCEPT !.limit = c.limit] \in Object
  BY SMTT(60), <1>1 DEF Object, Content
<1>5. objects' \in Seq(Object) /\ Len(objects') = Len(objects) /\ Ids' = Ids
  <2>1. objects' = [objects EXCEPT ![i] = [objects[i] EXCEPT !.limit = c.limit]]
    BY DEF Tune
  <2>2. objects' \in Seq(Object) /\ Len(objects') = Len(objects)
    <3> HIDE DEF Object
    <3> QED BY ONLY SMTT(60), <1>3, <1>4, <2>1, i \in Ids DEF Ids
  <2> QED BY <2>2 DEF Ids
<1>6. /\ c.tables \in Tables /\ c.sets \in Sets /\ c.thresholds \in Thresholds
      /\ c.limit \in Limits
  BY DEF Content
<1> DEFINE first == [cells EXCEPT ![t].tables = c.tables]
           second == [first EXCEPT ![i].sets = c.sets]
<1>7. /\ first \in Seq(Cell) /\ Len(first) = Len(cells)
      /\ \A k \in Ids : first[k] = IF k = t THEN [cells[t] EXCEPT !.tables = c.tables]
                                           ELSE cells[k]
  <2>1. cells[t] \in Cell
    BY <1>1, <1>3 DEF Ids
  <2>2. [cells[t] EXCEPT !.tables = c.tables] \in Cell
    BY <1>6, <2>1, CellUpdate
  <2>3. first = [cells EXCEPT ![t] = [cells[t] EXCEPT !.tables = c.tables]]
    OBVIOUS
  <2> HIDE DEF first
  <2> QED BY <1>1, <1>3, <2>2, <2>3, CellsUpdate DEF Ids
<1>8. cells' = [second EXCEPT ![i].thresholds = c.thresholds]
  BY <1>2
<1> HIDE DEF first
<1>9. /\ second \in Seq(Cell) /\ Len(second) = Len(cells)
      /\ \A k \in Ids : second[k] = IF k = i THEN [first[i] EXCEPT !.sets = c.sets]
                                            ELSE first[k]
  <2>1. first[i] \in Cell
    BY <1>3, <1>7 DEF Ids
  <2>2. [first[i] EXCEPT !.sets = c.sets] \in Cell
    BY <1>6, <2>1, CellUpdate
  <2>3. second = [first EXCEPT ![i] = [first[i] EXCEPT !.sets = c.sets]]
    OBVIOUS
  <2> HIDE DEF second
  <2> QED BY <1>3, <1>7, <2>2, <2>3, CellsUpdate DEF Ids
<1> HIDE DEF second
<1>10. /\ cells' \in Seq(Cell) /\ Len(cells') = Len(cells)
       /\ \A k \in Ids : cells'[k] = IF k = i THEN [second[i] EXCEPT !.thresholds = c.thresholds]
                                             ELSE second[k]
  <2>1. second[i] \in Cell
    BY <1>3, <1>9 DEF Ids
  <2>2. [second[i] EXCEPT !.thresholds = c.thresholds] \in Cell
    BY <1>6, <2>1, CellUpdate
  <2>3. cells' = [second EXCEPT ![i] = [second[i] EXCEPT !.thresholds = c.thresholds]]
    BY <1>8
  <2> QED BY <1>3, <1>9, <2>2, <2>3, CellsUpdate DEF Ids
<1>11. CTypeOK'
  <2>1. told' \in Seq(Content) /\ Len(told') = Len(told)
    BY SMTT(60), <1>3 DEF Tune, Ids
  <2>2. tuned' \in Seq(Nat)
    BY SMTT(60), <1>3 DEF Tune, Ids
  <2> QED BY <1>3, <1>5, <1>10, <2>1, <2>2 DEF CTypeOK
<1>12. ASSUME NEW k \in Ids
      PROVE  /\ objects'[k].kind = objects[k].kind /\ objects'[k].tables = objects[k].tables
             /\ objects'[k].sets = objects[k].sets
             /\ objects'[k].thresholds = objects[k].thresholds
             /\ objects'[k].limit = IF k = i THEN c.limit ELSE objects[k].limit
             /\ cells'[k].tables = IF k = t THEN c.tables ELSE cells[k].tables
             /\ cells'[k].sets = IF k = i THEN c.sets ELSE cells[k].sets
             /\ cells'[k].thresholds = IF k = i THEN c.thresholds ELSE cells[k].thresholds
             /\ told'[k] = IF k = i THEN c ELSE told[k]
  <2>1. objects[k] \in Object /\ cells[k] \in Cell
    BY SMTT(60), <1>3 DEF Ids
  <2>2. /\ objects' = [objects EXCEPT ![i] = [objects[i] EXCEPT !.limit = c.limit]]
        /\ told' = [told EXCEPT ![i] = c]
    BY DEF Tune
  <2>3. /\ objects'[k].kind = objects[k].kind /\ objects'[k].tables = objects[k].tables
        /\ objects'[k].sets = objects[k].sets
        /\ objects'[k].thresholds = objects[k].thresholds
        /\ objects'[k].limit = IF k = i THEN c.limit ELSE objects[k].limit
    BY SMTT(60), <1>1, <1>3, <2>1, <2>2 DEF Object, Ids
  <2>4. /\ cells'[k].tables = IF k = t THEN c.tables ELSE cells[k].tables
        /\ cells'[k].sets = IF k = i THEN c.sets ELSE cells[k].sets
        /\ cells'[k].thresholds = IF k = i THEN c.thresholds ELSE cells[k].thresholds
    <3>1. first[k] \in Cell /\ second[k] \in Cell
      BY <1>3, <1>7, <1>9 DEF Ids
    <3>2. cells[t] \in Cell /\ first[i] \in Cell /\ second[i] \in Cell
      BY <1>1, <1>3, <1>7, <1>9 DEF Ids
    <3>3. /\ first[k].tables = IF k = t THEN c.tables ELSE cells[k].tables
          /\ first[k].sets = cells[k].sets /\ first[k].thresholds = cells[k].thresholds
      <4>1. /\ [cells[t] EXCEPT !.tables = c.tables].tables = c.tables
            /\ [cells[t] EXCEPT !.tables = c.tables].sets = cells[t].sets
            /\ [cells[t] EXCEPT !.tables = c.tables].thresholds = cells[t].thresholds
        BY <1>6, <3>2, CellUpdate
      <4> QED BY <1>7, <4>1
    <3>4. /\ second[k].sets = IF k = i THEN c.sets ELSE first[k].sets
          /\ second[k].tables = first[k].tables
          /\ second[k].thresholds = first[k].thresholds
      <4>1. /\ [first[i] EXCEPT !.sets = c.sets].sets = c.sets
            /\ [first[i] EXCEPT !.sets = c.sets].tables = first[i].tables
            /\ [first[i] EXCEPT !.sets = c.sets].thresholds = first[i].thresholds
        BY <1>6, <3>2, CellUpdate
      <4> QED BY <1>9, <4>1
    <3>5. /\ cells'[k].thresholds = IF k = i THEN c.thresholds ELSE second[k].thresholds
          /\ cells'[k].tables = second[k].tables /\ cells'[k].sets = second[k].sets
      <4>1. /\ [second[i] EXCEPT !.thresholds = c.thresholds].thresholds = c.thresholds
            /\ [second[i] EXCEPT !.thresholds = c.thresholds].tables = second[i].tables
            /\ [second[i] EXCEPT !.thresholds = c.thresholds].sets = second[i].sets
        BY <1>6, <3>2, CellUpdate
      <4> QED BY <1>10, <4>1
    <3> QED BY <3>3, <3>4, <3>5
  <2>5. told'[k] = IF k = i THEN c ELSE told[k]
    BY <1>3, <2>2 DEF Ids
  <2> QED BY SMTT(60), <2>3, <2>4, <2>5
<1>13. ASSUME NEW k \in Ids PROVE ObjectInv(k)'
  <2>1. ObjectInv(k)
    BY DEF CInv
  <2>2. Owned(k)'
    <3>1. objects[k].tables \in Ids
      BY HeldType
    <3> QED BY <1>5, <1>12, <2>1, <3>1 DEF ObjectInv, Owned, OwnerOfTables
  <2>3. Own(k)' => Held(k)' = told'[k]
    <3> SUFFICES ASSUME Own(k)' PROVE Held(k)' = told'[k]
      OBVIOUS
    <3>1. /\ Own(k) /\ objects[k].tables = k /\ objects[k].sets = k
          /\ objects[k].thresholds = k /\ Held(k) = told[k]
      BY <1>12, <2>1 DEF Own, ObjectInv, Owned, OwnerOfTables
    <3>2. k = i => t = i
      BY <3>1 DEF t
    <3>3. k # i => k # t
      BY <1>1, <3>1 DEF Own, Owned, OwnerOfTables, t
    <3>4. Held(k)' = [tables |-> cells'[k].tables, sets |-> cells'[k].sets,
                      thresholds |-> cells'[k].thresholds, limit |-> objects'[k].limit]
      BY <1>12, <3>1 DEF Held
    <3>5. CASE k = i
      BY <1>12, <3>2, <3>4, <3>5, ContentFields
    <3>6. CASE k # i
      BY SMTT(60), <1>12, <3>1, <3>3, <3>4, <3>6 DEF Held
    <3> QED BY <3>5, <3>6
  <2>4. objects'[k].kind = "gateway" /\ Untuned(k)' => ContentValid(told'[k])
    <3>1. tuned' = Append(tuned, i)
      BY DEF Tune
    <3>2. Untuned(k)' => k # i /\ Untuned(k)
      BY <1>3, <3>1 DEF Untuned, Ids
    <3> QED BY SMTT(60), <1>12, <2>1, <3>2 DEF ObjectInv
  <2> QED BY <2>2, <2>3, <2>4 DEF ObjectInv
<1> QED BY <1>5, <1>11, <1>13 DEF CInv
-----------------------------------------------------------------------------
LEMMA NewIsNat == CInv => New \in Nat
BY DEF CInv, CTypeOK, New

\* A copy is new, validated, and of what the original holds.
LEMMA CopyStep ==
    ASSUME CInv, NEW i \in Ids, NEW kind \in {"config", "gateway"}, CopyAs(kind, i)
    PROVE  CInv'
BY AddStep, HeldType, NewIsNat DEF CopyAs, Kinds

\* What from_dict reads has the type of a configuration, whatever the mapping's
\* holder has put there since.
LEMMA FromDictStep ==
    ASSUME CInv, NEW i \in Ids, FromDict(i)
    PROVE  CInv'
<1> DEFINE keys == objects[i].keys
           c == [f \in DOMAIN DefaultContent |->
                   IF f \in keys THEN Held(i)[f] ELSE DefaultContent[f]]
           tables == IF "tables" \in keys THEN objects[i].tables ELSE New
<1>1. Add("parsed", Keys, c, tables, New, New) /\ objects[i].kind = "mapping"
  BY DEF FromDict
<1>2. c \in Content
  <2>1. DOMAIN DefaultContent = {"tables", "sets", "thresholds", "limit"}
    BY DEF DefaultContent
  <2>2. Held(i) \in Content
    BY HeldType
  <2>3. c = [tables |-> c.tables, sets |-> c.sets, thresholds |-> c.thresholds,
             limit |-> c.limit]
    BY <2>1
  <2>4. /\ c.tables \in Tables /\ c.sets \in Sets
        /\ c.thresholds \in Thresholds /\ c.limit \in Limits
    BY <2>1, <2>2, DefaultContentType DEF Content
  <2> HIDE DEF c
  <2> QED BY <2>3, <2>4 DEF Content
<1> HIDE DEF c
<1>3. objects[i].tables = i
  BY <1>1 DEF CInv, ObjectInv, Owned, OwnerOfTables
<1> HIDE DEF keys
<1>4. tables \in Nat /\ (tables = New \/ (tables \in Ids /\ objects[tables].kind = "mapping"))
  <2>1. CASE "tables" \in keys
    BY <1>1, <1>3, <2>1, i \in Nat DEF Ids
  <2>2. CASE "tables" \notin keys
    BY <2>2, NewIsNat
  <2> QED BY <2>1, <2>2
<1> HIDE DEF tables
<1> QED BY <1>1, <1>2, <1>4, AddStep DEF Kinds

LEMMA FromEnvStep ==
    ASSUME CInv, NEW i \in Ids, NEW o \in Overlays, FromEnv(i, o)
    PROVE  CInv'
<1> DEFINE c == [Held(i) EXCEPT !.thresholds = o.thresholds, !.limit = o.limit]
<1>1. c \in Content
  <2>1. Held(i) \in Content /\ o.thresholds \in Thresholds /\ o.limit \in Limits
    BY HeldType, StoreAssumption
  <2>2. ASSUME NEW d \in Content, NEW h \in Thresholds, NEW n \in Limits
        PROVE  [d EXCEPT !.thresholds = h, !.limit = n] \in Content
    BY ZenonT(60) DEF Content
  <2> QED BY <2>1, <2>2
<1>2. Add("config", Keys, c, New, New, New)
  BY DEF FromEnv
<1> HIDE DEF c
<1> QED BY <1>1, <1>2, AddStep, NewIsNat DEF Kinds

LEMMA InvStep == CInv /\ [CNext]_cvars => CInv'
<1> SUFFICES ASSUME CInv, [CNext]_cvars PROVE CInv'
  OBVIOUS
<1>1. CASE Create
  BY <1>1, AddStep, DefaultContentType, NewIsNat DEF Create, Kinds
<1>2. ASSUME NEW m \in Mappings, NewMapping(m) PROVE CInv'
  BY <1>2, AddStep, StoreAssumption, NewIsNat DEF NewMapping, Kinds
<1>3. ASSUME NEW i \in Ids, Copy(i) PROVE CInv'
  BY <1>3, CopyStep DEF Copy
<1>4. ASSUME NEW i \in Ids, NewGateway(i) PROVE CInv'
  BY <1>4, CopyStep DEF NewGateway
<1>5. ASSUME NEW i \in Ids, FromDict(i) PROVE CInv'
  BY <1>5, FromDictStep
<1>6. ASSUME NEW i \in Ids, NEW o \in Overlays, FromEnv(i, o) PROVE CInv'
  BY <1>6, FromEnvStep
<1>7. ASSUME NEW i \in Ids, NEW c \in OneChange(Held(i)), Tune(i, c) PROVE CInv'
  <2>1. c \in Content
    BY HeldType, ChangeType
  <2> QED BY <1>7, <2>1, TuneStep
<1>8. CASE UNCHANGED cvars
  <2>1. ASSUME NEW i \in Ids PROVE Held(i)' = Held(i)
    BY <1>8 DEF cvars, Held
  <2> QED BY <1>8, <2>1 DEF cvars, CInv, CTypeOK, Ids, ObjectInv, Owned, OwnerOfTables,
         Own, Untuned
<1> QED BY <1>1, <1>2, <1>3, <1>4, <1>5, <1>6, <1>7, <1>8 DEF CNext

-----------------------------------------------------------------------------
LEMMA InvAlways == CSpec => []CInv
BY InitInv, InvStep, PTL DEF CSpec

\* A gateway's configuration, a copy and DEFAULT_CONFIG change only through their
\* own holders (config.py:307-322, gateway.py:53-55), however many objects there
\* are and whatever is changed in place.
THEOREM ConfigurationsAreIsolated == CSpec => []HoldersAreIsolated
BY InvAlways, InvImpliesProperties, PTL

\* A gateway whose own configuration nobody tunes has a valid one from its start
\* (config.py:229-261).
THEOREM UntunedGatewaysStayValid == CSpec => []UntunedGatewaysAreValid
BY InvAlways, InvImpliesProperties, PTL
=============================================================================
