------------------------- MODULE ModelHistoryProofs -------------------------
(***************************************************************************)
(* For every number of processes, saves and restarts: what a load that no    *)
(* save disturbs ends up serving.  Neither property of ModelHistory is       *)
(* inductive; what they rest on is what the saver knows of the files, what   *)
(* a load has established about them so far, and that its reasons for        *)
(* training in memory exclude a complete save.                               *)
(***************************************************************************)
EXTENDS ModelHistory, TLAPS

\* A load that has begun to read: the artifact exists, and no save removes it.
ArtifactExists ==
    \A p \in Processes :
        loader[p].stage \in {"manifest", "verify", "read", "name"} => npz # None

TypeInv == TypeOK /\ ArtifactExists

\* What the training command has written so far.
SaverInv ==
    /\ saver.stage \in {"digest", "open", "sign"} => npz = Whole(saver.model)
    /\ saver.stage \in {"open", "sign"} => saver.digest = Whole(saver.model)
    /\ \A m \in saved : /\ m \in Models /\ saver = SaverIdle
                        /\ npz = Whole(m) /\ manifest = Whole(m)

\* What a load knows of the files, by the stage it has reached.
Known(p) ==
    /\ found[p] = [npz |-> npz, manifest |-> manifest, saved |-> saved]
    /\ loader[p].stage = "verify" =>
         loader[p].digest = manifest /\ manifest \notin {None, Empty}
    /\ loader[p].stage = "read" => manifest \in {None, npz}
    /\ loader[p].stage = "name" =>
         /\ npz = Whole(loader[p].model) /\ loader[p].model \in Usable
         /\ manifest \in {None, npz}
    /\ loader[p].stage = "retrain" => saved \cap Usable = Nothing

LoaderInv ==
    \A p \in Processes : loader[p] # LoaderIdle /\ Undisturbed(p) => Known(p)

Inv == /\ TypeInv /\ DOMAIN found = Processes
       /\ SaverInv /\ LoaderInv
       /\ OnlyEndorsedIsServed /\ CompleteSaveIsServed

-----------------------------------------------------------------------------
(* The contents of files *)

LEMMA FilesDiffer ==
    ASSUME NEW f \in Files
    PROVE  f # None /\ f # Empty /\ f # Retrained
<1>1. DOMAIN f = {"model", "whole"}
  BY DEF Files
<1>2. DOMAIN None = {"file"} /\ DOMAIN Empty = {"file"} /\ DOMAIN Retrained = {"trained"}
  BY DEF None, Empty, Retrained
<1>3. {"model", "whole"} # {"file"} /\ {"model", "whole"} # {"trained"}
  OBVIOUS
<1> QED BY <1>1, <1>2, <1>3

LEMMA WholeIsFile ==
    ASSUME NEW m \in Models
    PROVE  Whole(m) \in Files /\ Torn(m) \in Files /\ Whole(m).model = m
BY DEF Whole, Torn, Files

LEMMA WholeFile ==
    ASSUME NEW f \in Files, f.whole
    PROVE  f = Whole(f.model)
BY DEF Files, Whole

LEMMA WholeInjective ==
    ASSUME NEW m \in Models, NEW n \in Models, Whole(m) = Whole(n)
    PROVE  m = n
BY DEF Whole
-----------------------------------------------------------------------------
(* Type correctness *)

LEMMA InitType == Init => TypeInv
<1> SUFFICES ASSUME Init PROVE TypeInv
  OBVIOUS
<1>1. npz \in Files \cup {None} /\ manifest \in Files \cup {None, Empty}
  BY ModelAssumption, WholeIsFile DEF Init
<1> QED BY <1>1, ModelAssumption DEF Init, TypeInv, TypeOK, ArtifactExists, LoaderIdle

\* A saver past the idle stage, and what an update of its stage leaves.
LEMMA SaverFacts ==
    ASSUME TypeOK, saver.stage # "idle"
    PROVE  saver \in Saving /\ saver # SaverIdle
BY DEF TypeOK, SaverIdle

LEMMA SavingUpdate ==
    ASSUME NEW s \in Saving, NEW stage \in {"write", "digest", "open", "sign"},
           NEW digest \in Files \cup {None}
    PROVE  /\ [s EXCEPT !.stage = stage] \in Saving
           /\ [s EXCEPT !.stage = stage, !.digest = digest] \in Saving
BY Zenon DEF Saving

LEMMA LoaderFacts ==
    ASSUME TypeOK, NEW p \in Processes, loader[p].stage # "idle"
    PROVE  loader[p] \in Loading /\ loader[p] # LoaderIdle
BY DEF TypeOK, LoaderIdle

LEMMA LoadingUpdate ==
    ASSUME NEW l \in Loading, NEW stage \in {"manifest", "verify", "read", "name", "retrain"},
           NEW digest \in Files \cup {None}, NEW model \in Models
    PROVE  /\ [l EXCEPT !.stage = stage] \in Loading
           /\ [l EXCEPT !.stage = stage, !.digest = digest] \in Loading
           /\ [l EXCEPT !.stage = stage, !.model = model] \in Loading
BY Zenon DEF Loading

\* A step of load_model or default leaves the files alone, and reads only what
\* is there.
LEMMA LoadType ==
    ASSUME TypeInv, NEW p \in Processes, NEW l \in Loading, Load(p, l),
           l.stage # "retrain" => npz # None
    PROVE  TypeInv'
BY DEF TypeInv, TypeOK, ArtifactExists, Load

LEMMA SaveType ==
    ASSUME TypeInv, Save
    PROVE  TypeInv' /\ loader' = loader /\ serving' = serving
<1>1. CASE \E m \in Models : StartSave(m)
  <2>1. PICK m \in Models : StartSave(m)
    BY <1>1
  <2>2. npz' \in Files /\ npz' # None
    BY <2>1, WholeIsFile, FilesDiffer DEF StartSave
  <2>3. saver' \in Saving
    BY <2>1 DEF StartSave, Saving
  <2>4. saves' \in 0..MaxSaves
    BY <2>1, ModelAssumption DEF StartSave, TypeInv, TypeOK
  <2> QED BY <2>1, <2>2, <2>3, <2>4 DEF StartSave, TypeInv, TypeOK, ArtifactExists
<1>2. CASE FinishWrite
  <2>1. saver \in Saving /\ saver.model \in Models
    BY <1>2, SaverFacts DEF FinishWrite, TypeInv, Saving
  <2>2. npz' \in Files /\ npz' # None
    BY <1>2, <2>1, WholeIsFile, FilesDiffer DEF FinishWrite
  <2>3. saver' \in Saving
    BY <1>2, <2>1, SavingUpdate DEF FinishWrite
  <2> QED BY <1>2, <2>2, <2>3 DEF FinishWrite, TypeInv, TypeOK, ArtifactExists
<1>3. CASE TakeDigest
  <2>1. saver' \in Saving
    BY <1>3, SaverFacts, SavingUpdate DEF TakeDigest, TypeInv, TypeOK
  <2> QED BY <1>3, <2>1 DEF TakeDigest, TypeInv, TypeOK, ArtifactExists
<1>4. CASE OpenManifest
  <2>1. saver' \in Saving
    BY <1>4, SaverFacts, SavingUpdate DEF OpenManifest, TypeInv, TypeOK
  <2> QED BY <1>4, <2>1 DEF OpenManifest, TypeInv, TypeOK, ArtifactExists
<1>5. CASE WriteManifest
  <2>1. manifest' \in Files \cup {None, Empty}
    BY <1>5, SaverFacts DEF WriteManifest, TypeInv, Saving
  <2> QED BY <1>5, <2>1 DEF WriteManifest, TypeInv, TypeOK, ArtifactExists
<1> QED BY <1>1, <1>2, <1>3, <1>4, <1>5 DEF Save

LEMMA ServeType ==
    ASSUME TypeInv, NEW p \in Processes, NEW model \in Models,
           NEW source \in Files \cup {Retrained}, Serve(p, model, source)
    PROVE  TypeInv'
<1>1. [model |-> model, source |-> source] \in Pipeline
  BY DEF Pipeline
<1> QED BY <1>1 DEF Serve, TypeInv, TypeOK, ArtifactExists, LoaderIdle

LEMMA DefaultType ==
    ASSUME TypeInv, NEW p \in Processes, Default(p)
    PROVE  TypeInv'
<1> USE DEF TypeInv
<1>1. CASE StartDefault(p)
  <2> DEFINE l == [stage |-> IF npz = None THEN "retrain" ELSE "manifest",
                   digest |-> None, model |-> Fallback]
  <2>1. l \in Loading /\ (l.stage # "retrain" => npz # None)
    BY ModelAssumption DEF Loading
  <2> QED BY <1>1, <2>1, LoadType DEF StartDefault
<1>2. ASSUME loader[p].stage # "idle", Reject(p)
      PROVE  TypeInv'
  <2>1. [loader[p] EXCEPT !.stage = "retrain"] \in Loading
    BY ZenonT(60), <1>2, LoaderFacts, LoadingUpdate, ModelAssumption
  <2>2. [loader[p] EXCEPT !.stage = "retrain"].stage = "retrain"
    BY <1>2, LoaderFacts DEF Loading
  <2> QED BY ZenonT(60), <1>2, <2>1, <2>2, LoadType DEF Reject
<1>3. ASSUME NEW stage \in {"verify", "read", "name"}, NEW l,
             \/ l = [loader[p] EXCEPT !.stage = stage]
             \/ \E d \in Files \cup {None} : l = [loader[p] EXCEPT !.stage = stage, !.digest = d]
             \/ \E m \in Models : l = [loader[p] EXCEPT !.stage = stage, !.model = m],
             loader[p].stage \in {"manifest", "verify", "read"}, Load(p, l)
      PROVE  TypeInv'
  <2>1. npz # None
    BY <1>3 DEF ArtifactExists
  <2>2. l \in Loading
    <3>1. loader[p] \in Loading /\ None \in Files \cup {None} /\ Fallback \in Models
      BY ZenonT(60), <1>3, LoaderFacts, ModelAssumption
    <3>2. CASE l = [loader[p] EXCEPT !.stage = stage]
      BY ZenonT(60), <3>1, <3>2, LoadingUpdate
    <3>3. CASE \E d \in Files \cup {None} :
                  l = [loader[p] EXCEPT !.stage = stage, !.digest = d]
      <4>1. PICK d \in Files \cup {None} :
                    l = [loader[p] EXCEPT !.stage = stage, !.digest = d]
        BY <3>3
      <4> QED BY <3>1, <4>1, LoadingUpdate, Zenon
    <3>4. CASE \E m \in Models : l = [loader[p] EXCEPT !.stage = stage, !.model = m]
      <4>1. PICK m \in Models : l = [loader[p] EXCEPT !.stage = stage, !.model = m]
        BY <3>4
      <4> QED BY <3>1, <4>1, LoadingUpdate, Zenon
    <3> QED BY <1>3, <3>2, <3>3, <3>4
  <2> QED BY <1>3, <2>1, <2>2, LoadType
<1>4. CASE ReadManifest(p)
  BY <1>2, <1>3, <1>4 DEF ReadManifest, TypeOK
<1>5. CASE Verify(p)
  BY <1>2, <1>3, <1>5 DEF Verify
<1>6. CASE ReadWeights(p)
  BY <1>2, <1>3, <1>6, ModelAssumption DEF ReadWeights
<1>7. CASE NameSource(p)
  <2>1. loader[p].model \in Models /\ npz \in Files
    BY <1>7, LoaderFacts DEF NameSource, Loading, TypeOK, ArtifactExists
  <2> QED BY <1>7, <2>1, ServeType DEF NameSource
<1>8. CASE TrainInMemory(p)
  BY <1>8, ServeType, ModelAssumption DEF TrainInMemory
<1> QED BY <1>1, <1>4, <1>5, <1>6, <1>7, <1>8 DEF Default

LEMMA OtherType ==
    ASSUME TypeInv, KillSave \/ \E p \in Processes : Restart(p)
    PROVE  TypeInv'
<1>1. CASE KillSave
  BY <1>1 DEF KillSave, TypeInv, TypeOK, ArtifactExists
<1>2. CASE \E p \in Processes : Restart(p)
  BY <1>2, ModelAssumption DEF Restart, TypeInv, TypeOK, ArtifactExists, LoaderIdle
<1> QED BY <1>1, <1>2
-----------------------------------------------------------------------------
(* The invariant *)

\* What is said of one process.
EndorsedAt(p) ==
    Loaded(p) /\ Undisturbed(p) =>
        /\ serving[p].model \in Usable
        /\ found[p].npz = Whole(serving[p].model)
        /\ found[p].manifest \in {None, Whole(serving[p].model)}
        /\ serving[p].source = Whole(serving[p].model)

CompleteAt(p) ==
    serving[p] # None /\ Undisturbed(p) =>
        \A m \in found[p].saved \cap Usable :
            serving[p] = [model |-> m, source |-> Whole(m)]

ProcessInv(p) ==
    /\ loader[p] # LoaderIdle /\ Undisturbed(p) => Known(p)
    /\ EndorsedAt(p) /\ CompleteAt(p)

LEMMA InvByProcess ==
    Inv <=> /\ TypeInv /\ DOMAIN found = Processes /\ SaverInv
            /\ \A p \in Processes : ProcessInv(p)
BY DEF Inv, LoaderInv, OnlyEndorsedIsServed, CompleteSaveIsServed, ProcessInv,
       EndorsedAt, CompleteAt

LEMMA InvAfter ==
    ASSUME TypeInv', DOMAIN found' = Processes, SaverInv',
           \A p \in Processes : ProcessInv(p)'
    PROVE  Inv'
BY DEF Inv, LoaderInv, OnlyEndorsedIsServed, CompleteSaveIsServed, ProcessInv,
       EndorsedAt, CompleteAt

\* While a save is complete, the artifact is the saved one, whole and vouched for.
LEMMA SavedFacts ==
    ASSUME TypeOK, SaverInv, NEW m \in saved
    PROVE  /\ npz # None /\ manifest = npz /\ manifest \notin {None, Empty}
           /\ npz.whole /\ npz.model = m /\ saver = SaverIdle
<1>1. m \in Models /\ saver = SaverIdle /\ npz = Whole(m) /\ manifest = Whole(m)
  BY DEF SaverInv
<1>2. Whole(m) \in Files /\ Whole(m).model = m /\ Whole(m).whole
  BY <1>1, WholeIsFile DEF Whole
<1> QED BY <1>1, <1>2, FilesDiffer

LEMMA InitInv == HInit => Inv
<1> SUFFICES ASSUME HInit PROVE Inv
  OBVIOUS
<1>1. TypeInv
  BY InitType DEF HInit
<1>2. SaverInv
  BY ModelAssumption, WholeIsFile, FilesDiffer DEF HInit, Init, SaverInv, SaverIdle, Nothing
<1>3. ASSUME NEW p \in Processes PROVE ProcessInv(p)
  BY <1>3 DEF HInit, Init, ProcessInv, EndorsedAt, CompleteAt, Loaded, Undisturbed
<1> QED BY <1>1, <1>2, <1>3, InvByProcess DEF HInit

LEMMA SaveKeepsSaverInv ==
    ASSUME TypeOK, SaverInv, HSave
    PROVE  SaverInv'
<1>1. CASE \E m \in Models : StartSave(m)
  BY <1>1 DEF StartSave, HSave, SaverInv, SaverIdle, Nothing
<1>2. CASE FinishWrite
  BY <1>2, SaverFacts DEF FinishWrite, HSave, SaverInv, Saving, SaverIdle, Nothing
<1>3. CASE TakeDigest
  BY <1>3, SaverFacts DEF TakeDigest, HSave, SaverInv, Saving, SaverIdle, Nothing
<1>4. CASE OpenManifest
  BY <1>4, SaverFacts DEF OpenManifest, HSave, SaverInv, Saving, SaverIdle, Nothing
<1>5. CASE WriteManifest
  <2>1. saver.model \in Models /\ saver # SaverIdle
    BY <1>5, SaverFacts DEF WriteManifest, Saving
  <2>2. saved' = {saver.model} /\ saver' = SaverIdle
    BY <1>5, <2>1 DEF WriteManifest, HSave
  <2>3. npz' = Whole(saver.model) /\ manifest' = Whole(saver.model)
    BY <1>5 DEF WriteManifest, SaverInv
  <2> QED BY <2>1, <2>2, <2>3 DEF SaverInv, SaverIdle
<1> QED BY <1>1, <1>2, <1>3, <1>4, <1>5 DEF HSave, Save

\* A save disturbs whoever is loading, and changes nothing for those who serve.
LEMMA SaveStep ==
    ASSUME Inv, HSave
    PROVE  Inv'
<1>1. TypeInv' /\ loader' = loader /\ serving' = serving
  BY SaveType DEF Inv, HSave
<1>2. SaverInv'
  BY SaveKeepsSaverInv DEF Inv, TypeInv
<1>3. ASSUME NEW p \in Processes PROVE ProcessInv(p)'
  <2>1. ProcessInv(p) /\ p \in DOMAIN found
    BY InvByProcess
  <2>2. found'[p] = IF loader[p] = LoaderIdle THEN found[p] ELSE Disturbed
    BY DEF HSave
  <2> QED BY <1>1, <2>1, <2>2 DEF ProcessInv, EndorsedAt, CompleteAt, Loaded, Undisturbed
<1>4. DOMAIN found' = Processes
  BY DEF HSave
<1> QED BY <1>1, <1>2, <1>3, <1>4, InvAfter

LEMMA KillStep ==
    ASSUME Inv, HKillSave
    PROVE  Inv'
<1>1. TypeInv'
  BY OtherType DEF Inv, HKillSave
<1>2. SaverInv'
  <2>1. saved = Nothing
    BY DEF Inv, SaverInv, HKillSave, KillSave, Nothing
  <2> QED BY <2>1 DEF HKillSave, KillSave, SaverInv, SaverIdle, Nothing
<1>3. ASSUME NEW p \in Processes PROVE ProcessInv(p)'
  <2>1. ProcessInv(p)
    BY InvByProcess
  <2> QED BY <2>1 DEF HKillSave, KillSave, ProcessInv, Known, EndorsedAt, CompleteAt,
        Loaded, Undisturbed
<1>4. DOMAIN found' = Processes
  BY DEF Inv, HKillSave
<1> QED BY <1>1, <1>2, <1>3, <1>4, InvAfter

\* A step of one process leaves the files and the other processes alone.
LEMMA OneProcess ==
    ASSUME Inv, NEW p \in Processes, TypeInv', ProcessInv(p)', DOMAIN found' = Processes,
           UNCHANGED <<npz, manifest, saver, saved>>,
           \A q \in Processes \ {p} :
              loader'[q] = loader[q] /\ serving'[q] = serving[q] /\ found'[q] = found[q]
    PROVE  Inv'
<1>1. SaverInv'
  BY DEF Inv, SaverInv
<1>2. ASSUME NEW q \in Processes \ {p} PROVE ProcessInv(q)'
  <2>1. ProcessInv(q)
    BY InvByProcess
  <2> QED BY <2>1 DEF ProcessInv, Known, EndorsedAt, CompleteAt, Loaded, Undisturbed
<1> QED BY <1>1, <1>2, InvAfter

LEMMA RestartStep ==
    ASSUME Inv, NEW p \in Processes, HRestart(p)
    PROVE  Inv'
<1>1. TypeInv'
  BY OtherType DEF Inv, HRestart
<1>2. ProcessInv(p)'
  BY DEF HRestart, Restart, Inv, TypeInv, TypeOK, ProcessInv, EndorsedAt, CompleteAt,
         Loaded, Undisturbed
<1> QED BY <1>1, <1>2, OneProcess DEF HRestart, Restart, Inv, TypeInv, TypeOK
-----------------------------------------------------------------------------
(* Loading *)

\* A load that goes on: nothing is served yet, and the snapshot it started from
\* stays.
LEMMA LoadGoesOn ==
    ASSUME Inv, NEW p \in Processes, NEW l, Load(p, l), TypeInv', HDefault(p),
           loader[p] # LoaderIdle, Undisturbed(p) => Known(p)'
    PROVE  Inv'
<1>1. found' = found /\ saved' = saved
  BY DEF HDefault
<1>2. ProcessInv(p)'
  <2>1. ProcessInv(p)
    BY InvByProcess
  <2> QED BY <1>1, <2>1 DEF Load, ProcessInv, EndorsedAt, CompleteAt, Loaded, Undisturbed
<1> QED BY <1>1, <1>2, OneProcess DEF Load, Inv, TypeInv, TypeOK

LEMMA StartStep ==
    ASSUME Inv, NEW p \in Processes, HDefault(p), StartDefault(p), TypeInv'
    PROVE  Inv'
<1> DEFINE l == [stage |-> IF npz = None THEN "retrain" ELSE "manifest",
                 digest |-> None, model |-> Fallback]
<1>1. loader' = [loader EXCEPT ![p] = l] /\ serving' = serving /\ serving[p] = None
  BY DEF StartDefault, Load
<1>2. loader'[p] = l
  BY <1>1 DEF Inv, TypeInv, TypeOK
<1>3. found'[p] = [npz |-> npz, manifest |-> manifest, saved |-> saved]
  BY DEF HDefault, StartDefault, Inv
<1>4. UNCHANGED <<npz, manifest, saver, saved>>
  BY DEF StartDefault, Load, HDefault
<1>5. npz = None => saved \cap Usable = Nothing
  BY SavedFacts DEF Inv, TypeInv, Nothing
<1>6. Known(p)'
  BY <1>2, <1>3, <1>4, <1>5 DEF Known
<1>7. ProcessInv(p)'
  BY <1>1, <1>6 DEF ProcessInv, EndorsedAt, CompleteAt, Loaded
<1> QED BY <1>1, <1>4, <1>7, OneProcess DEF HDefault, Inv, TypeInv, TypeOK

\* A rejected load knows of no complete save of usable weights.
LEMMA RejectStep ==
    ASSUME Inv, NEW p \in Processes, HDefault(p), Reject(p), TypeInv',
           loader[p] # LoaderIdle, loader[p] \in Loading,
           Undisturbed(p) => saved \cap Usable = Nothing
    PROVE  Inv'
<1>1. loader'[p].stage = "retrain"
  BY DEF Reject, Load, Loading, Inv, TypeInv, TypeOK
<1>2. Undisturbed(p) => Known(p)
  BY DEF Inv, LoaderInv
<1>3. Undisturbed(p) => Known(p)'
  BY <1>1, <1>2 DEF Known, Reject, Load, HDefault
<1> QED BY <1>3, LoadGoesOn DEF Reject

LEMMA ReadManifestStep ==
    ASSUME Inv, NEW p \in Processes, HDefault(p), ReadManifest(p), TypeInv'
    PROVE  Inv'
<1>1. loader[p] \in Loading /\ loader[p] # LoaderIdle
  BY LoaderFacts DEF ReadManifest, Inv, TypeInv
<1>2. Undisturbed(p) => Known(p)
  BY <1>1 DEF Inv, LoaderInv
<1>3. CASE manifest = None /\ Load(p, [loader[p] EXCEPT !.stage = "read"])
  <2>1. loader'[p].stage = "read"
    BY <1>1, <1>3 DEF Load, Loading, Inv, TypeInv, TypeOK
  <2>2. Undisturbed(p) => Known(p)'
    BY <1>2, <1>3, <2>1 DEF Known, Load, HDefault
  <2> QED BY <1>1, <1>3, <2>2, LoadGoesOn
<1>4. CASE manifest = Empty /\ Reject(p)
  <2>1. saved \cap Usable = Nothing
    BY <1>4, SavedFacts DEF Inv, TypeInv, Nothing
  <2> QED BY <1>1, <1>4, <2>1, RejectStep
<1>5. CASE /\ manifest \notin {None, Empty}
           /\ Load(p, [loader[p] EXCEPT !.stage = "verify", !.digest = manifest])
  <2>1. loader'[p].stage = "verify" /\ loader'[p].digest = manifest
    BY <1>1, <1>5 DEF Load, Loading, Inv, TypeInv, TypeOK
  <2>2. Undisturbed(p) => Known(p)'
    BY <1>2, <1>5, <2>1 DEF Known, Load, HDefault
  <2> QED BY <1>1, <1>5, <2>2, LoadGoesOn
<1> QED BY <1>3, <1>4, <1>5 DEF ReadManifest

LEMMA VerifyStep ==
    ASSUME Inv, NEW p \in Processes, HDefault(p), Verify(p), TypeInv'
    PROVE  Inv'
<1>1. loader[p] \in Loading /\ loader[p] # LoaderIdle
  BY LoaderFacts DEF Verify, Inv, TypeInv
<1>2. Undisturbed(p) => Known(p)
  BY <1>1 DEF Inv, LoaderInv
<1>3. CASE npz = loader[p].digest
  <2>1. Load(p, [loader[p] EXCEPT !.stage = "read"])
    BY <1>3 DEF Verify
  <2>2. loader'[p].stage = "read"
    BY <1>1, <2>1 DEF Load, Loading, Inv, TypeInv, TypeOK
  <2>3. Undisturbed(p) => Known(p)'
    BY <1>2, <1>3, <2>1, <2>2 DEF Known, Verify, Load, HDefault
  <2> QED BY <1>1, <2>1, <2>3, LoadGoesOn
<1>4. CASE npz # loader[p].digest
  <2>1. Undisturbed(p) => saved \cap Usable = Nothing
    BY <1>2, <1>4, SavedFacts DEF Inv, TypeInv, Nothing, Known, Verify
  <2> QED BY <1>1, <1>4, <2>1, RejectStep DEF Verify
<1> QED BY <1>3, <1>4

LEMMA ReadWeightsStep ==
    ASSUME Inv, NEW p \in Processes, HDefault(p), ReadWeights(p), TypeInv'
    PROVE  Inv'
<1>1. loader[p] \in Loading /\ loader[p] # LoaderIdle /\ loader[p].stage = "read"
  BY LoaderFacts DEF ReadWeights, Inv, TypeInv
<1>2. Undisturbed(p) => Known(p)
  BY <1>1 DEF Inv, LoaderInv
<1>3. CASE npz.whole /\ npz.model \in Usable
  <2>1. Load(p, [loader[p] EXCEPT !.stage = "name", !.model = npz.model])
    BY <1>3 DEF ReadWeights
  <2>2. loader'[p].stage = "name" /\ loader'[p].model = npz.model
    BY <1>1, <2>1 DEF Load, Loading, Inv, TypeInv, TypeOK
  <2>3. npz = Whole(npz.model)
    <3>1. npz \in Files
      BY <1>1 DEF Inv, TypeInv, TypeOK, ArtifactExists
    <3> QED BY <1>3, <3>1, WholeFile
  <2>4. Undisturbed(p) => Known(p)'
    BY <1>1, <1>2, <1>3, <2>1, <2>2, <2>3 DEF Known, Load, HDefault
  <2> QED BY <1>1, <2>1, <2>4, LoadGoesOn
<1>4. CASE ~(npz.whole /\ npz.model \in Usable)
  <2>1. saved \cap Usable = Nothing
    BY <1>4, SavedFacts DEF Inv, TypeInv, Nothing
  <2> QED BY <1>1, <1>4, <2>1, RejectStep DEF ReadWeights
<1> QED BY <1>3, <1>4

\* What is served satisfies the two properties.
LEMMA ServeStep ==
    ASSUME Inv, NEW p \in Processes, NEW model \in Models,
           NEW source \in Files \cup {Retrained}, Serve(p, model, source),
           HDefault(p), loader[p] # LoaderIdle, TypeInv',
           Undisturbed(p) =>
             /\ source # Retrained => /\ model \in Usable /\ source = Whole(model)
                                      /\ found[p].npz = Whole(model)
                                      /\ found[p].manifest \in {None, Whole(model)}
             /\ \A m \in found[p].saved \cap Usable : m = model /\ source = Whole(model)
    PROVE  Inv'
<1>1. found' = found /\ saved' = saved /\ loader'[p] = LoaderIdle
  BY DEF HDefault, Serve, Inv, TypeInv, TypeOK
<1>2. serving'[p] = [model |-> model, source |-> source]
  BY DEF Serve, Inv, TypeInv, TypeOK
<1>3. serving'[p].model = model /\ serving'[p].source = source
  BY <1>2
<1>4. ProcessInv(p)'
  BY <1>1, <1>2, <1>3 DEF ProcessInv, EndorsedAt, CompleteAt, Loaded, Undisturbed
<1> QED BY <1>1, <1>4, OneProcess DEF Serve, Inv, TypeInv, TypeOK

LEMMA NameSourceStep ==
    ASSUME Inv, NEW p \in Processes, HDefault(p), NameSource(p), TypeInv'
    PROVE  Inv'
<1>1. loader[p] \in Loading /\ loader[p] # LoaderIdle /\ loader[p].stage = "name"
  BY LoaderFacts DEF NameSource, Inv, TypeInv
<1>2. npz \in Files /\ loader[p].model \in Models
  BY <1>1 DEF Inv, TypeInv, TypeOK, ArtifactExists, Loading
<1>3. ASSUME Undisturbed(p)
      PROVE  /\ loader[p].model \in Usable /\ npz = Whole(loader[p].model)
             /\ found[p].npz = npz /\ found[p].manifest \in {None, npz}
             /\ \A m \in found[p].saved : m = loader[p].model
  <2>1. Known(p)
    BY <1>1, <1>3 DEF Inv, LoaderInv
  <2>2. \A m \in saved : m = npz.model
    BY SavedFacts DEF Inv, TypeInv
  <2> QED BY <1>1, <1>2, <2>1, <2>2, WholeIsFile DEF Known
<1> QED BY <1>1, <1>2, <1>3, ServeStep DEF NameSource

LEMMA TrainStep ==
    ASSUME Inv, NEW p \in Processes, HDefault(p), TrainInMemory(p), TypeInv'
    PROVE  Inv'
<1>1. loader[p] # LoaderIdle /\ loader[p].stage = "retrain"
  BY LoaderFacts DEF TrainInMemory, Inv, TypeInv
<1>2. Undisturbed(p) => found[p].saved \cap Usable = Nothing
  BY <1>1 DEF Inv, LoaderInv, Known
<1> QED BY <1>1, <1>2, ServeStep, ModelAssumption DEF TrainInMemory, Nothing

LEMMA InvStep == Inv /\ [HNext]_hvars => Inv'
<1> SUFFICES ASSUME Inv, [HNext]_hvars PROVE Inv'
  OBVIOUS
<1>1. CASE HSave
  BY <1>1, SaveStep
<1>2. CASE HKillSave
  BY <1>2, KillStep
<1>3. ASSUME NEW p \in Processes, HDefault(p) PROVE Inv'
  <2>1. TypeInv'
    BY <1>3, DefaultType DEF Inv, HDefault
  <2> QED BY <1>3, <2>1, StartStep, ReadManifestStep, VerifyStep, ReadWeightsStep,
             NameSourceStep, TrainStep DEF HDefault, Default
<1>4. ASSUME NEW p \in Processes, HRestart(p) PROVE Inv'
  BY <1>4, RestartStep
<1>5. CASE UNCHANGED hvars
  BY <1>5 DEF hvars, vars, Inv, TypeInv, TypeOK, ArtifactExists, SaverInv, LoaderInv, Known,
       OnlyEndorsedIsServed, CompleteSaveIsServed, Loaded, Undisturbed
<1> QED BY <1>1, <1>2, <1>3, <1>4, <1>5 DEF HNext

-----------------------------------------------------------------------------
\* The artifact, the training command and the services keep their types
\* (classifier.py:87-157, pipeline.py:70-105).
THEOREM ArtifactTypeCorrect == HSpec => []TypeOK
<1>1. Inv => TypeOK
  BY DEF Inv, TypeInv
<1> QED BY <1>1, InitInv, InvStep, PTL DEF HSpec

\* However saves are killed and services restart, a load that meets no step of a
\* save serves complete, usable weights, vouched for by the manifest it found.
THEOREM UndisturbedLoadIsEndorsed == HSpec => []OnlyEndorsedIsServed
<1>1. Inv => OnlyEndorsedIsServed
  BY DEF Inv
<1> QED BY <1>1, InitInv, InvStep, PTL DEF HSpec

\* However many saves were killed before, a complete save of usable weights is
\* what a service that loads undisturbed after it serves.
THEOREM ArtifactHeals == HSpec => []CompleteSaveIsServed
<1>1. Inv => CompleteSaveIsServed
  BY DEF Inv
<1> QED BY <1>1, InitInv, InvStep, PTL DEF HSpec
=============================================================================
