---------------------------- MODULE ModelArtifact ----------------------------
(***************************************************************************)
(* The model artifact of aegis/sanitizer: classifier.save writes the weights *)
(* and then their digest manifest, one file after the other, in place;      *)
(* SanitizationPipeline.default loads them in every service process, and    *)
(* trains a model in memory when it cannot.  A save may be killed between   *)
(* any two of its steps, and a service may start at any moment of it.       *)
(*                                                                         *)
(* A file is identified by its content, which is what its digest stands     *)
(* for: Whole(m) holds the weights m, Torn(m) is what an unfinished write    *)
(* of them leaves.                                                          *)
(***************************************************************************)
EXTENDS Naturals

CONSTANTS
    Processes,      \* service processes, each with its default pipeline
    Models,         \* weights that training can produce
    Usable,         \* those of the supported format and feature dimension
    Shipped,        \* the weights in the package
    Fallback,       \* the weights train_default gives with its fixed seed
    MaxSaves,       \* bound on the saves of a behaviour
    MaxRestarts     \* bound on the restarts of services

ASSUME ModelAssumption ==
    /\ Usable \subseteq Models /\ Shipped \in Usable /\ Fallback \in Usable
    /\ MaxSaves \in Nat /\ MaxRestarts \in Nat

VARIABLES
    npz,        \* content of the artifact
    manifest,   \* content of <artifact>.sha256
    saver,      \* what the training command is doing
    loader,     \* what each process's default() is doing
    serving,    \* the pipeline each process serves with
    saves, restarts

vars == <<npz, manifest, saver, loader, serving, saves, restarts>>

Whole(m) == [model |-> m, whole |-> TRUE]
Torn(m) == [model |-> m, whole |-> FALSE]
Files == [model : Models, whole : BOOLEAN]

Empty == [file |-> "empty"]         \* opened for writing, nothing written yet
None == [file |-> "none"]
Retrained == [trained |-> "in memory"]

SaverIdle == [stage |-> "idle"]
LoaderIdle == [stage |-> "idle"]

Saving == [stage : {"write", "digest", "open", "sign"}, model : Models,
           digest : Files \cup {None}]
Loading == [stage : {"manifest", "verify", "read", "name", "retrain"},
            digest : Files \cup {None}, model : Models]
Pipeline == [model : Models, source : Files \cup {Retrained}]

-----------------------------------------------------------------------------
(* InjectionClassifier.save *)

\* np.savez opens the artifact for writing, which truncates it.
StartSave(m) ==
    /\ saver = SaverIdle
    /\ saves < MaxSaves
    /\ saves' = saves + 1
    /\ npz' = Torn(m)
    /\ saver' = [stage |-> "write", model |-> m, digest |-> None]
    /\ UNCHANGED <<manifest, loader, serving, restarts>>

FinishWrite ==
    /\ saver.stage = "write"
    /\ npz' = Whole(saver.model)
    /\ saver' = [saver EXCEPT !.stage = "digest"]
    /\ UNCHANGED <<manifest, loader, serving, saves, restarts>>

\* The digest is taken from the file, not from the weights in memory.
TakeDigest ==
    /\ saver.stage = "digest"
    /\ saver' = [saver EXCEPT !.stage = "open", !.digest = npz]
    /\ UNCHANGED <<npz, manifest, loader, serving, saves, restarts>>

\* Mutant: the manifest is opened, its digest is never written.
LeavesEmpty ==
    /\ saver.stage = "open"
    /\ manifest' = Empty
    /\ saver' = SaverIdle
    /\ UNCHANGED <<npz, loader, serving, saves, restarts>>

OpenManifest ==
    /\ saver.stage = "open"
    /\ manifest' = Empty
    /\ saver' = [saver EXCEPT !.stage = "sign"]
    /\ UNCHANGED <<npz, loader, serving, saves, restarts>>

WriteManifest ==
    /\ saver.stage = "sign"
    /\ manifest' = saver.digest
    /\ saver' = SaverIdle
    /\ UNCHANGED <<npz, loader, serving, saves, restarts>>

\* The training command is killed: the files stay as they are.
KillSave ==
    /\ saver # SaverIdle
    /\ saver' = SaverIdle
    /\ UNCHANGED <<npz, manifest, loader, serving, saves, restarts>>

-----------------------------------------------------------------------------
(* SanitizationPipeline.default and InjectionClassifier.load_model.  Any      *)
(* rejection makes default train in memory.                                   *)

Load(p, l) ==
    /\ loader' = [loader EXCEPT ![p] = l]
    /\ UNCHANGED <<npz, manifest, saver, serving, saves, restarts>>

\* Mutant: the rejection propagates out of default.
Propagate(p) == Load(p, [loader[p] EXCEPT !.stage = "stuck"])

Reject(p) == Load(p, [loader[p] EXCEPT !.stage = "retrain"])

StartDefault(p) ==
    /\ loader[p] = LoaderIdle /\ serving[p] = None
    /\ Load(p, [stage |-> IF npz = None THEN "retrain" ELSE "manifest",
                digest |-> None, model |-> Fallback])

\* Mutant: an empty manifest counts as a missing one.
SkipsEmpty(p) ==
    /\ loader[p].stage = "manifest"
    /\ IF manifest \in {None, Empty}
       THEN Load(p, [loader[p] EXCEPT !.stage = "read"])
       ELSE Load(p, [loader[p] EXCEPT !.stage = "verify", !.digest = manifest])

\* An artifact without manifest is not verified; an empty manifest is refused.
ReadManifest(p) ==
    /\ loader[p].stage = "manifest"
    /\ \/ manifest = None /\ Load(p, [loader[p] EXCEPT !.stage = "read"])
       \/ manifest = Empty /\ Reject(p)
       \/ /\ manifest \notin {None, Empty}
          /\ Load(p, [loader[p] EXCEPT !.stage = "verify", !.digest = manifest])

Verify(p) ==
    /\ loader[p].stage = "verify"
    /\ IF npz = loader[p].digest THEN Load(p, [loader[p] EXCEPT !.stage = "read"])
                                 ELSE Reject(p)

\* np.load cannot read a torn file; format and dimension are checked.
ReadWeights(p) ==
    /\ loader[p].stage = "read"
    /\ IF npz.whole /\ npz.model \in Usable
       THEN Load(p, [loader[p] EXCEPT !.stage = "name", !.model = npz.model])
       ELSE Reject(p)

Serve(p, model, source) ==
    /\ serving' = [serving EXCEPT ![p] = [model |-> model, source |-> source]]
    /\ loader' = [loader EXCEPT ![p] = LoaderIdle]
    /\ UNCHANGED <<npz, manifest, saver, saves, restarts>>

\* model_source is computed from the file once more.
NameSource(p) == loader[p].stage = "name" /\ Serve(p, loader[p].model, npz)

TrainInMemory(p) ==
    loader[p].stage = "retrain" /\ Serve(p, Fallback, Retrained)

\* The service process restarts: its singleton is gone.
Restart(p) ==
    /\ restarts < MaxRestarts
    /\ restarts' = restarts + 1
    /\ loader' = [loader EXCEPT ![p] = LoaderIdle]
    /\ serving' = [serving EXCEPT ![p] = None]
    /\ UNCHANGED <<npz, manifest, saver, saves>>

-----------------------------------------------------------------------------
\* The package ships both files; a fresh --out path has neither.
Init ==
    /\ \/ npz = Whole(Shipped) /\ manifest = Whole(Shipped)
       \/ npz = None /\ manifest = None
    /\ saver = SaverIdle
    /\ loader = [p \in Processes |-> LoaderIdle]
    /\ serving = [p \in Processes |-> None]
    /\ saves = 0 /\ restarts = 0

Save == (\E m \in Models : StartSave(m)) \/ FinishWrite \/ TakeDigest
          \/ OpenManifest \/ WriteManifest

Default(p) == StartDefault(p) \/ ReadManifest(p) \/ Verify(p) \/ ReadWeights(p)
                \/ NameSource(p) \/ TrainInMemory(p)

Next == Save \/ KillSave \/ \E p \in Processes : Default(p) \/ Restart(p)

Spec == Init /\ [][Next]_vars

\* A service that starts goes on; nothing is assumed of the training command.
FairSpec == Spec /\ \A p \in Processes : WF_vars(Default(p))

TypeOK ==
    /\ npz \in Files \cup {None}
    /\ manifest \in Files \cup {None, Empty}
    /\ saver \in Saving \cup {SaverIdle}
    /\ loader \in [Processes -> Loading \cup {LoaderIdle}]
    /\ serving \in [Processes -> Pipeline \cup {None}]
    /\ saves \in 0..MaxSaves /\ restarts \in 0..MaxRestarts
=============================================================================
