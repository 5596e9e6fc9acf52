---------------------------- MODULE ModelHistory ----------------------------
(***************************************************************************)
(* What loading the artifact promises, with a history of the last complete   *)
(* save and of what each process found on disk when it started to load.     *)
(***************************************************************************)
EXTENDS ModelArtifact

VARIABLES
    found,      \* what each load started with, or Disturbed
    saved       \* the weights of the last save begun, once it is complete

hvars == <<vars, found, saved>>

Disturbed == [disturbed |-> TRUE]
Nothing == {}

HInit ==
    /\ Init
    /\ found = [p \in Processes |-> Disturbed]
    /\ saved = IF npz = None THEN Nothing ELSE {Shipped}

\* A step of the training command disturbs the loads it meets.
HSave ==
    /\ Save
    /\ found' = [p \in Processes |->
                    IF loader[p] = LoaderIdle THEN found[p] ELSE Disturbed]
    /\ saved' = IF saver # SaverIdle /\ saver' = SaverIdle THEN {saver.model}
                                                        ELSE Nothing

HKillSave == KillSave /\ UNCHANGED <<found, saved>>

HDefault(p) ==
    /\ Default(p)
    /\ found' = IF loader[p] = LoaderIdle
                THEN [found EXCEPT ![p] =
                        [npz |-> npz, manifest |-> manifest, saved |-> saved]]
                ELSE found
    /\ UNCHANGED saved

HRestart(p) ==
    Restart(p) /\ found' = [found EXCEPT ![p] = Disturbed] /\ UNCHANGED saved

HNext == HSave \/ HKillSave \/ \E p \in Processes : HDefault(p) \/ HRestart(p)

HSpec == HInit /\ [][HNext]_hvars
FairHSpec == HSpec /\ \A p \in Processes : WF_hvars(HDefault(p))

Loaded(p) == serving[p] # None /\ serving[p].source # Retrained
Undisturbed(p) == found[p] # Disturbed

-----------------------------------------------------------------------------
\* "fail-closed on any integrity problem" (classifier.py:110-117): whatever a
\* killed save left behind, a process that loads it undisturbed serves a
\* complete, usable model, one the manifest vouches for if there is any, and
\* names its file (pipeline.py:32-35).
OnlyEndorsedIsServed ==
    \A p \in Processes : Loaded(p) /\ Undisturbed(p) =>
        /\ serving[p].model \in Usable
        /\ found[p].npz = Whole(serving[p].model)
        /\ found[p].manifest \in {None, Whole(serving[p].model)}
        /\ serving[p].source = Whole(serving[p].model)

\* The artifact heals: a process that starts undisturbed after a complete save
\* of usable weights serves them, whatever saves were killed before
\* (train.py:28-30).
CompleteSaveIsServed ==
    \A p \in Processes : serving[p] # None /\ Undisturbed(p) =>
        \A m \in found[p].saved \cap Usable :
            serving[p] = [model |-> m, source |-> Whole(m)]

\* default "loads the shipped model or deterministically retrains"
\* (pipeline.py:72-73): a process that starts to load ends up serving unless it
\* restarts.
StartedIsServing ==
    \A p \in Processes :
        (loader[p] # LoaderIdle) ~> (serving[p] # None \/ loader[p] = LoaderIdle)

=============================================================================
