--------------------------- MODULE ModelRegistry ---------------------------
(***************************************************************************)
(* The model registry of the recommendation service: model.joblib, the     *)
(* versioned artifact files and manifest.json on the volume that           *)
(* recommendation-worker and the gunicorn processes of the API share.      *)
(*                                                                         *)
(* What two writers mix up, in model.joblib or the manifest, is taken not  *)
(* to load: joblib.load and json.load raise on it.                         *)
(*                                                                         *)
(* _MODEL_LOCK and _MODEL_CACHE belong to one process, so each process has *)
(* one train_model, rollback_model or first load_model under way, and      *)
(* nothing orders the processes. Opening a file for writing empties it;    *)
(* it can be read again once the write has ended.                          *)
(***************************************************************************)
EXTENDS Naturals, Sequences, FiniteSets, SequencesExt

CONSTANTS
    Processes,     \* processes that mount the volume
    Apis,          \* those of the API, which roll back as well as train
    Torn,          \* a file that is empty, cut off, or two writes in one
    Keep,          \* settings.model_versions_to_keep
    MaxTrainings,  \* bound: trainings begun
    MaxRollbacks,  \* bound: rollbacks begun
    MaxCrashes     \* bound: processes killed

ASSUME RegistryAssumption ==
    /\ Apis \subseteq Processes
    /\ Keep \in Nat \ {0} /\ MaxTrainings \in Nat /\ MaxRollbacks \in Nat /\ MaxCrashes \in Nat

VARIABLES
    files,     \* the file of each artifact
    model,     \* what is in model.joblib
    manifest,  \* what is in manifest.json
    stage,     \* where each process is in train_model or rollback_model
    task,      \* what it does there, and to which artifact
    draft,     \* its copy of the manifest
    doomed,    \* files it has yet to prune
    mixed,     \* whether another process has the file it writes open as well
    cache,     \* _MODEL_CACHE
    trained,   \* artifact ids given out
    rollbacks, \* rollbacks begun
    crashes,
    dumped,    \* history: artifacts whose file was once complete
    overlapped \* history: whether operations of two processes ever overlapped

vars == << files, model, manifest, stage, task, draft, doomed, mixed, cache,
           trained, rollbacks, crashes, dumped, overlapped >>

volume == << files, model, manifest >>

(* Artifact ids are timestamps; here they are numbers in the same order. *)
Artifacts == 1..MaxTrainings
NoArtifact == 0

Manifests == [active : Artifacts \cup {NoArtifact}, artifacts : Seq(Artifacts)]
ASSUME TornAssumption == Torn \notin Nat /\ Torn \notin Manifests

DefaultManifest == [active |-> NoArtifact, artifacts |-> << >>]

NoTask == [kind |-> "none", artifact |-> NoArtifact]
Tasks == [kind : {"train", "rollback"}, artifact : Artifacts] \cup {NoTask}

Stages == {"booting", "idle", "dumping", "dumped", "installing", "installed",
           "pruning", "removing", "pruned", "writing", "reporting"}

(* Before the first operation and between operations. *)
Quiet == {"booting", "idle"}

Listed(m) == { m.artifacts[i] : i \in DOMAIN m.artifacts }

Init ==
    /\ files = [a \in Artifacts |-> "absent"]
    /\ model = NoArtifact
    /\ manifest = DefaultManifest
    /\ stage = [p \in Processes |-> "booting"]
    /\ task = [p \in Processes |-> NoTask]
    /\ draft = [p \in Processes |-> DefaultManifest]
    /\ doomed = [p \in Processes |-> << >>]
    /\ mixed = [p \in Processes |-> FALSE]
    /\ cache = [p \in Processes |-> NoArtifact]
    /\ trained = 0
    /\ rollbacks = 0
    /\ crashes = 0
    /\ dumped = {}
    /\ overlapped = FALSE
-----------------------------------------------------------------------------
GoTo(p, s) == stage' = [stage EXCEPT ![p] = s]

Forget(p) ==
    /\ task' = [task EXCEPT ![p] = NoTask]
    /\ draft' = [draft EXCEPT ![p] = DefaultManifest]
    /\ doomed' = [doomed EXCEPT ![p] = << >>]
    /\ mixed' = [mixed EXCEPT ![p] = FALSE]

(* The operation returns or raises and the lock is released. *)
End(p) == GoTo(p, "idle") /\ Forget(p)

Begin(p, kind, a) ==
    /\ stage[p] = "idle"
    /\ task' = [task EXCEPT ![p] = [kind |-> kind, artifact |-> a]]
    /\ overlapped' = (overlapped \/ \E q \in Processes : stage[q] \notin Quiet)

Subject(p) == task[p].artifact
Training(p) == task[p].kind = "train"

(* p opens a file that is written in stage s: whoever has it open already, and
   p then too, may find the other's bytes in it. *)
Opens(p, s) ==
    LET others == { q \in Processes \ {p} : stage[q] = s }
    IN mixed' = [q \in Processes |->
                   IF q = p THEN others # {} ELSE mixed[q] \/ q \in others]

(* What a write leaves: what was written, or a mixture. *)
Written(p, content) == {content} \cup (IF mixed[p] THEN {Torn} ELSE {})

(* train_model up to the open of the artifact's own file. A payload that cannot
   be built raises before anything is touched. *)
StartTraining(p) ==
    /\ trained < MaxTrainings
    /\ trained' = trained + 1
    /\ Begin(p, "train", trained + 1)
    /\ files' = [files EXCEPT ![trained + 1] = "partial"]
    /\ GoTo(p, "dumping")
    /\ UNCHANGED << model, manifest, draft, doomed, mixed, cache, rollbacks, crashes, dumped >>

FinishArtifact(p) ==
    /\ stage[p] = "dumping"
    /\ files' = [files EXCEPT ![Subject(p)] = "whole"]
    /\ dumped' = dumped \cup {Subject(p)}
    /\ GoTo(p, "dumped")
    /\ UNCHANGED << model, manifest, task, draft, doomed, mixed, cache, trained, rollbacks, crashes, overlapped >>

(* Mutant: it is enough that the file exists. *)
StartRollback_NotLoaded(p, a) ==
    /\ p \in Apis
    /\ rollbacks < MaxRollbacks
    /\ rollbacks' = rollbacks + 1
    /\ files[a] # "absent"
    /\ Begin(p, "rollback", a)
    /\ GoTo(p, "dumped")
    /\ UNCHANGED << volume, draft, doomed, mixed, cache, trained, crashes, dumped >>

(* rollback_model: the artifact's file is there and loads. A missing or cut-off
   file raises, and nothing has changed. *)
StartRollback(p, a) ==
    /\ p \in Apis
    /\ rollbacks < MaxRollbacks
    /\ rollbacks' = rollbacks + 1
    /\ files[a] = "whole"
    /\ Begin(p, "rollback", a)
    /\ GoTo(p, "dumped")
    /\ UNCHANGED << volume, draft, doomed, mixed, cache, trained, crashes, dumped >>

OpenModel(p) ==
    /\ stage[p] = "dumped"
    /\ model' = Torn
    /\ Opens(p, "installing")
    /\ GoTo(p, "installing")
    /\ UNCHANGED << files, manifest, task, draft, doomed, cache, trained, rollbacks, crashes, dumped, overlapped >>

(* Mutant: the cache is set from the file, which is not whole yet. *)
CachedOnInstall_FromFile(p) == [cache EXCEPT ![p] = model]

(* Mutant: rollback_model, too, leaves the cache for the end. *)
CachedOnInstall_Late(p) == cache

(* rollback_model sets the cache here, train_model at its end. *)
CachedOnInstall(p) ==
    IF Training(p) THEN cache ELSE [cache EXCEPT ![p] = Subject(p)]

FinishModel(p) ==
    /\ stage[p] = "installing"
    /\ model' \in Written(p, Subject(p))
    /\ cache' = CachedOnInstall(p)
    /\ mixed' = [mixed EXCEPT ![p] = FALSE]
    /\ GoTo(p, "installed")
    /\ UNCHANGED << files, manifest, task, draft, doomed, trained, rollbacks, crashes, dumped, overlapped >>

(* The entries but that of artifact a: those of the first n, for each n. *)
Kept(entries, a) ==
    LET kept[n \in 0..Len(entries)] ==
            IF n = 0 THEN << >>
            ELSE IF entries[n] = a THEN kept[n - 1] ELSE Append(kept[n - 1], entries[n])
    IN kept

Without(entries, a) == Kept(entries, a)[Len(entries)]

(* Mutant: the old entry of the artifact is kept. *)
Upsert_KeepsOld(m, a) ==
    [active |-> a, artifacts |-> << a >> \o m.artifacts]

(* _upsert_manifest_entry *)
Upsert(m, a) ==
    [active |-> a, artifacts |-> << a >> \o Without(m.artifacts, a)]

(* What _prune_old_artifacts keeps, and whose files it removes. *)
Retained(m) ==
    SubSeq(m.artifacts, 1, IF Len(m.artifacts) < Keep THEN Len(m.artifacts) ELSE Keep)

(* Mutant: one artifact too few is removed. *)
Removed_OneLess(m) == SubSeq(m.artifacts, Keep + 2, Len(m.artifacts))

(* Mutant: the last artifact kept is removed as well. *)
Removed_OneMore(m) == SubSeq(m.artifacts, Keep, Len(m.artifacts))

Removed(m) == SubSeq(m.artifacts, Keep + 1, Len(m.artifacts))

(* The next of the files to prune, or the end of the pruning. *)
GoOn(p, rest) == GoTo(p, IF rest = << >> THEN "pruned" ELSE "pruning")

(* The manifest is read and the entry put first; only train_model prunes. *)
AmendManifest(p) ==
    /\ stage[p] = "installed"
    /\ manifest # Torn
    /\ LET m == Upsert(manifest, Subject(p))
       IN IF Training(p)
          THEN /\ draft' = [draft EXCEPT ![p] = [m EXCEPT !.artifacts = Retained(m)]]
               /\ doomed' = [doomed EXCEPT ![p] = Removed(m)]
               /\ GoOn(p, Removed(m))
          ELSE /\ draft' = [draft EXCEPT ![p] = m]
               /\ GoTo(p, "pruned")
               /\ UNCHANGED doomed
    /\ UNCHANGED << volume, task, mixed, cache, trained, rollbacks, crashes, dumped, overlapped >>

(* A manifest that is no JSON raises: the artifact stays, unlisted. *)
ReadFails(p) ==
    /\ stage[p] = "installed"
    /\ manifest = Torn
    /\ End(p)
    /\ UNCHANGED << volume, cache, trained, rollbacks, crashes, dumped, overlapped >>

(* os.path.exists *)
CheckDoomed(p) ==
    /\ stage[p] = "pruning"
    /\ IF files[Head(doomed[p])] # "absent"
       THEN GoTo(p, "removing") /\ UNCHANGED doomed
       ELSE doomed' = [doomed EXCEPT ![p] = Tail(@)] /\ GoOn(p, Tail(doomed[p]))
    /\ UNCHANGED << volume, task, draft, mixed, cache, trained, rollbacks, crashes, dumped, overlapped >>

(* os.remove *)
RemoveDoomed(p) ==
    /\ stage[p] = "removing"
    /\ files[Head(doomed[p])] # "absent"
    /\ files' = [files EXCEPT ![Head(doomed[p])] = "absent"]
    /\ doomed' = [doomed EXCEPT ![p] = Tail(@)]
    /\ GoOn(p, Tail(doomed[p]))
    /\ UNCHANGED << model, manifest, task, draft, mixed, cache, trained, rollbacks, crashes, dumped, overlapped >>

(* Another process has removed the file since the check. *)
RemoveFails(p) ==
    /\ stage[p] = "removing"
    /\ files[Head(doomed[p])] = "absent"
    /\ End(p)
    /\ UNCHANGED << volume, cache, trained, rollbacks, crashes, dumped, overlapped >>

OpenManifest(p) ==
    /\ stage[p] = "pruned"
    /\ manifest' = Torn
    /\ Opens(p, "writing")
    /\ GoTo(p, "writing")
    /\ UNCHANGED << files, model, task, draft, doomed, cache, trained, rollbacks, crashes, dumped, overlapped >>

FinishTraining(p) ==
    /\ stage[p] = "writing" /\ Training(p)
    /\ manifest' \in Written(p, draft[p])
    /\ cache' = [cache EXCEPT ![p] = Subject(p)]
    /\ End(p)
    /\ UNCHANGED << files, model, trained, rollbacks, crashes, dumped, overlapped >>

FinishRollback(p) ==
    /\ stage[p] = "writing" /\ ~Training(p)
    /\ manifest' \in Written(p, draft[p])
    /\ mixed' = [mixed EXCEPT ![p] = FALSE]
    /\ GoTo(p, "reporting")
    /\ UNCHANGED << files, model, task, draft, doomed, cache, trained, rollbacks, crashes, dumped, overlapped >>

(* get_model_status inside the lock, which is not reentrant: load_model must
   find the cache set, or it waits for the lock its own caller holds. *)
Report(p) ==
    /\ stage[p] = "reporting"
    /\ cache[p] # NoArtifact
    /\ End(p)
    /\ UNCHANGED << volume, cache, trained, rollbacks, crashes, dumped, overlapped >>

(* load_model before a process does anything else. A torn model.joblib or
   manifest raises, the process ends and is started again. *)
Boot(p) ==
    /\ stage[p] = "booting"
    /\ model # Torn
    /\ model # NoArtifact => manifest # Torn
    /\ cache' = [cache EXCEPT ![p] = model]
    /\ GoTo(p, "idle")
    /\ UNCHANGED << volume, task, draft, doomed, mixed, trained, rollbacks, crashes, dumped, overlapped >>

(* load_model of an API process that found no file when it started. The cache is
   set before the manifest is read. *)
LoadModel(p) ==
    /\ p \in Apis
    /\ stage[p] = "idle"
    /\ cache[p] = NoArtifact
    /\ model \notin {NoArtifact, Torn}
    /\ cache' = [cache EXCEPT ![p] = model]
    /\ UNCHANGED << volume, stage, task, draft, doomed, mixed, trained, rollbacks, crashes, dumped, overlapped >>

(* The process is killed (gunicorn's timeout, the container) and replaced. *)
ProcessDies(p) ==
    /\ crashes < MaxCrashes
    /\ crashes' = crashes + 1
    /\ GoTo(p, "booting")
    /\ Forget(p)
    /\ cache' = [cache EXCEPT ![p] = NoArtifact]
    /\ UNCHANGED << volume, trained, rollbacks, dumped, overlapped >>

Continue(p) ==
    \/ FinishArtifact(p) \/ OpenModel(p) \/ FinishModel(p)
    \/ AmendManifest(p) \/ ReadFails(p)
    \/ CheckDoomed(p) \/ RemoveDoomed(p) \/ RemoveFails(p)
    \/ OpenManifest(p) \/ FinishTraining(p) \/ FinishRollback(p) \/ Report(p)

Next == \E p \in Processes :
    \/ StartTraining(p)
    \/ \E a \in Artifacts : StartRollback(p, a)
    \/ Continue(p) \/ Boot(p) \/ LoadModel(p) \/ ProcessDies(p)

Spec == Init /\ [][Next]_vars

(* A process in the middle of an operation goes on; it is killed, if ever,
   finitely often. Nothing makes anyone train, roll back or ask for the model. *)
Fairness == \A p \in Processes : WF_vars(Continue(p))

FairSpec == Spec /\ Fairness
-----------------------------------------------------------------------------
(* Every file, manifest copy and cache keeps its type; no cache holds a torn file. *)
TypeOK ==
    /\ files \in [Artifacts -> {"absent", "partial", "whole"}]
    /\ model \in Artifacts \cup {NoArtifact, Torn}
    /\ manifest \in Manifests \cup {Torn}
    /\ stage \in [Processes -> Stages]
    /\ task \in [Processes -> Tasks]
    /\ draft \in [Processes -> Manifests]
    /\ doomed \in [Processes -> Seq(Artifacts)]
    /\ mixed \in [Processes -> BOOLEAN]
    /\ cache \in [Processes -> Artifacts \cup {NoArtifact}]
    /\ trained \in 0..MaxTrainings
    /\ rollbacks \in 0..MaxRollbacks
    /\ crashes \in 0..MaxCrashes
    /\ dumped \subseteq Artifacts
    /\ overlapped \in BOOLEAN

AtRest == \A p \in Processes : stage[p] \in Quiet
Stored == { a \in Artifacts : files[a] # "absent" }
Whole == { a \in Artifacts : files[a] = "whole" }

(* A manifest that can be read lists each artifact once, the active one first,
   although processes write over each other's updates and die in between. *)
ManifestIsCoherent ==
    manifest # Torn =>
      /\ \A i, j \in DOMAIN manifest.artifacts :
           manifest.artifacts[i] = manifest.artifacts[j] => i = j
      /\ manifest.active = IF manifest.artifacts = << >> THEN NoArtifact
                           ELSE manifest.artifacts[1]

(* Only an artifact whose own file was once complete is listed, installed as
   model.joblib or served: a training killed while it dumps is never seen, not
   even by a rollback to the file it leaves. *)
OnlyDumpedIsUsed ==
    /\ manifest # Torn => Listed(manifest) \subseteq dumped
    /\ model \in dumped \cup {NoArtifact, Torn}
    /\ \A p \in Processes : cache[p] \in dumped \cup {NoArtifact}

(* As long as no two processes have been at work together and none was killed,
   train_model and rollback_model leave manifest, files and model.joblib in
   agreement: what is listed is on disk and nothing else, at most Keep of it,
   and the active artifact is the installed one. *)
RegistryAgrees ==
    AtRest /\ ~overlapped /\ crashes = 0 =>
      /\ manifest # Torn
      /\ Listed(manifest) = Whole /\ Stored = Whole
      /\ Len(manifest.artifacts) <= Keep
      /\ model = manifest.active

(* Processes that work one at a time lose no more by being killed than one
   artifact each time: a file that is not listed, and a listed one that is
   gone, unless the manifest itself is cut off. *)
DeathCostsOneArtifact ==
    AtRest /\ ~overlapped /\ manifest # Torn =>
      /\ Cardinality(Stored \ Listed(manifest)) <= crashes
      /\ Cardinality(Listed(manifest) \ Stored) <= crashes

(* train_model and rollback_model end, whatever the other processes do, and so
   release the lock of their process: rollback_model, which asks for the model
   status while it holds that lock, never has to wait for itself. *)
OperationsEnd ==
    \A p \in Processes : stage[p] \notin Quiet ~> stage[p] \in Quiet

(* recommendation-service/README.md:84: POST /recommendations/rollback "switches
   the active model back to a previous artifact version". Stated of the API's
   processes that serve a model when a rollback has succeeded, no other operation
   having run meanwhile; a process that has loaded its model never looks again. *)
RollbackReachesEveryProcess ==
    [][\A p \in Processes : stage[p] = "reporting" /\ Report(p) /\ ~overlapped =>
         \A q \in Apis : cache[q] \in {NoArtifact, Subject(p)}]_vars
=============================================================================
