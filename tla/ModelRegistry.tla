----------------------------- MODULE ModelRegistry -----------------------------
(***************************************************************************)
(* The life of a model: a training run (from the command line, or started  *)
(* by auto_retrain) writes the model's file and its metadata, then logs    *)
(* the experiment and, if it is the best by F1, promotes it in the table   *)
(* model_registry; an operator may promote by hand; the ML engine polls    *)
(* the file and loads it, or is told to reload.  Trainers, gateway and     *)
(* engine are processes of their own that share files and tables.          *)
(*                                                                         *)
(* A model and its metadata are named by the run that wrote them, which    *)
(* stands for what they compute.                                           *)
(***************************************************************************)
EXTENDS Naturals, FiniteSets

CONSTANTS
    Runs,       \* number of training runs
    AutoRuns,   \* the runs that auto_retrain starts
    Score,      \* F1 scores, in per cent
    Promotions, \* requests for a promotion by hand
    EngineStops \* bound on restarts of the engine

Run     == 1..Runs
Nothing == 0            \* no file, no model, no version
Legacy  == Runs + 1     \* the model that comes with the image, and its version
Torn    == Runs + 2     \* a file that is being written

ASSUME RegistryAssumption ==
    /\ Runs \in Nat
    /\ AutoRuns \subseteq Run
    /\ Score \subseteq Nat
    /\ EngineStops \in Nat

VARIABLES
    run,     \* per run: its progress, score, best so far, active rows it has seen
    disk,    \* model.joblib, its modification time, model_metadata.json
    engine,  \* model, MODEL_VERSION, last_model_mtime and MODEL_HASH in the engine
    job,     \* what the engine has read so far in a poll or a reload
    entries, \* the registry: rows [run, active], run being the experiment promoted
    logged,  \* the experiments in the database
    promo,   \* per promotion by hand: its progress
    stops

registryVars == <<run, disk, engine, job, entries, logged, promo, stops>>

Idle0 == [pc |-> "idle", value |-> Nothing]

RegistryInit ==
    /\ run = [r \in Run |-> [pc |-> "idle", f1 |-> 0, best |-> FALSE, seen |-> {}]]
    /\ disk = [model |-> Nothing, mtime |-> 0, meta |-> Nothing]
    /\ \E m \in {Nothing, Legacy} :
            engine = [model |-> m, version |-> m, last |-> 0, hash |-> Nothing]
    /\ job = Idle0
    /\ entries = {}
    /\ logged = {}
    /\ promo = [q \in Promotions |-> [pc |-> "idle", exp |-> Nothing, seen |-> {}]]
    /\ stops = 0

Steps(r, from, to) == run[r].pc = from /\ run' = [run EXCEPT ![r].pc = to]

\* Files are rewritten by one run at a time (a run takes minutes, the writes less).
Writing(r) == run[r].pc \in {"model", "meta", "between"}

(***************************************************************************)
(* Training.                                                               *)
(***************************************************************************)

BestScore(E) == IF E = {} THEN 0 ELSE CHOOSE f \in {run[e].f1 : e \in E} : \A e \in E : run[e].f1 <= f

\* The candidates are cross-validated and the best of them is fitted, with some score
\* on the training set.
Fitted(r, f1) ==
    /\ run[r].pc = "idle"
    /\ run' = [run EXCEPT ![r].pc = "trained", ![r].f1 = f1]
    /\ UNCHANGED <<disk, engine, job, entries, logged, promo, stops>>

\* Training from the command line.
Train(r, f1) == r \notin AutoRuns /\ Fitted(r, f1)

\* auto_retrain found drift, or was forced, and trains in its own event loop.
Retrain(r, f1) == r \in AutoRuns /\ Fitted(r, f1)

\* Opening a file for writing empties it.
OpenModel(r) ==
    /\ \A q \in Run : ~Writing(q)
    /\ Steps(r, "trained", "model")
    /\ disk' = [disk EXCEPT !.model = Torn, !.mtime = @ + 1]
    /\ UNCHANGED <<engine, job, entries, logged, promo, stops>>

CloseModel(r) ==
    /\ Steps(r, "model", "between")
    /\ disk' = [disk EXCEPT !.model = r, !.mtime = @ + 1]
    /\ UNCHANGED <<engine, job, entries, logged, promo, stops>>

OpenMetadata(r) ==
    /\ Steps(r, "between", "meta")
    /\ disk' = [disk EXCEPT !.meta = Torn]
    /\ UNCHANGED <<engine, job, entries, logged, promo, stops>>

CloseMetadata(r) ==
    /\ Steps(r, "meta", "saved")
    /\ disk' = [disk EXCEPT !.meta = r]
    /\ UNCHANGED <<engine, job, entries, logged, promo, stops>>

\* From the command line the experiment is logged in a transaction: the best one
\* so far is read ...
ReadBest(r) ==
    /\ r \notin AutoRuns
    /\ run[r].pc = "saved"
    /\ run' = [run EXCEPT ![r].pc = "flushed",
                          ![r].best = logged = {} \/ run[r].f1 > BestScore(logged)]
    /\ UNCHANGED <<disk, engine, job, entries, logged, promo, stops>>

\* ... the new row is flushed and the other active rows are selected, as far as
\* they are committed ...
Others(r) == {e \in entries : e.active /\ e.run # r}

SelectOthers(r) ==
    /\ run[r].pc = "flushed"
    /\ run' = [run EXCEPT ![r].pc = "commit", ![r].seen = IF run[r].best THEN Others(r) ELSE {}]
    /\ UNCHANGED <<disk, engine, job, entries, logged, promo, stops>>

\* ... and they become inactive as the new one becomes active.
Promoted(r, seen) ==
    (entries \ seen) \cup {[e EXCEPT !.active = FALSE] : e \in seen} \cup {[run |-> r, active |-> TRUE]}

CommitRun(r) ==
    /\ run[r].pc = "commit"
    /\ run' = [run EXCEPT ![r].pc = "done", ![r].seen = {}]
    /\ logged' = logged \cup {r}
    /\ entries' = IF run[r].best THEN Promoted(r, run[r].seen) ELSE entries
    /\ UNCHANGED <<disk, engine, job, promo, stops>>

\* The transaction fails: the run is neither logged nor promoted.  auto_retrain
\* calls the training inside its event loop, where asyncio.run raises, always.
LogFails(r) ==
    /\ \/ run[r].pc = "saved" /\ r \in AutoRuns
       \/ run[r].pc \in {"flushed", "commit"}
    /\ run' = [run EXCEPT ![r].pc = "done", ![r].best = FALSE, ![r].seen = {}]
    /\ UNCHANGED <<disk, engine, job, entries, logged, promo, stops>>

(***************************************************************************)
(* Promotion by hand, at the gateway.                                      *)
(***************************************************************************)

PromotedRuns == {e.run : e \in entries}

ReadExperiment(q, r) ==
    /\ promo[q].pc = "idle"
    /\ r \in logged \ PromotedRuns
    /\ promo' = [promo EXCEPT ![q] = [pc |-> "commit", exp |-> r, seen |-> {e \in entries : e.active}]]
    /\ UNCHANGED <<run, disk, engine, job, entries, logged, stops>>

CommitPromotion(q) ==
    /\ promo[q].pc = "commit"
    /\ entries' = Promoted(promo[q].exp, promo[q].seen)
    /\ promo' = [promo EXCEPT ![q] = [pc |-> "done", exp |-> Nothing, seen |-> {}]]
    /\ UNCHANGED <<run, disk, engine, job, logged, stops>>

(***************************************************************************)
(* The engine.  Polling and reloading do not interleave with each other.   *)
(***************************************************************************)

\* Mutant: the time is noted before the model is loaded.
WatchTimeNoted ==
    /\ job.pc = "idle"
    /\ disk.mtime > engine.last
    /\ job' = [pc |-> "load", value |-> disk.mtime]
    /\ engine' = [engine EXCEPT !.last = disk.mtime]
    /\ UNCHANGED <<run, disk, entries, logged, promo, stops>>

\* A poll compares modification times ...
WatchTime ==
    /\ job.pc = "idle"
    /\ disk.mtime > engine.last
    /\ job' = [pc |-> "load", value |-> disk.mtime]
    /\ UNCHANGED <<run, disk, engine, entries, logged, promo, stops>>

\* Mutant: what can be read of a torn file is taken for a model.
WatchModelTorn ==
    /\ job.pc = "load"
    /\ job' = [pc |-> "metadata", value |-> job.value, new |-> disk.model]
    /\ UNCHANGED <<run, disk, engine, entries, logged, promo, stops>>

\* ... loads the model, the metadata, and only then changes anything; a torn file
\* raises, and everything stays as it is.  job.value keeps the time, job.new the model.
WatchModel ==
    /\ job.pc = "load"
    /\ job' = IF disk.model = Torn THEN Idle0
              ELSE [pc |-> "metadata", value |-> job.value, new |-> disk.model]
    /\ UNCHANGED <<run, disk, engine, entries, logged, promo, stops>>

WatchMetadata ==
    /\ job.pc = "metadata"
    /\ engine' = IF disk.meta = Torn THEN engine
                 ELSE [engine EXCEPT !.model = job.new, !.version = disk.meta, !.last = job.value]
    /\ job' = Idle0
    /\ UNCHANGED <<run, disk, entries, logged, promo, stops>>

\* POST /model/reload compares hashes ...
ReloadHash ==
    /\ job.pc = "idle"
    /\ disk.model # engine.hash
    /\ job' = [pc |-> "reload", value |-> disk.model]
    /\ UNCHANGED <<run, disk, engine, entries, logged, promo, stops>>

\* ... changes the model at once ...
ReloadModel ==
    /\ job.pc = "reload"
    /\ IF disk.model = Torn
       THEN job' = Idle0 /\ UNCHANGED engine
       ELSE job' = [job EXCEPT !.pc = "reversion"] /\ engine' = [engine EXCEPT !.model = disk.model]
    /\ UNCHANGED <<run, disk, entries, logged, promo, stops>>

\* ... and the version if there are metadata to read.
ReloadVersion ==
    /\ job.pc = "reversion"
    /\ engine' = CASE disk.meta = Torn    -> engine
                   [] disk.meta = Nothing -> [engine EXCEPT !.hash = job.value]
                   [] OTHER -> [engine EXCEPT !.version = disk.meta, !.hash = job.value]
    /\ job' = Idle0
    /\ UNCHANGED <<run, disk, entries, logged, promo, stops>>

\* At its start the engine loads the file, or the legacy model if there is none.
EngineStart ==
    /\ stops < EngineStops
    /\ stops' = stops + 1
    /\ LET good == disk.model \notin {Nothing, Torn} /\ disk.meta # Torn
           kept == IF disk.model = Nothing THEN {Nothing, Legacy} ELSE {Nothing}
       IN  \E m \in kept :
              engine' = [model   |-> IF good THEN disk.model ELSE m,
                         version |-> IF good THEN disk.meta ELSE m,
                         last    |-> IF good THEN disk.mtime ELSE 0,
                         hash    |-> disk.model]
    /\ job' = Idle0
    /\ UNCHANGED <<run, disk, entries, logged, promo>>

EngineWorks == WatchTime \/ WatchModel \/ WatchMetadata \/ ReloadModel \/ ReloadVersion

Trainer(r) ==
    \/ OpenModel(r) \/ CloseModel(r) \/ OpenMetadata(r) \/ CloseMetadata(r)
    \/ ReadBest(r) \/ SelectOthers(r) \/ CommitRun(r) \/ LogFails(r)
    \/ \E f \in Score : Train(r, f) \/ Retrain(r, f)

RegistryNext ==
    \/ \E r \in Run : Trainer(r)
    \/ \E q \in Promotions : CommitPromotion(q) \/ \E r \in Run : ReadExperiment(q, r)
    \/ EngineWorks \/ ReloadHash \/ EngineStart

RegistrySpec == RegistryInit /\ [][RegistryNext]_registryVars

-----------------------------------------------------------------------------

Content == 0..Runs + 2

\* Every variable keeps its type; the engine never holds a torn model.
RegistryTypeOK ==
    /\ \A r \in Run : run[r].f1 \in Score \cup {0} /\ run[r].best \in BOOLEAN
    /\ disk.model \in Content /\ disk.meta \in Content /\ disk.mtime \in Nat
    /\ engine.model \in Content \ {Torn} /\ engine.version \in Content \ {Torn}
    /\ engine.last \in 0..disk.mtime
    /\ \A e \in entries : e.run \in Run /\ e.active \in BOOLEAN
    /\ logged \subseteq Run

\* "Only one model active at a time" (docs/database_erd.md:150): each promotion clears
\* the active rows that it has seen (train_production.py:177-183, gateway/main.py:1193-1197).
OnlyOneActive == \A e, f \in entries : e.active /\ f.active => e = f

\* When no file is being written for good, the engine ends up with the model on
\* disk, and does not take it for the legacy one, whose classes are the other way
\* round: a failed load is tried again.
EngineCatchesUp ==
    <>[](disk.model \in Run /\ disk.meta # Torn)
        => <>[](engine.model = disk.model /\ engine.version # Legacy)
=============================================================================
