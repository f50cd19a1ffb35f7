----------------------------- MODULE Forecaster -----------------------------
(***************************************************************************)
(* The life of the demand models (forecasting/xgboost_model.py): the       *)
(* singletons of several processes, each with a point estimate and two     *)
(* bounds, and the three files of the one directory they save to and load  *)
(* from, one file after another.                                           *)
(*                                                                         *)
(* A model is the number of the training that fitted it.  No code of the   *)
(* repository calls train or save_model: the model lets each process call  *)
(* the methods in any order, one at a time.                                *)
(***************************************************************************)
EXTENDS Naturals

CONSTANTS
    Forecasters,    \* the processes
    MaxTrainings,   \* bound: how many trainings begin
    MaxSaves,       \* bound: how many saves begin
    MaxMishaps      \* bound: crashes and trainings that raise

ASSUME TrainingsAssumption ==
    MaxTrainings \in Nat /\ MaxSaves \in Nat /\ MaxMishaps \in Nat

Parts == {"main", "lower", "upper"}
After == [main |-> "lower", lower |-> "upper", upper |-> "done"]

None == 0       \* no model: self.model is None, or None was pickled
\* What a file holds.
Absent == [is |-> "absent", model |-> None]
Torn == [is |-> "torn", model |-> None]
Pickled(n) == [is |-> "pickle", model |-> n]

VARIABLES
    file,       \* file[p]: absent, torn, or the pickle of a model
    held,       \* held[f][p]: the models of forecaster f
    trained,    \* trained[f]: _trained
    doing,      \* doing[f]: the call that f is in
    part,       \* part[f]: the model that the call is at
    trainings, saves, mishaps,
    spoiled     \* history: a training raised, or a save crashed or was overlapped

forecasterVars ==
    <<file, held, trained, doing, part, trainings, saves, mishaps, spoiled>>

countVars == <<trainings, saves, mishaps>>

NoModels == [p \in Parts |-> None]

ForecasterInit ==
    /\ file = [p \in Parts |-> Absent]
    /\ held = [f \in Forecasters |-> NoModels]
    /\ trained = [f \in Forecasters |-> FALSE]
    /\ doing = [f \in Forecasters |-> "unborn"]
    /\ part = [f \in Forecasters |-> "main"]
    /\ trainings = 0 /\ saves = 0 /\ mishaps = 0
    /\ spoiled = FALSE

\* f starts a call, which begins with the point estimate.
Call(f, from, what) ==
    /\ doing[f] = from
    /\ doing' = [doing EXCEPT ![f] = what]
    /\ part' = [part EXCEPT ![f] = "main"]

\* f goes on with the next model, and returns after the last.
GoOn(f, what) ==
    IF part[f] = "upper"
    THEN Call(f, what, "idle")
    ELSE /\ doing[f] = what
         /\ part' = [part EXCEPT ![f] = After[@]]
         /\ UNCHANGED doing

Peers(f) == Forecasters \ {f}

Mishap ==
    /\ mishaps < MaxMishaps
    /\ mishaps' = mishaps + 1

-----------------------------------------------------------------------------
(* Loading.                                                                *)

\* get_demand_forecaster: the first use in a process makes the singleton and
\* loads it, and only the file of the point estimate is looked for.
Create(f) ==
    /\ Call(f, "unborn", IF file["main"] = Absent THEN "idle" ELSE "loading")
    /\ UNCHANGED <<file, held, trained, countVars, spoiled>>

Load(f) ==
    /\ Call(f, "idle", IF file["main"] = Absent THEN "idle" ELSE "loading")
    /\ UNCHANGED <<file, held, trained, countVars, spoiled>>

Readable(p) == file[p].is = "pickle"

SavingElsewhere(f) == \E g \in Peers(f) : doing[g] \in {"opening", "dumping"}

\* The file of one model is read; the forecaster uses what it has read so far,
\* but counts as trained after the third.
LoadPart(f) ==
    /\ Readable(part[f])
    /\ held' = [held EXCEPT ![f][part[f]] = file[part[f]].model]
    /\ trained' = [trained EXCEPT ![f] = @ \/ part[f] = "upper"]
    /\ GoOn(f, "loading")
    /\ spoiled' = (spoiled \/ SavingElsewhere(f))
    /\ UNCHANGED <<file, countVars>>

\* What was loaded before stays, and so does _trained.
LoadFails(f) ==
    /\ ~Readable(part[f])
    /\ Call(f, "loading", "idle")
    /\ spoiled' = TRUE
    /\ UNCHANGED <<file, held, trained, countVars>>

-----------------------------------------------------------------------------
(* Training.                                                               *)

\* Without its library a training leaves the models, but not to be used.
TrainWithoutLibrary(f) ==
    /\ doing[f] = "idle"
    /\ trained' = [trained EXCEPT ![f] = FALSE]
    /\ UNCHANGED <<file, held, doing, part, countVars, spoiled>>

\* A new, unfitted model replaces the point estimate at once.
Train(f) ==
    /\ trainings < MaxTrainings
    /\ trainings' = trainings + 1
    /\ Call(f, "idle", "training")
    /\ held' = [held EXCEPT ![f]["main"] = trainings']
    /\ UNCHANGED <<file, trained, saves, mishaps, spoiled>>

FitKeepingUpper(f) ==
    /\ GoOn(f, "training")
    /\ held' = IF part[f] = "main" THEN [held EXCEPT ![f]["lower"] = held[f]["main"]]
               ELSE held
    /\ trained' = [trained EXCEPT ![f] = @ \/ part[f] = "upper"]
    /\ UNCHANGED <<file, countVars, spoiled>>

\* One model is fitted; the next is made, or the training is done.
Fit(f) ==
    /\ GoOn(f, "training")
    /\ held' = IF part[f] = "upper" THEN held
               ELSE [held EXCEPT ![f][After[part[f]]] = held[f]["main"]]
    /\ trained' = [trained EXCEPT ![f] = @ \/ part[f] = "upper"]
    /\ UNCHANGED <<file, countVars, spoiled>>

\* A fit raises, as the last one of the point estimate does when it finds no
\* validation data for its early stopping: nothing is put back.
FitRaises(f) ==
    /\ Call(f, "training", "idle")
    /\ Mishap
    /\ spoiled' = TRUE
    /\ UNCHANGED <<file, held, trained, trainings, saves>>

-----------------------------------------------------------------------------
(* Saving.                                                                 *)

\* Nothing is saved without a point estimate; the bounds are not asked for.
Save(f) ==
    /\ saves < MaxSaves
    /\ held[f]["main"] # None
    /\ Call(f, "idle", "opening")
    /\ saves' = saves + 1
    /\ spoiled' = (spoiled \/ \E g \in Peers(f) : doing[g] \in {"opening", "dumping", "loading"})
    /\ UNCHANGED <<file, held, trained, trainings, mishaps>>

\* open(..., "wb") empties the file.
OpenFile(f) ==
    /\ doing[f] = "opening"
    /\ doing' = [doing EXCEPT ![f] = "dumping"]
    /\ file' = [file EXCEPT ![part[f]] = Torn]
    /\ UNCHANGED <<held, trained, part, countVars, spoiled>>

\* pickle.dump writes the model, which may be None.
Dump(f) ==
    /\ doing[f] = "dumping"
    /\ file' = [file EXCEPT ![part[f]] = Pickled(held[f][part[f]])]
    /\ doing' = [doing EXCEPT ![f] = IF part[f] = "upper" THEN "idle" ELSE "opening"]
    /\ part' = [part EXCEPT ![f] = IF @ = "upper" THEN "main" ELSE After[@]]
    /\ UNCHANGED <<held, trained, countVars, spoiled>>

-----------------------------------------------------------------------------

\* A process ends; the files are as it left them.
Die(f) ==
    /\ Call(f, doing[f], "unborn")
    /\ doing[f] # "unborn"
    /\ Mishap
    /\ held' = [held EXCEPT ![f] = NoModels]
    /\ trained' = [trained EXCEPT ![f] = FALSE]
    /\ spoiled' = (spoiled \/ doing[f] \in {"opening", "dumping"})
    /\ UNCHANGED <<file, trainings, saves>>

ForecasterNext ==
    \E f \in Forecasters :
        \/ Create(f) \/ Load(f) \/ LoadPart(f) \/ LoadFails(f)
        \/ TrainWithoutLibrary(f) \/ Train(f) \/ Fit(f) \/ FitRaises(f)
        \/ Save(f) \/ OpenFile(f) \/ Dump(f) \/ Die(f)

ForecasterSpec == ForecasterInit /\ [][ForecasterNext]_forecasterVars

-----------------------------------------------------------------------------
(* Prediction, and what it needs.                                          *)

\* The models answer; otherwise a formula on the last sales does.
Modelled(f) == trained[f] /\ held[f]["main"] # None

\* A prediction with models raises when a bound is missing.
BoundMissing(f) == Modelled(f) /\ None \in {held[f]["lower"], held[f]["upper"]}

Same(models) == \A p \in Parts : models[p] = models["main"]

\* Every variable keeps its type.
ForecasterTypeOK ==
    /\ file \in [Parts -> {Absent, Torn} \cup {Pickled(n) : n \in 0..MaxTrainings}]
    /\ held \in [Forecasters -> [Parts -> 0..MaxTrainings]]
    /\ trained \in [Forecasters -> BOOLEAN]
    /\ doing \in [Forecasters -> {"unborn", "idle", "loading", "training", "opening", "dumping"}]
    /\ part \in [Forecasters -> Parts]
    /\ trainings \in 0..MaxTrainings /\ saves \in 0..MaxSaves /\ mishaps \in 0..MaxMishaps
    /\ spoiled \in BOOLEAN

\* A forecaster at rest that answers with models has both bounds, and the three
\* come from one training, through any sequence of trainings, saves, loads and
\* restarts of several processes.  Only a training that raised half-way, a crash
\* in a save, or a save that another call overlapped can mix them
\* (save_model and load_model go from file to file).
ModelsAgree ==
    \/ spoiled
    \/ \A f \in Forecasters :
         doing[f] = "idle" /\ Modelled(f) => ~BoundMissing(f) /\ Same(held[f])
=============================================================================
