------------------------------ MODULE MCTurns -------------------------------
(* A turn on all instances (TurnRecovery), the loop an executor runs         *)
(* (AgentLoop), its calls of the model (ModelClient), and what begins turns: *)
(* long inputs and pipes.  They do not touch one another in the models: a    *)
(* behaviour is one of the component that on names, the others stay as they  *)
(* begin, and the state graph is the sum of theirs.                          *)
EXTENDS TurnRecovery, TLC

CONSTANTS
    MaxSteps, Past, MaxFalls, CacheFails, Sessions, Retries, MaxParts, ModelSteps,
    MaxTexts, MaxBegun, MaxPipes, Lines

ASSUME LoopAssumption ==
    MaxSteps \in Nat \ {0} /\ Past \in Nat /\ MaxFalls \in Nat /\ CacheFails \in BOOLEAN

ASSUME ModelAssumption ==
    Retries \in Nat \ {0} /\ MaxParts \in Nat /\ ModelSteps \in Nat

ASSUME LongAssumption == MaxTexts \in Nat /\ MaxBegun \in Nat

ASSUME PipesAssumption == MaxPipes \in Nat /\ Lines \in Nat \ {0}

VARIABLES
    on,   \* the component whose behaviour it is
    loopPc, steps, messages, block, loopStatus, rows, cache, falls, queries, ran, saved,
    opal, cached, run, modelSteps, session, blamed, error, call, reply, own, count, shown,
    begun, open, kept, system, prompts, timers, timer, texts, used, crossed,
    entry, pipe, row

Loop == INSTANCE AgentLoop WITH
    pc <- loopPc, status <- loopStatus
Model == INSTANCE ModelClient WITH
    MaxSteps <- ModelSteps, rows <- opal, steps <- modelSteps
Long == INSTANCE LongInput
Pipes == INSTANCE Pipe

loopVars ==
    <<loopPc, steps, messages, block, loopStatus, rows, cache, falls, queries, ran,
      saved>>
modelVars ==
    <<opal, cached, run, modelSteps, session, blamed, error, call, reply, own, count,
      shown>>
longVars ==
    <<begun, open, kept, system, prompts, timers, timer, texts, used, crossed>>
pipesVars == <<entry, pipe, row>>

\* The variables of a component that is not on, of the last three.
NoModel ==
    /\ opal = 0 /\ cached = 0 /\ run = 0 /\ modelSteps = 0 /\ session = 0 /\ blamed = 0
    /\ error = 0 /\ call = 0 /\ reply = 0 /\ own = 0 /\ count = 0 /\ shown = 0
NoLong ==
    /\ begun = 0 /\ open = 0 /\ kept = 0 /\ system = 0 /\ prompts = 0 /\ timers = 0
    /\ timer = 0 /\ texts = 0 /\ used = 0 /\ crossed = 0
NoPipes == entry = 0 /\ pipe = 0 /\ row = 0

TurnsInit ==
    /\ on \in {"recovery", "loop", "model", "long", "pipe"}
    /\ Init /\ Loop!Init
    /\ IF on = "model" THEN Model!Init ELSE NoModel
    /\ IF on = "long" THEN Long!Init ELSE NoLong
    /\ IF on = "pipe" THEN Pipes!Init ELSE NoPipes

TurnsNext ==
    \/ on = "recovery" /\ Next
       /\ UNCHANGED <<on, loopVars, modelVars, longVars, pipesVars>>
    \/ on = "loop" /\ Loop!Next
       /\ UNCHANGED <<on, vars, modelVars, longVars, pipesVars>>
    \/ on = "model" /\ Model!Next
       /\ UNCHANGED <<on, vars, loopVars, longVars, pipesVars>>
    \/ on = "long" /\ Long!Next
       /\ UNCHANGED <<on, vars, loopVars, modelVars, pipesVars>>
    \/ on = "pipe" /\ Pipes!Next
       /\ UNCHANGED <<on, vars, loopVars, modelVars, longVars>>

allVars ==
    <<on, vars, loopVars, modelVars, longVars, pipesVars>>

\* The fairness of the supervisors and executors, and of the loop's own steps.
TurnsSpec ==
    /\ TurnsInit /\ [][TurnsNext]_allVars
    /\ \A i \in Instances :
        /\ WF_vars(on = "recovery" /\ Start(i)) /\ WF_vars(on = "recovery" /\ Ready(i))
        /\ WF_vars(on = "recovery" /\ Tick(i))
        /\ \A t \in Turns : WF_vars(on = "recovery" /\ Recover(i, t))
    /\ \A t \in Turns : WF_vars(on = "recovery" /\ Silence(t))
    /\ \A t \in Turns, k \in Attempts : WF_vars(on = "recovery" /\ Executor(t, k))
    /\ WF_loopVars(on = "loop" /\ Loop!Step)

-----------------------------------------------------------------------------
(* Properties of the components.                                           *)

\* See TurnRecovery and AgentLoop: a turn is settled in the end, whoever dies;
\* and the loop comes to its end.
TurnsSettle == EveryTurnSettles /\ (on = "loop" => Loop!TurnEnds)

\* See AgentLoop: a checkpoint that is loaded lags by two at most, and what the
\* model is sent alternates, after any number of resumes.
CheckpointsAreTrue ==
    on = "loop" => Loop!TypeOK /\ Loop!LoadLagsByTwo /\ Loop!SentIsAlternating

\* See ModelClient: a reply of several streams is whole.
RepliesAreTrue == on = "model" => Model!TypeOK /\ Model!RepliesAreWhole

\* See LongInput and Pipe: a message of a long input is used once; a pipe that is
\* alive can be stopped, and its lines follow one another.
InputsAreTrue ==
    /\ on = "long" => Long!TypeOK /\ Long!UsedOnce
    /\ on = "pipe" => Pipes!TypeOK /\ Pipes!LiveIsEntered /\ Pipes!LinesFollow

\* See AgentLoop: outputs stay known, whichever checkpoint is loaded, and a block
\* is started again only while its output is not known.  See ModelClient: a
\* session is disabled only for its own refusal.  See LongInput and Pipe: a
\* collection expires in its time, and a pipe that was stopped starts no turn.
StepsAreExplained ==
    [][/\ on = "loop" => Loop!KeepsOutputs /\ Loop!RepeatsInFlight
       /\ on = "model" => Model!BlamesAUsedOne
       /\ on = "long" => Long!ExpiresInTime
       /\ on = "pipe" => Pipes!StoppedStartsNone]_allVars
=============================================================================
