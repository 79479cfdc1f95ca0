----------------------------- MODULE CiRunProofs -----------------------------
(***************************************************************************)
(* Proofs about CiRun, for any number of processes, runs, targets and      *)
(* faults.                                                                 *)
(*                                                                         *)
(* The inductive invariant follows a run through execute_run: a row that   *)
(* was never claimed is nowhere, the tasks of a stage exist only once the  *)
(* stage was reached, those of ci are over before one of cd exists, and    *)
(* GitHub has no verdict before the row of the job has one.                *)
(***************************************************************************)
EXTENDS CiRun, TLAPS

Before == {"none", "checkout", "broken", "discover", "plan"}

\* The row before its claim.
Unclaimed(r) ==
    /\ status[r] \in {"none", "pending"} =>
          /\ at[r] = "none"
          /\ host[r] = Nobody
          /\ claims[r] = 0
          /\ \A w \in Workers : r \notin stale[w]
    /\ claims[r] <= 1

\* Tasks of a stage, by the place of execute_run.
Staged(r) ==
    /\ \A t \in Targets \ found[r] : task[r][t] = "none"
    /\ at[r] \in Before => \A t \in Targets : task[r][t] = "none"
    /\ at[r] \in {"ci", "deploy"} => \A t \in CdTargets : task[r][t] = "none"
    /\ at[r] \in {"deploy", "cd", "report"} => \A t \in Ci(r) : task[r][t] = "done"
    /\ (\E t \in CdTargets : task[r][t] # "none") => \A t \in Ci(r) : task[r][t] = "done"

\* What the end of the stages knows.
Concluded(r) ==
    /\ at[r] = "report" =>
          \/ \A t \in Cd(r) : task[r][t] = "done"
          \/ ~Deployable(r) /\ \A t \in Cd(r) : task[r][t] = "none"
    /\ status[r] = "success" =>
          /\ at[r] = "over"
          /\ \A t \in found[r] : task[r][t] \in {"done", "none"}

\* GitHub's verdict comes after the row's.
Told(r) ==
    \A t \in Targets :
        /\ task[r][t] \in {"none", "create", "check", "start", "command", "exited"} =>
              check[r][t] \in {"none", "in_progress"}
        /\ task[r][t] = "tell" => job[r][t] \in {"success", "failure"}
        /\ check[r][t] \in {"success", "failure"} => job[r][t] = check[r][t]

Green(r) == status[r] = "success" => AllOk(r, Ci(r)) /\ (trunk[r] => AllOk(r, Cd(r)))

Deploying(r) == (\E t \in CdTargets : task[r][t] # "none") => trunk[r] /\ AllOk(r, Ci(r))

Good(r) == Unclaimed(r) /\ Staged(r) /\ Concluded(r) /\ Told(r) /\ Green(r) /\ Deploying(r)

IInv == TypeOK /\ \A r \in Runs : Good(r)

\* A step that leaves a run alone leaves it good.
LEMMA Frame ==
    ASSUME NEW q \in Runs, Good(q),
           status'[q] = status[q], trunk'[q] = trunk[q], claims'[q] = claims[q],
           at'[q] = at[q], found'[q] = found[q], job'[q] = job[q], check'[q] = check[q],
           task'[q] = task[q],
           \/ status[q] \notin {"none", "pending"}
           \/ host'[q] = host[q] /\ \A w \in Workers : q \in stale'[w] => q \in stale[w]
    PROVE  Good(q)'
<1>1. Unclaimed(q)'
  BY DEF Good, Unclaimed
<1>2. Staged(q)'
  BY DEF Good, Staged, Ci
<1>3. Concluded(q)'
  BY DEF Good, Concluded, Ci, Cd, Deployable, AllOk
<1>4. Told(q)'
  BY DEF Good, Told
<1>5. Green(q)' /\ Deploying(q)'
  BY DEF Good, Green, Deploying, Ci, Cd, AllOk
<1> QED BY <1>1, <1>2, <1>3, <1>4, <1>5 DEF Good
\* What writing one cell of a table of runs and targets does.
LEMMA TaskCell ==
    ASSUME task \in [Runs -> [Targets -> TaskStates]],
           NEW r \in Runs, NEW t \in Targets, NEW v \in TaskStates,
           task' = [task EXCEPT ![r][t] = v]
    PROVE  /\ task' \in [Runs -> [Targets -> TaskStates]]
           /\ \A q \in Runs : q # r => task'[q] = task[q]
           /\ \A u \in Targets : task'[r][u] = IF u = t THEN v ELSE task[r][u]
<1>1. task' = [task EXCEPT ![r] = [task[r] EXCEPT ![t] = v]]
  OBVIOUS
<1>2. [task[r] EXCEPT ![t] = v] \in [Targets -> TaskStates]
  OBVIOUS
<1> QED BY <1>1, <1>2

LEMMA JobCell ==
    ASSUME job \in [Runs -> [Targets -> JobStates]],
           NEW r \in Runs, NEW t \in Targets, NEW v \in JobStates,
           job' = [job EXCEPT ![r][t] = v]
    PROVE  /\ job' \in [Runs -> [Targets -> JobStates]]
           /\ \A q \in Runs : q # r => job'[q] = job[q]
           /\ \A u \in Targets : job'[r][u] = IF u = t THEN v ELSE job[r][u]
<1>1. job' = [job EXCEPT ![r] = [job[r] EXCEPT ![t] = v]]
  OBVIOUS
<1>2. [job[r] EXCEPT ![t] = v] \in [Targets -> JobStates]
  OBVIOUS
<1> QED BY <1>1, <1>2

LEMMA CheckCell ==
    ASSUME check \in [Runs -> [Targets -> CheckStates]],
           NEW r \in Runs, NEW t \in Targets, NEW v \in CheckStates,
           check' = [check EXCEPT ![r][t] = v]
    PROVE  /\ check' \in [Runs -> [Targets -> CheckStates]]
           /\ \A q \in Runs : q # r => check'[q] = check[q]
           /\ \A u \in Targets : check'[r][u] = IF u = t THEN v ELSE check[r][u]
<1>1. check' = [check EXCEPT ![r] = [check[r] EXCEPT ![t] = v]]
  OBVIOUS
<1>2. [check[r] EXCEPT ![t] = v] \in [Targets -> CheckStates]
  OBVIOUS
<1> QED BY <1>1, <1>2

\* TypeOK by groups of variables.
RowTypes ==
    /\ status \in [Runs -> {"none", "pending", "in_progress"} \cup Ended]
    /\ trunk \in [Runs -> BOOLEAN]
    /\ lapsed \subseteq {r \in Runs : status[r] # "none"}
    /\ claims \in [Runs -> Nat]

PlaceTypes ==
    /\ host \in [Runs -> Workers \cup {Nobody}]
    /\ at \in [Runs -> Places]
    /\ found \in [Runs -> SUBSET Targets]

JobTypes ==
    /\ job \in [Runs -> [Targets -> JobStates]]
    /\ check \in [Runs -> [Targets -> CheckStates]]
    /\ task \in [Runs -> [Targets -> TaskStates]]

BeatTypes ==
    /\ beats \in [Runs -> SUBSET Targets]
    /\ \A r \in Runs : beats[r] \subseteq {t \in found[r] : task[r][t] = "command"}

RestTypes == stale \in [Workers -> SUBSET Runs] /\ faults \in 0..MaxFaults

\* The variables keep their types.
LEMMA TypeStep == TypeOK /\ (\A r \in Runs : Good(r)) /\ [Next]_vars => TypeOK'
<1> SUFFICES ASSUME TypeOK, [Next]_vars, \A q \in Runs : Good(q) PROVE TypeOK'
  OBVIOUS
<1> USE CiAssumption DEF TypeOK, Good, Targets, Ended, Places, rowVars, jobVars
<1>1. ASSUME NEW r \in Runs, Push(r) PROVE TypeOK'
  <2>1. RowTypes'
    BY <1>1 DEF Push, EnqueueRun, Missing, Runs, RowTypes
  <2>2. PlaceTypes'
    BY <1>1 DEF Push, EnqueueRun, Missing, Runs, PlaceTypes
  <2>3. JobTypes'
    BY <1>1 DEF Push, EnqueueRun, Missing, Runs, JobTypes
  <2>4. BeatTypes'
    BY <1>1 DEF Push, EnqueueRun, Missing, Runs, BeatTypes
  <2>5. RestTypes'
    BY <1>1 DEF Push, EnqueueRun, Missing, Runs, RestTypes
  <2> QED BY <2>1, <2>2, <2>3, <2>4, <2>5 DEF RowTypes, PlaceTypes, JobTypes, BeatTypes,
     RestTypes
<1>2. ASSUME NEW w \in Workers, NEW r \in Runs, Claim(w, r) PROVE TypeOK'
  <2>1. RowTypes'
    BY <1>2 DEF Claim, First, Runs, RowTypes
  <2>2. PlaceTypes'
    BY <1>2 DEF Claim, First, Runs, PlaceTypes
  <2>3. JobTypes'
    BY <1>2 DEF Claim, First, Runs, JobTypes
  <2>4. BeatTypes'
    BY <1>2 DEF Claim, First, Runs, BeatTypes
  <2>5. RestTypes'
    BY <1>2 DEF Claim, First, Runs, RestTypes
  <2> QED BY <2>1, <2>2, <2>3, <2>4, <2>5 DEF RowTypes, PlaceTypes, JobTypes, BeatTypes,
     RestTypes
<1>3. ASSUME NEW r \in Runs, Lapse(r) PROVE TypeOK'
  <2>1. RowTypes'
    <3>1. status[r] # "none"
      BY <1>3 DEF Lapse, Unclaimed
    <3> QED BY <1>3, <3>1 DEF Lapse, RowTypes
  <2>2. PlaceTypes'
    BY <1>3 DEF Lapse, PlaceTypes
  <2>3. JobTypes'
    BY <1>3 DEF Lapse, JobTypes
  <2>4. BeatTypes'
    BY <1>3 DEF Lapse, BeatTypes
  <2>5. RestTypes'
    BY <1>3 DEF Lapse, RestTypes
  <2> QED BY <2>1, <2>2, <2>3, <2>4, <2>5 DEF RowTypes, PlaceTypes, JobTypes, BeatTypes,
     RestTypes
<1>4. ASSUME NEW r \in Runs, Renew(r) PROVE TypeOK'
  BY <1>4 DEF Renew
<1>5. ASSUME NEW r \in Runs, CheckOut(r) PROVE TypeOK'
  <2>1. RowTypes'
    BY <1>5 DEF CheckOut, Step, Go, RowTypes
  <2>2. PlaceTypes'
    BY <1>5 DEF CheckOut, Step, Go, PlaceTypes
  <2>3. JobTypes'
    BY <1>5 DEF CheckOut, Step, Go, JobTypes
  <2>4. BeatTypes'
    BY <1>5 DEF CheckOut, Step, Go, BeatTypes
  <2>5. RestTypes'
    BY <1>5 DEF CheckOut, Step, Go, RestTypes
  <2> QED BY <2>1, <2>2, <2>3, <2>4, <2>5 DEF RowTypes, PlaceTypes, JobTypes, BeatTypes,
     RestTypes
<1>6. ASSUME NEW r \in Runs, CheckOutFails(r) PROVE TypeOK'
  <2>1. RowTypes'
    BY <1>6 DEF CheckOutFails, Step, Go, RowTypes
  <2>2. PlaceTypes'
    BY <1>6 DEF CheckOutFails, Step, Go, PlaceTypes
  <2>3. JobTypes'
    BY <1>6 DEF CheckOutFails, Step, Go, JobTypes
  <2>4. BeatTypes'
    BY <1>6 DEF CheckOutFails, Step, Go, BeatTypes
  <2>5. RestTypes'
    BY <1>6 DEF CheckOutFails, Step, Go, RestTypes
  <2> QED BY <2>1, <2>2, <2>3, <2>4, <2>5 DEF RowTypes, PlaceTypes, JobTypes, BeatTypes,
     RestTypes
<1>7. ASSUME NEW r \in Runs, FinishBroken(r) PROVE TypeOK'
  <2>1. RowTypes'
    BY <1>7 DEF FinishBroken, Step, Go, FinishRun, RowTypes
  <2>2. PlaceTypes'
    BY <1>7 DEF FinishBroken, Step, Go, FinishRun, PlaceTypes
  <2>3. JobTypes'
    BY <1>7 DEF FinishBroken, Step, Go, FinishRun, JobTypes
  <2>4. BeatTypes'
    BY <1>7 DEF FinishBroken, Step, Go, FinishRun, BeatTypes
  <2>5. RestTypes'
    BY <1>7 DEF FinishBroken, Step, Go, FinishRun, RestTypes
  <2> QED BY <2>1, <2>2, <2>3, <2>4, <2>5 DEF RowTypes, PlaceTypes, JobTypes, BeatTypes,
     RestTypes
<1>8. ASSUME NEW r \in Runs, Discover(r) PROVE TypeOK'
  <2>1. RowTypes'
    BY <1>8 DEF Discover, Step, Go, RowTypes
  <2>2. PlaceTypes'
    BY <1>8 DEF Discover, Step, Go, PlaceTypes
  <2>3. JobTypes'
    BY <1>8 DEF Discover, Step, Go, JobTypes
  <2>4. BeatTypes'
    <3>1. beats[r] = {}
      BY <1>8 DEF Discover, Step, Go, Staged, Before
    <3> QED BY <1>8, <3>1 DEF Discover, Step, Go, BeatTypes
  <2>5. RestTypes'
    BY <1>8 DEF Discover, Step, Go, RestTypes
  <2> QED BY <2>1, <2>2, <2>3, <2>4, <2>5 DEF RowTypes, PlaceTypes, JobTypes, BeatTypes,
     RestTypes
<1>9. ASSUME NEW r \in Runs, NoTargets(r) PROVE TypeOK'
  <2>1. RowTypes'
    BY <1>9 DEF NoTargets, Step, Go, FinishRun, RowTypes
  <2>2. PlaceTypes'
    BY <1>9 DEF NoTargets, Step, Go, FinishRun, PlaceTypes
  <2>3. JobTypes'
    BY <1>9 DEF NoTargets, Step, Go, FinishRun, JobTypes
  <2>4. BeatTypes'
    BY <1>9 DEF NoTargets, Step, Go, FinishRun, BeatTypes
  <2>5. RestTypes'
    BY <1>9 DEF NoTargets, Step, Go, FinishRun, RestTypes
  <2> QED BY <2>1, <2>2, <2>3, <2>4, <2>5 DEF RowTypes, PlaceTypes, JobTypes, BeatTypes,
     RestTypes
<1>10. ASSUME NEW r \in Runs, StartCi(r) PROVE TypeOK'
  <2>1. RowTypes'
    BY <1>10 DEF StartCi, Step, Go, Gather, FinishRun, Ci, Cd, RowTypes
  <2>2. PlaceTypes'
    BY <1>10 DEF StartCi, Step, Go, Gather, FinishRun, Ci, Cd, PlaceTypes
  <2>3. JobTypes'
    <3>1. /\ task' = [task EXCEPT ![r] =
                [x \in Targets |-> IF x \in Ci(r) THEN "create" ELSE task[r][x]]]
          /\ job' = job /\ check' = check /\ beats' = beats /\ found' = found
      BY <1>10 DEF StartCi, Step, Go, Gather
    <3>2. task'[r] \in [Targets -> TaskStates]
      BY <3>1 DEF TaskStates, Live
    <3> QED BY <3>1, <3>2 DEF JobTypes
  <2>4. BeatTypes'
    <3>1. /\ task' = [task EXCEPT ![r] =
                [x \in Targets |-> IF x \in Ci(r) THEN "create" ELSE task[r][x]]]
          /\ job' = job /\ check' = check /\ beats' = beats /\ found' = found
      BY <1>10 DEF StartCi, Step, Go, Gather
    <3>2. task'[r] \in [Targets -> TaskStates]
      BY <3>1 DEF TaskStates, Live
    <3>3. \A u \in Ci(r) : task[r][u] = "none"
      BY <1>10 DEF StartCi, Step, Go, Staged, Before, Ci, Cd
    <3> QED BY <3>1, <3>2, <3>3 DEF BeatTypes
  <2>5. RestTypes'
    BY <1>10 DEF StartCi, Step, Go, Gather, FinishRun, Ci, Cd, RestTypes
  <2> QED BY <2>1, <2>2, <2>3, <2>4, <2>5 DEF RowTypes, PlaceTypes, JobTypes, BeatTypes,
     RestTypes
<1>11. ASSUME NEW r \in Runs, NoCi(r) PROVE TypeOK'
  <2>1. RowTypes'
    BY <1>11 DEF NoCi, Step, Go, RowTypes
  <2>2. PlaceTypes'
    BY <1>11 DEF NoCi, Step, Go, PlaceTypes
  <2>3. JobTypes'
    BY <1>11 DEF NoCi, Step, Go, JobTypes
  <2>4. BeatTypes'
    BY <1>11 DEF NoCi, Step, Go, BeatTypes
  <2>5. RestTypes'
    BY <1>11 DEF NoCi, Step, Go, RestTypes
  <2> QED BY <2>1, <2>2, <2>3, <2>4, <2>5 DEF RowTypes, PlaceTypes, JobTypes, BeatTypes,
     RestTypes
<1>12. ASSUME NEW r \in Runs, CiReturned(r) PROVE TypeOK'
  <2>1. RowTypes'
    BY <1>12 DEF CiReturned, Step, Go, RowTypes
  <2>2. PlaceTypes'
    BY <1>12 DEF CiReturned, Step, Go, PlaceTypes
  <2>3. JobTypes'
    BY <1>12 DEF CiReturned, Step, Go, JobTypes
  <2>4. BeatTypes'
    BY <1>12 DEF CiReturned, Step, Go, BeatTypes
  <2>5. RestTypes'
    BY <1>12 DEF CiReturned, Step, Go, RestTypes
  <2> QED BY <2>1, <2>2, <2>3, <2>4, <2>5 DEF RowTypes, PlaceTypes, JobTypes, BeatTypes,
     RestTypes
<1>13. ASSUME NEW r \in Runs, StartCd(r) PROVE TypeOK'
  <2>1. RowTypes'
    BY <1>13 DEF StartCd, Step, Go, Gather, FinishRun, Ci, Cd, RowTypes
  <2>2. PlaceTypes'
    BY <1>13 DEF StartCd, Step, Go, Gather, FinishRun, Ci, Cd, PlaceTypes
  <2>3. JobTypes'
    <3>1. /\ task' = [task EXCEPT ![r] =
                [x \in Targets |-> IF x \in Cd(r) THEN "create" ELSE task[r][x]]]
          /\ job' = job /\ check' = check /\ beats' = beats /\ found' = found
      BY <1>13 DEF StartCd, Step, Go, Gather
    <3>2. task'[r] \in [Targets -> TaskStates]
      BY <3>1 DEF TaskStates, Live
    <3> QED BY <3>1, <3>2 DEF JobTypes
  <2>4. BeatTypes'
    <3>1. /\ task' = [task EXCEPT ![r] =
                [x \in Targets |-> IF x \in Cd(r) THEN "create" ELSE task[r][x]]]
          /\ job' = job /\ check' = check /\ beats' = beats /\ found' = found
      BY <1>13 DEF StartCd, Step, Go, Gather
    <3>2. task'[r] \in [Targets -> TaskStates]
      BY <3>1 DEF TaskStates, Live
    <3>3. \A u \in Cd(r) : task[r][u] = "none"
      BY <1>13 DEF StartCd, Step, Go, Staged, Before, Ci, Cd
    <3> QED BY <3>1, <3>2, <3>3 DEF BeatTypes
  <2>5. RestTypes'
    BY <1>13 DEF StartCd, Step, Go, Gather, FinishRun, Ci, Cd, RestTypes
  <2> QED BY <2>1, <2>2, <2>3, <2>4, <2>5 DEF RowTypes, PlaceTypes, JobTypes, BeatTypes,
     RestTypes
<1>14. ASSUME NEW r \in Runs, NoCd(r) PROVE TypeOK'
  <2>1. RowTypes'
    BY <1>14 DEF NoCd, Step, Go, RowTypes
  <2>2. PlaceTypes'
    BY <1>14 DEF NoCd, Step, Go, PlaceTypes
  <2>3. JobTypes'
    BY <1>14 DEF NoCd, Step, Go, JobTypes
  <2>4. BeatTypes'
    BY <1>14 DEF NoCd, Step, Go, BeatTypes
  <2>5. RestTypes'
    BY <1>14 DEF NoCd, Step, Go, RestTypes
  <2> QED BY <2>1, <2>2, <2>3, <2>4, <2>5 DEF RowTypes, PlaceTypes, JobTypes, BeatTypes,
     RestTypes
<1>15. ASSUME NEW r \in Runs, CdReturned(r) PROVE TypeOK'
  <2>1. RowTypes'
    BY <1>15 DEF CdReturned, Step, Go, RowTypes
  <2>2. PlaceTypes'
    BY <1>15 DEF CdReturned, Step, Go, PlaceTypes
  <2>3. JobTypes'
    BY <1>15 DEF CdReturned, Step, Go, JobTypes
  <2>4. BeatTypes'
    BY <1>15 DEF CdReturned, Step, Go, BeatTypes
  <2>5. RestTypes'
    BY <1>15 DEF CdReturned, Step, Go, RestTypes
  <2> QED BY <2>1, <2>2, <2>3, <2>4, <2>5 DEF RowTypes, PlaceTypes, JobTypes, BeatTypes,
     RestTypes
<1>16. ASSUME NEW r \in Runs, Report(r) PROVE TypeOK'
  <2>1. RowTypes'
    BY <1>16 DEF Report, Step, Go, FinishRun, RowTypes
  <2>2. PlaceTypes'
    BY <1>16 DEF Report, Step, Go, FinishRun, PlaceTypes
  <2>3. JobTypes'
    BY <1>16 DEF Report, Step, Go, FinishRun, JobTypes
  <2>4. BeatTypes'
    BY <1>16 DEF Report, Step, Go, FinishRun, BeatTypes
  <2>5. RestTypes'
    BY <1>16 DEF Report, Step, Go, FinishRun, RestTypes
  <2> QED BY <2>1, <2>2, <2>3, <2>4, <2>5 DEF RowTypes, PlaceTypes, JobTypes, BeatTypes,
     RestTypes
<1>17. ASSUME NEW r \in Runs, GatherRaises(r) PROVE TypeOK'
  <2>1. RowTypes'
    BY <1>17 DEF GatherRaises, Step, Go, RowTypes
  <2>2. PlaceTypes'
    BY <1>17 DEF GatherRaises, Step, Go, PlaceTypes
  <2>3. JobTypes'
    BY <1>17 DEF GatherRaises, Step, Go, JobTypes
  <2>4. BeatTypes'
    BY <1>17 DEF GatherRaises, Step, Go, BeatTypes
  <2>5. RestTypes'
    BY <1>17 DEF GatherRaises, Step, Go, RestTypes
  <2> QED BY <2>1, <2>2, <2>3, <2>4, <2>5 DEF RowTypes, PlaceTypes, JobTypes, BeatTypes,
     RestTypes
<1>18. ASSUME NEW r \in Runs, Raise(r) PROVE TypeOK'
  <2>1. RowTypes'
    BY <1>18 DEF Raise, Go, RowTypes
  <2>2. PlaceTypes'
    BY <1>18 DEF Raise, Go, PlaceTypes
  <2>3. JobTypes'
    BY <1>18 DEF Raise, Go, JobTypes
  <2>4. BeatTypes'
    BY <1>18 DEF Raise, Go, BeatTypes
  <2>5. RestTypes'
    BY <1>18 DEF Raise, Go, RestTypes
  <2> QED BY <2>1, <2>2, <2>3, <2>4, <2>5 DEF RowTypes, PlaceTypes, JobTypes, BeatTypes,
     RestTypes
<1>19. ASSUME NEW r \in Runs, NEW t \in Targets, CreateJob(r, t) PROVE TypeOK'
  <2>1. task' = [task EXCEPT ![r][t] = "check"] /\ "check" \in TaskStates
    BY <1>19 DEF CreateJob, Move, TaskStates, Live
  <2>2. /\ task' \in [Runs -> [Targets -> TaskStates]]
        /\ \A q \in Runs : q # r => task'[q] = task[q]
        /\ \A u \in Targets : task'[r][u] = IF u = t THEN "check" ELSE task[r][u]
    <3> HIDE DEF TypeOK, Good, Targets
    <3>1. task \in [Runs -> [Targets -> TaskStates]]
      BY DEF TypeOK
    <3> QED BY <2>1, <3>1, TaskCell
  <2>3. RowTypes' /\ PlaceTypes' /\ RestTypes'
    BY <1>19 DEF CreateJob, Move, RowTypes, PlaceTypes, RestTypes
  <2>4. job' \in [Runs -> [Targets -> JobStates]]
    <3>1. job' = [job EXCEPT ![r][t] = "pending"] /\ "pending" \in JobStates
      BY <1>19 DEF CreateJob, Move, JobStates
    <3> QED BY <3>1, JobCell
  <2>5. check' \in [Runs -> [Targets -> CheckStates]]
    BY <1>19 DEF CreateJob, Move
  <2>6. BeatTypes'
    <3>1. beats' = beats /\ t \notin beats[r]
      BY <1>19 DEF CreateJob, Move
    <3>2. found' = found /\ task[r][t] # "none"
      BY <1>19 DEF CreateJob, Move, Live
    <3>3. t \in found[r]
      BY <3>2 DEF Staged
    <3>4. beats' \in [Runs -> SUBSET Targets]
      BY <3>1
    <3>5. ASSUME NEW q \in Runs, NEW u \in beats'[q]
          PROVE  u \in found[q] /\ task'[q][u] = "command"
      <4>1. CASE q = r
        BY <2>2, <3>1, <3>3, <3>5, <4>1
      <4>2. CASE q # r
        BY <2>2, <3>1, <3>5, <4>2
      <4> QED BY <4>1, <4>2
    <3> QED BY <3>2, <3>4, <3>5 DEF BeatTypes
  <2> QED BY <2>2, <2>3, <2>4, <2>5, <2>6 DEF RowTypes, PlaceTypes, RestTypes, BeatTypes
<1>20. ASSUME NEW r \in Runs, NEW t \in Targets, CreateCheck(r, t) PROVE TypeOK'
  <2>1. task' = [task EXCEPT ![r][t] = "start"] /\ "start" \in TaskStates
    BY <1>20 DEF CreateCheck, Move, TaskStates, Live
  <2>2. /\ task' \in [Runs -> [Targets -> TaskStates]]
        /\ \A q \in Runs : q # r => task'[q] = task[q]
        /\ \A u \in Targets : task'[r][u] = IF u = t THEN "start" ELSE task[r][u]
    <3> HIDE DEF TypeOK, Good, Targets
    <3>1. task \in [Runs -> [Targets -> TaskStates]]
      BY DEF TypeOK
    <3> QED BY <2>1, <3>1, TaskCell
  <2>3. RowTypes' /\ PlaceTypes' /\ RestTypes'
    BY <1>20 DEF CreateCheck, Move, RowTypes, PlaceTypes, RestTypes
  <2>4. job' \in [Runs -> [Targets -> JobStates]]
    BY <1>20 DEF CreateCheck, Move
  <2>5. check' \in [Runs -> [Targets -> CheckStates]]
    <3>1. PICK s \in {"in_progress", "none"} : check' = [check EXCEPT ![r][t] = s]
      BY <1>20 DEF CreateCheck, Move
    <3>2. s \in CheckStates
      BY DEF CheckStates
    <3> QED BY <3>1, <3>2, CheckCell
  <2>6. BeatTypes'
    <3>1. beats' = beats /\ t \notin beats[r]
      BY <1>20 DEF CreateCheck, Move
    <3>2. found' = found /\ task[r][t] # "none"
      BY <1>20 DEF CreateCheck, Move, Live
    <3>3. t \in found[r]
      BY <3>2 DEF Staged
    <3>4. beats' \in [Runs -> SUBSET Targets]
      BY <3>1
    <3>5. ASSUME NEW q \in Runs, NEW u \in beats'[q]
          PROVE  u \in found[q] /\ task'[q][u] = "command"
      <4>1. CASE q = r
        BY <2>2, <3>1, <3>3, <3>5, <4>1
      <4>2. CASE q # r
        BY <2>2, <3>1, <3>5, <4>2
      <4> QED BY <4>1, <4>2
    <3> QED BY <3>2, <3>4, <3>5 DEF BeatTypes
  <2> QED BY <2>2, <2>3, <2>4, <2>5, <2>6 DEF RowTypes, PlaceTypes, RestTypes, BeatTypes
<1>21. ASSUME NEW r \in Runs, NEW t \in Targets, StartJob(r, t) PROVE TypeOK'
  <2>1. task' = [task EXCEPT ![r][t] = "command"] /\ "command" \in TaskStates
    BY <1>21 DEF StartJob, Move, TaskStates, Live
  <2>2. /\ task' \in [Runs -> [Targets -> TaskStates]]
        /\ \A q \in Runs : q # r => task'[q] = task[q]
        /\ \A u \in Targets : task'[r][u] = IF u = t THEN "command" ELSE task[r][u]
    <3> HIDE DEF TypeOK, Good, Targets
    <3>1. task \in [Runs -> [Targets -> TaskStates]]
      BY DEF TypeOK
    <3> QED BY <2>1, <3>1, TaskCell
  <2>3. RowTypes' /\ PlaceTypes' /\ RestTypes'
    BY <1>21 DEF StartJob, Move, RowTypes, PlaceTypes, RestTypes
  <2>4. job' \in [Runs -> [Targets -> JobStates]]
    <3>1. job' = [job EXCEPT ![r][t] = "in_progress"] /\ "in_progress" \in JobStates
      BY <1>21 DEF StartJob, Move, JobStates
    <3> QED BY <3>1, JobCell
  <2>5. check' \in [Runs -> [Targets -> CheckStates]]
    BY <1>21 DEF StartJob, Move
  <2>6. BeatTypes'
    <3>1. beats' = [beats EXCEPT ![r] = @ \cup {t}]
      BY <1>21 DEF StartJob, Move
    <3>2. found' = found /\ task[r][t] # "none"
      BY <1>21 DEF StartJob, Move, Live
    <3>3. t \in found[r]
      BY <3>2 DEF Staged
    <3>4. beats' \in [Runs -> SUBSET Targets]
      BY <3>1
    <3>5. ASSUME NEW q \in Runs, NEW u \in beats'[q]
          PROVE  u \in found[q] /\ task'[q][u] = "command"
      <4>1. CASE q = r
        BY <2>2, <3>1, <3>3, <3>5, <4>1
      <4>2. CASE q # r
        BY <2>2, <3>1, <3>5, <4>2
      <4> QED BY <4>1, <4>2
    <3> QED BY <3>2, <3>4, <3>5 DEF BeatTypes
  <2> QED BY <2>2, <2>3, <2>4, <2>5, <2>6 DEF RowTypes, PlaceTypes, RestTypes, BeatTypes
<1>22. ASSUME NEW r \in Runs, NEW t \in Targets, CommandExits(r, t) PROVE TypeOK'
  <2>1. task' = [task EXCEPT ![r][t] = "exited"] /\ "exited" \in TaskStates
    BY <1>22 DEF CommandExits, Move, TaskStates, Live
  <2>2. /\ task' \in [Runs -> [Targets -> TaskStates]]
        /\ \A q \in Runs : q # r => task'[q] = task[q]
        /\ \A u \in Targets : task'[r][u] = IF u = t THEN "exited" ELSE task[r][u]
    <3> HIDE DEF TypeOK, Good, Targets
    <3>1. task \in [Runs -> [Targets -> TaskStates]]
      BY DEF TypeOK
    <3> QED BY <2>1, <3>1, TaskCell
  <2>3. RowTypes' /\ PlaceTypes' /\ RestTypes'
    BY <1>22 DEF CommandExits, Move, RowTypes, PlaceTypes, RestTypes
  <2>4. job' \in [Runs -> [Targets -> JobStates]]
    BY <1>22 DEF CommandExits, Move
  <2>5. check' \in [Runs -> [Targets -> CheckStates]]
    BY <1>22 DEF CommandExits, Move
  <2>6. BeatTypes'
    <3>1. beats' = [beats EXCEPT ![r] = @ \ {t}]
      BY <1>22 DEF CommandExits, Move
    <3>2. found' = found /\ task[r][t] # "none"
      BY <1>22 DEF CommandExits, Move, Live
    <3>3. t \in found[r]
      BY <3>2 DEF Staged
    <3>4. beats' \in [Runs -> SUBSET Targets]
      BY <3>1
    <3>5. ASSUME NEW q \in Runs, NEW u \in beats'[q]
          PROVE  u \in found[q] /\ task'[q][u] = "command"
      <4>1. CASE q = r
        BY <2>2, <3>1, <3>3, <3>5, <4>1
      <4>2. CASE q # r
        BY <2>2, <3>1, <3>5, <4>2
      <4> QED BY <4>1, <4>2
    <3> QED BY <3>2, <3>4, <3>5 DEF BeatTypes
  <2> QED BY <2>2, <2>3, <2>4, <2>5, <2>6 DEF RowTypes, PlaceTypes, RestTypes, BeatTypes
<1>23. ASSUME NEW r \in Runs, NEW t \in Targets, FinishJob(r, t) PROVE TypeOK'
  <2>1. task' = [task EXCEPT ![r][t] = "tell"] /\ "tell" \in TaskStates
    BY <1>23 DEF FinishJob, Move, TaskStates, Live
  <2>2. /\ task' \in [Runs -> [Targets -> TaskStates]]
        /\ \A q \in Runs : q # r => task'[q] = task[q]
        /\ \A u \in Targets : task'[r][u] = IF u = t THEN "tell" ELSE task[r][u]
    <3> HIDE DEF TypeOK, Good, Targets
    <3>1. task \in [Runs -> [Targets -> TaskStates]]
      BY DEF TypeOK
    <3> QED BY <2>1, <3>1, TaskCell
  <2>3. RowTypes' /\ PlaceTypes' /\ RestTypes'
    BY <1>23 DEF FinishJob, Move, RowTypes, PlaceTypes, RestTypes
  <2>4. job' \in [Runs -> [Targets -> JobStates]]
    <3>1. PICK s \in {"success", "failure"} : job' = [job EXCEPT ![r][t] = s]
      BY <1>23 DEF FinishJob, Move
    <3>2. s \in JobStates
      BY DEF JobStates
    <3> QED BY <3>1, <3>2, JobCell
  <2>5. check' \in [Runs -> [Targets -> CheckStates]]
    BY <1>23 DEF FinishJob, Move
  <2>6. BeatTypes'
    <3>1. beats' = beats /\ t \notin beats[r]
      BY <1>23 DEF FinishJob, Move
    <3>2. found' = found /\ task[r][t] # "none"
      BY <1>23 DEF FinishJob, Move, Live
    <3>3. t \in found[r]
      BY <3>2 DEF Staged
    <3>4. beats' \in [Runs -> SUBSET Targets]
      BY <3>1
    <3>5. ASSUME NEW q \in Runs, NEW u \in beats'[q]
          PROVE  u \in found[q] /\ task'[q][u] = "command"
      <4>1. CASE q = r
        BY <2>2, <3>1, <3>3, <3>5, <4>1
      <4>2. CASE q # r
        BY <2>2, <3>1, <3>5, <4>2
      <4> QED BY <4>1, <4>2
    <3> QED BY <3>2, <3>4, <3>5 DEF BeatTypes
  <2> QED BY <2>2, <2>3, <2>4, <2>5, <2>6 DEF RowTypes, PlaceTypes, RestTypes, BeatTypes
<1>24. ASSUME NEW r \in Runs, NEW t \in Targets, TellGithub(r, t) PROVE TypeOK'
  <2>1. task' = [task EXCEPT ![r][t] = "done"] /\ "done" \in TaskStates
    BY <1>24 DEF TellGithub, Move, TaskStates, Live
  <2>2. /\ task' \in [Runs -> [Targets -> TaskStates]]
        /\ \A q \in Runs : q # r => task'[q] = task[q]
        /\ \A u \in Targets : task'[r][u] = IF u = t THEN "done" ELSE task[r][u]
    <3> HIDE DEF TypeOK, Good, Targets
    <3>1. task \in [Runs -> [Targets -> TaskStates]]
      BY DEF TypeOK
    <3> QED BY <2>1, <3>1, TaskCell
  <2>3. RowTypes' /\ PlaceTypes' /\ RestTypes'
    BY <1>24 DEF TellGithub, Move, RowTypes, PlaceTypes, RestTypes
  <2>4. job' \in [Runs -> [Targets -> JobStates]]
    BY <1>24 DEF TellGithub, Move
  <2>5. check' \in [Runs -> [Targets -> CheckStates]]
    <3>1. task[r][t] = "tell" => job[r][t] \in CheckStates
      BY DEF Told, CheckStates
    <3>2. \/ check' = check
          \/ \E s \in CheckStates : check' = [check EXCEPT ![r][t] = s]
      BY <1>24, <3>1 DEF TellGithub, Move, CheckStates
    <3> QED BY <3>2, CheckCell
  <2>6. BeatTypes'
    <3>1. beats' = beats /\ t \notin beats[r]
      BY <1>24 DEF TellGithub, Move
    <3>2. found' = found /\ task[r][t] # "none"
      BY <1>24 DEF TellGithub, Move, Live
    <3>3. t \in found[r]
      BY <3>2 DEF Staged
    <3>4. beats' \in [Runs -> SUBSET Targets]
      BY <3>1
    <3>5. ASSUME NEW q \in Runs, NEW u \in beats'[q]
          PROVE  u \in found[q] /\ task'[q][u] = "command"
      <4>1. CASE q = r
        BY <2>2, <3>1, <3>3, <3>5, <4>1
      <4>2. CASE q # r
        BY <2>2, <3>1, <3>5, <4>2
      <4> QED BY <4>1, <4>2
    <3> QED BY <3>2, <3>4, <3>5 DEF BeatTypes
  <2> QED BY <2>2, <2>3, <2>4, <2>5, <2>6 DEF RowTypes, PlaceTypes, RestTypes, BeatTypes
<1>25. ASSUME NEW r \in Runs, NEW t \in Targets, TaskRaises(r, t) PROVE TypeOK'
  <2>1. task' = [task EXCEPT ![r][t] = "raised"] /\ "raised" \in TaskStates
    BY <1>25 DEF TaskRaises, TaskStates, Live
  <2>2. /\ task' \in [Runs -> [Targets -> TaskStates]]
        /\ \A q \in Runs : q # r => task'[q] = task[q]
        /\ \A u \in Targets : task'[r][u] = IF u = t THEN "raised" ELSE task[r][u]
    <3> HIDE DEF TypeOK, Good, Targets
    <3>1. task \in [Runs -> [Targets -> TaskStates]]
      BY DEF TypeOK
    <3> QED BY <2>1, <3>1, TaskCell
  <2>3. RowTypes' /\ PlaceTypes' /\ RestTypes'
    BY <1>25 DEF TaskRaises, RowTypes, PlaceTypes, RestTypes
  <2>4. job' \in [Runs -> [Targets -> JobStates]]
    BY <1>25 DEF TaskRaises
  <2>5. check' \in [Runs -> [Targets -> CheckStates]]
    <3>1. task[r][t] = "tell" => job[r][t] \in CheckStates
      BY DEF Told, CheckStates
    <3>2. \/ check' = check
          \/ \E s \in CheckStates : check' = [check EXCEPT ![r][t] = s]
      BY <1>25, <3>1 DEF TaskRaises, CheckStates
    <3> QED BY <3>2, CheckCell
  <2>6. BeatTypes'
    <3>1. beats' = [beats EXCEPT ![r] = @ \ {t}]
      BY <1>25 DEF TaskRaises
    <3>2. found' = found /\ task[r][t] # "none"
      BY <1>25 DEF TaskRaises, Live
    <3>3. t \in found[r]
      BY <3>2 DEF Staged
    <3>4. beats' \in [Runs -> SUBSET Targets]
      BY <3>1
    <3>5. ASSUME NEW q \in Runs, NEW u \in beats'[q]
          PROVE  u \in found[q] /\ task'[q][u] = "command"
      <4>1. CASE q = r
        BY <2>2, <3>1, <3>3, <3>5, <4>1
      <4>2. CASE q # r
        BY <2>2, <3>1, <3>5, <4>2
      <4> QED BY <4>1, <4>2
    <3> QED BY <3>2, <3>4, <3>5 DEF BeatTypes
  <2> QED BY <2>2, <2>3, <2>4, <2>5, <2>6 DEF RowTypes, PlaceTypes, RestTypes, BeatTypes
<1>26. ASSUME NEW r \in Runs, NEW t \in Targets, MonitorDies(r, t) PROVE TypeOK'
  <2>1. RowTypes'
    BY <1>26 DEF MonitorDies, RowTypes
  <2>2. PlaceTypes'
    BY <1>26 DEF MonitorDies, PlaceTypes
  <2>3. JobTypes'
    BY <1>26 DEF MonitorDies, JobTypes
  <2>4. BeatTypes'
    BY <1>26 DEF MonitorDies, BeatTypes
  <2>5. RestTypes'
    BY <1>26 DEF MonitorDies, RestTypes
  <2> QED BY <2>1, <2>2, <2>3, <2>4, <2>5 DEF RowTypes, PlaceTypes, JobTypes, BeatTypes,
     RestTypes
<1>27. ASSUME NEW w \in Workers, FindStale(w) PROVE TypeOK'
  BY <1>27 DEF FindStale
<1>28. ASSUME NEW w \in Workers, NEW r \in Runs, MarkCrashed(w, r) PROVE TypeOK'
  <2>1. RowTypes'
    BY <1>28 DEF MarkCrashed, FinishRun, RowTypes
  <2>2. PlaceTypes'
    BY <1>28 DEF MarkCrashed, FinishRun, PlaceTypes
  <2>3. JobTypes'
    BY <1>28 DEF MarkCrashed, FinishRun, JobTypes
  <2>4. BeatTypes'
    BY <1>28 DEF MarkCrashed, FinishRun, BeatTypes
  <2>5. RestTypes'
    BY <1>28 DEF MarkCrashed, FinishRun, RestTypes
  <2> QED BY <2>1, <2>2, <2>3, <2>4, <2>5 DEF RowTypes, PlaceTypes, JobTypes, BeatTypes,
     RestTypes
<1>29. ASSUME NEW w \in Workers, Crash(w) PROVE TypeOK'
  <2>1. RowTypes'
    BY <1>29 DEF Crash, RowTypes
  <2>2. PlaceTypes'
    BY <1>29 DEF Crash, PlaceTypes
  <2>3. JobTypes'
    <3>1. /\ job' = job /\ check' = check
          /\ task' = [q \in Runs |-> IF q \in {x \in Runs : host[x] = w}
                THEN [t \in Targets |-> IF task[q][t] \in Live THEN "raised" ELSE task[q][t]]
                ELSE task[q]]
      BY <1>29 DEF Crash
    <3>2. "raised" \in TaskStates
      BY DEF TaskStates
    <3>3. ASSUME NEW q \in Runs PROVE task'[q] \in [Targets -> TaskStates]
      BY <3>1, <3>2
    <3>4. task' \in [Runs -> [Targets -> TaskStates]]
      BY <3>1, <3>3
    <3> QED BY <3>1, <3>4 DEF JobTypes
  <2>4. BeatTypes'
    BY <1>29 DEF Crash, BeatTypes
  <2>5. RestTypes'
    BY <1>29 DEF Crash, RestTypes
  <2> QED BY <2>1, <2>2, <2>3, <2>4, <2>5 DEF RowTypes, PlaceTypes, JobTypes, BeatTypes,
     RestTypes
<1>30. CASE UNCHANGED vars
  BY <1>30 DEF vars
<1> QED
  BY <1>1, <1>2, <1>3, <1>4, <1>5, <1>6, <1>7, <1>8, <1>9, <1>10, <1>11, <1>12, <1>13, <1>14,
     <1>15, <1>16, <1>17, <1>18, <1>19, <1>20, <1>21, <1>22, <1>23, <1>24, <1>25, <1>26, <1>27,
     <1>28, <1>29, <1>30
  DEF Next, Execution, Task, Janitor

\* While a task is at work its stage has not been concluded.
LEMMA Working ==
    ASSUME TypeOK, NEW r \in Runs, NEW t \in Targets, Good(r), task[r][t] \in Live
    PROVE  /\ at[r] \notin {"report", "none"}
           /\ status[r] # "success"
           /\ t \in Ci(r) => \A u \in CdTargets : task[r][u] = "none"
<1>1. task[r][t] \notin {"none", "done"}
  BY DEF Live
<1>2. t \in found[r]
  BY <1>1 DEF Good, Staged
<1>3. t \in Ci(r) \/ t \in Cd(r)
  BY <1>2 DEF Ci, Cd, Targets
<1>4. at[r] \notin {"report", "none"}
  BY <1>1, <1>3 DEF Good, Staged, Concluded, Before
<1>5. status[r] # "success"
  BY <1>1, <1>2 DEF Good, Concluded
<1>6. t \in Ci(r) => \A u \in CdTargets : task[r][u] = "none"
  BY <1>1 DEF Good, Staged
<1> QED BY <1>4, <1>5, <1>6

\* Every step leaves every run good.
LEMMA GoodStep ==
    TypeOK /\ (\A r \in Runs : Good(r)) /\ [Next]_vars => \A r \in Runs : Good(r)'
<1> SUFFICES ASSUME TypeOK, [Next]_vars, \A x \in Runs : Good(x), NEW q \in Runs PROVE Good(q)'
  OBVIOUS
<1> USE CiAssumption DEF rowVars, jobVars
<1>1. ASSUME NEW r \in Runs, Push(r) PROVE Good(q)'
  <2>1. CASE q # r
    BY <1>1, <2>1, Frame DEF Push, EnqueueRun, Missing, TypeOK
  <2>2. CASE q = r
    <3>1. Unclaimed(r)'
      BY <1>1 DEF Push, EnqueueRun, Missing, TypeOK, Good, Unclaimed
    <3>2. Staged(r)'
      BY <1>1 DEF Push, EnqueueRun, Missing, TypeOK, Good, Staged, Ci, Before
    <3>3. Concluded(r)'
      BY <1>1 DEF Push, EnqueueRun, Missing, TypeOK, Good, Concluded, Ci, Cd, Deployable, AllOk,
         Unclaimed
    <3>4. Told(r)'
      BY <1>1 DEF Push, EnqueueRun, Missing, TypeOK, Good, Told
    <3>5. Green(r)'
      BY <1>1 DEF Push, EnqueueRun, Missing, TypeOK, Good, Green, Ci, Cd, AllOk
    <3>6. Deploying(r)'
      BY <1>1 DEF Push, EnqueueRun, Missing, TypeOK, Good, Deploying, Ci, Cd, AllOk, Unclaimed,
         Staged, Before, Targets
    <3> QED BY <2>2, <3>1, <3>2, <3>3, <3>4, <3>5, <3>6 DEF Good
  <2> QED BY <2>1, <2>2
<1>2. ASSUME NEW w \in Workers, NEW r \in Runs, Claim(w, r) PROVE Good(q)'
  <2>1. CASE q # r
    BY <1>2, <2>1, Frame DEF Claim, First, TypeOK
  <2>2. CASE q = r
    <3>1. Unclaimed(r)'
      BY <1>2 DEF Claim, First, TypeOK, Good, Unclaimed
    <3>2. Staged(r)'
      BY <1>2 DEF Claim, First, TypeOK, Good, Staged, Ci, Before, Unclaimed, Targets
    <3>3. Concluded(r)'
      BY <1>2 DEF Claim, First, TypeOK, Good, Concluded, Ci, Cd, Deployable, AllOk
    <3>4. Told(r)'
      BY <1>2 DEF Claim, First, TypeOK, Good, Told
    <3>5. Green(r)'
      BY <1>2 DEF Claim, First, TypeOK, Good, Green, Ci, Cd, AllOk
    <3>6. Deploying(r)'
      BY <1>2 DEF Claim, First, TypeOK, Good, Deploying, Ci, Cd, AllOk
    <3> QED BY <2>2, <3>1, <3>2, <3>3, <3>4, <3>5, <3>6 DEF Good
  <2> QED BY <2>1, <2>2
<1>3. ASSUME NEW r \in Runs, Lapse(r) PROVE Good(q)'
  BY <1>3, Frame DEF Lapse, TypeOK
<1>4. ASSUME NEW r \in Runs, Renew(r) PROVE Good(q)'
  BY <1>4, Frame DEF Renew, TypeOK
<1>5. ASSUME NEW r \in Runs, CheckOut(r) PROVE Good(q)'
  <2>1. CASE q # r
    BY <1>5, <2>1, Frame DEF CheckOut, Step, Go, TypeOK
  <2>2. CASE q = r
    <3>1. Unclaimed(r)'
      BY <1>5 DEF CheckOut, Step, Go, TypeOK, Good, Unclaimed
    <3>2. Staged(r)'
      BY <1>5 DEF CheckOut, Step, Go, TypeOK, Good, Staged, Ci, Ci, Cd, Before, Targets
    <3>3. Concluded(r)'
      BY <1>5 DEF CheckOut, Step, Go, TypeOK, Good, Concluded, Ci, Cd, Deployable, AllOk
    <3>4. Told(r)'
      BY <1>5 DEF CheckOut, Step, Go, TypeOK, Good, Told
    <3>5. Green(r)'
      BY <1>5 DEF CheckOut, Step, Go, TypeOK, Good, Green, Ci, Cd, AllOk
    <3>6. Deploying(r)'
      BY <1>5 DEF CheckOut, Step, Go, TypeOK, Good, Deploying, Ci, Cd, AllOk
    <3> QED BY <2>2, <3>1, <3>2, <3>3, <3>4, <3>5, <3>6 DEF Good
  <2> QED BY <2>1, <2>2
<1>6. ASSUME NEW r \in Runs, CheckOutFails(r) PROVE Good(q)'
  <2>1. CASE q # r
    BY <1>6, <2>1, Frame DEF CheckOutFails, Step, Go, TypeOK
  <2>2. CASE q = r
    <3>1. Unclaimed(r)'
      BY <1>6 DEF CheckOutFails, Step, Go, TypeOK, Good, Unclaimed
    <3>2. Staged(r)'
      BY <1>6 DEF CheckOutFails, Step, Go, TypeOK, Good, Staged, Ci, Ci, Cd, Before, Targets
    <3>3. Concluded(r)'
      BY <1>6 DEF CheckOutFails, Step, Go, TypeOK, Good, Concluded, Ci, Cd, Deployable, AllOk
    <3>4. Told(r)'
      BY <1>6 DEF CheckOutFails, Step, Go, TypeOK, Good, Told
    <3>5. Green(r)'
      BY <1>6 DEF CheckOutFails, Step, Go, TypeOK, Good, Green, Ci, Cd, AllOk
    <3>6. Deploying(r)'
      BY <1>6 DEF CheckOutFails, Step, Go, TypeOK, Good, Deploying, Ci, Cd, AllOk
    <3> QED BY <2>2, <3>1, <3>2, <3>3, <3>4, <3>5, <3>6 DEF Good
  <2> QED BY <2>1, <2>2
<1>7. ASSUME NEW r \in Runs, FinishBroken(r) PROVE Good(q)'
  <2>1. CASE q # r
    BY <1>7, <2>1, Frame DEF FinishBroken, Step, Go, FinishRun, TypeOK
  <2>2. CASE q = r
    <3>1. Unclaimed(r)'
      BY <1>7 DEF FinishBroken, Step, Go, FinishRun, TypeOK, Good, Unclaimed
    <3>2. Staged(r)'
      BY <1>7 DEF FinishBroken, Step, Go, FinishRun, TypeOK, Good, Staged, Ci, Ci, Cd, Before,
         Targets
    <3>3. Concluded(r)'
      BY <1>7 DEF FinishBroken, Step, Go, FinishRun, TypeOK, Good, Concluded, Ci, Cd,
         Deployable, AllOk
    <3>4. Told(r)'
      BY <1>7 DEF FinishBroken, Step, Go, FinishRun, TypeOK, Good, Told
    <3>5. Green(r)'
      BY <1>7 DEF FinishBroken, Step, Go, FinishRun, TypeOK, Good, Green, Ci, Cd, AllOk
    <3>6. Deploying(r)'
      BY <1>7 DEF FinishBroken, Step, Go, FinishRun, TypeOK, Good, Deploying, Ci, Cd, AllOk
    <3> QED BY <2>2, <3>1, <3>2, <3>3, <3>4, <3>5, <3>6 DEF Good
  <2> QED BY <2>1, <2>2
<1>8. ASSUME NEW r \in Runs, Discover(r) PROVE Good(q)'
  <2>1. CASE q # r
    BY <1>8, <2>1, Frame DEF Discover, Step, Go, TypeOK
  <2>2. CASE q = r
    <3>1. Unclaimed(r)'
      BY <1>8 DEF Discover, Step, Go, TypeOK, Good, Unclaimed
    <3>2. Staged(r)'
      BY <1>8 DEF Discover, Step, Go, TypeOK, Good, Staged, Ci, Ci, Cd, Before, Targets
    <3>3. Concluded(r)'
      BY <1>8 DEF Discover, Step, Go, TypeOK, Good, Concluded, Ci, Cd, Deployable, AllOk
    <3>4. Told(r)'
      BY <1>8 DEF Discover, Step, Go, TypeOK, Good, Told
    <3>5. Green(r)'
      BY <1>8 DEF Discover, Step, Go, TypeOK, Good, Green, Ci, Cd, AllOk, Concluded
    <3>6. Deploying(r)'
      BY <1>8 DEF Discover, Step, Go, TypeOK, Good, Deploying, Ci, Cd, AllOk, Staged, Before,
         Targets
    <3> QED BY <2>2, <3>1, <3>2, <3>3, <3>4, <3>5, <3>6 DEF Good
  <2> QED BY <2>1, <2>2
<1>9. ASSUME NEW r \in Runs, NoTargets(r) PROVE Good(q)'
  <2>1. CASE q # r
    BY <1>9, <2>1, Frame DEF NoTargets, Step, Go, FinishRun, TypeOK
  <2>2. CASE q = r
    <3>1. Unclaimed(r)'
      BY <1>9 DEF NoTargets, Step, Go, FinishRun, TypeOK, Good, Unclaimed
    <3>2. Staged(r)'
      BY <1>9 DEF NoTargets, Step, Go, FinishRun, TypeOK, Good, Staged, Ci, Ci, Cd, Before,
         Targets
    <3>3. Concluded(r)'
      BY <1>9 DEF NoTargets, Step, Go, FinishRun, TypeOK, Good, Concluded, Ci, Cd, Deployable,
         AllOk
    <3>4. Told(r)'
      BY <1>9 DEF NoTargets, Step, Go, FinishRun, TypeOK, Good, Told
    <3>5. Green(r)'
      BY <1>9 DEF NoTargets, Step, Go, FinishRun, TypeOK, Good, Green, Ci, Cd, AllOk
    <3>6. Deploying(r)'
      BY <1>9 DEF NoTargets, Step, Go, FinishRun, TypeOK, Good, Deploying, Ci, Cd, AllOk
    <3> QED BY <2>2, <3>1, <3>2, <3>3, <3>4, <3>5, <3>6 DEF Good
  <2> QED BY <2>1, <2>2
<1>10. ASSUME NEW r \in Runs, StartCi(r) PROVE Good(q)'
  <2>1. CASE q # r
    BY <1>10, <2>1, Frame DEF StartCi, Step, Go, Gather, FinishRun, TypeOK
  <2>2. CASE q = r
    <3>1. Unclaimed(r)'
      BY <1>10 DEF StartCi, Step, Go, Gather, FinishRun, TypeOK, Good, Unclaimed, Before,
         Targets
    <3>2. Staged(r)'
      BY <1>10 DEF StartCi, Step, Go, Gather, FinishRun, TypeOK, Good, Staged, Ci, Ci, Cd,
         Before, Targets
    <3>3. Concluded(r)'
      BY <1>10 DEF StartCi, Step, Go, Gather, FinishRun, TypeOK, Good, Concluded, Ci, Cd,
         Deployable, AllOk, Before, Targets
    <3>4. Told(r)'
      BY <1>10 DEF StartCi, Step, Go, Gather, FinishRun, TypeOK, Good, Told, Before, Targets,
         Staged
    <3>5. Green(r)'
      BY <1>10 DEF StartCi, Step, Go, Gather, FinishRun, TypeOK, Good, Green, Ci, Cd, AllOk,
         Before, Targets
    <3>6. Deploying(r)'
      BY <1>10 DEF StartCi, Step, Go, Gather, FinishRun, TypeOK, Good, Deploying, Ci, Cd, AllOk,
         Before, Targets
    <3> QED BY <2>2, <3>1, <3>2, <3>3, <3>4, <3>5, <3>6 DEF Good
  <2> QED BY <2>1, <2>2
<1>11. ASSUME NEW r \in Runs, NoCi(r) PROVE Good(q)'
  <2>1. CASE q # r
    BY <1>11, <2>1, Frame DEF NoCi, Step, Go, TypeOK
  <2>2. CASE q = r
    <3>1. Unclaimed(r)'
      BY <1>11 DEF NoCi, Step, Go, TypeOK, Good, Unclaimed
    <3>2. Staged(r)'
      BY <1>11 DEF NoCi, Step, Go, TypeOK, Good, Staged, Ci, Ci, Cd, Before, Targets
    <3>3. Concluded(r)'
      BY <1>11 DEF NoCi, Step, Go, TypeOK, Good, Concluded, Ci, Cd, Deployable, AllOk
    <3>4. Told(r)'
      BY <1>11 DEF NoCi, Step, Go, TypeOK, Good, Told
    <3>5. Green(r)'
      BY <1>11 DEF NoCi, Step, Go, TypeOK, Good, Green, Ci, Cd, AllOk
    <3>6. Deploying(r)'
      BY <1>11 DEF NoCi, Step, Go, TypeOK, Good, Deploying, Ci, Cd, AllOk
    <3> QED BY <2>2, <3>1, <3>2, <3>3, <3>4, <3>5, <3>6 DEF Good
  <2> QED BY <2>1, <2>2
<1>12. ASSUME NEW r \in Runs, CiReturned(r) PROVE Good(q)'
  <2>1. CASE q # r
    BY <1>12, <2>1, Frame DEF CiReturned, Step, Go, TypeOK
  <2>2. CASE q = r
    <3>1. Unclaimed(r)'
      BY <1>12 DEF CiReturned, Step, Go, TypeOK, Good, Unclaimed
    <3>2. Staged(r)'
      BY <1>12 DEF CiReturned, Step, Go, TypeOK, Good, Staged, Ci, Ci, Cd, Before, Targets,
         Returned
    <3>3. Concluded(r)'
      BY <1>12 DEF CiReturned, Step, Go, TypeOK, Good, Concluded, Ci, Cd, Deployable, AllOk
    <3>4. Told(r)'
      BY <1>12 DEF CiReturned, Step, Go, TypeOK, Good, Told
    <3>5. Green(r)'
      BY <1>12 DEF CiReturned, Step, Go, TypeOK, Good, Green, Ci, Cd, AllOk
    <3>6. Deploying(r)'
      BY <1>12 DEF CiReturned, Step, Go, TypeOK, Good, Deploying, Ci, Cd, AllOk
    <3> QED BY <2>2, <3>1, <3>2, <3>3, <3>4, <3>5, <3>6 DEF Good
  <2> QED BY <2>1, <2>2
<1>13. ASSUME NEW r \in Runs, StartCd(r) PROVE Good(q)'
  <2>1. CASE q # r
    BY <1>13, <2>1, Frame DEF StartCd, Step, Go, Gather, FinishRun, TypeOK
  <2>2. CASE q = r
    <3>1. Unclaimed(r)'
      BY <1>13 DEF StartCd, Step, Go, Gather, FinishRun, TypeOK, Good, Unclaimed, Before,
         Targets, Deployable, AllOk, Targets
    <3>2. Staged(r)'
      BY <1>13 DEF StartCd, Step, Go, Gather, FinishRun, TypeOK, Good, Staged, Ci, Cd, Before,
         Targets, Deployable, AllOk
    <3>3. Concluded(r)'
      BY <1>13 DEF StartCd, Step, Go, Gather, FinishRun, TypeOK, Good, Concluded, Ci, Cd,
         Deployable, AllOk, Before, Targets, Deployable, AllOk, Targets
    <3>4. Told(r)'
      <4>1. /\ job' = job /\ check' = check
            /\ \A t \in Targets : task'[r][t] = IF t \in Cd(r) THEN "create" ELSE task[r][t]
        BY <1>13 DEF StartCd, Step, Go, Gather, FinishRun, TypeOK
      <4>2. \A t \in Cd(r) : task[r][t] = "none"
        BY <1>13 DEF StartCd, Step, Go, Gather, FinishRun, Good, Staged, Cd
      <4> QED BY <4>1, <4>2 DEF Good, Told
    <3>5. Green(r)'
      BY <1>13 DEF StartCd, Step, Go, Gather, FinishRun, TypeOK, Good, Green, Ci, Cd, AllOk,
         Before, Targets, Deployable, AllOk, Targets
    <3>6. Deploying(r)'
      BY <1>13 DEF StartCd, Step, Go, Gather, FinishRun, TypeOK, Good, Deploying, Ci, Cd, AllOk,
         Before, Targets, Deployable, AllOk, Targets
    <3> QED BY <2>2, <3>1, <3>2, <3>3, <3>4, <3>5, <3>6 DEF Good
  <2> QED BY <2>1, <2>2
<1>14. ASSUME NEW r \in Runs, NoCd(r) PROVE Good(q)'
  <2>1. CASE q # r
    BY <1>14, <2>1, Frame DEF NoCd, Step, Go, TypeOK
  <2>2. CASE q = r
    <3>1. Unclaimed(r)'
      BY <1>14 DEF NoCd, Step, Go, TypeOK, Good, Unclaimed
    <3>2. Staged(r)'
      BY <1>14 DEF NoCd, Step, Go, TypeOK, Good, Staged, Ci, Ci, Cd, Before, Targets
    <3>3. Concluded(r)'
      BY <1>14 DEF NoCd, Step, Go, TypeOK, Good, Concluded, Ci, Cd, Deployable, AllOk, Staged
    <3>4. Told(r)'
      BY <1>14 DEF NoCd, Step, Go, TypeOK, Good, Told
    <3>5. Green(r)'
      BY <1>14 DEF NoCd, Step, Go, TypeOK, Good, Green, Ci, Cd, AllOk
    <3>6. Deploying(r)'
      BY <1>14 DEF NoCd, Step, Go, TypeOK, Good, Deploying, Ci, Cd, AllOk
    <3> QED BY <2>2, <3>1, <3>2, <3>3, <3>4, <3>5, <3>6 DEF Good
  <2> QED BY <2>1, <2>2
<1>15. ASSUME NEW r \in Runs, CdReturned(r) PROVE Good(q)'
  <2>1. CASE q # r
    BY <1>15, <2>1, Frame DEF CdReturned, Step, Go, TypeOK
  <2>2. CASE q = r
    <3>1. Unclaimed(r)'
      BY <1>15 DEF CdReturned, Step, Go, TypeOK, Good, Unclaimed
    <3>2. Staged(r)'
      BY <1>15 DEF CdReturned, Step, Go, TypeOK, Good, Staged, Ci, Ci, Cd, Before, Targets
    <3>3. Concluded(r)'
      BY <1>15 DEF CdReturned, Step, Go, TypeOK, Good, Concluded, Ci, Cd, Deployable, AllOk,
         Returned
    <3>4. Told(r)'
      BY <1>15 DEF CdReturned, Step, Go, TypeOK, Good, Told
    <3>5. Green(r)'
      BY <1>15 DEF CdReturned, Step, Go, TypeOK, Good, Green, Ci, Cd, AllOk
    <3>6. Deploying(r)'
      BY <1>15 DEF CdReturned, Step, Go, TypeOK, Good, Deploying, Ci, Cd, AllOk
    <3> QED BY <2>2, <3>1, <3>2, <3>3, <3>4, <3>5, <3>6 DEF Good
  <2> QED BY <2>1, <2>2
<1>16. ASSUME NEW r \in Runs, Report(r) PROVE Good(q)'
  <2>1. CASE q # r
    BY <1>16, <2>1, Frame DEF Report, Step, Go, FinishRun, TypeOK
  <2>2. CASE q = r
    <3>1. Unclaimed(r)'
      BY <1>16 DEF Report, Step, Go, FinishRun, TypeOK, Good, Unclaimed
    <3>2. Staged(r)'
      BY <1>16 DEF Report, Step, Go, FinishRun, TypeOK, Good, Staged, Ci, Ci, Cd, Before,
         Targets
    <3>3. Concluded(r)'
      <4>1. \A t \in Ci(r) : task[r][t] = "done"
        BY <1>16 DEF Report, Step, Go, FinishRun, Good, Staged
      <4>2. \A t \in Cd(r) : task[r][t] \in {"done", "none"}
        BY <1>16 DEF Report, Step, Go, FinishRun, Good, Concluded
      <4>3. \A t \in found[r] : t \in Ci(r) \/ t \in Cd(r)
        BY DEF TypeOK, Ci, Cd, Targets
      <4> QED BY <1>16, <4>1, <4>2, <4>3 DEF Report, Step, Go, FinishRun, TypeOK, Concluded
    <3>4. Told(r)'
      BY <1>16 DEF Report, Step, Go, FinishRun, TypeOK, Good, Told
    <3>5. Green(r)'
      <4>1. Green(r)' \/ FinalOk(r)
        BY <1>16 DEF Report, Step, Go, FinishRun, TypeOK, Green
      <4>2. ASSUME FinalOk(r), trunk[r] PROVE AllOk(r, Cd(r))
        BY <1>16, <4>2 DEF Report, Step, Go, FinishRun, Good, Concluded, FinalOk, Deployable,
           AllOk
      <4>3. ASSUME FinalOk(r) PROVE AllOk(r, Ci(r))
        BY <4>3 DEF FinalOk
      <4>4. /\ trunk' = trunk /\ job' = job /\ found' = found
        BY <1>16 DEF Report, Step, Go, FinishRun
      <4> QED BY <4>1, <4>2, <4>3, <4>4 DEF Green, AllOk, Ci, Cd
    <3>6. Deploying(r)'
      BY <1>16 DEF Report, Step, Go, FinishRun, TypeOK, Good, Deploying, Ci, Cd, AllOk
    <3> QED BY <2>2, <3>1, <3>2, <3>3, <3>4, <3>5, <3>6 DEF Good
  <2> QED BY <2>1, <2>2
<1>17. ASSUME NEW r \in Runs, GatherRaises(r) PROVE Good(q)'
  <2>1. CASE q # r
    BY <1>17, <2>1, Frame DEF GatherRaises, Step, Go, TypeOK
  <2>2. CASE q = r
    <3>1. Unclaimed(r)'
      BY <1>17 DEF GatherRaises, Step, Go, TypeOK, Good, Unclaimed
    <3>2. Staged(r)'
      BY <1>17 DEF GatherRaises, Step, Go, TypeOK, Good, Staged, Ci, Ci, Cd, Before, Targets
    <3>3. Concluded(r)'
      BY <1>17 DEF GatherRaises, Step, Go, TypeOK, Good, Concluded, Ci, Cd, Deployable, AllOk
    <3>4. Told(r)'
      BY <1>17 DEF GatherRaises, Step, Go, TypeOK, Good, Told
    <3>5. Green(r)'
      BY <1>17 DEF GatherRaises, Step, Go, TypeOK, Good, Green, Ci, Cd, AllOk
    <3>6. Deploying(r)'
      BY <1>17 DEF GatherRaises, Step, Go, TypeOK, Good, Deploying, Ci, Cd, AllOk
    <3> QED BY <2>2, <3>1, <3>2, <3>3, <3>4, <3>5, <3>6 DEF Good
  <2> QED BY <2>1, <2>2
<1>18. ASSUME NEW r \in Runs, Raise(r) PROVE Good(q)'
  <2>1. CASE q # r
    BY <1>18, <2>1, Frame DEF Raise, Go, TypeOK
  <2>2. CASE q = r
    <3>1. Unclaimed(r)'
      BY <1>18 DEF Raise, Go, TypeOK, Good, Unclaimed
    <3>2. Staged(r)'
      <4>1. found' = found /\ task' = task /\ at'[r] = "over"
        BY <1>18 DEF Raise, Go, TypeOK
      <4> QED BY <4>1 DEF Good, Staged, Ci, Before
    <3>3. Concluded(r)'
      BY <1>18 DEF Raise, Go, TypeOK, Good, Concluded, Ci, Cd, Deployable, AllOk
    <3>4. Told(r)'
      BY <1>18 DEF Raise, Go, TypeOK, Good, Told
    <3>5. Green(r)'
      BY <1>18 DEF Raise, Go, TypeOK, Good, Green, Ci, Cd, AllOk
    <3>6. Deploying(r)'
      BY <1>18 DEF Raise, Go, TypeOK, Good, Deploying, Ci, Cd, AllOk
    <3> QED BY <2>2, <3>1, <3>2, <3>3, <3>4, <3>5, <3>6 DEF Good
  <2> QED BY <2>1, <2>2
<1>19. ASSUME NEW r \in Runs, NEW t \in Targets, CreateJob(r, t) PROVE Good(q)'
  <2>1. CASE q # r
    BY <1>19, <2>1, Frame DEF CreateJob, Move, TypeOK
  <2>2. CASE q = r
    <3>0. /\ at[r] # "report" /\ status[r] # "success"
          /\ t \in Ci(r) => \A u \in CdTargets : task[r][u] = "none"
      BY <1>19, Working DEF CreateJob, Move, Live
    <3>1. Unclaimed(r)'
      BY <1>19 DEF CreateJob, Move, TypeOK, Good, Unclaimed, Live, Before, Targets
    <3>2. Staged(r)'
      BY <1>19 DEF CreateJob, Move, TypeOK, Good, Staged, Ci, Live, Before, Targets
    <3>3. Concluded(r)'
      BY <1>19, <3>0 DEF CreateJob, Move, TypeOK, Good, Staged, Concluded, Ci, Cd, Deployable,
         AllOk
    <3>4. Told(r)'
      BY <1>19 DEF CreateJob, Move, TypeOK, Good, Told, Live, Before, Targets
    <3>5. Green(r)'
      BY <1>19, <3>0 DEF CreateJob, Move, TypeOK, Good, Staged, Green, Ci, Cd, AllOk
    <3>6. Deploying(r)'
      BY <1>19, <3>0 DEF CreateJob, Move, TypeOK, Good, Staged, Deploying, Ci, Cd, AllOk
    <3> QED BY <2>2, <3>1, <3>2, <3>3, <3>4, <3>5, <3>6 DEF Good
  <2> QED BY <2>1, <2>2
<1>20. ASSUME NEW r \in Runs, NEW t \in Targets, CreateCheck(r, t) PROVE Good(q)'
  <2>1. CASE q # r
    BY <1>20, <2>1, Frame DEF CreateCheck, Move, TypeOK
  <2>2. CASE q = r
    <3>0. /\ at[r] # "report" /\ status[r] # "success"
          /\ t \in Ci(r) => \A u \in CdTargets : task[r][u] = "none"
      BY <1>20, Working DEF CreateCheck, Move, Live
    <3>1. Unclaimed(r)'
      BY <1>20 DEF CreateCheck, Move, TypeOK, Good, Unclaimed, Live, Before, Targets
    <3>2. Staged(r)'
      BY <1>20 DEF CreateCheck, Move, TypeOK, Good, Staged, Ci, Live, Before, Targets
    <3>3. Concluded(r)'
      BY <1>20, <3>0 DEF CreateCheck, Move, TypeOK, Good, Staged, Concluded, Ci, Cd, Deployable,
         AllOk
    <3>4. Told(r)'
      BY <1>20 DEF CreateCheck, Move, TypeOK, Good, Told, Live, Before, Targets
    <3>5. Green(r)'
      BY <1>20, <3>0 DEF CreateCheck, Move, TypeOK, Good, Staged, Green, Ci, Cd, AllOk
    <3>6. Deploying(r)'
      BY <1>20, <3>0 DEF CreateCheck, Move, TypeOK, Good, Staged, Deploying, Ci, Cd, AllOk
    <3> QED BY <2>2, <3>1, <3>2, <3>3, <3>4, <3>5, <3>6 DEF Good
  <2> QED BY <2>1, <2>2
<1>21. ASSUME NEW r \in Runs, NEW t \in Targets, StartJob(r, t) PROVE Good(q)'
  <2>1. CASE q # r
    BY <1>21, <2>1, Frame DEF StartJob, Move, TypeOK
  <2>2. CASE q = r
    <3>0. /\ at[r] # "report" /\ status[r] # "success"
          /\ t \in Ci(r) => \A u \in CdTargets : task[r][u] = "none"
      BY <1>21, Working DEF StartJob, Move, Live
    <3>1. Unclaimed(r)'
      BY <1>21 DEF StartJob, Move, TypeOK, Good, Unclaimed, Live, Before, Targets
    <3>2. Staged(r)'
      BY <1>21 DEF StartJob, Move, TypeOK, Good, Staged, Ci, Live, Before, Targets
    <3>3. Concluded(r)'
      BY <1>21, <3>0 DEF StartJob, Move, TypeOK, Good, Staged, Concluded, Ci, Cd, Deployable,
         AllOk
    <3>4. Told(r)'
      BY <1>21 DEF StartJob, Move, TypeOK, Good, Told, Live, Before, Targets
    <3>5. Green(r)'
      BY <1>21, <3>0 DEF StartJob, Move, TypeOK, Good, Staged, Green, Ci, Cd, AllOk
    <3>6. Deploying(r)'
      BY <1>21, <3>0 DEF StartJob, Move, TypeOK, Good, Staged, Deploying, Ci, Cd, AllOk
    <3> QED BY <2>2, <3>1, <3>2, <3>3, <3>4, <3>5, <3>6 DEF Good
  <2> QED BY <2>1, <2>2
<1>22. ASSUME NEW r \in Runs, NEW t \in Targets, CommandExits(r, t) PROVE Good(q)'
  <2>1. CASE q # r
    BY <1>22, <2>1, Frame DEF CommandExits, Move, TypeOK
  <2>2. CASE q = r
    <3>0. /\ at[r] # "report" /\ status[r] # "success"
          /\ t \in Ci(r) => \A u \in CdTargets : task[r][u] = "none"
      BY <1>22, Working DEF CommandExits, Move, Live
    <3>1. Unclaimed(r)'
      BY <1>22 DEF CommandExits, Move, TypeOK, Good, Unclaimed, Live, Before, Targets
    <3>2. Staged(r)'
      BY <1>22 DEF CommandExits, Move, TypeOK, Good, Staged, Ci, Live, Before, Targets
    <3>3. Concluded(r)'
      BY <1>22, <3>0 DEF CommandExits, Move, TypeOK, Good, Staged, Concluded, Ci, Cd,
         Deployable, AllOk
    <3>4. Told(r)'
      BY <1>22 DEF CommandExits, Move, TypeOK, Good, Told, Live, Before, Targets
    <3>5. Green(r)'
      BY <1>22, <3>0 DEF CommandExits, Move, TypeOK, Good, Staged, Green, Ci, Cd, AllOk
    <3>6. Deploying(r)'
      BY <1>22, <3>0 DEF CommandExits, Move, TypeOK, Good, Staged, Deploying, Ci, Cd, AllOk
    <3> QED BY <2>2, <3>1, <3>2, <3>3, <3>4, <3>5, <3>6 DEF Good
  <2> QED BY <2>1, <2>2
<1>23. ASSUME NEW r \in Runs, NEW t \in Targets, FinishJob(r, t) PROVE Good(q)'
  <2>1. CASE q # r
    BY <1>23, <2>1, Frame DEF FinishJob, Move, TypeOK
  <2>2. CASE q = r
    <3>0. /\ at[r] # "report" /\ status[r] # "success"
          /\ t \in Ci(r) => \A u \in CdTargets : task[r][u] = "none"
      BY <1>23, Working DEF FinishJob, Move, Live
    <3>1. Unclaimed(r)'
      BY <1>23 DEF FinishJob, Move, TypeOK, Good, Unclaimed, Live, Before, Targets
    <3>2. Staged(r)'
      BY <1>23 DEF FinishJob, Move, TypeOK, Good, Staged, Ci, Live, Before, Targets
    <3>3. Concluded(r)'
      BY <1>23, <3>0 DEF FinishJob, Move, TypeOK, Good, Staged, Concluded, Ci, Cd, Deployable,
         AllOk
    <3>4. Told(r)'
      BY <1>23 DEF FinishJob, Move, TypeOK, Good, Told, Live, Before, Targets
    <3>5. Green(r)'
      BY <1>23, <3>0 DEF FinishJob, Move, TypeOK, Good, Staged, Green, Ci, Cd, AllOk
    <3>6. Deploying(r)'
      BY <1>23, <3>0 DEF FinishJob, Move, TypeOK, Good, Staged, Deploying, Ci, Cd, AllOk
    <3> QED BY <2>2, <3>1, <3>2, <3>3, <3>4, <3>5, <3>6 DEF Good
  <2> QED BY <2>1, <2>2
<1>24. ASSUME NEW r \in Runs, NEW t \in Targets, TellGithub(r, t) PROVE Good(q)'
  <2>1. CASE q # r
    BY <1>24, <2>1, Frame DEF TellGithub, Move, TypeOK
  <2>2. CASE q = r
    <3>0. /\ at[r] # "report" /\ status[r] # "success"
          /\ t \in Ci(r) => \A u \in CdTargets : task[r][u] = "none"
      BY <1>24, Working DEF TellGithub, Move, Live
    <3>1. Unclaimed(r)'
      BY <1>24 DEF TellGithub, Move, TypeOK, Good, Unclaimed, Live, Before, Targets
    <3>2. Staged(r)'
      BY <1>24 DEF TellGithub, Move, TypeOK, Good, Staged, Ci, Live, Before, Targets
    <3>3. Concluded(r)'
      BY <1>24, <3>0 DEF TellGithub, Move, TypeOK, Good, Staged, Concluded, Ci, Cd, Deployable,
         AllOk
    <3>4. Told(r)'
      BY <1>24 DEF TellGithub, Move, TypeOK, Good, Told, Live, Before, Targets
    <3>5. Green(r)'
      BY <1>24, <3>0 DEF TellGithub, Move, TypeOK, Good, Staged, Green, Ci, Cd, AllOk
    <3>6. Deploying(r)'
      BY <1>24, <3>0 DEF TellGithub, Move, TypeOK, Good, Staged, Deploying, Ci, Cd, AllOk
    <3> QED BY <2>2, <3>1, <3>2, <3>3, <3>4, <3>5, <3>6 DEF Good
  <2> QED BY <2>1, <2>2
<1>25. ASSUME NEW r \in Runs, NEW t \in Targets, TaskRaises(r, t) PROVE Good(q)'
  <2>1. CASE q # r
    BY <1>25, <2>1, Frame DEF TaskRaises, TypeOK
  <2>2. CASE q = r
    <3>0. /\ at[r] # "report" /\ status[r] # "success"
          /\ t \in Ci(r) => \A u \in CdTargets : task[r][u] = "none"
      BY <1>25, Working DEF TaskRaises, Live
    <3>1. Unclaimed(r)'
      BY <1>25 DEF TaskRaises, TypeOK, Good, Unclaimed, Live, Before, Targets
    <3>2. Staged(r)'
      BY <1>25 DEF TaskRaises, TypeOK, Good, Staged, Ci, Live, Before, Targets
    <3>3. Concluded(r)'
      BY <1>25, <3>0 DEF TaskRaises, TypeOK, Good, Staged, Concluded, Ci, Cd, Deployable, AllOk
    <3>4. Told(r)'
      BY <1>25 DEF TaskRaises, TypeOK, Good, Told, Live, Before, Targets
    <3>5. Green(r)'
      BY <1>25, <3>0 DEF TaskRaises, TypeOK, Good, Staged, Green, Ci, Cd, AllOk
    <3>6. Deploying(r)'
      <4>1. /\ job' = job /\ trunk' = trunk /\ found' = found
            /\ \A u \in Targets : task'[r][u] # "none" => task[r][u] # "none"
        BY <1>25 DEF TaskRaises, TypeOK, Live
      <4> QED BY <4>1 DEF Good, Deploying, Ci, AllOk, Targets
    <3> QED BY <2>2, <3>1, <3>2, <3>3, <3>4, <3>5, <3>6 DEF Good
  <2> QED BY <2>1, <2>2
<1>26. ASSUME NEW r \in Runs, NEW t \in Targets, MonitorDies(r, t) PROVE Good(q)'
  BY <1>26, Frame DEF MonitorDies, TypeOK
<1>27. ASSUME NEW w \in Workers, FindStale(w) PROVE Good(q)'
  BY <1>27, Frame DEF FindStale, TypeOK
<1>28. ASSUME NEW w \in Workers, NEW r \in Runs, MarkCrashed(w, r) PROVE Good(q)'
  <2>1. CASE q # r
    BY <1>28, <2>1, Frame DEF MarkCrashed, FinishRun, TypeOK
  <2>2. CASE q = r
    <3>1. Unclaimed(r)'
      BY <1>28 DEF MarkCrashed, FinishRun, TypeOK, Good, Unclaimed
    <3>2. Staged(r)'
      BY <1>28 DEF MarkCrashed, FinishRun, TypeOK, Good, Staged, Ci
    <3>3. Concluded(r)'
      <4>1. /\ status'[r] = "crash" /\ at' = at /\ found' = found /\ task' = task
            /\ trunk' = trunk /\ job' = job
        BY <1>28 DEF MarkCrashed, FinishRun, TypeOK
      <4> QED BY <4>1 DEF Good, Concluded, Deployable, AllOk, Ci, Cd
    <3>4. Told(r)'
      BY <1>28 DEF MarkCrashed, FinishRun, TypeOK, Good, Told
    <3>5. Green(r)'
      BY <1>28 DEF MarkCrashed, FinishRun, TypeOK, Good, Green, Ci, Cd, AllOk
    <3>6. Deploying(r)'
      BY <1>28 DEF MarkCrashed, FinishRun, TypeOK, Good, Deploying, Ci, Cd, AllOk
    <3> QED BY <2>2, <3>1, <3>2, <3>3, <3>4, <3>5, <3>6 DEF Good
  <2> QED BY <2>1, <2>2
<1>29. ASSUME NEW w \in Workers, Crash(w) PROVE Good(q)'
  <2>1. CASE host[q] # w
    BY <1>29, <2>1, Frame DEF Crash, TypeOK
  <2>2. CASE host[q] = w
    <3>1. /\ at'[q] = "over" /\ status' = status /\ trunk' = trunk /\ claims' = claims
          /\ found' = found /\ job' = job /\ check' = check
          /\ \A t \in Targets :
                task'[q][t] = IF task[q][t] \in Live THEN "raised" ELSE task[q][t]
          /\ \A v \in Workers : stale'[v] \subseteq stale[v]
      BY <1>29, <2>2 DEF Crash, TypeOK
    <3>2. status[q] \notin {"none", "pending"}
      BY <2>2 DEF Good, Unclaimed
    <3>3. Unclaimed(q)'
      BY <3>1, <3>2 DEF Good, Unclaimed
    <3>4. Staged(q)'
      <4>1. ASSUME NEW t \in Targets, task[q][t] = "none" PROVE task'[q][t] = "none"
        BY <3>1, <4>1 DEF Live
      <4>2. ASSUME NEW t \in Targets, task'[q][t] = "none" PROVE task[q][t] = "none"
        BY <3>1, <4>2
      <4>3. ASSUME NEW t \in Targets, task[q][t] = "done" PROVE task'[q][t] = "done"
        BY <3>1, <4>3 DEF Live
      <4>4. Ci(q)' = Ci(q) /\ \A t \in Ci(q) : t \in Targets
        BY <3>1 DEF Ci, Targets
      <4>5. \A t \in CdTargets : t \in Targets
        BY DEF Targets
      <4> QED BY <3>1, <4>1, <4>2, <4>3, <4>4, <4>5 DEF Good, Staged, Before
    <3>5. Concluded(q)'
      BY <3>1, ZenonT(60) DEF Good, Concluded, Live, TypeOK
    <3>6. Told(q)'
      BY <3>1 DEF Good, Told
    <3>7. Green(q)' /\ Deploying(q)'
      BY <3>1 DEF Good, Green, Deploying, Ci, Cd, AllOk, Live, Targets
    <3> QED BY <3>3, <3>4, <3>5, <3>6, <3>7 DEF Good
  <2> QED BY <2>1, <2>2
<1>30. CASE UNCHANGED vars
  BY <1>30, Frame DEF vars
<1> QED
  BY <1>1, <1>2, <1>3, <1>4, <1>5, <1>6, <1>7, <1>8, <1>9, <1>10, <1>11, <1>12, <1>13, <1>14,
     <1>15, <1>16, <1>17, <1>18, <1>19, <1>20, <1>21, <1>22, <1>23, <1>24, <1>25, <1>26, <1>27,
     <1>28, <1>29, <1>30
  DEF Next, Execution, Task, Janitor

\* The inductive invariant of native CI.
THEOREM Invariance == Spec => []IInv
<1>1. Init => TypeOK
  BY CiAssumption DEF Init, TypeOK, Runs, Targets, Places, JobStates, CheckStates, TaskStates
<1>2. Init => \A r \in Runs : Good(r)
  BY DEF Init, Good, Unclaimed, Staged, Concluded, Told, Green, Deploying, Ci, Cd, Before, Targets
<1>3. IInv /\ [Next]_vars => IInv'
  BY TypeStep, GoodStep DEF IInv
<1> QED BY <1>1, <1>2, <1>3, PTL DEF Spec, IInv

\* The variables keep their types.
THEOREM TypeCorrect == Spec => []TypeOK
<1>1. IInv => TypeOK
  BY DEF IInv
<1> QED BY <1>1, Invariance, PTL

\* A green run is one whose every ci target succeeded, and every cd target on
\* the default branch.
THEOREM GreenCorrect == Spec => []GreenIsEarned
<1>1. IInv => GreenIsEarned
  BY DEF IInv, Good, Green, GreenIsEarned
<1> QED BY <1>1, Invariance, PTL

\* A deployment runs on the default branch only, and after the whole ci stage.
THEOREM DeployCorrect == Spec => []DeployAfterGreen
<1>1. IInv => DeployAfterGreen
  BY DEF IInv, Good, Deploying, DeployAfterGreen
<1> QED BY <1>1, Invariance, PTL

\* No run is executed twice, whatever dies and however leases lapse.
THEOREM OnceCorrect == Spec => []ExecutedOnce
<1>1. IInv => ExecutedOnce
  BY DEF IInv, Good, Unclaimed, ExecutedOnce
<1> QED BY <1>1, Invariance, PTL

\* GitHub never shows a verdict the job's row does not have.
THEOREM ChecksCorrect == Spec => []ChecksAgree
<1>1. IInv => ChecksAgree
  BY DEF IInv, Good, Told, ChecksAgree
<1> QED BY <1>1, Invariance, PTL
=============================================================================
