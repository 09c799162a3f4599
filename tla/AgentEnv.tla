------------------------------- MODULE AgentEnv -------------------------------
(***************************************************************************)
(* The agent: services under test register at its server, or one is named  *)
(* in its environment; each gets a periodic task.  The main goroutine loads*)
(* the environment until it is ready and then runs the tasks that are due, *)
(* one after the other, at each tick.  The map of services and the slice of*)
(* tasks are shared by all of them without a lock.                         *)
(*                                                                         *)
(* What a task does is the subject of SystestUpload.                       *)
(***************************************************************************)
EXTENDS Naturals, Sequences, FiniteSets

CONSTANTS
    Requests,   \* RegisterSUT requests
    ModuleOf,   \* their modules, and MODULE of the environment
    Main,       \* the main goroutine
    Interval    \* seconds between two runs of a task

ASSUME AgentAssumption == Main \notin Requests /\ Interval \in Nat \ {0}

Actors == Requests \cup {Main}

VARIABLES
    at,         \* where each actor is
    sutMap,     \* the services by module: who registered each
    tasks,      \* the slice of tasks, each by who added it
    slice,      \* the slice as each actor last read it
    age,        \* seconds since the last run of each task, up to Interval
    environ,    \* the environment names a service
    config,     \* the server's OSS configuration is known
    ossCli,     \* "none", "made", or "failed" for one that cannot be made
    isFirstRun, tick,   \* the scheduler's flag and its ticker
    round,      \* the tasks it has yet to visit at this tick
    running,    \* it runs the first of them
    alive,      \* the process did not die
    raced       \* history: two actors added services at once

envVars == <<environ, config, ossCli>>
addVars == <<sutMap, tasks, slice, raced>>
schedVars == <<isFirstRun, tick, round, running>>
vars == <<at, age, alive, envVars, addVars, schedVars>>

Adding == {"absent", "added", "appending"}

AgentInit ==
    /\ at = [p \in Actors |-> IF p = Main THEN "register" ELSE "idle"]
    /\ sutMap = <<>> /\ tasks = <<>> /\ slice = [p \in Actors |-> <<>>]
    /\ age = [p \in Actors |-> 0]
    /\ environ \in BOOLEAN
    /\ config = FALSE /\ ossCli = "none"
    /\ isFirstRun = TRUE /\ tick = FALSE /\ round = <<>> /\ running = FALSE
    /\ alive = TRUE /\ raced = FALSE

(***************************************************************************)
(* AddSUT, in a request's goroutine or in the main one.                    *)
(***************************************************************************)
KeyByActor(p) == p

Key(p) == ModuleOf[p]

Unknown(p) == FALSE

Known(p) == Key(p) \in DOMAIN sutMap

Returned(p) == IF p = Main THEN "loaded" ELSE "done"

AddSUT(p) ==
    /\ at' = [at EXCEPT ![p] = IF Known(p) THEN Returned(p) ELSE "absent"]
    /\ raced' = (raced \/ \E q \in Actors \ {p} : at[q] \in Adding)
    /\ UNCHANGED <<sutMap, tasks, slice, age, envVars, schedVars>>

(* Without build information the request is refused.                       *)
RegisterSUT(r) ==
    /\ at[r] = "idle"
    /\ \/ AddSUT(r)
       \/ at' = [at EXCEPT ![r] = "done"] /\ UNCHANGED <<age, addVars, envVars, schedVars>>

PutSut(p) ==
    /\ at[p] = "absent"
    /\ sutMap' = [m \in DOMAIN sutMap \cup {Key(p)} |->
                     IF m = Key(p) THEN p ELSE sutMap[m]]
    /\ at' = [at EXCEPT ![p] = "added"]
    /\ UNCHANGED <<tasks, slice, raced, age, envVars, schedVars>>

(* OnSutAdded and AddTask append to the slice: read it, then write it.     *)
OnSutAdded(p) ==
    /\ at[p] = "added"
    /\ slice' = [slice EXCEPT ![p] = tasks]
    /\ at' = [at EXCEPT ![p] = "appending"]
    /\ UNCHANGED <<sutMap, tasks, raced, age, envVars, schedVars>>

AddTask(p) ==
    /\ at[p] = "appending"
    /\ tasks' = Append(slice[p], p)
    /\ slice' = [slice EXCEPT ![p] = <<>>]
    /\ age' = [age EXCEPT ![p] = 0]
    /\ at' = [at EXCEPT ![p] = Returned(p)]
    /\ UNCHANGED <<sutMap, raced, envVars, schedVars>>

(* Go stops a program that writes a map which is read or written meanwhile;*)
(* a slice read then may have the new length and the old array.            *)
DataRace ==
    /\ \E p, q \in Actors : /\ p # q /\ at[p] \in Adding
                            /\ at[q] \in Adding \cup {"idle", "environ", "run"}
    /\ alive' = FALSE
    /\ UNCHANGED <<at, age, envVars, addVars, schedVars>>

(***************************************************************************)
(* Init and Reload of the environment, in the main goroutine.              *)
(***************************************************************************)
(* A failure is logged, and the rest of Reload is left out.  A client that *)
(* cannot be made is not made later.                                       *)
RegistryAgentInfo ==
    /\ at[Main] = "register"
    /\ \/ /\ ~config /\ config' = TRUE
          /\ ossCli' \in {"made", "failed"}
          /\ UNCHANGED environ
          /\ at' = [at EXCEPT ![Main] = "environ"]
       \/ config /\ at' = [at EXCEPT ![Main] = "environ"] /\ UNCHANGED envVars
       \/ ~config /\ at' = [at EXCEPT ![Main] = "loaded"] /\ UNCHANGED envVars
    /\ UNCHANGED <<age, addVars, schedVars>>

(* A service of the environment, unless one is there, if all is set.       *)
LoadSut ==
    /\ at[Main] = "environ"
    /\ \/ sutMap = <<>> /\ environ /\ AddSUT(Main)
       \/ /\ sutMap # <<>> \/ ~environ
          /\ at' = [at EXCEPT ![Main] = "loaded"]
          /\ UNCHANGED <<age, addVars, envVars, schedVars>>

IsReady == config /\ sutMap # <<>>

InitEnvOnce ==
    /\ at[Main] = "loaded"
    /\ at' = [at EXCEPT ![Main] = IF IsReady THEN "run" ELSE "end"]
    /\ UNCHANGED <<age, addVars, envVars, schedVars>>

(* Ready, the scheduler runs; else every ten seconds it is loaded again.   *)
InitEnv ==
    /\ at[Main] = "loaded"
    /\ at' = [at EXCEPT ![Main] = IF IsReady THEN "run" ELSE "register"]
    /\ UNCHANGED <<age, addVars, envVars, schedVars>>

(***************************************************************************)
(* Run of the scheduler, in the main goroutine.                            *)
(***************************************************************************)
(* The ticker's channel holds one tick.                                    *)
Second ==
    /\ tick' = TRUE
    /\ age' = [p \in Actors |-> IF age[p] < Interval THEN age[p] + 1 ELSE age[p]]
    /\ UNCHANGED <<at, addVars, envVars, isFirstRun, round, running>>

(* The range over the tasks is over the slice as it is now.                *)
TakeTick ==
    /\ at[Main] = "run" /\ tick /\ round = <<>>
    /\ tick' = FALSE
    /\ round' = tasks
    /\ UNCHANGED <<at, age, addVars, envVars, isFirstRun, running>>

IsDue(p) == isFirstRun \/ age[p] = Interval

Visiting == round # <<>> /\ ~running

RunTask ==
    /\ Visiting /\ IsDue(Head(round))
    /\ isFirstRun' = FALSE
    /\ running' = TRUE
    /\ UNCHANGED <<at, age, addVars, envVars, tick, round>>

PassTaskAsRun ==
    /\ Visiting /\ ~IsDue(Head(round))
    /\ round' = Tail(round)
    /\ age' = [age EXCEPT ![Head(round)] = 0]
    /\ UNCHANGED <<at, addVars, envVars, tick, isFirstRun, running>>

PassTask ==
    /\ Visiting /\ ~IsDue(Head(round))
    /\ round' = Tail(round)
    /\ UNCHANGED <<at, age, addVars, envVars, tick, isFirstRun, running>>

TaskEnds ==
    /\ running
    /\ running' = FALSE
    /\ age' = [age EXCEPT ![Head(round)] = 0]
    /\ round' = Tail(round)
    /\ UNCHANGED <<at, addVars, envVars, tick, isFirstRun>>

(* A task that has to put a full coverage calls the client.                *)
NoClient ==
    /\ running /\ ossCli # "made"
    /\ alive' = FALSE
    /\ UNCHANGED <<at, age, envVars, addVars, schedVars>>

-----------------------------------------------------------------------------
AddStep(p) == alive /\ (PutSut(p) \/ OnSutAdded(p) \/ AddTask(p)) /\ UNCHANGED alive
Load == alive /\ (RegistryAgentInfo \/ LoadSut \/ InitEnv) /\ UNCHANGED alive
Schedule == alive /\ (TakeTick \/ RunTask \/ PassTask) /\ UNCHANGED alive
TaskReturns == alive /\ TaskEnds /\ UNCHANGED alive
TimePasses == alive /\ Second /\ UNCHANGED alive

Next ==
    \/ \E r \in Requests : alive /\ RegisterSUT(r) /\ UNCHANGED alive
    \/ \E p \in Actors : AddStep(p)
    \/ Load
    \/ Schedule
    \/ TaskReturns
    \/ TimePasses
    \/ alive /\ (DataRace \/ NoClient)

(* Goroutines run and time passes.  No call has a time limit: that tasks   *)
(* return, and that the server answers, is not assumed.                    *)
Fairness ==
    /\ \A p \in Actors : WF_vars(AddStep(p))
    /\ WF_vars(Load) /\ WF_vars(Schedule) /\ WF_vars(TimePasses)

Spec == AgentInit /\ [][Next]_vars /\ Fairness

-----------------------------------------------------------------------------
InTasks(p) == \E i \in DOMAIN tasks : tasks[i] = p

(* Types.                                                                  *)
TypeOK ==
    /\ \A p \in Actors : at[p] = "appending" \/ slice[p] = <<>>
    /\ \A m \in DOMAIN sutMap : sutMap[m] \in Actors /\ ModuleOf[sutMap[m]] = m
    /\ tasks \in Seq(Actors) /\ round \in Seq(Actors)
    /\ age \in [Actors -> 0..Interval]
    /\ running => round # <<>> /\ ~isFirstRun
    /\ config <=> ossCli # "none"

(* Every registered module has one task, and no task is for another: when  *)
(* nobody is adding one, and services were never added by two actors at    *)
(* once - the map's check and the slice's append have no lock.             *)
TasksMatchSuts ==
    ~raced /\ (\A p \in Actors : at[p] \notin Adding) =>
        /\ {ModuleOf[tasks[i]] : i \in DOMAIN tasks} = DOMAIN sutMap
        /\ Len(tasks) = Cardinality(DOMAIN sutMap)

(* With a service, of its environment or registered, the agent gets to run *)
(* its tasks if the server answers once, however often it did not before.  *)
GetsReady == <>config => (environ \/ sutMap # <<>> ~> at[Main] = "run" \/ ~alive)

(* A task runs again and again, however long the others take, if each of   *)
(* them returns - so long as it is not lost to a race and the process lives.*)
TasksRunAgain ==
    []<>~running =>
        \A p \in Actors :
            InTasks(p) /\ at[Main] = "run" ~>
                ~InTasks(p) \/ ~alive \/ (running /\ Head(round) = p)
=============================================================================
