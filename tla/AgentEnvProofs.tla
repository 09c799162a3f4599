---------------------------- MODULE AgentEnvProofs ----------------------------
(***************************************************************************)
(* Services and tasks of the agent match, for any number of registrations  *)
(* and modules, as long as no two goroutines add a service at once.        *)
(*                                                                         *)
(* A service is added in four steps.  The map is a service ahead of the    *)
(* tasks between the second and the last, so what holds is said of the one *)
(* that is adding: which of these steps it is before, and that its copy of *)
(* the slice of tasks is the slice.                                        *)
(***************************************************************************)
EXTENDS AgentEnv, FiniteSetTheorems, SequenceTheorems, TLAPS

MainPlaces == {"register", "environ", "loaded", "run"}
RequestPlaces == {"idle", "done"}

(* TypeOK, with where each actor may be.                                   *)
AgentTypes ==
    /\ TypeOK
    /\ at \in [Actors -> MainPlaces \cup RequestPlaces \cup Adding]
    /\ \A r \in Requests : at[r] \notin MainPlaces
    /\ slice \in [Actors -> Seq(Actors)]
    /\ IsFiniteSet(DOMAIN sutMap)
    /\ config \in BOOLEAN /\ raced \in BOOLEAN

(* There is a task for each module of S, and no other.                     *)
TasksAreOf(S) ==
    /\ {ModuleOf[tasks[i]] : i \in DOMAIN tasks} = S
    /\ Len(tasks) = Cardinality(S)

AllIdle == \A p \in Actors : at[p] \notin Adding

(* Without a race one actor at most is adding, and what it adds is all that*)
(* is missing.                                                             *)
AddedInOrder ==
    ~raced =>
        /\ \A p, q \in Actors : at[p] \in Adding /\ at[q] \in Adding => p = q
        /\ \A p \in Actors :
              /\ at[p] = "absent" => Key(p) \notin DOMAIN sutMap
                                     /\ TasksAreOf(DOMAIN sutMap)
              /\ at[p] \in {"added", "appending"} =>
                    Key(p) \in DOMAIN sutMap /\ TasksAreOf(DOMAIN sutMap \ {Key(p)})
              /\ at[p] = "appending" => slice[p] = tasks
        /\ AllIdle => TasksAreOf(DOMAIN sutMap)

AgentInv == AgentTypes /\ AddedInOrder

-----------------------------------------------------------------------------
(* Main is an actor, and no request.                                       *)
LEMMA MainIsActor == Main \in Actors /\ Main \notin Requests /\ Requests \subseteq Actors
BY AgentAssumption DEF AgentAssumption, Actors

(* AddSUT moves its actor only.                                            *)
LEMMA AddSUTTypes ==
    ASSUME AgentTypes, NEW p \in Actors, at[p] \notin Adding, AddSUT(p)
    PROVE  AgentTypes'
<1>1. Returned(p) \in IF p = Main THEN {"loaded"} ELSE {"done"}
  BY DEF Returned
<1>2. PICK place \in {Returned(p), "absent"} : at' = [at EXCEPT ![p] = place]
  BY DEF AddSUT
<1>3. raced' \in BOOLEAN
  BY DEF AddSUT, AgentTypes
<1>4. TypeOK'
  BY <1>1, <1>2 DEF AddSUT, AgentTypes, TypeOK, Adding, MainPlaces, RequestPlaces,
     envVars, schedVars
<1>5. /\ at' \in [Actors -> MainPlaces \cup RequestPlaces \cup Adding]
      /\ \A r \in Requests : at'[r] \notin MainPlaces
  BY <1>1, <1>2, MainIsActor DEF AgentTypes, Adding, MainPlaces, RequestPlaces
<1> QED
  BY <1>3, <1>4, <1>5 DEF AddSUT, AgentTypes, envVars

(* TypeOK: each step keeps the types, and where each actor may be.         *)
LEMMA StepKeepsTypes == AgentTypes /\ [Next]_vars => AgentTypes'
<1> SUFFICES ASSUME AgentTypes, [Next]_vars PROVE AgentTypes'
  OBVIOUS
<1> USE MainIsActor
<1>1. ASSUME NEW r \in Requests, RegisterSUT(r) PROVE AgentTypes'
  <2>1. CASE AddSUT(r)
    BY <1>1, <2>1, AddSUTTypes DEF RegisterSUT, Adding
  <2>2. CASE ~AddSUT(r)
    <3>1. at' = [at EXCEPT ![r] = "done"] /\ UNCHANGED <<age, addVars, envVars, schedVars>>
          /\ at[r] = "idle"
      BY <1>1, <2>2 DEF RegisterSUT
    <3> QED
      BY <3>1 DEF AgentTypes, TypeOK, addVars, envVars, schedVars, Adding, MainPlaces,
         RequestPlaces
  <2> QED
    BY <2>1, <2>2
<1>2. ASSUME NEW p \in Actors, PutSut(p) PROVE AgentTypes'
  <2>1. IsFiniteSet(DOMAIN sutMap \cup {Key(p)})
    BY FS_AddElement DEF AgentTypes
  <2>2. /\ DOMAIN sutMap' = DOMAIN sutMap \cup {Key(p)}
        /\ \A m \in DOMAIN sutMap' : sutMap'[m] \in Actors /\ ModuleOf[sutMap'[m]] = m
    BY <1>2 DEF PutSut, AgentTypes, TypeOK, Key
  <2> QED
    BY <1>2, <2>1, <2>2 DEF PutSut, AgentTypes, TypeOK, envVars, schedVars, Adding, MainPlaces
<1>3. ASSUME NEW p \in Actors, OnSutAdded(p) PROVE AgentTypes'
  BY <1>3 DEF OnSutAdded, AgentTypes, TypeOK, envVars, schedVars, Adding, MainPlaces
<1>4. ASSUME NEW p \in Actors, AddTask(p) PROVE AgentTypes'
  <2>1. Returned(p) \in IF p = Main THEN {"loaded"} ELSE {"done"}
    BY DEF Returned
  <2>2. tasks' \in Seq(Actors) /\ <<>> \in Seq(Actors)
    BY <1>4 DEF AddTask, AgentTypes
  <2>3. age' \in [Actors -> 0..Interval]
    BY <1>4, AgentAssumption DEF AgentAssumption, AddTask, AgentTypes, TypeOK
  <2>4. /\ \A q \in Actors : at'[q] = "appending" \/ slice'[q] = <<>>
        /\ slice' \in [Actors -> Seq(Actors)]
        /\ at' \in [Actors -> MainPlaces \cup RequestPlaces \cup Adding]
        /\ \A r \in Requests : at'[r] \notin MainPlaces
    BY <1>4, <2>1, <2>2 DEF AddTask, AgentTypes, TypeOK, MainPlaces, RequestPlaces, Adding
  <2> QED
    BY <1>4, <2>2, <2>3, <2>4 DEF AddTask, AgentTypes, TypeOK, envVars, schedVars
<1>5. CASE RegistryAgentInfo
  <2>1. /\ at' \in [Actors -> MainPlaces \cup RequestPlaces \cup Adding]
        /\ \A q \in Actors : at'[q] = "appending" \/ slice[q] = <<>>
        /\ \A r \in Requests : at'[r] \notin MainPlaces
    BY <1>5 DEF RegistryAgentInfo, AgentTypes, TypeOK, MainPlaces, envVars
  <2>2. config' \in BOOLEAN /\ (config' <=> ossCli' # "none")
    <3>1. "made" # "none" /\ "failed" # "none"
      OBVIOUS
    <3>2. CASE UNCHANGED envVars
      BY <3>2 DEF AgentTypes, TypeOK, envVars
    <3>3. CASE config' = TRUE /\ ossCli' \in {"made", "failed"}
      BY <3>1, <3>3
    <3> QED
      BY <1>5, <3>2, <3>3 DEF RegistryAgentInfo
  <2> QED
    BY <1>5, <2>1, <2>2 DEF RegistryAgentInfo, AgentTypes, TypeOK, addVars, schedVars
<1>6. CASE LoadSut
  <2>1. CASE AddSUT(Main)
    BY <1>6, <2>1, AddSUTTypes DEF LoadSut, Adding
  <2>2. CASE ~AddSUT(Main)
    <3>1. /\ at[Main] = "environ" /\ at' = [at EXCEPT ![Main] = "loaded"]
          /\ UNCHANGED <<age, addVars, envVars, schedVars>>
      BY <1>6, <2>2 DEF LoadSut
    <3> QED
      BY <3>1 DEF AgentTypes, TypeOK, MainPlaces, addVars, envVars, schedVars
  <2> QED
    BY <2>1, <2>2
<1>7. CASE InitEnv
  BY <1>7 DEF InitEnv, AgentTypes, TypeOK, MainPlaces, addVars, envVars, schedVars
<1>8. CASE Second
  <2>1. age' \in [Actors -> 0..Interval]
    BY <1>8, AgentAssumption DEF AgentAssumption, Second, AgentTypes, TypeOK
  <2> QED
    BY <1>8, <2>1 DEF Second, AgentTypes, TypeOK, addVars, envVars
<1>9. CASE TakeTick \/ RunTask \/ PassTask \/ TaskEnds
  <2>1. round' \in Seq(Actors) /\ (running' => round' # <<>> /\ ~isFirstRun')
    <3>1. CASE TakeTick
      BY <1>9, <3>1 DEF TakeTick, AgentTypes, TypeOK
    <3>2. CASE RunTask
      BY <1>9, <3>2 DEF RunTask, Visiting, AgentTypes, TypeOK
    <3>3. CASE PassTask
      BY <1>9, <3>3, HeadTailProperties DEF PassTask, Visiting, AgentTypes, TypeOK
    <3>4. CASE TaskEnds
      <4>1. round # <<>> /\ round \in Seq(Actors)
        BY <3>4 DEF TaskEnds, AgentTypes, TypeOK
      <4>2. Tail(round) \in Seq(Actors)
        BY <4>1, HeadTailProperties
      <4> QED
        BY <3>4, <4>2 DEF TaskEnds
    <3> QED
      BY <1>9, <3>1, <3>2, <3>3, <3>4
  <2>2. age' \in [Actors -> 0..Interval]
    <3>1. age \in [Actors -> 0..Interval] /\ 0 \in 0..Interval
      BY AgentAssumption DEF AgentAssumption, AgentTypes, TypeOK
    <3>2. age' = age \/ age' = [age EXCEPT ![Head(round)] = 0]
      BY <1>9 DEF TakeTick, RunTask, PassTask, TaskEnds
    <3> QED
      BY <3>1, <3>2
  <2>3. UNCHANGED <<at, addVars, envVars>>
    BY <1>9 DEF TakeTick, RunTask, PassTask, TaskEnds
  <2> QED
    BY <2>1, <2>2, <2>3 DEF AgentTypes, TypeOK, addVars, envVars
<1>10. CASE DataRace \/ NoClient
  BY <1>10 DEF DataRace, NoClient, AgentTypes, TypeOK, addVars, envVars, schedVars
<1>11. CASE UNCHANGED vars
  BY <1>11 DEF vars, AgentTypes, TypeOK, addVars, envVars, schedVars
<1> QED
  BY <1>1, <1>2, <1>3, <1>4, <1>5, <1>6, <1>7, <1>8, <1>9, <1>10, <1>11
  DEF Next, AddStep, Load, Schedule, TaskReturns, TimePasses

(* At first nothing is registered.                                         *)
LEMMA InitTypes == AgentInit => AgentTypes
<1> SUFFICES ASSUME AgentInit PROVE AgentTypes
  OBVIOUS
<1>1. <<>> \in Seq(Actors) /\ DOMAIN <<>> = {} /\ IsFiniteSet({})
  BY FS_EmptySet
<1>2. 0 \in 0..Interval
  BY AgentAssumption DEF AgentAssumption
<1>3. config <=> ossCli # "none"
  BY DEF AgentInit
<1> QED
  BY <1>1, <1>2, <1>3, MainIsActor DEF AgentInit, AgentTypes, TypeOK, MainPlaces, RequestPlaces

(* TypeOK, of the agent.                                                   *)
THEOREM AgentTypeCorrect == Spec => []TypeOK
<1>1. AgentTypes => TypeOK
  BY DEF AgentTypes
<1> QED
  BY <1>1, InitTypes, StepKeepsTypes, PTL DEF Spec

-----------------------------------------------------------------------------
(* An actor looks its module up: it finds it, or it is the one to add it.  *)
LEMMA AddSUTKeeps ==
    ASSUME AgentInv, NEW p \in Actors, at[p] \notin Adding, AddSUT(p)
    PROVE  AddedInOrder'
<1> SUFFICES ASSUME ~raced' PROVE AddedInOrder'
  BY DEF AddedInOrder
<1>1. ~raced /\ \A q \in Actors : at[q] \notin Adding
  BY DEF AddSUT
<1>2. TasksAreOf(DOMAIN sutMap) /\ TasksAreOf(DOMAIN sutMap)'
  BY <1>1 DEF AgentInv, AddedInOrder, AllIdle, AddSUT, TasksAreOf
<1>3. /\ at'[p] \in IF Known(p) THEN {Returned(p)} ELSE {"absent"}
      /\ \A q \in Actors \ {p} : at'[q] = at[q]
  BY DEF AddSUT, AgentInv, AgentTypes
<1>4. Returned(p) \notin Adding
  BY DEF Returned, Adding
<1> QED
  BY <1>1, <1>2, <1>3, <1>4 DEF AddedInOrder, Adding, Known, Key, AddSUT

(* The map is a service ahead of the tasks.                                *)
LEMMA PutSutKeeps ==
    ASSUME AgentInv, NEW p \in Actors, PutSut(p)
    PROVE  AddedInOrder'
<1> SUFFICES ASSUME ~raced' PROVE AddedInOrder'
  BY DEF AddedInOrder
<1>1. /\ at[p] = "absent" /\ at' = [at EXCEPT ![p] = "added"]
      /\ UNCHANGED <<tasks, slice, raced>>
  BY DEF PutSut
<1>2. DOMAIN sutMap' = DOMAIN sutMap \cup {Key(p)}
  BY DEF PutSut
<1>3. Key(p) \notin DOMAIN sutMap /\ TasksAreOf(DOMAIN sutMap)
  BY <1>1 DEF AgentInv, AddedInOrder
<1>4. \A q \in Actors \ {p} : at'[q] = at[q] /\ at[q] \notin Adding
  BY <1>1 DEF AgentInv, AgentTypes, AddedInOrder, Adding
<1>5. at'[p] = "added"
  BY <1>1 DEF AgentInv, AgentTypes
<1>6. DOMAIN sutMap' \ {Key(p)} = DOMAIN sutMap
  BY <1>2, <1>3
<1>7. TasksAreOf(DOMAIN sutMap \ {Key(p)})'
  BY <1>1, <1>3, <1>6 DEF TasksAreOf, Key
<1> QED
  BY <1>2, <1>4, <1>5, <1>7 DEF AddedInOrder, Adding, AllIdle, Key

(* The slice is read.                                                      *)
LEMMA OnSutAddedKeeps ==
    ASSUME AgentInv, NEW p \in Actors, OnSutAdded(p)
    PROVE  AddedInOrder'
<1> SUFFICES ASSUME ~raced' PROVE AddedInOrder'
  BY DEF AddedInOrder
<1>1. /\ at[p] = "added" /\ at' = [at EXCEPT ![p] = "appending"]
      /\ slice' = [slice EXCEPT ![p] = tasks]
      /\ UNCHANGED <<tasks, sutMap, raced>>
  BY DEF OnSutAdded
<1>2. Key(p) \in DOMAIN sutMap /\ TasksAreOf(DOMAIN sutMap \ {Key(p)})
  BY <1>1 DEF AgentInv, AddedInOrder
<1>3. \A q \in Actors \ {p} : at'[q] = at[q] /\ at[q] \notin Adding
  BY <1>1 DEF AgentInv, AgentTypes, AddedInOrder, Adding
<1>4. at'[p] = "appending" /\ slice'[p] = tasks
  BY <1>1 DEF AgentInv, AgentTypes
<1>5. TasksAreOf(DOMAIN sutMap \ {Key(p)})'
  BY <1>1, <1>2 DEF TasksAreOf, Key
<1> QED
  BY <1>1, <1>2, <1>3, <1>4, <1>5 DEF AddedInOrder, Adding, AllIdle, Key

(* The task that was missing is there.                                     *)
LEMMA AddTaskKeeps ==
    ASSUME AgentInv, NEW p \in Actors, AddTask(p)
    PROVE  AddedInOrder'
<1> SUFFICES ASSUME ~raced' PROVE AddedInOrder'
  BY DEF AddedInOrder
<1>1. /\ at[p] = "appending" /\ at' = [at EXCEPT ![p] = Returned(p)]
      /\ tasks' = Append(slice[p], p)
      /\ UNCHANGED <<sutMap, raced>>
  BY DEF AddTask
<1>2. /\ Key(p) \in DOMAIN sutMap /\ TasksAreOf(DOMAIN sutMap \ {Key(p)})
      /\ slice[p] = tasks
  BY <1>1 DEF AgentInv, AddedInOrder
<1>3. \A q \in Actors : at'[q] \notin Adding
  <2>1. \A q \in Actors \ {p} : at'[q] = at[q] /\ at[q] \notin Adding
    BY <1>1 DEF AgentInv, AgentTypes, AddedInOrder, Adding
  <2>2. at'[p] = Returned(p) /\ Returned(p) \notin Adding
    BY <1>1 DEF AgentInv, AgentTypes, Returned, Adding
  <2> QED
    BY <2>1, <2>2
<1>4. TasksAreOf(DOMAIN sutMap)'
  <2>1. /\ tasks' = Append(tasks, p) /\ tasks \in Seq(Actors)
        /\ Len(tasks') = Len(tasks) + 1 /\ DOMAIN tasks' = DOMAIN tasks \cup {Len(tasks) + 1}
        /\ \A i \in DOMAIN tasks : tasks'[i] = tasks[i]
        /\ tasks'[Len(tasks) + 1] = p
    BY <1>1, <1>2 DEF AgentInv, AgentTypes, TypeOK
  <2>2. {ModuleOf[tasks'[i]] : i \in DOMAIN tasks'}
           = {ModuleOf[tasks[i]] : i \in DOMAIN tasks} \cup {Key(p)}
    BY <2>1 DEF Key
  <2>3. {ModuleOf[tasks[i]] : i \in DOMAIN tasks} \cup {Key(p)} = DOMAIN sutMap
    BY <1>2 DEF TasksAreOf
  <2>4. Cardinality(DOMAIN sutMap \ {Key(p)}) = Cardinality(DOMAIN sutMap) - 1
        /\ Cardinality(DOMAIN sutMap) \in Nat
    BY <1>2, FS_RemoveElement, FS_CardinalityType DEF AgentInv, AgentTypes
  <2>5. Len(tasks') = Cardinality(DOMAIN sutMap)
    <3>1. Len(tasks) = Cardinality(DOMAIN sutMap \ {Key(p)})
      BY <1>2 DEF TasksAreOf
    <3> QED
      BY <2>1, <2>4, <3>1
  <2> QED
    BY <1>1, <2>2, <2>3, <2>5 DEF TasksAreOf
<1> QED
  BY <1>3, <1>4 DEF AddedInOrder, Adding

(* A step of an actor that is not adding, and does not begin to, leaves all*)
(* that is said of services and tasks as it is.                            *)
LEMMA OthersKeep ==
    ASSUME AgentInv, UNCHANGED addVars,
           \A p \in Actors : at'[p] = at[p] \/ (at[p] \notin Adding /\ at'[p] \notin Adding)
    PROVE  AddedInOrder'
BY DEF AgentInv, AddedInOrder, addVars, TasksAreOf, AllIdle, Key, Adding

(* AgentInv is inductive.                                                  *)
LEMMA StepKeepsAgentInv == AgentInv /\ [Next]_vars => AgentInv'
<1> SUFFICES ASSUME AgentInv, [Next]_vars PROVE AddedInOrder'
  BY StepKeepsTypes DEF AgentInv
<1> USE MainIsActor
<1>1. ASSUME NEW r \in Requests, RegisterSUT(r) PROVE AddedInOrder'
  <2>1. CASE AddSUT(r)
    BY <1>1, <2>1, AddSUTKeeps DEF RegisterSUT, Adding
  <2>2. CASE ~AddSUT(r)
    <3>1. /\ at[r] = "idle" /\ at' = [at EXCEPT ![r] = "done"]
          /\ UNCHANGED addVars
      BY <1>1, <2>2 DEF RegisterSUT
    <3>2. \A p \in Actors : at'[p] = at[p] \/ (at[p] \notin Adding /\ at'[p] \notin Adding)
      BY <3>1 DEF AgentInv, AgentTypes, Adding
    <3> QED
      BY <3>1, <3>2, OthersKeep
  <2> QED
    BY <2>1, <2>2
<1>2. CASE RegistryAgentInfo \/ InitEnv \/ (LoadSut /\ ~AddSUT(Main))
  <2>1. UNCHANGED addVars /\ at[Main] \notin Adding
    BY <1>2 DEF RegistryAgentInfo, InitEnv, LoadSut, Adding
  <2>2. \E place \in MainPlaces : at' = [at EXCEPT ![Main] = place]
    BY <1>2 DEF RegistryAgentInfo, InitEnv, LoadSut, MainPlaces
  <2>3. \A p \in Actors : at'[p] = at[p] \/ (at[p] \notin Adding /\ at'[p] \notin Adding)
    BY <2>1, <2>2 DEF AgentInv, AgentTypes, MainPlaces, Adding
  <2> QED
    BY <2>1, <2>3, OthersKeep
<1>3. CASE LoadSut /\ AddSUT(Main)
  BY <1>3, AddSUTKeeps DEF LoadSut, Adding
<1>4. CASE UNCHANGED <<at, addVars>>
  BY <1>4, OthersKeep
<1> QED
  BY <1>1, <1>2, <1>3, <1>4, PutSutKeeps, OnSutAddedKeeps, AddTaskKeeps
  DEF Next, AddStep, Load, Schedule, TaskReturns, TimePasses, Second, TakeTick, RunTask,
      PassTask, TaskEnds, DataRace, NoClient, vars, addVars

(* TasksMatchSuts: every registered module has one task and no task is for *)
(* another module, between additions that were never made at once.         *)
THEOREM ServicesHaveTheirTask == Spec => []TasksMatchSuts
<1>1. AgentInit => AgentInv
  <2> SUFFICES ASSUME AgentInit PROVE AddedInOrder
    BY InitTypes DEF AgentInv
  <2>1. TasksAreOf(DOMAIN sutMap)
    BY FS_EmptySet DEF AgentInit, TasksAreOf
  <2>2. \A p \in Actors : at[p] \notin Adding
    BY DEF AgentInit, Adding
  <2> QED
    BY <2>1, <2>2 DEF AddedInOrder, Adding
<1>2. AgentInv => TasksMatchSuts
  BY DEF AgentInv, AddedInOrder, AllIdle, TasksAreOf, TasksMatchSuts
<1> QED
  BY <1>1, <1>2, StepKeepsAgentInv, PTL DEF Spec
=============================================================================
