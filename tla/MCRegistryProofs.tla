--------------------------- MODULE MCRegistryProofs ---------------------------
(***************************************************************************)
(* What the instances of MCRegistry check, as theorems: for any callers and *)
(* storages, from the theorems of RegistryProofs about each instance.        *)
(***************************************************************************)
EXTENDS MCRegistry, RegistryProofs

-----------------------------------------------------------------------------
(* Each instance with the assumptions of Registry *)

LEMMA TwoNames ==
    {1, 2} \subseteq Nat \ {0} /\ IsFiniteSet({1, 2}) /\ \A T : Once!IsFiniteSet(T) <=> IsFiniteSet(T)
  <1>1. IsFiniteSet({1, 2})
    <2>1. IsFiniteSet({1})
      BY FS_Singleton
    <2>2. IsFiniteSet({1} \cup {2})
      BY <2>1, FS_AddElement
    <2>3. {1} \cup {2} = {1, 2}
      OBVIOUS
    <2>4. QED
      BY <2>2, <2>3
  <1>2. ASSUME NEW T PROVE Once!IsFiniteSet(T) <=> IsFiniteSet(T)
    BY Zenon DEF Once!IsFiniteSet, IsFiniteSet
  <1>3. QED
    BY <1>1, <1>2

LEMMA OnceAssumed == Once!RegistryAssumption /\ Once!NoneAssumption
  BY TwoNames, RegistryAssumption, InstancesAssumption DEF Once!RegistryAssumption, Once!NoneAssumption

LEMMA EarlyAssumed == Early!RegistryAssumption /\ Early!NoneAssumption
  <1>1. \A T : Early!IsFiniteSet(T) <=> IsFiniteSet(T)
    BY Zenon DEF Early!IsFiniteSet, IsFiniteSet
  <1>2. Early!NoneAssumption
    BY NoneAssumption DEF Early!NoneAssumption, Early!Manifest, Early!MountRecord, Early!State, Early!Task,
       Manifest, MountRecord, State, Task
  <1>3. QED
    BY <1>1, <1>2, RegistryAssumption DEF Early!RegistryAssumption

LEMMA ClosingAssumed == Closing!RegistryAssumption /\ Closing!NoneAssumption
  <1>1. \A T : Closing!IsFiniteSet(T) <=> IsFiniteSet(T)
    BY Zenon DEF Closing!IsFiniteSet, IsFiniteSet
  <1>2. Closing!NoneAssumption
    BY InstancesAssumption DEF Closing!NoneAssumption, Closing!Manifest, Closing!MountRecord, Closing!State,
       Closing!Task, Once!Manifest, Once!MountRecord, Once!State, Once!Task
  <1>3. QED
    BY <1>1, <1>2, TwoNames, RegistryAssumption, InstancesAssumption DEF Closing!RegistryAssumption

-----------------------------------------------------------------------------
(* Each instance runs its own specification *)

LEMMA BaseRuns == AllSpec => Spec \/ [](~(instance = "all"))
  <1>1. AllInit /\ instance = "all" => Init
    BY DEF AllInit
  <1>2. instance = "all" /\ [AllNext]_<<vars, instance>>
        => [Next]_vars /\ (instance = "all")'
    BY DEF AllNext
  <1>3. ~(instance = "all") /\ [AllNext]_<<vars, instance>> => (~(instance = "all"))'
    BY DEF AllNext
  <1>4. QED
    BY <1>1, <1>2, <1>3, PTL DEF AllSpec, Spec

LEMMA EarlyRuns == AllSpec => Early!Spec \/ [](~(instance = "early"))
  <1>1. AllInit /\ instance = "early" => Early!Init
    BY DEF AllInit
  <1>2. instance = "early" /\ [AllNext]_<<vars, instance>>
        => [Early!Next]_(Early!vars) /\ (instance = "early")'
    BY DEF AllNext, vars, Early!vars, callVars, Early!callVars
  <1>3. ~(instance = "early") /\ [AllNext]_<<vars, instance>> => (~(instance = "early"))'
    BY DEF AllNext
  <1>4. QED
    BY <1>1, <1>2, <1>3, PTL DEF AllSpec, Early!Spec

LEMMA OnceRuns == AllSpec => Once!Spec \/ [](~(instance = "once"))
  <1>1. AllInit /\ instance = "once" => Once!Init
    BY DEF AllInit
  <1>2. instance = "once" /\ [AllNext]_<<vars, instance>>
        => [Once!Next]_(Once!vars) /\ (instance = "once")'
    BY DEF AllNext, vars, Once!vars, callVars, Once!callVars
  <1>3. ~(instance = "once") /\ [AllNext]_<<vars, instance>> => (~(instance = "once"))'
    BY DEF AllNext
  <1>4. QED
    BY <1>1, <1>2, <1>3, PTL DEF AllSpec, Once!Spec

LEMMA ClosingRuns == AllSpec => Closing!Spec \/ [](~(instance = "closing"))
  <1>1. AllInit /\ instance = "closing" => Closing!Init
    BY DEF AllInit
  <1>2. instance = "closing" /\ [AllNext]_<<vars, instance>>
        => [Closing!Next]_(Closing!vars) /\ (instance = "closing")'
    BY DEF AllNext, vars, Closing!vars, callVars, Closing!callVars
  <1>3. ~(instance = "closing") /\ [AllNext]_<<vars, instance>> => (~(instance = "closing"))'
    BY DEF AllNext
  <1>4. QED
    BY <1>1, <1>2, <1>3, PTL DEF AllSpec, Closing!Spec

-----------------------------------------------------------------------------
(* What holds in each instance *)

\* Creates, connects and removes that overlap register an id once and a
\* storage once.  OnceRegisteredOnce (connect.go:186-188, databases.go:484-488).
THEOREM OverlapsRegisterOnce == AllSpec => []OnceRegisteredOnce
  <1>1. Once!KeepsIds
    BY DEF Once!KeepsIds
  <1>2. Once!Spec => []Once!RegisteredOnce
    BY <1>1, OnceAssumed, Once!RegistersOnce
  <1>3. QED
    BY <1>2, OnceRuns, PTL DEF OnceRegisteredOnce

\* What is listed as mounted is served, also when requests come before the
\* boot has mounted everything, with any number of callers, requests and
\* edits: for one database whatever people edit, and for any number of them
\* when they only delete manifests.  AllMountedIsServed (databases.go:36-43).
THEOREM MountedIsServedByAll ==
  ASSUME KeepsIds
  PROVE  AllSpec => []AllMountedIsServed
  <1>1. Early!KeepsIds
    BY DEF Early!KeepsIds, KeepsIds
  <1>2. Early!Spec => []Early!MountedIsServed
    BY <1>1, EarlyAssumed, Early!MountedStaysServed
  <1>3. Spec => []MountedIsServed
    BY MountedStaysServed
  <1>4. QED
    BY <1>2, <1>3, BaseRuns, EarlyRuns, PTL DEF AllMountedIsServed

\* A closed registry serves nothing once nothing is in progress, whichever
\* removes and reloads outlive the shutdown.  ClosingServesNothing
\* (databases.go:365-379).
THEOREM ClosingEmpties == AllSpec => []ClosingServesNothing
  <1>1. Closing!KeepsIds /\ {"remove", "reload", "reloadAll"} \cap {"create", "connect"} = {}
    BY DEF Closing!KeepsIds
  <1>2. Closing!Spec => []Closing!OneAtWork
    BY ClosingAssumed, InstancesAssumption, Closing!SingleCaller
  <1>3. Closing!Spec /\ []Closing!OneAtWork => []Closing!ClosedServesNothing
    BY <1>1, ClosingAssumed, Closing!ClosedIsEmpty
  <1>4. QED
    BY <1>2, <1>3, ClosingRuns, PTL DEF ClosingServesNothing
=============================================================================
