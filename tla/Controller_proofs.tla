-------------------------- MODULE Controller_proofs -------------------------
(***************************************************************************)
(* What controller.c guarantees for any finite set of devices.             *)
(***************************************************************************)
EXTENDS Controller, FiniteSetTheorems, TLAPS

LEMMA ReadyFinite ==
  ASSUME NEW S \in SUBSET Devices
  PROVE  IsFiniteSet(S) /\ Cardinality(S) \in Nat
BY ControllerAssumption, FS_Subset, FS_CardinalityType

\* The inductive invariant: the count is bounded, and only an update takes
\* incoming connections away.
ControllerInv ==
  /\ TypeOK
  /\ connected_count <= Cardinality(ReadyDevices)
  /\ OpenUnlessUpdating
  /\ ~paused => incoming

LEMMA ControllerInvInit == Init => ControllerInv
<1> SUFFICES ASSUME Init PROVE ControllerInv
  OBVIOUS
<1>1. TypeOK /\ OpenUnlessUpdating /\ (~paused => incoming)
  BY ControllerAssumption DEF Init, TypeOK, DeviceStates, OpenUnlessUpdating
<1>2. connected_count <= Cardinality(ReadyDevices)
  <2>1. ReadyDevices \in SUBSET Devices
    BY DEF ReadyDevices
  <2>2. Cardinality(ReadyDevices) \in Nat
    BY <2>1, ReadyFinite
  <2> QED BY <2>2 DEF Init
<1> QED BY <1>1, <1>2 DEF ControllerInv

\* The count follows the devices that come and go.
LEMMA CountNext ==
  ASSUME ControllerInv, Next
  PROVE  connected_count' <= Cardinality(ReadyDevices')
<1> USE DEF ControllerInv
<1>1. ReadyDevices \in SUBSET Devices
  BY DEF ReadyDevices
<1>2. IsFiniteSet(ReadyDevices) /\ Cardinality(ReadyDevices) \in Nat /\ connected_count \in Nat
  BY <1>1, ReadyFinite DEF TypeOK
<1>3. CASE UNCHANGED <<device, connected_count>>
  <2>1. ReadyDevices' = ReadyDevices
    BY <1>3 DEF ReadyDevices
  <2> QED BY <1>3, <2>1
<1>4. ASSUME NEW d \in Devices, Connected(d) \/ RejectReady(d)
      PROVE  connected_count' <= Cardinality(ReadyDevices')
  <2>1. ReadyDevices' = ReadyDevices
    BY <1>4 DEF Connected, RejectReady, ReadyDevices, TypeOK, DeviceStates
  <2>2. connected_count' = connected_count
    BY <1>4 DEF Connected, RejectReady
  <2> QED BY <2>1, <2>2
<1>5. ASSUME NEW d \in Devices, Ready(d)
      PROVE  connected_count' <= Cardinality(ReadyDevices')
  <2>1. ReadyDevices' = ReadyDevices \cup {d} /\ d \notin ReadyDevices
    BY <1>5 DEF Ready, ReadyDevices, TypeOK, DeviceStates
  <2>2. Cardinality(ReadyDevices') = Cardinality(ReadyDevices) + 1
    BY <1>2, <2>1, FS_AddElement
  <2>3. connected_count' = connected_count + 1
    BY <1>5 DEF Ready
  <2> QED BY <1>2, <2>2, <2>3
<1>6. ASSUME NEW d \in Devices, Disconnected(d)
      PROVE  connected_count' <= Cardinality(ReadyDevices')
  <2>1. connected_count' = IF connected_count > 0 THEN connected_count - 1 ELSE 0
    BY <1>6 DEF Disconnected
  <2>2. ReadyDevices' = ReadyDevices \ {d}
    BY <1>6 DEF Disconnected, ReadyDevices, TypeOK, DeviceStates
  <2>3. CASE d \in ReadyDevices
    <3>1. Cardinality(ReadyDevices') = Cardinality(ReadyDevices) - 1
      BY <1>2, <2>2, <2>3, FS_RemoveElement
    <3>2. Cardinality(ReadyDevices') \in Nat
      BY <1>1, <2>2, ReadyFinite
    <3> QED BY <1>2, <2>1, <3>1, <3>2
  <2>4. CASE d \notin ReadyDevices
    <3>1. ReadyDevices' = ReadyDevices
      BY <2>2, <2>4
    <3> QED BY <1>2, <2>1, <3>1
  <2> QED BY <2>3, <2>4
<1>7. ASSUME NEW d \in Devices, NEW r \in Reports, ControllerData(d, r)
      PROVE  UNCHANGED <<device, connected_count>>
  BY <1>7 DEF ControllerData
<1>8. InitComplete \/ StatusTick \/ Pause \/ Resume => UNCHANGED <<device, connected_count>>
  BY DEF InitComplete, StatusTick, Pause, Resume
<1>9. CASE Restart
  <2>1. ReadyDevices' = {} /\ connected_count' = 0
    BY <1>9 DEF Restart, ReadyDevices
  <2> QED BY <2>1, FS_EmptySet
<1> QED BY <1>3, <1>4, <1>5, <1>6, <1>7, <1>8, <1>9 DEF Next

LEMMA TypeNext ==
  ASSUME TypeOK, [Next]_vars
  PROVE  TypeOK'
<1> USE ControllerAssumption DEF TypeOK, DeviceStates
<1>1. CASE InitComplete \/ StatusTick \/ Pause \/ Resume
  <2>1. led' \in BOOLEAN
    BY <1>1 DEF InitComplete, StatusTick, Pause, Resume
  <2> QED BY <1>1, <2>1 DEF InitComplete, StatusTick, Pause, Resume
<1>2. ASSUME NEW d \in Devices,
             Connected(d) \/ RejectReady(d) \/ Ready(d) \/ Disconnected(d)
      PROVE  TypeOK'
  <2>1. device' \in [Devices -> DeviceStates]
    BY <1>2 DEF Connected, RejectReady, Ready, Disconnected
  <2>2. connected_count' \in Nat /\ latest' \in Reports
    BY <1>2 DEF Connected, RejectReady, Ready, Disconnected
  <2> QED BY <1>2, <2>1, <2>2 DEF Connected, RejectReady, Ready, Disconnected
<1>3. ASSUME NEW d \in Devices, NEW r \in Reports, ControllerData(d, r)
      PROVE  TypeOK'
  BY <1>3 DEF ControllerData
<1>4. CASE UNCHANGED vars
  BY <1>4 DEF vars
<1>5. CASE Restart
  BY <1>5 DEF Restart
<1> QED BY <1>1, <1>2, <1>3, <1>4, <1>5 DEF Next

LEMMA OpenNext ==
  ASSUME OpenUnlessUpdating, ~paused => incoming, [Next]_vars
  PROVE  OpenUnlessUpdating' /\ (~paused' => incoming')
<1> USE DEF OpenUnlessUpdating
<1>1. CASE InitComplete
  BY <1>1 DEF InitComplete
<1>2. ASSUME NEW d \in Devices, NEW r \in Reports,
             \/ Connected(d) \/ RejectReady(d) \/ Ready(d) \/ Disconnected(d)
             \/ ControllerData(d, r)
      PROVE  OpenUnlessUpdating' /\ (~paused' => incoming')
  BY <1>2 DEF Connected, RejectReady, Ready, Disconnected, ControllerData
<1>3. CASE Pause \/ Resume \/ StatusTick \/ Restart \/ UNCHANGED vars
  BY <1>3 DEF Pause, Resume, StatusTick, Restart, vars
<1> QED BY <1>1, <1>2, <1>3, ControllerAssumption DEF Next

LEMMA ControllerInvNext == ControllerInv /\ [Next]_vars => ControllerInv'
<1> SUFFICES ASSUME ControllerInv, [Next]_vars PROVE ControllerInv'
  OBVIOUS
<1>1. TypeOK' /\ OpenUnlessUpdating' /\ (~paused' => incoming')
  BY TypeNext, OpenNext DEF ControllerInv
<1>2. (connected_count <= Cardinality(ReadyDevices))'
  <2>1. CASE Next
    BY <2>1, CountNext
  <2>2. CASE UNCHANGED vars
    BY <2>2 DEF vars, ReadyDevices, ControllerInv
  <2> QED BY <2>1, <2>2
<1> QED BY <1>1, <1>2 DEF ControllerInv

\* The state of controller.c keeps its type.
THEOREM ControllerTypeCorrect == Spec => []TypeOK
<1>1. ControllerInv => TypeOK
  BY DEF ControllerInv
<1> QED BY <1>1, ControllerInvInit, ControllerInvNext, PTL DEF Spec

\* Without a ready device there is no input.
LEMMA NobodyNoInput ==
  ASSUME ControllerInv, ReadyDevices = {}
  PROVE  controller_latest = NoPad
<1>1. Cardinality(ReadyDevices) = 0
  BY FS_EmptySet
<1>2. connected_count = 0
  BY <1>1 DEF ControllerInv, TypeOK
<1> QED BY <1>2 DEF controller_latest, controller_connected

\* controller_connected() and controller_latest() never report a controller
\* when none is ready.
THEOREM ControllerNoPhantom == Spec => []NoPhantomController
<1>1. ControllerInv => NoPhantomController
  BY NobodyNoInput DEF ControllerInv, NoPhantomController
<1> QED BY <1>1, ControllerInvInit, ControllerInvNext, PTL DEF Spec

\* Whatever updates come and go, the car that is not being updated lets a
\* controller in.
THEOREM ControllerOpen == Spec => []OpenUnlessUpdating
<1>1. ControllerInv => OpenUnlessUpdating
  BY DEF ControllerInv
<1> QED BY <1>1, ControllerInvInit, ControllerInvNext, PTL DEF Spec

\* No controller joins a car that is being updated.
THEOREM ControllerNobodyJoins == Spec => NobodyJoinsAnUpdate
<1> DEFINE A == paused => /\ ReadyDevices' \subseteq ReadyDevices
                          /\ connected_count' <= connected_count
<1>1. ASSUME ControllerInv, Next PROVE A
  <2> SUFFICES ASSUME paused PROVE A
    OBVIOUS
  <2>1. connected_count \in Nat
    BY <1>1 DEF ControllerInv, TypeOK
  <2>2. CASE UNCHANGED <<device, connected_count>>
    BY <2>1, <2>2 DEF ReadyDevices
  <2>3. ASSUME NEW d \in Devices, Connected(d) \/ RejectReady(d)
        PROVE  A
    <3>1. connected_count' = connected_count
      BY <2>3 DEF Connected, RejectReady
    <3>2. ReadyDevices' \subseteq ReadyDevices
      BY <1>1, <2>3
      DEF Connected, RejectReady, ReadyDevices, ControllerInv, TypeOK, DeviceStates
    <3> QED BY <2>1, <3>1, <3>2
  <2>4. ASSUME NEW d \in Devices, Disconnected(d)
        PROVE  A
    <3>1. connected_count' <= connected_count
      BY <2>1, <2>4 DEF Disconnected
    <3>2. ReadyDevices' \subseteq ReadyDevices
      BY <1>1, <2>4 DEF Disconnected, ReadyDevices, ControllerInv, TypeOK, DeviceStates
    <3> QED BY <3>1, <3>2
  <2>5. ASSUME NEW d \in Devices, Ready(d)
        PROVE  FALSE
    BY <2>5 DEF Ready
  <2>6. ASSUME NEW d \in Devices, NEW r \in Reports, ControllerData(d, r)
        PROVE  UNCHANGED <<device, connected_count>>
    BY <2>6 DEF ControllerData
  <2>7. InitComplete \/ StatusTick \/ Pause \/ Resume => UNCHANGED <<device, connected_count>>
    BY DEF InitComplete, StatusTick, Pause, Resume
  <2>8. CASE Restart
    <3>1. ReadyDevices' = {} /\ connected_count' = 0
      BY <2>8 DEF Restart, ReadyDevices
    <3> QED BY <2>1, <3>1
  <2> QED BY <1>1, <2>2, <2>3, <2>4, <2>5, <2>6, <2>7, <2>8 DEF Next
<1> HIDE DEF A
<1>2. ControllerInv /\ [Next]_vars => [A]_vars
  BY <1>1
<1>3. Spec => [][A]_vars
  BY <1>2, ControllerInvInit, ControllerInvNext, PTL DEF Spec
<1> QED BY <1>3 DEF NobodyJoinsAnUpdate, A
=============================================================================
