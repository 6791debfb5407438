---------------------------- MODULE NetworkProofs ----------------------------
(***************************************************************************)
(* What the loop's timers and the three clients keep, they keep together:  *)
(* a step of MCNetwork is a step of one part and no step of any other.     *)
(***************************************************************************)
EXTENDS MCNetwork, ProtocolProofs, AsyncHttpClientProofs

LEMMA OneTurnInit == NetworkInit => TInit /\ HInit /\ KInit /\ MInit
BY DEF NetworkInit

LEMMA OneTurnSteps ==
    [NetworkNext]_<<part, tvars, hvars, kvars, mvars>> =>
        [TNext]_tvars /\ [HNext]_hvars /\ [KNext]_kvars /\ [MNext]_mvars
BY DEF NetworkNext, TimersTurn, HttpTurn, KcpTurn, MqttTurn

NetworkInv == TimersTyped /\ HttpTyped /\ PlacesInv /\ KcpTyped /\ MqttTyped /\ MInv

LEMMA NetworkInvInit == NetworkInit => NetworkInv
BY OneTurnInit, TimersTypedInit, HttpTypedInit, PlacesInit, KcpTypedInit, MqttTypedInit, MInvInit
   DEF NetworkInv

LEMMA NetworkInvNext ==
    NetworkInv /\ [NetworkNext]_<<part, tvars, hvars, kvars, mvars>> => NetworkInv'
<1> SUFFICES ASSUME NetworkInv, [NetworkNext]_<<part, tvars, hvars, kvars, mvars>>
             PROVE  NetworkInv'
  OBVIOUS
<1>1. [TNext]_tvars /\ [HNext]_hvars /\ [KNext]_kvars /\ [MNext]_mvars
  BY OneTurnSteps
<1>2. TimersTyped' /\ KcpTyped'
  BY <1>1, TimersTypedNext, KcpTypedNext DEF NetworkInv
<1>3. HttpTyped' /\ PlacesInv'
  BY <1>1, HttpTypedNext, PlacesNext DEF NetworkInv
<1>4. MqttTyped' /\ MInv'
  BY <1>1, MqttTypedNext, MInvNext DEF NetworkInv
<1> QED
  BY <1>2, <1>3, <1>4 DEF NetworkInv

(* The variables of the timers, of AsyncHttpClient, of KCP and of the MQTT   *)
(* client hold what their code takes them to hold, with the bounds of        *)
(* counts, windows and sequence numbers, whatever the network and the users  *)
(* do and even when callbacks misuse the timers.                             *)
THEOREM NetworkTypeCorrect == NetworkSpec => []NetworkTypesOK
<1>1. NetworkInv => NetworkTypesOK
  <2> SUFFICES ASSUME NetworkInv PROVE NetworkTypesOK
    OBVIOUS
  <2>1. TTypeOK /\ MTypeOK
    BY DEF NetworkInv, TimersTyped, MqttTyped
  <2>2. HTypeOK
    BY HttpTypedOK DEF NetworkInv
  <2>3. KTypeOK
    BY KcpTypedOK DEF NetworkInv
  <2> QED
    BY <2>1, <2>2, <2>3 DEF NetworkTypesOK
<1> QED
  BY <1>1, NetworkInvInit, NetworkInvNext, PTL DEF NetworkSpec

(* And what they promise, given callbacks that use the timers with care.     *)
THEOREM NetworkKeepsPromises ==
    ASSUME ~Careless
    PROVE  NetworkSpec => [](/\ SafeDelete /\ TimersSound
                             /\ RequestsSound /\ OnePlace
                             /\ WholeOnceInOrder /\ NoneForgotten /\ PacketsSound)
<1>1. NetworkInv => RequestsSound /\ OnePlace
  <2> SUFFICES ASSUME NetworkInv PROVE RequestsSound /\ OnePlace
    OBVIOUS
  <2>1. RequestsSound
    BY RequestsFollow DEF NetworkInv, HttpTyped
  <2>2. OnePlace
    BY DEF NetworkInv, PlacesInv, PlaceTypes, OnePlace
  <2> QED
    BY <2>1, <2>2
<1>2. NetworkInv => WholeOnceInOrder /\ NoneForgotten /\ PacketsSound
  BY WholeFollows DEF NetworkInv, KcpTyped, WholeInv, KInv, MInv
<1>3. NetworkInit => TInv /\ CountersExact
  BY OneTurnInit, TInvInit, CountsInit
<1>4. TInv /\ CountersExact /\ [NetworkNext]_<<part, tvars, hvars, kvars, mvars>>
      => TInv' /\ CountersExact'
  BY OneTurnSteps, TInvNext, CountsKept
<1>5. TInv /\ CountersExact => SafeDelete /\ TimersSound
  BY DeletionFollows, BooksFollow DEF TimersSound
<1> QED
  BY <1>1, <1>2, <1>3, <1>4, <1>5, NetworkInvInit, NetworkInvNext, PTL DEF NetworkSpec
=============================================================================
