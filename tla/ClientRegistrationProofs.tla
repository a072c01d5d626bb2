---------------------- MODULE ClientRegistrationProofs ----------------------
(***************************************************************************)
(* Proofs about the client-registration pipeline, for every set of builds *)
(* and every bound: the state stays well-typed, and the proxy is only ever *)
(* deployed with the credentials of a client the provider registered.      *)
(* DeployedWithRegisteredClient is inductive together with TypeOK: a build *)
(* leaves the registration loop only with the answer of a POST that        *)
(* created a client, and clients are never removed.                        *)
(*                                                                         *)
(* The second part shows that the pipeline implements ClientRegistry.  It  *)
(* rests on RInv: the provider's ids are dense, so the next one is new,    *)
(* and a build's answer is unset until its registration ends.              *)
(***************************************************************************)
EXTENDS ClientRegistration, FiniteSetTheorems, TLAPS

USE ConstantsAssumption

(* The strengthening: a build has no failed deploy before its deploy     *)
(* stage, and one still deploying has a retry left.                        *)
DeployTriesLeft ==
    \A b \in Build :
        /\ phase[b] \in {"discovery", "build", "register"} => tries[b] = 0
        /\ phase[b] = "deploy" => tries[b] < DeployTries

IInv == TypeOK /\ DeployedWithRegisteredClient /\ DeployTriesLeft

(* The provider holds finitely many clients. *)
LEMMA ClientsFinite ==
    ASSUME TypeOK
    PROVE  IsFiniteSet(clients) /\ Cardinality(clients) \in Nat
<1>1. IsFiniteSet(ClientId)
  BY FS_Interval DEF ClientId
<1>2. IsFiniteSet(clients)
  BY <1>1, FS_Subset DEF TypeOK
<1>3. QED
  BY <1>2, FS_CardinalityType

(* The id the provider hands out next is a client id while the bound on   *)
(* clients is not reached.                                                 *)
LEMMA NewClientType ==
    ASSUME TypeOK, Cardinality(clients) < MaxClients
    PROVE  NewClient \in ClientId
BY ClientsFinite DEF NewClient, ClientId

LEMMA InitIInv == Init => IInv
<1> SUFFICES ASSUME Init PROVE IInv
  OBVIOUS
<1>1. TypeOK
  BY DEF Init, TypeOK, Phase, ClientId, NoClient
<1>2. DeployedWithRegisteredClient
  BY DEF Init, DeployedWithRegisteredClient, NoClient
<1>3. DeployTriesLeft
  BY DEF Init, DeployTriesLeft
<1>4. QED
  BY <1>1, <1>2, <1>3 DEF IInv

(* The steps that only move a build to its next stage or fail it. *)
LEMMA StageStepIInv ==
    ASSUME IInv, NEW b \in Build,
           CheckDiscovery(b) \/ SourceAndBuild(b) \/ RegisterTimeout(b)
             \/ UpdateProxy(b)
    PROVE  IInv'
BY DEF IInv, TypeOK, DeployedWithRegisteredClient, DeployTriesLeft, Phase,
       CheckDiscovery,
       SourceAndBuild, RegisterTimeout, UpdateProxy, Fail

LEMMA RegisterAttemptIInv ==
    ASSUME IInv, NEW b \in Build, RegisterAttempt(b)
    PROVE  IInv'
<1>1. CASE /\ Cardinality(clients) < MaxClients
           /\ clients' = clients \cup {NewClient}
           /\ response' = [response EXCEPT ![b] = NewClient]
           /\ phase' = [phase EXCEPT ![b] = "deploy"]
           /\ UNCHANGED sleeps
  <2>1. NewClient \in ClientId
    BY <1>1, NewClientType DEF IInv
  <2>2. QED
    BY <1>1, <2>1 DEF IInv, TypeOK, DeployedWithRegisteredClient, Phase,
                      DeployTriesLeft, RegisterAttempt
<1>2. CASE /\ sleeps' = [sleeps EXCEPT ![b] = @ + 1]
           /\ UNCHANGED <<clients, response, phase>>
  BY <1>2 DEF IInv, TypeOK, DeployedWithRegisteredClient, DeployTriesLeft,
               RegisterAttempt
<1>3. CASE /\ Cardinality(clients) < MaxClients
           /\ clients' = clients \cup {NewClient}
           /\ sleeps' = [sleeps EXCEPT ![b] = @ + 1]
           /\ UNCHANGED <<response, phase>>
  <2>1. NewClient \in ClientId
    BY <1>3, NewClientType DEF IInv
  <2>2. QED
    BY <1>3, <2>1 DEF IInv, TypeOK, DeployedWithRegisteredClient,
                      DeployTriesLeft, RegisterAttempt
<1>4. QED
  BY <1>1, <1>2, <1>3 DEF RegisterAttempt

LEMMA DeployToPaaSIInv ==
    ASSUME IInv, NEW b \in Build, DeployToPaaS(b)
    PROVE  IInv'
<1>1. response[b] \in clients
  BY DEF IInv, DeployedWithRegisteredClient, DeployToPaaS
<1>2. CASE /\ app' = response[b]
           /\ phase' = [phase EXCEPT ![b] =
                          IF GatewayBranch \notin {"none", "master"} THEN "proxy"
                                                                 ELSE "done"]
           /\ UNCHANGED tries
  BY <1>1, <1>2 DEF IInv, TypeOK, DeployedWithRegisteredClient,
                    DeployTriesLeft, Phase, DeployToPaaS
<1>3. CASE /\ app' \in {app, response[b]}
           /\ tries' = [tries EXCEPT ![b] = @ + 1]
           /\ IF tries[b] + 1 = DeployTries THEN Fail(b) ELSE UNCHANGED phase
  <2>1. tries[b] + 1 \in 1..DeployTries
    BY DEF IInv, TypeOK, DeployTriesLeft, DeployToPaaS
  <2>2. CASE tries[b] + 1 = DeployTries
    BY <1>1, <1>3, <2>1, <2>2 DEF IInv, TypeOK, DeployedWithRegisteredClient,
                                  DeployTriesLeft, Phase, DeployToPaaS, Fail
  <2>3. CASE tries[b] + 1 # DeployTries
    BY <1>1, <1>3, <2>1, <2>3 DEF IInv, TypeOK, DeployedWithRegisteredClient,
                                  DeployTriesLeft, DeployToPaaS
  <2>4. QED
    BY <2>2, <2>3
<1>4. QED
  BY <1>2, <1>3 DEF DeployToPaaS

(* No step of a build breaks the invariant. *)
LEMMA NextIInv == IInv /\ [Next]_vars => IInv'
<1> SUFFICES ASSUME IInv, [Next]_vars PROVE IInv'
  OBVIOUS
<1>1. CASE \E b \in Build : BuildStep(b)
  BY <1>1, StageStepIInv, RegisterAttemptIInv, DeployToPaaSIInv DEF BuildStep
<1>2. CASE UNCHANGED vars
  BY <1>2 DEF vars, IInv, TypeOK, DeployedWithRegisteredClient, DeployTriesLeft
<1>3. QED
  BY <1>1, <1>2 DEF Next

(* The pipeline's state stays well-typed in every build: in particular a   *)
(* build never counts more deploy failures than retry(DeployTries) allows *)
(* nor more sleeps than fit in the registration timeout.                   *)
THEOREM TypeCorrect == Spec => []TypeOK
<1>1. IInv => TypeOK
  BY DEF IInv
<1>2. QED
  BY <1>1, InitIInv, NextIInv, PTL DEF Spec

(* For every number of builds and every bound, the proxy is deployed, and  *)
(* the application runs, only with the credentials of a client the         *)
(* provider registered: registerOIDCClient leaves its loop only with the   *)
(* answer of a POST that created a client, and its timeout fails the       *)
(* build before parseOIDCCreds could read a null response.                 *)
THEOREM DeployedWithRegisteredClientHolds == Spec => []DeployedWithRegisteredClient
<1>1. IInv => DeployedWithRegisteredClient
  BY DEF IInv
<1>2. QED
  BY <1>1, InitIInv, NextIInv, PTL DEF Spec

-----------------------------------------------------------------------------
(* The refinement of ClientRegistry.  Freshness of each new client needs   *)
(* the provider's ids to be handed out densely, and "a build holds no      *)
(* credentials before its registration ends" needs the answer to be unset *)
(* until then.                                                             *)

ClientsDense == clients = 1..Cardinality(clients)

ResponseUnset ==
    \A b \in Build :
        phase[b] \in {"discovery", "build", "register"} => response[b] = NoClient

RInv == IInv /\ ClientsDense /\ ResponseUnset

(* The provider's next id is not a client it holds. *)
LEMMA NewClientFresh ==
    ASSUME TypeOK, ClientsDense
    PROVE  NewClient \notin clients
<1>1. Cardinality(clients) \in Nat
  BY ClientsFinite
<1>2. QED
  BY <1>1 DEF ClientsDense, NewClient

(* Adding the next id keeps the ids dense. *)
LEMMA AddNewClientDense ==
    ASSUME TypeOK, ClientsDense, clients' = clients \cup {NewClient}
    PROVE  ClientsDense'
<1> DEFINE n == Cardinality(clients)
<1>1. n \in Nat
  BY ClientsFinite
<1>2. clients' = 1..(n + 1)
  BY <1>1 DEF ClientsDense, NewClient
<1>3. Cardinality(1..(n + 1)) = n + 1
  BY <1>1, FS_Interval
<1>4. QED
  BY <1>2, <1>3 DEF ClientsDense

LEMMA InitRInv == Init => RInv
<1> SUFFICES ASSUME Init PROVE RInv
  OBVIOUS
<1>1. ClientsDense
  BY FS_EmptySet DEF Init, ClientsDense
<1>2. QED
  BY <1>1, InitIInv DEF Init, RInv, ResponseUnset, NoClient

LEMMA RInvNext == RInv /\ [Next]_vars => RInv'
<1> SUFFICES ASSUME RInv, [Next]_vars PROVE RInv'
  OBVIOUS
<1>1. IInv'
  BY NextIInv DEF RInv
<1>2. TypeOK
  BY DEF RInv, IInv
<1>3. ClientsDense'
  <2>1. CASE clients' = clients
    BY <2>1 DEF RInv, ClientsDense
  <2>2. CASE clients' = clients \cup {NewClient}
    BY <2>2, <1>2, AddNewClientDense DEF RInv
  <2>3. QED
    BY <2>1, <2>2 DEF Next, BuildStep, CheckDiscovery, SourceAndBuild,
       RegisterAttempt, RegisterTimeout, DeployToPaaS, UpdateProxy, vars
<1>4. ResponseUnset'
  <2> SUFFICES ASSUME NEW b \in Build, [Next]_vars,
                      phase'[b] \in {"discovery", "build", "register"}
               PROVE  response'[b] = NoClient
    BY DEF ResponseUnset
  <2>1. CASE UNCHANGED vars
    BY <2>1 DEF vars, RInv, ResponseUnset
  <2>2. CASE \E b2 \in Build : BuildStep(b2)
    <3>1. PICK b2 \in Build : BuildStep(b2)
      BY <2>2
    <3>2. CASE b2 = b
      BY <3>1, <3>2, <1>2 DEF BuildStep, CheckDiscovery, SourceAndBuild,
         RegisterAttempt, RegisterTimeout, DeployToPaaS, UpdateProxy, Fail,
         RInv, ResponseUnset, TypeOK
    <3>3. CASE b2 # b
      BY <3>1, <3>3, <1>2 DEF BuildStep, CheckDiscovery, SourceAndBuild,
         RegisterAttempt, RegisterTimeout, DeployToPaaS, UpdateProxy, Fail,
         RInv, ResponseUnset, TypeOK
    <3>4. QED
      BY <3>2, <3>3
  <2>3. QED
    BY <2>1, <2>2 DEF Next
<1>5. QED
  BY <1>1, <1>3, <1>4 DEF RInv

(* Each turn of the registration loop is a registration that hands its    *)
(* build the credentials, one whose answer is lost, or a refusal that      *)
(* changes nothing the registry sees.                                      *)
LEMMA RegisterAttemptRefines ==
    ASSUME RInv, NEW b \in Build, RegisterAttempt(b)
    PROVE  [CR!Next]_<<clients, response, app>>
<1>1. TypeOK /\ ClientsDense /\ response[b] = NoClient
  BY DEF RInv, IInv, ResponseUnset, RegisterAttempt
<1>2. Cardinality(clients) < MaxClients => NewClient \in ClientId
  BY <1>1, NewClientType
<1>3. NewClient \notin clients
  BY <1>1, NewClientFresh
<1>4. CASE /\ Cardinality(clients) < MaxClients
           /\ clients' = clients \cup {NewClient}
           /\ response' = [response EXCEPT ![b] = NewClient]
  <2>1. CR!Issue(b, NewClient)
    BY <1>1, <1>3, <1>4 DEF CR!Issue, RegisterAttempt
  <2>2. QED
    BY <1>2, <1>4, <2>1 DEF CR!Next
<1>5. CASE UNCHANGED <<clients, response>>
  BY <1>5 DEF RegisterAttempt
<1>6. CASE /\ Cardinality(clients) < MaxClients
           /\ clients' = clients \cup {NewClient}
           /\ UNCHANGED response
  <2>1. CR!Register(NewClient)
    BY <1>3, <1>6 DEF CR!Register, RegisterAttempt
  <2>2. QED
    BY <1>2, <1>6, <2>1 DEF CR!Next
<1>7. QED
  BY <1>4, <1>5, <1>6 DEF RegisterAttempt

(* A deploy pushes the credentials its own build holds, or leaves the     *)
(* application alone when it failed before the push.                       *)
LEMMA DeployToPaaSRefines ==
    ASSUME RInv, NEW b \in Build, DeployToPaaS(b)
    PROVE  [CR!Next]_<<clients, response, app>>
<1>1. response[b] \in clients /\ TypeOK
  BY DEF RInv, IInv, DeployedWithRegisteredClient, DeployToPaaS
<1>2. response[b] # NoClient
  BY <1>1 DEF TypeOK, ClientId, NoClient
<1>3. CASE app' = response[b]
  <2>1. CR!Deploy(b)
    BY <1>2, <1>3 DEF CR!Deploy, DeployToPaaS
  <2>2. QED
    BY <2>1 DEF CR!Next
<1>4. CASE app' = app
  BY <1>4 DEF DeployToPaaS
<1>5. QED
  BY <1>3, <1>4 DEF DeployToPaaS

LEMMA RegStep == RInv /\ [Next]_vars => [CR!Next]_<<clients, response, app>>
<1> SUFFICES ASSUME RInv, [Next]_vars
             PROVE  [CR!Next]_<<clients, response, app>>
  OBVIOUS
<1>1. CASE \E b \in Build : RegisterAttempt(b)
  BY <1>1, RegisterAttemptRefines
<1>2. CASE \E b \in Build : DeployToPaaS(b)
  BY <1>2, DeployToPaaSRefines
<1>3. CASE \E b \in Build : CheckDiscovery(b) \/ SourceAndBuild(b)
                           \/ RegisterTimeout(b) \/ UpdateProxy(b)
  BY <1>3 DEF CheckDiscovery, SourceAndBuild, RegisterTimeout, UpdateProxy
<1>4. CASE UNCHANGED vars
  BY <1>4 DEF vars
<1>5. QED
  BY <1>1, <1>2, <1>3, <1>4 DEF Next, BuildStep

(* For every number of concurrent builds and every bound, the pipeline    *)
(* implements ClientRegistry: every client the provider registers is new, *)
(* a build holds the credentials of at most one client (one it            *)
(* registered), and the application is deployed only with credentials a   *)
(* build holds.  Hence no two concurrent builds hold the same client, and  *)
(* a build never registers again once it has an answer (as it would       *)
(* without the "return true" of the waitUntil closure, line 182).          *)
THEOREM RegistrationRefinement == Spec => RegistrationRefinesRegistry
<1>1. Init => CR!Init
  BY DEF Init, CR!Init, NoClient
<1>2. QED
  BY <1>1, InitRInv, RInvNext, RegStep, PTL
  DEF Spec, RegistrationRefinesRegistry, CR!Spec, CR!rvars

=============================================================================
