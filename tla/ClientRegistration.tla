------------------------- MODULE ClientRegistration -------------------------
(***************************************************************************)
(* The CI pipeline of keycloak-proxy (src/unnamed/part_000, a Jenkinsfile) *)
(* as far as it changes state outside the build: each build that is not a  *)
(* pull request registers a fresh OIDC client at the provider              *)
(* (registerOIDCClient, lines 164-191), deploys the proxy with that        *)
(* client's credentials (retry(2) { deployToPaaS }, lines 71-78) and, on a *)
(* feature gateway branch, updates the nginx proxy (lines 80-90).          *)
(*                                                                         *)
(* The registration is a waitUntil loop inside timeout(5): a POST that     *)
(* throws (transport error, or a status outside 100-399) sleeps 30 s and   *)
(* is tried again; the timeout interrupts the loop, the POST in flight     *)
(* included, and fails the build.  A POST can fail after the provider has  *)
(* created the client (the answer is lost), and the provider's clients     *)
(* are never deleted.  Several builds of the branch may run at once: the   *)
(* pipeline sets no disableConcurrentBuilds, and they share the provider   *)
(* and the deployed application.                                           *)
(***************************************************************************)
EXTENDS Naturals, FiniteSets

CONSTANTS
    Build,          \* builds of the same branch, possibly concurrent
    MaxClients,     \* clients the provider may create in a behaviour
    MaxSleeps,      \* 30 s sleeps that fit in timeout(5): 10 in the code
    DeployTries,    \* the count of retry(...) around deployToPaaS: 2 in the code
    IsPR,           \* BRANCH_NAME.startsWith('PR-')
    GatewayBranch   \* GATEWAY_BRANCH: "none" (empty), "master" or a feature

ASSUME ConstantsAssumption ==
    /\ Build # {}
    /\ MaxClients \in Nat
    /\ MaxSleeps \in Nat
    /\ DeployTries \in Nat \ {0}
    /\ IsPR \in BOOLEAN
    /\ GatewayBranch \in {"none", "master", "feature"}

ClientId == 1..MaxClients
NoClient == 0                  \* response still null, or no app deployed

(* The stages a build goes through, in the order of the pipeline. *)
Phase == {"discovery", "build", "register", "deploy", "proxy", "done", "failed"}

VARIABLES
    phase,      \* the stage each build is in
    sleeps,     \* 30 s sleeps each build's registration loop has taken
    response,   \* the client each build's registration answer named
    tries,      \* failed deployToPaaS attempts of each build
    clients,    \* provider: the clients registered so far
    app         \* PaaS: the client the deployed application runs with

vars == <<phase, sleeps, response, tries, clients, app>>

TypeOK ==
    /\ phase \in [Build -> Phase]
    /\ sleeps \in [Build -> 0..MaxSleeps]
    /\ response \in [Build -> {NoClient} \cup ClientId]
    /\ tries \in [Build -> 0..DeployTries]
    /\ clients \subseteq ClientId
    /\ app \in {NoClient} \cup ClientId

Init ==
    /\ phase = [b \in Build |-> "discovery"]
    /\ sleeps = [b \in Build |-> 0]
    /\ response = [b \in Build |-> NoClient]
    /\ tries = [b \in Build |-> 0]
    /\ clients = {}
    /\ app = NoClient

(* A client the provider creates now: the next unused id. *)
NewClient == Cardinality(clients) + 1

Fail(b) == phase' = [phase EXCEPT ![b] = "failed"]

-----------------------------------------------------------------------------
(* Lines 17-28: GET the discovery URL; an error is rethrown and fails the  *)
(* build.                                                                  *)
CheckDiscovery(b) ==
    /\ phase[b] = "discovery"
    /\ \/ phase' = [phase EXCEPT ![b] = "build"]
       \/ Fail(b)
    /\ UNCHANGED <<sleeps, response, tries, clients, app>>

(* Lines 30-44 and 57: checkout and make (either may fail the build); a    *)
(* pull-request build ends here, any other goes on to the Deploy stage.    *)
SourceAndBuild(b) ==
    /\ phase[b] = "build"
    /\ \/ phase' = [phase EXCEPT ![b] = IF IsPR THEN "done" ELSE "register"]
       \/ Fail(b)
    /\ UNCHANGED <<sleeps, response, tries, clients, app>>

(* Bug variant of RegisterAttempt: the POST accepts any status           *)
(* (validResponseCodes widened), so a refusal ends the loop and           *)
(* parseOIDCCreds reads a client_id of null.                              *)
RegisterAttemptAcceptingErrors(b) ==
    /\ phase[b] = "register"
    /\ sleeps[b] < MaxSleeps
    /\ \/ /\ Cardinality(clients) < MaxClients
          /\ clients' = clients \cup {NewClient}
          /\ response' = [response EXCEPT ![b] = NewClient]
          /\ phase' = [phase EXCEPT ![b] = "deploy"]
          /\ UNCHANGED sleeps
       \/ /\ phase' = [phase EXCEPT ![b] = "deploy"]
          /\ UNCHANGED <<clients, response, sleeps>>
       \/ /\ Cardinality(clients) < MaxClients
          /\ clients' = clients \cup {NewClient}
          /\ sleeps' = [sleeps EXCEPT ![b] = @ + 1]
          /\ UNCHANGED <<response, phase>>
    /\ UNCHANGED <<tries, app>>

(* Bug variant of RegisterAttempt: the closure lacks "return true" after  *)
(* the POST, so waitUntil runs it again after a success; the answer is     *)
(* overwritten by the next registration.                                   *)
RegisterAttemptWithoutReturn(b) ==
    /\ phase[b] = "register"
    /\ sleeps[b] < MaxSleeps
    /\ \/ /\ Cardinality(clients) < MaxClients
          /\ clients' = clients \cup {NewClient}
          /\ response' = [response EXCEPT ![b] = NewClient]
          /\ UNCHANGED <<sleeps, phase>>
       \/ /\ sleeps' = [sleeps EXCEPT ![b] = @ + 1]
          /\ UNCHANGED <<clients, response, phase>>
       \/ /\ Cardinality(clients) < MaxClients
          /\ clients' = clients \cup {NewClient}
          /\ sleeps' = [sleeps EXCEPT ![b] = @ + 1]
          /\ UNCHANGED <<response, phase>>
    /\ UNCHANGED <<tries, app>>

(* One turn of the waitUntil loop (lines 173-187): the POST either creates *)
(* a client and answers with its credentials, which parseOIDCCreds reads   *)
(* (line 190) before the deploy; or throws, after which the loop sleeps    *)
(* 30 s and returns false.  It throws without a client when the provider   *)
(* refuses, and after creating one when the answer is lost.                *)
RegisterAttempt(b) ==
    /\ phase[b] = "register"
    /\ sleeps[b] < MaxSleeps
    /\ \/ /\ Cardinality(clients) < MaxClients
          /\ clients' = clients \cup {NewClient}
          /\ response' = [response EXCEPT ![b] = NewClient]
          /\ phase' = [phase EXCEPT ![b] = "deploy"]
          /\ UNCHANGED sleeps
       \/ /\ sleeps' = [sleeps EXCEPT ![b] = @ + 1]
          /\ UNCHANGED <<clients, response, phase>>
       \/ /\ Cardinality(clients) < MaxClients
          /\ clients' = clients \cup {NewClient}
          /\ sleeps' = [sleeps EXCEPT ![b] = @ + 1]
          /\ UNCHANGED <<response, phase>>
    /\ UNCHANGED <<tries, app>>

(* Bug variant of RegisterTimeout: no timeout around the loop. *)
RegisterTimeoutMissing(b) ==
    /\ phase[b] = "register"
    /\ FALSE
    /\ UNCHANGED vars

(* timeout(5) (lines 172-188) fires: the loop is interrupted wherever it   *)
(* is (a POST may hang until then), and the exception fails the build      *)
(* before parseOIDCCreds is reached.  After MaxSleeps sleeps the deadline  *)
(* has passed and this is the only way out.                                *)
RegisterTimeout(b) ==
    /\ phase[b] = "register"
    /\ Fail(b)
    /\ UNCHANGED <<sleeps, response, tries, clients, app>>

(* Bug variant of DeployToPaaS: the retry never gives up. *)
DeployToPaaSRetryForever(b) ==
    /\ phase[b] = "deploy"
    /\ \/ /\ app' = response[b]
          /\ phase' = [phase EXCEPT ![b] =
                         IF GatewayBranch \notin {"none", "master"} THEN "proxy"
                                                                ELSE "done"]
          /\ UNCHANGED tries
       \/ /\ app' \in {app, response[b]}
          /\ tries' = [tries EXCEPT ![b] = @ + 1]
          /\ UNCHANGED phase
    /\ UNCHANGED <<sleeps, response, clients>>

(* retry(DeployTries) { deployToPaaS(appName) } (lines 75-77, 112-140)    *)
(* with the registered credentials in the environment.  The script may    *)
(* fail before or after it has pushed the application; after DeployTries  *)
(* failures the build fails.  On success a feature gateway branch goes on *)
(* to updateProxy (lines 80-84).                                           *)
DeployToPaaS(b) ==
    /\ phase[b] = "deploy"
    /\ \/ /\ app' = response[b]
          /\ phase' = [phase EXCEPT ![b] =
                         IF GatewayBranch \notin {"none", "master"} THEN "proxy"
                                                                ELSE "done"]
          /\ UNCHANGED tries
       \/ /\ app' \in {app, response[b]}
          /\ tries' = [tries EXCEPT ![b] = @ + 1]
          /\ IF tries[b] + 1 = DeployTries THEN Fail(b) ELSE UNCHANGED phase
    /\ UNCHANGED <<sleeps, response, clients>>

(* updateProxy (lines 84, 142-153): the update-proxy script; its failure   *)
(* fails the build after the deploy has happened.                          *)
UpdateProxy(b) ==
    /\ phase[b] = "proxy"
    /\ \/ phase' = [phase EXCEPT ![b] = "done"]
       \/ Fail(b)
    /\ UNCHANGED <<sleeps, response, tries, clients, app>>

BuildStep(b) ==
    \/ CheckDiscovery(b)
    \/ SourceAndBuild(b)
    \/ RegisterAttempt(b)
    \/ RegisterTimeout(b)
    \/ DeployToPaaS(b)
    \/ UpdateProxy(b)

Next == \E b \in Build : BuildStep(b)

(* Jenkins runs every step of a running build, and the timeout's timer     *)
(* fires: weak fairness of each build's steps.                             *)
Fairness == \A b \in Build : WF_vars(BuildStep(b))

Spec == Init /\ [][Next]_vars /\ Fairness

-----------------------------------------------------------------------------
(* Properties.                                                             *)

(* The proxy is deployed only with the credentials of a client the         *)
(* provider registered: no build reaches deployToPaaS or updateProxy, or   *)
(* ends a deploy, with a null or refused registration answer (this rests   *)
(* on httpRequest throwing for a status outside 100-399 and on the timeout *)
(* failing the build), and the application never runs an unknown client. *)
DeployedWithRegisteredClient ==
    /\ \A b \in Build :
          (phase[b] \in {"deploy", "proxy"} \/ (phase[b] = "done" /\ ~IsPR))
             => response[b] \in clients
    /\ app # NoClient => app \in clients

(* Every build ends, done or failed, however often the provider refuses   *)
(* or drops the registration POST: timeout(5) bounds the waitUntil loop,   *)
(* and retry(DeployTries) bounds the deploy.                               *)
BuildTerminates == \A b \in Build : <>(phase[b] \in {"done", "failed"})

(* registerOIDCClient registers one client per build: every client the    *)
(* provider holds is one whose credentials some build received, so none is *)
(* left registered (with its redirect URI to the app) and unused.         *)
NoOrphanClient == clients \subseteq {response[b] : b \in Build}

CR == INSTANCE ClientRegistry
        WITH ClientId <- ClientId, None <- NoClient,
             registry <- clients, issued <- response, deployed <- app

RegistrationRefinesRegistry == CR!Spec

=============================================================================
