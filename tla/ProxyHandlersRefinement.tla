------------------------ MODULE ProxyHandlersRefinement ------------------------
(***************************************************************************)
(* The flow handlers implement the abstract store contract: Spec =>        *)
(* SS!Spec, where SS is SessionStore with the session tokens as keys, the  *)
(* store as its entries and the logged-out sessions as its closed ones.    *)
(*                                                                         *)
(* The step that needs an argument is the callback's put (lines 182-186): *)
(* SessionStore allows it only for a session that is not closed and has   *)
(* no entry.  The callback writes under a token of the pair it has just    *)
(* redeemed, and the strengthening SInv says that no logged-out session    *)
(* and no store entry belongs to a pair that is not yet active; for        *)
(* logged-out sessions this needs the same of the requests in flight,      *)
(* since logout closes the session its request carries.                   *)
(***************************************************************************)
EXTENDS ProxyHandlersProofs

USE ConstantsAssumption

ReqActive ==
    \A r \in reqs : r.acc # NoToken => pairSt[r.acc.p] = "active"

LoggedOutActive == \A t \in loggedOut : pairSt[t.p] = "active"

StoreActive == \A t \in Token : store[t] # 0 => pairSt[t.p] = "active"

SInv == IInv /\ ReqActive /\ LoggedOutActive /\ StoreActive

(* What a step may do to the store and the logged-out sessions: nothing,   *)
(* the callback's put under a token of the pair it redeems, a logout of    *)
(* the session a request carries, or the delete of a scheduled entry.      *)
StoreShape ==
    \/ UNCHANGED <<store, loggedOut>>
    \/ \E c \in PairId, tok \in Token :
          /\ pairSt[c] = "code" /\ pairSt'[c] = "active" /\ tok.p = c
          /\ store' = [store EXCEPT ![tok] = c]
          /\ UNCHANGED loggedOut
    \/ \E r \in reqs :
          /\ r.acc \in Token
          /\ loggedOut' = loggedOut \cup {r.acc}
          /\ UNCHANGED store
    \/ \E t \in deletes :
          /\ store' = [store EXCEPT ![t] = 0]
          /\ UNCHANGED loggedOut

(* Every request in flight after a step was in flight before, or carries  *)
(* the kc-access cookie of a jar.                                          *)
ReqsFromJars == \A q \in reqs' : q \in reqs \/ \E b \in Browser : q.acc = jar[b].acc

Shape == PairsForward /\ ReqsFromJars /\ StoreShape

-----------------------------------------------------------------------------
(* The shape of each action. *)

LEMMA SendShape ==
    ASSUME NEW b \in Browser, NEW op, NEW code, NEW st, NEW u, NEW cred,
           NEW redirect, Send(b, op, code, st, u, cred, redirect),
           UNCHANGED <<idpVars, proxyVars, browserVars, histVars>>
    PROVE  Shape
BY DEF Send, Shape, PairsForward, ReqsFromJars, StoreShape, idpVars, proxyVars,
       browserVars, histVars

LEMMA BrowserStepShape ==
    ASSUME IInv, NEW b \in Browser, BrowserStep(b)
    PROVE  Shape
<1>1. CASE \E s \in StateParam, u \in User : ProviderSignIn(b, s, u)
  <2>1. PICK s \in StateParam, u \in User : ProviderSignIn(b, s, u)
    BY <1>1
  <2>2. npairs + 1 \in PairId /\ pairSt[npairs + 1] = "free"
    <3>1. npairs < MaxPairs /\ npairs \in 0..MaxPairs
      BY <2>1 DEF ProviderSignIn, IInv, TypeOK
    <3>2. npairs + 1 \in PairId /\ npairs + 1 > npairs
      BY <3>1 DEF PairId
    <3>3. QED
      BY <3>2 DEF IInv, IssuedInOrder
  <2>3. PairsForward
    BY <2>1, <2>2 DEF ProviderSignIn, PairsForward, IInv, TypeOK
  <2>4. ReqsFromJars /\ StoreShape
    BY <2>1 DEF ProviderSignIn, Send, ReqsFromJars, StoreShape, proxyVars
  <2>5. QED
    BY <2>3, <2>4 DEF Shape
<1>2. QED
  BY <1>1, SendShape DEF BrowserStep, SendAuthorize, SendLogin, SendLogout,
     OpenCallbackLink

LEMMA ReceiveShape ==
    ASSUME NEW x \in resps, Receive(x)
    PROVE  Shape
BY DEF Receive, Shape, PairsForward, ReqsFromJars, StoreShape, idpVars,
       proxyVars, histVars

LEMMA DeleteShape ==
    ASSUME NEW t \in deletes, DeleteRefreshToken(t)
    PROVE  Shape
BY DEF DeleteRefreshToken, Shape, PairsForward, ReqsFromJars, StoreShape,
       idpVars, netVars, histVars

LEMMA AuthorizeShape ==
    ASSUME NEW r \in reqs, oauthAuthorizationHandler(r)
    PROVE  Shape
<1>1. reqs' = reqs \ {r}
  BY DEF oauthAuthorizationHandler, Abort, Reply
<1>2. UNCHANGED <<pairSt, store, loggedOut>>
  BY DEF oauthAuthorizationHandler, idpVars, proxyVars, histVars
<1>3. QED
  BY <1>1, <1>2 DEF Shape, PairsForward, StoreShape, ReqsFromJars

LEMMA LoginShape ==
    ASSUME IInv, NEW r \in reqs, loginHandler(r)
    PROVE  Shape
<1>1. reqs' = reqs \ {r}
  BY DEF loginHandler, Abort, Reply
<1>2. PairsForward
  <2>1. CASE UNCHANGED pairSt
    BY <2>1 DEF PairsForward
  <2>2. CASE pairSt' = [pairSt EXCEPT ![npairs + 1] = "active"]
    BY <2>2 DEF PairsForward, IInv, TypeOK
  <2>3. QED
    BY <2>1, <2>2 DEF loginHandler, idpVars
<1>3. UNCHANGED <<store, loggedOut>>
  BY DEF loginHandler, proxyVars, histVars
<1>4. QED
  BY <1>1, <1>2, <1>3 DEF Shape, StoreShape, ReqsFromJars

LEMMA LogoutShape ==
    ASSUME IInv, NEW r \in reqs, logoutHandler(r)
    PROVE  Shape
<1>1. reqs' = reqs \ {r}
  BY DEF logoutHandler, Abort, ClearAll, LogoutDone, Reply
<1>2. UNCHANGED pairSt
  BY DEF logoutHandler, idpVars
<1>3. StoreShape
  <2>1. CASE r.acc = NoToken
    BY <2>1 DEF logoutHandler, StoreShape, idpVars
  <2>2. CASE r.acc # NoToken
    <3>1. r.acc \in Token
      BY <2>2 DEF IInv, TypeOK, Request, CookieValue
    <3>2. QED
      BY <2>2, <3>1 DEF logoutHandler, StoreShape
  <2>3. QED
    BY <2>1, <2>2
<1>4. QED
  BY <1>1, <1>2, <1>3 DEF Shape, PairsForward, ReqsFromJars

(* The callback either leaves the store alone or, having redeemed code c,  *)
(* puts the refresh token of c under the session token of c.               *)
LEMMA CallbackShape ==
    ASSUME IInv, NEW r \in reqs, oauthCallbackHandler(r)
    PROVE  Shape
<1>1. reqs' = reqs \ {r}
  BY DEF oauthCallbackHandler, Abort, Reply, KeepRefreshToken
<1>2. UNCHANGED loggedOut
  BY DEF oauthCallbackHandler
<1>3. TypeOK /\ r \in Request
  BY DEF IInv, TypeOK
<1>4. PairsForward
  <2>1. CASE UNCHANGED pairSt
    BY <2>1 DEF PairsForward
  <2>2. CASE pairSt' = [pairSt EXCEPT ![r.code] = "active"]
    BY <2>2, <1>3 DEF PairsForward, TypeOK
  <2>3. QED
    BY <2>1, <2>2 DEF oauthCallbackHandler, ExchangeFails, idpVars
<1>5. \/ UNCHANGED store
      \/ /\ r.code # 0
         /\ pairSt[r.code] = "code"
         /\ pairSt' = [pairSt EXCEPT ![r.code] = "active"]
         /\ \E a \in BOOLEAN :
               store' = [store EXCEPT ![SessionToken(r.code, a)] = r.code]
  BY DEF oauthCallbackHandler, KeepRefreshToken
<1>6. StoreShape
  <2>1. CASE UNCHANGED store
    BY <2>1, <1>2 DEF StoreShape
  <2>2. CASE /\ r.code # 0
             /\ pairSt[r.code] = "code"
             /\ pairSt' = [pairSt EXCEPT ![r.code] = "active"]
             /\ \E a \in BOOLEAN :
                   store' = [store EXCEPT ![SessionToken(r.code, a)] = r.code]
    <3>1. PICK a \in BOOLEAN :
                store' = [store EXCEPT ![SessionToken(r.code, a)] = r.code]
      BY <2>2
    <3>2. r.code \in PairId
      BY <2>2, <1>3 DEF Request, PairOrNone, PairId
    <3>3. SessionToken(r.code, a) \in Token /\ SessionToken(r.code, a).p = r.code
      BY <3>2 DEF SessionToken, Token
    <3>4. pairSt'[r.code] = "active"
      BY <2>2, <3>2, <1>3 DEF TypeOK
    <3>5. QED
      BY <1>2, <2>2, <3>1, <3>2, <3>3, <3>4 DEF StoreShape
  <2>3. QED
    BY <1>5, <2>1, <2>2
<1>7. QED
  BY <1>1, <1>4, <1>6 DEF Shape, ReqsFromJars

LEMMA NextShape == IInv /\ [Next]_vars => Shape
<1> SUFFICES ASSUME IInv, [Next]_vars PROVE Shape
  OBVIOUS
<1>1. CASE \E b \in Browser : BrowserStep(b)
  BY <1>1, BrowserStepShape
<1>2. CASE \E r \in reqs : HandlerStep(r)
  BY <1>2, AuthorizeShape, CallbackShape, LoginShape, LogoutShape
  DEF HandlerStep
<1>3. CASE \E x \in resps : Receive(x)
  BY <1>3, ReceiveShape
<1>4. CASE \E t \in deletes : DeleteRefreshToken(t)
  BY <1>4, DeleteShape
<1>5. CASE Idle \/ UNCHANGED vars
  BY <1>5 DEF Idle, vars, idpVars, proxyVars, netVars, histVars, Shape,
     PairsForward, ReqsFromJars, StoreShape
<1>6. QED
  BY <1>1, <1>2, <1>3, <1>4, <1>5 DEF Next

-----------------------------------------------------------------------------
LEMMA InitSInv == Init => SInv
<1> SUFFICES ASSUME Init PROVE SInv
  OBVIOUS
<1>1. IInv
  BY InitIInv
<1>2. QED
  BY <1>1 DEF Init, SInv, ReqActive, LoggedOutActive, StoreActive

LEMMA SInvNext == SInv /\ [Next]_vars => SInv'
<1> SUFFICES ASSUME SInv, [Next]_vars PROVE SInv'
  OBVIOUS
<1>1. IInv /\ IInv'
  BY NextIInv DEF SInv
<1>2. PairsForward /\ ReqsFromJars /\ StoreShape
  BY <1>1, NextShape DEF Shape
<1>3. TypeOK /\ TypeOK'
  BY <1>1 DEF IInv
<1>4. ReqActive'
  <2> SUFFICES ASSUME NEW q \in reqs', q.acc # NoToken
               PROVE  pairSt'[q.acc.p] = "active"
    BY DEF ReqActive
  <2>1. q.acc \in Token
    BY <1>3 DEF TypeOK, Request, CookieValue
  <2>2. pairSt[q.acc.p] = "active"
    BY <1>1, <1>2 DEF ReqsFromJars, SInv, ReqActive, IInv, JarActive
  <2>3. QED
    BY <2>1, <2>2, <1>2 DEF PairsForward, Token
<1>5. LoggedOutActive'
  <2> SUFFICES ASSUME NEW t \in loggedOut' PROVE pairSt'[t.p] = "active"
    BY DEF LoggedOutActive
  <2>1. t \in Token
    BY <1>3 DEF TypeOK
  <2>2. pairSt[t.p] = "active"
    <3>1. CASE loggedOut' = loggedOut
      BY <3>1 DEF SInv, LoggedOutActive
    <3>2. CASE \E r \in reqs : r.acc \in Token /\ loggedOut' = loggedOut \cup {r.acc}
      BY <3>2 DEF SInv, LoggedOutActive, ReqActive, Token, NoToken
    <3>3. QED
      BY <1>2, <3>1, <3>2 DEF StoreShape
  <2>3. QED
    BY <2>1, <2>2, <1>2 DEF PairsForward, Token
<1>6. StoreActive'
  <2> SUFFICES ASSUME NEW t \in Token, store'[t] # 0 PROVE pairSt'[t.p] = "active"
    BY DEF StoreActive
  <2>1. t.p \in PairId
    BY DEF Token
  <2>2. CASE store' = store
    BY <2>1, <2>2, <1>2 DEF SInv, StoreActive, PairsForward
  <2>3. CASE \E c \in PairId, tok \in Token :
                /\ pairSt[c] = "code" /\ pairSt'[c] = "active" /\ tok.p = c
                /\ store' = [store EXCEPT ![tok] = c]
    <3>1. PICK c \in PairId, tok \in Token :
                /\ pairSt[c] = "code" /\ pairSt'[c] = "active" /\ tok.p = c
                /\ store' = [store EXCEPT ![tok] = c]
      BY <2>3
    <3>2. CASE t = tok
      BY <3>1, <3>2
    <3>3. CASE t # tok
      BY <3>1, <3>3, <2>1, <1>2, <1>3 DEF SInv, StoreActive, PairsForward, TypeOK
    <3>4. QED
      BY <3>2, <3>3
  <2>4. CASE \E d \in deletes : store' = [store EXCEPT ![d] = 0]
    BY <2>1, <2>4, <1>2, <1>3 DEF SInv, StoreActive, PairsForward, TypeOK
  <2>5. QED
    BY <1>2, <2>2, <2>3, <2>4 DEF StoreShape
<1>7. QED
  BY <1>1, <1>4, <1>5, <1>6 DEF SInv

(* Every step of the handlers, browsers and delete goroutine is a step of *)
(* the abstract store, or leaves the store and the closed sessions alone.  *)
LEMMA RefineStep == SInv /\ [Next]_vars => [SS!Next]_<<store, loggedOut>>
<1> SUFFICES ASSUME SInv, [Next]_vars PROVE [SS!Next]_<<store, loggedOut>>
  OBVIOUS
<1>1. StoreShape
  BY NextShape DEF SInv, Shape
<1>2. TypeOK
  BY DEF SInv, IInv
<1>3. CASE UNCHANGED <<store, loggedOut>>
  BY <1>3
<1>4. CASE \E c \in PairId, tok \in Token :
             /\ pairSt[c] = "code" /\ pairSt'[c] = "active" /\ tok.p = c
             /\ store' = [store EXCEPT ![tok] = c]
             /\ UNCHANGED loggedOut
  <2>1. PICK c \in PairId, tok \in Token :
             /\ pairSt[c] = "code" /\ pairSt'[c] = "active" /\ tok.p = c
             /\ store' = [store EXCEPT ![tok] = c]
             /\ UNCHANGED loggedOut
    BY <1>4
  <2>2. tok \notin loggedOut
    BY <2>1 DEF SInv, LoggedOutActive
  <2>3. store[tok] = 0
    BY <2>1 DEF SInv, StoreActive
  <2>4. SS!Put(tok, c)
    BY <2>1, <2>2, <2>3 DEF SS!Put
  <2>5. QED
    BY <2>1, <2>4 DEF SS!Next
<1>5. CASE \E r \in reqs : /\ r.acc \in Token
                          /\ loggedOut' = loggedOut \cup {r.acc}
                          /\ UNCHANGED store
  BY <1>5 DEF SS!Next, SS!Close
<1>6. CASE \E t \in deletes : /\ store' = [store EXCEPT ![t] = 0]
                             /\ UNCHANGED loggedOut
  <2>1. PICK t \in deletes : /\ store' = [store EXCEPT ![t] = 0]
                           /\ UNCHANGED loggedOut
    BY <1>6
  <2>2. t \in loggedOut /\ t \in Token
    BY <1>2 DEF SInv, IInv, DeletesLoggedOut, TypeOK
  <2>3. QED
    BY <2>1, <2>2 DEF SS!Next, SS!Remove
<1>7. QED
  BY <1>1, <1>3, <1>4, <1>5, <1>6 DEF StoreShape

(* The handlers use the refresh-token store as its contract allows, for   *)
(* every number of browsers, users, pairs and requests and every           *)
(* configuration: the callback puts an entry only for a live session that *)
(* has none, logout closes sessions, and the delete goroutine removes only *)
(* entries of closed sessions.                                             *)
THEOREM StoreRefinement == Spec => StoreRefinesSessionStore
<1>1. Init => SS!Init
  BY DEF Init, SS!Init
<1>2. QED
  BY <1>1, InitSInv, SInvNext, RefineStep, PTL
  DEF Spec, StoreRefinesSessionStore, SS!Spec, SS!ssvars

=============================================================================
