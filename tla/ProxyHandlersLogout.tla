-------------------------- MODULE ProxyHandlersLogout --------------------------
(***************************************************************************)
(* In cookie mode, logout asks the provider to revoke the session it ends. *)
(*                                                                         *)
(* The run logout_revocation shows that in store mode, logoutHandler can   *)
(* answer with the redirect of a successful logout after posting the      *)
(* access token instead of the refresh token (line 293).  In cookie mode   *)
(* retrieveRefreshToken reads the kc-state cookie that the request itself *)
(* carries.  The argument is that a request carrying a retained session    *)
(* token also carries that session's own kc-state.  Requests are           *)
(* snapshots of a jar, and JarCookiesPaired gives this for the jars.  A    *)
(* token only becomes retained when its pair is redeemed, and by           *)
(* ReqActive no request in flight carries a token of a pair that was not   *)
(* active.                                                                 *)
(***************************************************************************)
EXTENDS ProxyHandlersRefinement

USE ConstantsAssumption

(* In cookie mode, a request that carries a retained session token         *)
(* carries that session's refresh token in its kc-state.                   *)
ReqCookiesPaired ==
    ~UseStore => \A r \in reqs : r.acc \in retained => r.st = r.acc.p

LInv == SInv /\ ReqCookiesPaired

(* What a step does to the requests and the retained tokens.  A new        *)
(* request is a snapshot of a jar, taken in a step that retains nothing.   *)
(* A newly retained token belongs to a pair that was only a code before.   *)
ReqShape ==
    \A q \in reqs' :
        \/ q \in reqs
        \/ /\ retained' = retained
           /\ \E b \in Browser : q.acc = jar[b].acc /\ q.st = jar[b].st

RetainedShape ==
    \A t \in retained' \ retained : pairSt[t.p] = "code"

-----------------------------------------------------------------------------
(* The shape of each action. *)

LEMMA SendReqShape ==
    ASSUME NEW b \in Browser, NEW op, NEW code, NEW st, NEW u, NEW cred,
           NEW redirect, Send(b, op, code, st, u, cred, redirect),
           UNCHANGED <<jar, retained>>
    PROVE  ReqShape /\ RetainedShape
BY DEF Send, ReqShape, RetainedShape

LEMMA BrowserStepLShape ==
    ASSUME NEW b \in Browser, BrowserStep(b)
    PROVE  ReqShape /\ RetainedShape
<1>1. CASE \E s \in StateParam, u \in User : ProviderSignIn(b, s, u)
  BY <1>1, SendReqShape DEF ProviderSignIn
<1>2. QED
  BY <1>1, SendReqShape DEF BrowserStep, SendAuthorize, SendLogin, SendLogout,
     OpenCallbackLink, browserVars, histVars

(* A handler step consumes its request and retains at most the session    *)
(* token of the code it redeems.                                           *)
LEMMA HandlerLShape ==
    ASSUME NEW r \in reqs, HandlerStep(r)
    PROVE  /\ reqs' = reqs \ {r}
           /\ ReqShape /\ RetainedShape
<1>1. reqs' = reqs \ {r}
  BY DEF HandlerStep, oauthAuthorizationHandler, oauthCallbackHandler,
     loginHandler, logoutHandler, KeepRefreshToken, Abort, ClearAll,
     LogoutDone, Reply
<1>2. ReqShape
  BY <1>1 DEF ReqShape
<1>3. RetainedShape
  <2>1. CASE oauthCallbackHandler(r)
    <3>1. \/ retained' = retained
          \/ /\ pairSt[r.code] = "code"
             /\ \E a \in BOOLEAN : retained' = retained \cup {SessionToken(r.code, a)}
      BY <2>1 DEF oauthCallbackHandler, KeepRefreshToken
    <3>2. CASE retained' = retained
      BY <3>2 DEF RetainedShape
    <3>3. CASE /\ pairSt[r.code] = "code"
               /\ \E a \in BOOLEAN : retained' = retained \cup {SessionToken(r.code, a)}
      <4>1. PICK a \in BOOLEAN : retained' = retained \cup {SessionToken(r.code, a)}
        BY <3>3
      <4>2. SessionToken(r.code, a).p = r.code
        BY DEF SessionToken
      <4>3. QED
        BY <3>3, <4>1, <4>2 DEF RetainedShape
    <3>4. QED
      BY <3>1, <3>2, <3>3
  <2>2. CASE oauthAuthorizationHandler(r)
    BY <2>2 DEF oauthAuthorizationHandler, histVars, RetainedShape
  <2>3. CASE loginHandler(r)
    BY <2>3 DEF loginHandler, histVars, RetainedShape
  <2>4. CASE logoutHandler(r)
    BY <2>4 DEF logoutHandler, RetainedShape
  <2>5. QED
    BY <2>1, <2>2, <2>3, <2>4 DEF HandlerStep
<1>4. QED
  BY <1>1, <1>2, <1>3

LEMMA NextLShape == [Next]_vars => ReqShape /\ RetainedShape
<1> SUFFICES ASSUME [Next]_vars PROVE ReqShape /\ RetainedShape
  OBVIOUS
<1>1. CASE \E b \in Browser : BrowserStep(b)
  BY <1>1, BrowserStepLShape
<1>2. CASE \E r \in reqs : HandlerStep(r)
  BY <1>2, HandlerLShape
<1>3. CASE \E x \in resps : Receive(x)
  BY <1>3 DEF Receive, netVars, histVars, ReqShape, RetainedShape
<1>4. CASE \E t \in deletes : DeleteRefreshToken(t)
  BY <1>4 DEF DeleteRefreshToken, netVars, histVars, ReqShape, RetainedShape
<1>5. CASE Idle \/ UNCHANGED vars
  BY <1>5 DEF Idle, vars, netVars, histVars, ReqShape, RetainedShape
<1>6. QED
  BY <1>1, <1>2, <1>3, <1>4, <1>5 DEF Next

-----------------------------------------------------------------------------
LEMMA InitLInv == Init => LInv
BY InitSInv DEF Init, LInv, ReqCookiesPaired

LEMMA LInvNext == LInv /\ [Next]_vars => LInv'
<1> SUFFICES ASSUME LInv, [Next]_vars PROVE LInv'
  OBVIOUS
<1>1. SInv'
  BY SInvNext DEF LInv
<1>2. ReqShape /\ RetainedShape
  BY NextLShape
<1>3. TypeOK /\ TypeOK'
  BY <1>1 DEF LInv, SInv, IInv
<1>4. ReqCookiesPaired'
  <2> SUFFICES ASSUME ~UseStore, NEW q \in reqs', q.acc \in retained'
               PROVE  q.st = q.acc.p
    BY DEF ReqCookiesPaired
  <2>1. q.acc \in Token
    BY <1>3 DEF TypeOK
  <2>2. CASE q \in reqs /\ q.acc \in retained
    BY <2>2 DEF LInv, ReqCookiesPaired
  <2>3. CASE q \in reqs /\ q.acc \notin retained
    <3>1. pairSt[q.acc.p] = "code"
      BY <2>3, <1>2 DEF RetainedShape
    <3>2. pairSt[q.acc.p] = "active"
      BY <2>1, <2>3 DEF LInv, SInv, ReqActive, Token, NoToken
    <3>3. QED
      BY <3>1, <3>2
  <2>4. CASE q \notin reqs
    <3>1. PICK b \in Browser : /\ retained' = retained
                               /\ q.acc = jar[b].acc /\ q.st = jar[b].st
      BY <2>4, <1>2 DEF ReqShape
    <3>2. QED
      BY <3>1 DEF LInv, SInv, IInv, JarCookiesPaired
  <2>5. QED
    BY <2>2, <2>3, <2>4
<1>5. QED
  BY <1>1, <1>4 DEF LInv

-----------------------------------------------------------------------------
(* A logout of a retained session that answers with the 302 of a          *)
(* successful logout has posted that session's refresh token: in cookie   *)
(* mode the request's own kc-state is the refresh token (lines 293-295),   *)
(* and with a revocation endpoint only the branch that got an answer to    *)
(* the POST redirects (lines 336-370).                                     *)
LEMMA LogoutStepRevokes ==
    ASSUME LInv, ~UseStore, HasRevocationURL,
           NEW r \in reqs, logoutHandler(r), r.acc \in retained,
           \E x \in resps' \ resps : x.status = 302
    PROVE  r.acc.p \in revoked'
<1>1. r.acc \in Token /\ r.acc # NoToken
  BY DEF LInv, SInv, IInv, TypeOK, Token, NoToken
<1>2. r.st = r.acc.p /\ r.acc.p \in PairId
  BY <1>1 DEF LInv, ReqCookiesPaired, Token
<1>3. retrieveRefreshToken(r) = {r.acc.p}
  BY <1>2 DEF retrieveRefreshToken
<1>4. PICK refresh \in retrieveRefreshToken(r) :
         \/ ClearAll(r, 500) /\ UNCHANGED revoked
         \/ ClearAll(r, 200) /\ UNCHANGED revoked
         \/ /\ revoked' = IF refresh # 0 THEN revoked \cup {refresh} ELSE revoked
            /\ LogoutDone(r)
  BY <1>1 DEF logoutHandler
<1>5. refresh = r.acc.p /\ refresh # 0
  BY <1>2, <1>3 DEF PairId
<1>6. CASE ClearAll(r, 500) \/ ClearAll(r, 200)
  <2>1. \A x \in resps' \ resps : x.status \in {500, 200}
    BY <1>6 DEF ClearAll, Reply
  <2>2. QED
    BY <2>1
<1>7. CASE revoked' = IF refresh # 0 THEN revoked \cup {refresh} ELSE revoked
  BY <1>5, <1>7
<1>8. QED
  BY <1>4, <1>6, <1>7

(* The action body of LogoutRevokesSession follows from LInv for every    *)
(* step: only a handler step consumes a request, and a logout request is  *)
(* consumed only by logoutHandler.                                         *)
LEMMA LogoutRevokesStep ==
    ASSUME ~UseStore
    PROVE  LInv /\ [Next]_vars =>
             \A r \in reqs \ reqs' :
                (/\ r.op = "logout"
                 /\ r.acc \in retained
                 /\ HasRevocationURL
                 /\ \E x \in resps' \ resps : x.status = 302)
                   => r.acc.p \in revoked'
<1> SUFFICES ASSUME LInv, [Next]_vars, NEW r \in reqs \ reqs', r.op = "logout",
                    r.acc \in retained, HasRevocationURL,
                    \E x \in resps' \ resps : x.status = 302
             PROVE  r.acc.p \in revoked'
  OBVIOUS
<1>1. CASE \E r0 \in reqs : HandlerStep(r0)
  <2>1. PICK r0 \in reqs : HandlerStep(r0)
    BY <1>1
  <2>2. r0 = r
    BY <2>1, HandlerLShape
  <2>3. logoutHandler(r)
    BY <2>1, <2>2 DEF HandlerStep, oauthAuthorizationHandler,
       oauthCallbackHandler, loginHandler
  <2>4. QED
    BY <2>3, LogoutStepRevokes
<1>2. CASE \E b \in Browser : BrowserStep(b)
  <2>1. reqs \subseteq reqs'
    BY <1>2 DEF BrowserStep, SendAuthorize, SendLogin, SendLogout,
       OpenCallbackLink, ProviderSignIn, Send
  <2>2. QED
    BY <2>1
<1>3. CASE \/ \E x \in resps : Receive(x)
           \/ \E t \in deletes : DeleteRefreshToken(t)
           \/ Idle \/ UNCHANGED vars
  <2>1. reqs' = reqs
    BY <1>3 DEF Receive, DeleteRefreshToken, netVars, Idle, vars
  <2>2. QED
    BY <2>1
<1>4. QED
  BY <1>1, <1>2, <1>3 DEF Next

(* In cookie mode, logoutHandler asks the provider to revoke the session  *)
(* it ends: every logout of a session whose refresh token the callback     *)
(* kept, answered with the redirect of a successful logout, has posted     *)
(* that session's refresh token to the revocation endpoint and got an      *)
(* answer, of whatever status (the status is only logged, so whether the   *)
(* provider accepted the revocation is not claimed).  This holds for every number of       *)
(* browsers, users, pairs and requests, with password login and            *)
(* out-of-order responses.  In store mode it fails (run logout_revocation). *)
THEOREM LogoutRevokesSessionInCookieMode ==
    ASSUME ~UseStore
    PROVE  Spec => LogoutRevokesSession
BY InitLInv, LInvNext, LogoutRevokesStep, PTL DEF Spec, LogoutRevokesSession

=============================================================================
