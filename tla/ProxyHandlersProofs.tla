------------------------- MODULE ProxyHandlersProofs -------------------------
(***************************************************************************)
(* Proofs about the OAuth flow handlers of ProxyHandlers, for every value  *)
(* of the constants: IInv is an inductive invariant, hence TypeOK and      *)
(* RetainedRefreshReachable hold in every reachable state.                 *)
(***************************************************************************)
EXTENDS ProxyHandlers, TLAPS

USE ConstantsAssumption

LEMMA InitIInv == Init => IInv
BY DEF Init, IInv, TypeOK, IssuedInOrder, RetainedActive, JarActive,
       RespActive, DeletesLoggedOut, StoreHoldsRetained, RespCookiesPaired,
       JarCookiesPaired, PairId, PairOrNone, CookieValue, NoToken, Token,
       Nobody


(* Nobody, the owner of pairs not yet issued, is a user. *)
LEMMA NobodyIsUser == Nobody \in User
BY DEF Nobody

(* A request a browser sends is a well-typed Request, and sending one      *)
(* changes nothing but the requests in flight and their count.             *)
LEMMA SendIInv ==
    ASSUME IInv,
           NEW b \in Browser, NEW op \in Op, NEW code \in PairOrNone,
           NEW st \in StateParam, NEW u \in User, NEW cred \in Cred,
           NEW rd \in RedirectParam,
           Send(b, op, code, st, u, cred, rd),
           UNCHANGED <<idpVars, proxyVars, browserVars, histVars>>
    PROVE  IInv'
<1>1. TypeOK'
  BY DEF IInv, TypeOK, Send, Request, idpVars, proxyVars, browserVars, histVars
<1>2. QED
  BY <1>1 DEF IInv, Send, idpVars, proxyVars, browserVars, histVars,
         IssuedInOrder, RetainedActive, JarActive, RespActive,
         DeletesLoggedOut, StoreHoldsRetained, RespCookiesPaired,
         JarCookiesPaired


(* A sign-in at the provider issues the next pair as a code, which no      *)
(* cookie, response or retained token refers to, and sends the callback.   *)
LEMMA ProviderSignInIInv ==
    ASSUME IInv, NEW b \in Browser, NEW st \in StateParam, NEW u \in User,
           ProviderSignIn(b, st, u)
    PROVE  IInv'
<1> DEFINE c == npairs + 1
<1>1. c \in PairId /\ pairSt[c] = "free"
  BY DEF ProviderSignIn, IInv, TypeOK, IssuedInOrder, PairId
<1>2. TypeOK'
  <2>1. (npairs \in 0..MaxPairs /\ pairSt \in [PairId -> {"free", "code", "active"}]
         /\ owner \in [PairId -> User] /\ ownCodes \in [Browser -> SUBSET PairId])'
    BY <1>1 DEF ProviderSignIn, IInv, TypeOK, PairId
  <2>2. (reqs \subseteq Request /\ nreq \in 0..MaxRequests)'
    BY NobodyIsUser DEF ProviderSignIn, IInv, TypeOK, Send, Request,
                        PairOrNone, PairId, Op, Cred, RedirectParam
  <2>3. pendingAuth' \in [Browser -> SUBSET StateParam]
    BY DEF ProviderSignIn, IInv, TypeOK
  <2>4. QED
    BY <2>1, <2>2, <2>3 DEF ProviderSignIn, IInv, TypeOK, Send, proxyVars
<1>3. IssuedInOrder'
  BY <1>1 DEF ProviderSignIn, IInv, TypeOK, IssuedInOrder, PairId
<1>4. (RetainedActive /\ JarActive /\ RespActive)'
  BY <1>1 DEF ProviderSignIn, IInv, TypeOK, RetainedActive, JarActive,
              RespActive, Send, Token, PairId
<1>5. (DeletesLoggedOut /\ StoreHoldsRetained /\ RespCookiesPaired
       /\ JarCookiesPaired)'
  BY DEF ProviderSignIn, IInv, Send, DeletesLoggedOut, StoreHoldsRetained,
         RespCookiesPaired, JarCookiesPaired, proxyVars
<1>6. QED
  BY <1>2, <1>3, <1>4, <1>5 DEF IInv

(* The browser applies a response's Set-Cookie headers. *)
LEMMA ReceiveIInv ==
    ASSUME IInv, NEW x \in resps, Receive(x)
    PROVE  IInv'
<1>1. TypeOK'
  BY DEF Receive, IInv, TypeOK, Response, Loc, idpVars, proxyVars, histVars
<1>2. JarActive'
  BY DEF Receive, IInv, TypeOK, JarActive, RespActive, Response, idpVars
<1>3. JarCookiesPaired'
  BY DEF Receive, IInv, TypeOK, JarCookiesPaired, RespCookiesPaired,
         Response, histVars
<1>4. (IssuedInOrder /\ RetainedActive /\ RespActive /\ DeletesLoggedOut
       /\ StoreHoldsRetained /\ RespCookiesPaired)'
  BY DEF Receive, IInv, IssuedInOrder, RetainedActive, RespActive,
         DeletesLoggedOut, StoreHoldsRetained, RespCookiesPaired, idpVars,
         proxyVars, histVars
<1>5. QED
  BY <1>1, <1>2, <1>3, <1>4 DEF IInv

(* The delete goroutine removes only entries of logged-out sessions. *)
LEMMA DeleteRefreshTokenIInv ==
    ASSUME IInv, NEW t \in deletes, DeleteRefreshToken(t)
    PROVE  IInv'
<1>1. TypeOK'
  BY DEF DeleteRefreshToken, IInv, TypeOK, PairOrNone, idpVars, browserVars,
         netVars, histVars
<1>2. StoreHoldsRetained'
  BY DEF DeleteRefreshToken, IInv, TypeOK, StoreHoldsRetained,
         DeletesLoggedOut, histVars
<1>3. QED
  BY <1>1, <1>2 DEF DeleteRefreshToken, IInv, IssuedInOrder, RetainedActive,
         JarActive, RespActive, DeletesLoggedOut, RespCookiesPaired,
         JarCookiesPaired, idpVars, browserVars, netVars, histVars


(* A handler's reply removes its request and adds one well-typed response  *)
(* carrying the given Set-Cookie operations.                               *)
LEMMA ReplyFacts ==
    ASSUME TypeOK, NEW r \in reqs, NEW status \in Status,
           NEW setAcc \in BOOLEAN, NEW acc \in CookieValue,
           NEW setSt \in BOOLEAN, NEW st \in PairOrNone, NEW loc \in Loc,
           Reply(r, status, setAcc, acc, setSt, st, loc)
    PROVE  \E x \in Response :
              /\ resps' = resps \cup {x}
              /\ x.setAcc = setAcc /\ x.acc = acc
              /\ x.setSt = setSt /\ x.st = st
              /\ reqs' = reqs \ {r}
              /\ nreq' = nreq
<1>1. r \in Request
  BY DEF TypeOK
<1> DEFINE x == [id |-> r.id, b |-> r.b, op |-> r.op, status |-> status,
                 setAcc |-> setAcc, acc |-> acc, setSt |-> setSt, st |-> st,
                 loc |-> loc, state |-> r.state]
<1>2. x \in Response
  BY <1>1 DEF Response, Request
<1>3. resps' = resps \cup {x} /\ reqs' = reqs \ {r} /\ nreq' = nreq
  BY DEF Reply
<1>4. QED
  BY <1>2, <1>3

(* A reply that sets no cookie. *)
LEMMA ReplyNoCookie ==
    ASSUME TypeOK, NEW r \in reqs, NEW status \in Status, NEW loc \in Loc,
           Reply(r, status, FALSE, NoToken, FALSE, 0, loc)
    PROVE  \E x \in Response :
              /\ resps' = resps \cup {x}
              /\ ~x.setAcc /\ ~x.setSt
              /\ reqs' = reqs \ {r}
              /\ nreq' = nreq
<1>1. NoToken \in CookieValue /\ 0 \in PairOrNone
  BY DEF CookieValue, PairOrNone
<1>2. QED
  BY <1>1, ReplyFacts

(* Redeeming or consuming codes and issuing pairs only moves pairs forward *)
(* from "free" to "code" to "active"; such a step keeps every fact that    *)
(* says some pair is active.                                               *)

(* oauthAuthorizationHandler sets no cookie. *)
LEMMA AuthorizeIInv ==
    ASSUME IInv, NEW r \in reqs, oauthAuthorizationHandler(r)
    PROVE  IInv'
<1>1. TypeOK
  BY DEF IInv
<1>2. PICK x \in Response :
         /\ resps' = resps \cup {x}
         /\ ~x.setAcc /\ ~x.setSt
         /\ reqs' = reqs \ {r}
         /\ nreq' = nreq
  <2>1. CASE SkipTokenVerification /\ Abort(r, 406)
    <3>1. Reply(r, 406, FALSE, NoToken, FALSE, 0, "none")
      BY <2>1 DEF Abort
    <3>2. 406 \in Status /\ "none" \in Loc
      BY DEF Status, Loc
    <3>3. QED
      BY <1>1, <3>1, <3>2, ReplyNoCookie
  <2>2. CASE ~SkipTokenVerification /\ Abort(r, 500)
    <3>1. Reply(r, 500, FALSE, NoToken, FALSE, 0, "none")
      BY <2>2 DEF Abort
    <3>2. 500 \in Status /\ "none" \in Loc
      BY DEF Status, Loc
    <3>3. QED
      BY <1>1, <3>1, <3>2, ReplyNoCookie
  <2>3. CASE ~SkipTokenVerification
             /\ Reply(r, IF CustomSignInPage THEN 200 ELSE 302,
                      FALSE, NoToken, FALSE, 0, "idp")
    <3>2. (IF CustomSignInPage THEN 200 ELSE 302) \in Status /\ "idp" \in Loc
      BY DEF Status, Loc
    <3>3. QED
      BY <1>1, <2>3, <3>2, ReplyNoCookie
  <2>4. QED
    BY <2>1, <2>2, <2>3 DEF oauthAuthorizationHandler
<1>3. TypeOK'
  BY <1>1, <1>2 DEF oauthAuthorizationHandler, TypeOK, idpVars, proxyVars,
                    browserVars, histVars
<1>4. QED
  BY <1>2, <1>3 DEF oauthAuthorizationHandler, IInv, IssuedInOrder,
         RetainedActive, JarActive, RespActive, DeletesLoggedOut,
         StoreHoldsRetained, RespCookiesPaired, JarCookiesPaired, idpVars,
         proxyVars, browserVars, histVars


(* cx.AbortWithStatus sets no cookie. *)
LEMMA AbortNoCookie ==
    ASSUME TypeOK, NEW r \in reqs, NEW status \in Status, Abort(r, status)
    PROVE  \E x \in Response :
              /\ resps' = resps \cup {x}
              /\ ~x.setAcc /\ ~x.setSt
              /\ reqs' = reqs \ {r}
              /\ nreq' = nreq
<1>1. Reply(r, status, FALSE, NoToken, FALSE, 0, "none")
  BY DEF Abort
<1>2. "none" \in Loc
  BY DEF Loc
<1>3. QED
  BY <1>1, <1>2, ReplyNoCookie

(* Pairs only move forward: an active pair stays active. *)
PairsForward == \A p \in PairId : pairSt[p] = "active" => pairSt'[p] = "active"

(* A handler step that answers with no Set-Cookie, moves pairs only        *)
(* forward and leaves the store, the jars and the history alone keeps the  *)
(* invariant.                                                              *)
LEMMA NoCookieStep ==
    ASSUME IInv, NEW r \in reqs, NEW x \in Response,
           resps' = resps \cup {x}, ~x.setAcc, ~x.setSt,
           reqs' = reqs \ {r}, nreq' = nreq,
           npairs' \in 0..MaxPairs,
           pairSt' \in [PairId -> {"free", "code", "active"}],
           owner' \in [PairId -> User], revoked' \subseteq PairId,
           IssuedInOrder', PairsForward,
           UNCHANGED <<store, deletes, jar, pendingAuth, ownCodes, retained,
                       loggedOut>>
    PROVE  IInv'
<1>1. TypeOK'
  BY DEF IInv, TypeOK
<1>2. (RetainedActive /\ JarActive)'
  BY DEF IInv, TypeOK, RetainedActive, JarActive, PairsForward, Token,
         CookieValue, NoToken
<1>3. RespActive'
  BY DEF IInv, TypeOK, RespActive, PairsForward, Response, CookieValue,
         Token, NoToken
<1>4. RespCookiesPaired'
  BY DEF IInv, RespCookiesPaired
<1>5. QED
  BY <1>1, <1>2, <1>3, <1>4 DEF IInv, DeletesLoggedOut, StoreHoldsRetained,
         JarCookiesPaired


(* The callback redeems code c and sets kc-access to a token tok of pair   *)
(* c; when keep holds it also keeps the refresh token of c, in the store   *)
(* under tok or in kc-state beside tok.  Pair c was a code, so no cookie,  *)
(* response or retained token refers to it yet.                            *)
LEMMA CallbackIssueStep ==
    ASSUME IInv, NEW r \in reqs, NEW c \in PairId, pairSt[c] = "code",
           pairSt' = [pairSt EXCEPT ![c] = "active"],
           NEW tok \in Token, tok.p = c, NEW keep \in BOOLEAN,
           NEW x \in Response, resps' = resps \cup {x},
           reqs' = reqs \ {r}, nreq' = nreq,
           x.setAcc, x.acc = tok,
           x.setSt => keep /\ ~UseStore /\ x.st = c,
           (keep /\ ~UseStore) => x.setSt,
           retained' = IF keep THEN retained \cup {tok} ELSE retained,
           store' = IF keep /\ UseStore THEN [store EXCEPT ![tok] = c]
                                        ELSE store,
           UNCHANGED <<npairs, owner, revoked, deletes, jar, pendingAuth,
                       ownCodes, loggedOut>>
    PROVE  IInv'
<1>1. TypeOK
  BY DEF IInv
<1>2. /\ tok \notin retained
      /\ \A y \in resps : (y.setAcc /\ y.acc # NoToken) => y.acc # tok
      /\ \A b \in Browser : jar[b].acc # tok
  BY <1>1 DEF IInv, RetainedActive, RespActive, JarActive, TypeOK, Token,
              NoToken
<1>3. TypeOK'
  BY <1>1 DEF TypeOK, PairOrNone, PairId
<1>4. (IssuedInOrder /\ RetainedActive /\ JarActive /\ RespActive)'
  BY <1>1 DEF IInv, TypeOK, IssuedInOrder, RetainedActive, JarActive,
              RespActive, Token, CookieValue, NoToken, Response
<1>5. DeletesLoggedOut'
  BY DEF IInv, DeletesLoggedOut
<1>6. StoreHoldsRetained'
  BY <1>1, <1>2 DEF IInv, TypeOK, StoreHoldsRetained
<1>7. RespCookiesPaired'
  <2> SUFFICES ASSUME ~UseStore, NEW y \in resps'
               PROVE  /\ y.setSt => y.setAcc
                      /\ (y.setAcc /\ y.acc \in retained')
                            => (y.setSt /\ y.st = y.acc.p)
    BY DEF RespCookiesPaired
  <2>1. CASE y = x
    <3>1. tok \in retained' => keep
      BY <1>2
    <3>2. QED
      BY <2>1, <3>1
  <2>2. CASE y \in resps
    <3>1. y.setAcc => y.acc # tok
      BY <1>2, <2>2 DEF NoToken, Token
    <3>2. QED
      BY <2>2, <3>1 DEF IInv, RespCookiesPaired
  <2>3. QED
    BY <2>1, <2>2
<1>8. JarCookiesPaired'
  BY <1>2 DEF IInv, JarCookiesPaired
<1>9. QED
  BY <1>3, <1>4, <1>5, <1>6, <1>7, <1>8 DEF IInv


(* oauthCallbackHandler: the error answers set no cookie; a redeemed code  *)
(* gives a session token of that pair, with or without its refresh token.  *)
LEMMA CallbackIInv ==
    ASSUME IInv, NEW r \in reqs, oauthCallbackHandler(r)
    PROVE  IInv'
<1>1. TypeOK /\ r \in Request
  BY DEF IInv, TypeOK
<1>2. r.code \in PairOrNone /\ r.state \in StateParam
  BY <1>1 DEF Request
<1>3. UNCHANGED <<deletes, jar, pendingAuth, ownCodes, loggedOut>>
  BY DEF oauthCallbackHandler, browserVars
<1>4. ASSUME NEW status \in Status, Abort(r, status),
             UNCHANGED <<idpVars, store, retained>>
      PROVE  IInv'
  <2>1. PICK x \in Response :
           /\ resps' = resps \cup {x}
           /\ ~x.setAcc /\ ~x.setSt
           /\ reqs' = reqs \ {r}
           /\ nreq' = nreq
    BY <1>1, <1>4, AbortNoCookie
  <2>2. IssuedInOrder' /\ PairsForward
    BY <1>4 DEF IInv, IssuedInOrder, PairsForward, idpVars
  <2>3. QED
    BY <1>1, <1>3, <1>4, <2>1, <2>2, NoCookieStep DEF IInv, TypeOK, idpVars
<1>5. ASSUME r.code # 0, pairSt[r.code] = "code",
             pairSt' = [pairSt EXCEPT ![r.code] = "active"],
             UNCHANGED <<npairs, owner, revoked>>
      PROVE  IssuedInOrder' /\ PairsForward
  BY <1>1, <1>2, <1>5 DEF IInv, TypeOK, IssuedInOrder, PairsForward,
                         PairOrNone, PairId
<1>6. ASSUME r.code # 0, Abort(r, 403), ExchangeFails(r.code),
             UNCHANGED <<store, retained>>
      PROVE  IInv'
  <2>1. PICK x \in Response :
           /\ resps' = resps \cup {x}
           /\ ~x.setAcc /\ ~x.setSt
           /\ reqs' = reqs \ {r}
           /\ nreq' = nreq
    BY <1>1, <1>6, AbortNoCookie DEF Status
  <2>2. IssuedInOrder' /\ PairsForward
    <3>1. CASE UNCHANGED pairSt
      BY <1>6, <3>1 DEF ExchangeFails, IInv, IssuedInOrder, PairsForward
    <3>2. CASE pairSt[r.code] = "code"
               /\ pairSt' = [pairSt EXCEPT ![r.code] = "active"]
      BY <1>5, <1>6, <3>2 DEF ExchangeFails
    <3>3. QED
      BY <1>6, <3>1, <3>2 DEF ExchangeFails
  <2>3. QED
    BY <1>1, <1>3, <1>6, <2>1, <2>2, NoCookieStep DEF IInv, TypeOK,
       ExchangeFails, PairsForward
<1>7. ASSUME ~SkipTokenVerification, r.code # 0, pairSt[r.code] = "code",
             pairSt' = [pairSt EXCEPT ![r.code] = "active"],
             UNCHANGED <<npairs, owner, revoked>>,
             \/ Abort(r, 403) /\ UNCHANGED <<store, retained>>
             \/ \E accessIsJWT \in BOOLEAN :
                  LET tok == SessionToken(r.code, accessIsJWT) IN
                  \/ /\ EnableRefreshTokens
                     /\ \/ Abort(r, 500) /\ UNCHANGED <<store, retained>>
                        \/ KeepRefreshToken(r, r.code, tok)
                  \/ /\ Reply(r, 302, TRUE, tok, FALSE, 0, DecodeState(r.state))
                     /\ UNCHANGED <<store, retained>>
      PROVE  IInv'
  <2> DEFINE c == r.code
  <2>1. c \in PairId
    BY <1>2, <1>7 DEF PairOrNone, PairId
  <2>2. IssuedInOrder' /\ PairsForward
    BY <1>5, <1>7
  <2>3. pairSt' \in [PairId -> {"free", "code", "active"}]
    BY <1>1, <1>7 DEF TypeOK
  <2>4. ASSUME NEW status \in Status, Abort(r, status),
               UNCHANGED <<store, retained>>
        PROVE  IInv'
    <3>1. PICK x \in Response :
             /\ resps' = resps \cup {x}
             /\ ~x.setAcc /\ ~x.setSt
             /\ reqs' = reqs \ {r}
             /\ nreq' = nreq
      BY <1>1, <2>4, AbortNoCookie
    <3>2. QED
      BY <1>1, <1>3, <1>7, <2>2, <2>3, <2>4, <3>1, NoCookieStep
         DEF IInv, TypeOK
  <2>5. ASSUME NEW a \in BOOLEAN,
               \/ /\ EnableRefreshTokens
                  /\ KeepRefreshToken(r, c, SessionToken(c, a))
               \/ /\ Reply(r, 302, TRUE, SessionToken(c, a), FALSE, 0,
                           DecodeState(r.state))
                  /\ UNCHANGED <<store, retained>>
        PROVE  IInv'
    <3> DEFINE tok == SessionToken(c, a)
    <3>1. tok \in Token /\ tok.p = c
      BY <2>1 DEF SessionToken, Token
    <3>2. tok \in CookieValue /\ c \in PairOrNone
          /\ DecodeState(r.state) \in Loc /\ 302 \in Status
      BY <2>1, <3>1 DEF CookieValue, PairOrNone, PairId, DecodeState, Loc,
                        Target, Status
    <3>3. ASSUME NEW keep \in BOOLEAN, NEW setSt \in BOOLEAN,
                 NEW st \in PairOrNone,
                 Reply(r, 302, TRUE, tok, setSt, st, DecodeState(r.state)),
                 setSt => keep /\ ~UseStore /\ st = c,
                 (keep /\ ~UseStore) => setSt,
                 retained' = IF keep THEN retained \cup {tok} ELSE retained,
                 store' = IF keep /\ UseStore THEN [store EXCEPT ![tok] = c]
                                              ELSE store
          PROVE  IInv'
      <4>1. PICK x \in Response :
               /\ resps' = resps \cup {x}
               /\ x.setAcc = TRUE /\ x.acc = tok
               /\ x.setSt = setSt /\ x.st = st
               /\ reqs' = reqs \ {r}
               /\ nreq' = nreq
        <5> DEFINE y == [id |-> r.id, b |-> r.b, op |-> r.op, status |-> 302,
                         setAcc |-> TRUE, acc |-> tok, setSt |-> setSt,
                         st |-> st, loc |-> DecodeState(r.state),
                         state |-> r.state]
        <5>1. y \in Response
          BY <1>1, <3>2 DEF Response, Request
        <5>2. resps' = resps \cup {y} /\ reqs' = reqs \ {r} /\ nreq' = nreq
          BY <3>3 DEF Reply
        <5>3. QED
          BY <5>1, <5>2
      <4>2. QED
        BY <1>3, <1>7, <2>1, <3>1, <3>3, <4>1, CallbackIssueStep
    <3>4. CASE UseStore /\ Reply(r, 302, TRUE, tok, FALSE, 0, DecodeState(r.state))
               /\ store' = [store EXCEPT ![tok] = c]
               /\ retained' = retained \cup {tok}
      <4>1. 0 \in PairOrNone /\ TRUE \in BOOLEAN /\ FALSE \in BOOLEAN
        BY DEF PairOrNone
      <4>2. (FALSE => TRUE /\ ~UseStore /\ 0 = c) /\ ((TRUE /\ ~UseStore) => FALSE)
        BY <3>4
      <4>3. retained' = IF TRUE THEN retained \cup {tok} ELSE retained
        BY <3>4
      <4>4. store' = IF TRUE /\ UseStore THEN [store EXCEPT ![tok] = c] ELSE store
        BY <3>4
      <4>5. QED
        BY <3>4, <4>1, <4>2, <4>3, <4>4, <3>3
    <3>5. CASE UseStore /\ Reply(r, 302, TRUE, tok, FALSE, 0, DecodeState(r.state))
               /\ UNCHANGED <<store, retained>>
      <4>1. 0 \in PairOrNone
        BY DEF PairOrNone
      <4>2. QED
        BY <3>5, <4>1, <3>3
    <3>6. CASE ~UseStore /\ Reply(r, 302, TRUE, tok, TRUE, c, DecodeState(r.state))
               /\ retained' = retained \cup {tok}
               /\ UNCHANGED store
      BY <3>6, <3>2, <3>3
    <3>7. CASE Reply(r, 302, TRUE, tok, FALSE, 0, DecodeState(r.state))
               /\ UNCHANGED <<store, retained>>
      <4>1. 0 \in PairOrNone
        BY DEF PairOrNone
      <4>2. QED
        BY <3>7, <4>1, <3>3
    <3>8. QED
      BY <2>5, <3>4, <3>5, <3>6, <3>7 DEF KeepRefreshToken
  <2>6. ASSUME NEW a \in BOOLEAN,
               \/ /\ EnableRefreshTokens
                  /\ \/ Abort(r, 500) /\ UNCHANGED <<store, retained>>
                     \/ KeepRefreshToken(r, c, SessionToken(c, a))
               \/ /\ Reply(r, 302, TRUE, SessionToken(c, a), FALSE, 0,
                           DecodeState(r.state))
                  /\ UNCHANGED <<store, retained>>
        PROVE  IInv'
    <3>1. CASE Abort(r, 500) /\ UNCHANGED <<store, retained>>
      <4>1. 500 \in Status
        BY DEF Status
      <4>2. QED
        BY <3>1, <4>1, <2>4
    <3>2. QED
      BY <2>6, <3>1, <2>5
  <2>7. CASE Abort(r, 403) /\ UNCHANGED <<store, retained>>
    <3>1. 403 \in Status
      BY DEF Status
    <3>2. QED
      BY <2>7, <3>1, <2>4
  <2>8. QED
    BY <1>7, <2>6, <2>7
<1>8. 406 \in Status /\ 400 \in Status /\ 500 \in Status
  BY DEF Status
<1>9. QED
  BY <1>4, <1>6, <1>7, <1>8 DEF oauthCallbackHandler


(* An error answer that leaves the provider, the store and the cookies as  *)
(* they were.                                                              *)
LEMMA AbortStep ==
    ASSUME IInv, NEW r \in reqs, NEW status \in Status, Abort(r, status),
           UNCHANGED <<idpVars, store, deletes, jar, pendingAuth, ownCodes,
                       retained, loggedOut>>
    PROVE  IInv'
<1>1. TypeOK
  BY DEF IInv
<1>2. PICK x \in Response :
         /\ resps' = resps \cup {x}
         /\ ~x.setAcc /\ ~x.setSt
         /\ reqs' = reqs \ {r}
         /\ nreq' = nreq
  BY <1>1, AbortNoCookie
<1>3. IssuedInOrder' /\ PairsForward
  BY DEF IInv, IssuedInOrder, PairsForward, idpVars
<1>4. QED
  BY <1>1, <1>2, <1>3, NoCookieStep DEF IInv, TypeOK, idpVars

(* loginHandler: a password grant opens a fresh pair, whose access token  *)
(* is set as kc-access alone; it is never a retained token.                *)
LEMMA LoginIInv ==
    ASSUME IInv, NEW r \in reqs, loginHandler(r)
    PROVE  IInv'
<1>1. TypeOK /\ r \in Request
  BY DEF IInv, TypeOK
<1>2. UNCHANGED <<store, deletes, jar, pendingAuth, ownCodes, retained,
                  loggedOut>>
  BY DEF loginHandler, proxyVars, browserVars, histVars
<1>3. ASSUME NEW status \in Status, Abort(r, status), UNCHANGED idpVars
      PROVE  IInv'
  BY <1>2, <1>3, AbortStep
<1>4. ASSUME EnableLoginHandler, r.cred = "right", npairs < MaxPairs,
             npairs' = npairs + 1,
             pairSt' = [pairSt EXCEPT ![npairs + 1] = "active"],
             owner' = [owner EXCEPT ![npairs + 1] = r.user],
             UNCHANGED revoked,
             \/ Abort(r, 501)
             \/ Reply(r, 200, TRUE, [p |-> npairs + 1, kind |-> "access"],
                      FALSE, 0, "none")
      PROVE  IInv'
  <2> DEFINE c == npairs + 1
  <2>1. c \in PairId /\ pairSt[c] = "free"
    BY <1>1, <1>4 DEF IInv, TypeOK, IssuedInOrder, PairId
  <2>2. IssuedInOrder' /\ PairsForward
    BY <1>1, <1>4, <2>1 DEF IInv, TypeOK, IssuedInOrder, PairsForward, PairId
  <2>3. /\ npairs' \in 0..MaxPairs
        /\ pairSt' \in [PairId -> {"free", "code", "active"}]
        /\ owner' \in [PairId -> User]
        /\ revoked' \subseteq PairId
    BY <1>1, <1>4, <2>1 DEF TypeOK, Request
  <2>4. CASE Abort(r, 501)
    <3>1. PICK x \in Response :
             /\ resps' = resps \cup {x}
             /\ ~x.setAcc /\ ~x.setSt
             /\ reqs' = reqs \ {r}
             /\ nreq' = nreq
      <4>1. 501 \in Status
        BY DEF Status
      <4>2. QED
        BY <1>1, <2>4, <4>1, AbortNoCookie
    <3>2. QED
      BY <1>2, <2>2, <2>3, <3>1, NoCookieStep
  <2>5. CASE Reply(r, 200, TRUE, [p |-> c, kind |-> "access"], FALSE, 0, "none")
    <3> DEFINE tok == [p |-> c, kind |-> "access"]
    <3> DEFINE x == [id |-> r.id, b |-> r.b, op |-> r.op, status |-> 200,
                     setAcc |-> TRUE, acc |-> tok, setSt |-> FALSE,
                     st |-> 0, loc |-> "none", state |-> r.state]
    <3>1. tok \in Token /\ x \in Response
      BY <1>1, <2>1 DEF Response, Request, Token, CookieValue, Status, Loc,
                        PairOrNone, PairId
    <3>2. resps' = resps \cup {x} /\ reqs' = reqs \ {r} /\ nreq' = nreq
      BY <2>5 DEF Reply
    <3>3. tok \notin retained
      BY <1>1, <2>1 DEF IInv, RetainedActive
    <3>4. TypeOK'
      BY <1>1, <1>2, <2>3, <3>1, <3>2 DEF TypeOK
    <3>5. (RetainedActive /\ JarActive)'
      BY <1>1, <1>2, <2>2 DEF IInv, TypeOK, RetainedActive, JarActive,
                               PairsForward, Token, CookieValue, NoToken
    <3>6. RespActive'
      <4>1. pairSt'[c] = "active"
        BY <1>1, <1>4, <2>1 DEF TypeOK
      <4>2. QED
        BY <1>1, <2>2, <3>2, <4>1 DEF IInv, TypeOK, RespActive, PairsForward,
                                      Response, CookieValue, Token, NoToken
    <3>7. RespCookiesPaired'
      BY <1>2, <3>2, <3>3 DEF IInv, RespCookiesPaired
    <3>8. QED
      BY <1>2, <2>2, <3>4, <3>5, <3>6, <3>7 DEF IInv, DeletesLoggedOut,
         StoreHoldsRetained, JarCookiesPaired
  <2>6. QED
    BY <1>4, <2>4, <2>5
<1>5. QED
  <2>1. 501 \in Status /\ 400 \in Status /\ 500 \in Status /\ 401 \in Status
    BY DEF Status
  <2>2. QED
    BY <1>3, <1>4, <2>1 DEF loginHandler


(* A logout answer clears both cookies and retires the session token.     *)
LEMMA ClearStep ==
    ASSUME IInv, NEW r \in reqs, r.acc \in Token, NEW status \in Status,
           NEW loc \in Loc, Reply(r, status, TRUE, NoToken, TRUE, 0, loc),
           deletes' = IF UseStore THEN deletes \cup {r.acc} ELSE deletes,
           loggedOut' = loggedOut \cup {r.acc},
           revoked' \subseteq PairId,
           UNCHANGED <<npairs, pairSt, owner, store, jar, pendingAuth,
                       ownCodes, retained>>
    PROVE  IInv'
<1>1. TypeOK /\ r \in Request
  BY DEF IInv, TypeOK
<1> DEFINE x == [id |-> r.id, b |-> r.b, op |-> r.op, status |-> status,
                 setAcc |-> TRUE, acc |-> NoToken, setSt |-> TRUE,
                 st |-> 0, loc |-> loc, state |-> r.state]
<1>2. x \in Response
  BY <1>1 DEF Response, Request, CookieValue, PairOrNone
<1>3. resps' = resps \cup {x} /\ reqs' = reqs \ {r} /\ nreq' = nreq
  BY DEF Reply
<1>4. NoToken \notin retained
  BY <1>1 DEF TypeOK, Token, NoToken
<1>5. TypeOK'
  BY <1>1, <1>2, <1>3 DEF TypeOK
<1>6. (IssuedInOrder /\ RetainedActive /\ JarActive /\ JarCookiesPaired)'
  BY DEF IInv, IssuedInOrder, RetainedActive, JarActive, JarCookiesPaired
<1>7. RespActive'
  BY <1>3 DEF IInv, RespActive
<1>8. (DeletesLoggedOut /\ StoreHoldsRetained)'
  BY DEF IInv, DeletesLoggedOut, StoreHoldsRetained
<1>9. RespCookiesPaired'
  BY <1>3, <1>4 DEF IInv, RespCookiesPaired
<1>10. QED
  BY <1>5, <1>6, <1>7, <1>8, <1>9 DEF IInv

(* logoutHandler: every answer after getIdentity clears both cookies; what *)
(* is revoked is a pair id or nothing.                                     *)
LEMMA LogoutIInv ==
    ASSUME IInv, NEW r \in reqs, logoutHandler(r)
    PROVE  IInv'
<1>1. TypeOK /\ r \in Request
  BY DEF IInv, TypeOK
<1>2. UNCHANGED <<store, jar, pendingAuth, ownCodes, retained>>
  BY DEF logoutHandler, browserVars
<1>3. CASE r.acc = NoToken /\ Abort(r, 400)
           /\ UNCHANGED <<idpVars, deletes, loggedOut>>
  <2>1. 400 \in Status
    BY DEF Status
  <2>2. QED
    BY <1>2, <1>3, <2>1, AbortStep
<1>4. CASE r.acc # NoToken
  <2>1. r.acc \in Token
    BY <1>1, <1>4 DEF Request, CookieValue
  <2>2. \A t \in retrieveRefreshToken(r) : t \in PairOrNone
    BY <1>1, <2>1 DEF retrieveRefreshToken, TypeOK, Request, PairOrNone
  <2>3. ASSUME NEW status \in Status, NEW loc \in Loc,
               Reply(r, status, TRUE, NoToken, TRUE, 0, loc),
               revoked' \subseteq PairId,
               deletes' = IF UseStore THEN deletes \cup {r.acc} ELSE deletes,
               loggedOut' = loggedOut \cup {r.acc},
               UNCHANGED <<npairs, pairSt, owner>>
        PROVE  IInv'
    BY <1>2, <2>1, <2>3, ClearStep
  <2>4. ASSUME LogoutDone(r)
        PROVE  \E status \in Status, loc \in Loc :
                  Reply(r, status, TRUE, NoToken, TRUE, 0, loc)
    <3>1. 200 \in Status /\ 302 \in Status /\ "none" \in Loc
          /\ r.redirect \in Loc
      BY <1>1 DEF Status, Loc, Request, RedirectParam, Target
    <3>2. QED
      BY <2>4, <3>1 DEF LogoutDone, ClearAll
  <2>5. ASSUME NEW status \in Status, ClearAll(r, status)
        PROVE  \E st \in Status, loc \in Loc :
                  Reply(r, st, TRUE, NoToken, TRUE, 0, loc)
    <3>1. "none" \in Loc
      BY DEF Loc
    <3>2. QED
      BY <2>5, <3>1 DEF ClearAll
  <2>6. revoked \subseteq PairId
    BY <1>1 DEF TypeOK
  <2>7. 200 \in Status /\ 500 \in Status
    BY DEF Status
  <2>8. /\ deletes' = IF UseStore THEN deletes \cup {r.acc} ELSE deletes
        /\ loggedOut' = loggedOut \cup {r.acc}
        /\ UNCHANGED <<npairs, pairSt, owner>>
    BY <1>4 DEF logoutHandler, NoToken
  <2>9. PICK refresh \in retrieveRefreshToken(r) :
          \/ ~HasRevocationURL /\ LogoutDone(r) /\ UNCHANGED revoked
          \/ HasRevocationURL /\ ClearAll(r, 500) /\ UNCHANGED revoked
          \/ HasRevocationURL /\ ClearAll(r, 200) /\ UNCHANGED revoked
          \/ /\ HasRevocationURL
             /\ revoked' = IF refresh # 0 THEN revoked \cup {refresh}
                                          ELSE revoked
             /\ LogoutDone(r)
    BY <1>4 DEF logoutHandler, NoToken
  <2>10. revoked' \subseteq PairId
    <3>1. refresh \in PairOrNone
      BY <2>2
    <3>2. \/ revoked' = revoked
          \/ revoked' = revoked \cup {refresh} /\ refresh # 0
      <4>1. CASE refresh = 0
        BY <2>9, <4>1
      <4>2. CASE refresh # 0
        BY <2>9, <4>2
      <4>3. QED
        BY <4>1, <4>2
    <3>3. refresh # 0 => refresh \in PairId
      BY <3>1 DEF PairOrNone, PairId
    <3>4. QED
      BY <2>6, <3>2, <3>3
  <2>11. \E status \in Status, loc \in Loc :
            Reply(r, status, TRUE, NoToken, TRUE, 0, loc)
    BY <2>4, <2>5, <2>7, <2>9
  <2>12. QED
    BY <2>3, <2>8, <2>10, <2>11
<1>5. QED
  BY <1>3, <1>4 DEF logoutHandler


(* Every step a browser takes keeps the invariant.                        *)
LEMMA BrowserStepIInv ==
    ASSUME IInv, NEW b \in Browser, BrowserStep(b)
    PROVE  IInv'
<1>1. /\ "authorize" \in Op /\ "callback" \in Op /\ "login" \in Op
      /\ "logout" \in Op /\ "empty" \in Cred /\ "none" \in RedirectParam
      /\ 0 \in PairOrNone /\ "empty" \in StateParam /\ Nobody \in User
  BY NobodyIsUser DEF Op, Cred, RedirectParam, PairOrNone, StateParam
<1>2. CASE \E s \in StateParam : SendAuthorize(b, s)
  BY <1>1, <1>2, SendIInv DEF SendAuthorize
<1>3. CASE \E c \in PairOrNone, s \in StateParam : OpenCallbackLink(b, c, s)
  BY <1>1, <1>3, SendIInv DEF OpenCallbackLink
<1>4. CASE \E u \in User, cred \in Cred : SendLogin(b, u, cred)
  BY <1>1, <1>4, SendIInv DEF SendLogin
<1>5. CASE \E d \in RedirectParam : SendLogout(b, d)
  BY <1>1, <1>5, SendIInv DEF SendLogout
<1>6. CASE \E s \in StateParam, u \in User : ProviderSignIn(b, s, u)
  BY <1>6, ProviderSignInIInv
<1>7. QED
  BY <1>2, <1>3, <1>4, <1>5, <1>6 DEF BrowserStep

(* The idle step and stuttering change nothing.                           *)
LEMMA UnchangedIInv ==
    ASSUME IInv, UNCHANGED vars
    PROVE  IInv'
BY DEF vars, idpVars, proxyVars, browserVars, netVars, histVars, IInv, TypeOK,
       IssuedInOrder, RetainedActive, JarActive, RespActive, DeletesLoggedOut,
       StoreHoldsRetained, RespCookiesPaired, JarCookiesPaired

(* IInv is inductive.                                                     *)
LEMMA NextIInv == IInv /\ [Next]_vars => IInv'
<1> SUFFICES ASSUME IInv, [Next]_vars PROVE IInv'
  OBVIOUS
<1>1. CASE \E b \in Browser : BrowserStep(b)
  BY <1>1, BrowserStepIInv
<1>2. CASE \E r \in reqs : HandlerStep(r)
  BY <1>2, AuthorizeIInv, CallbackIInv, LoginIInv, LogoutIInv DEF HandlerStep
<1>3. CASE \E x \in resps : Receive(x)
  BY <1>3, ReceiveIInv
<1>4. CASE \E t \in deletes : DeleteRefreshToken(t)
  BY <1>4, DeleteRefreshTokenIInv
<1>5. CASE Idle \/ UNCHANGED vars
  BY <1>5, UnchangedIInv DEF Idle
<1>6. QED
  BY <1>1, <1>2, <1>3, <1>4, <1>5 DEF Next

(* The model's type invariant holds in every reachable state: every       *)
(* handler answers with a well-formed response and writes the store, the  *)
(* jar and the provider's tables only with values of their types.         *)
THEOREM TypeCorrect == Spec => []TypeOK
<1>1. IInv => TypeOK
  BY DEF IInv
<1>2. QED
  BY <1>1, InitIInv, NextIInv, PTL DEF Spec

(* IInv implies that a browser holding a retained, not logged-out session *)
(* token can reach its refresh token (kc-state, or the store entry).      *)
LEMMA IInvRetained == IInv => RetainedRefreshReachable
BY DEF IInv, RetainedRefreshReachable, RefreshReachable, StoreHoldsRetained,
       JarCookiesPaired, TypeOK, CookieValue

(* Whenever the callback kept a refresh token for a session (store entry   *)
(* written at handlers.go:182-186 or kc-state set at 187-194), a browser    *)
(* that holds that session's token and has not logged out can find the     *)
(* refresh token again, whatever order the responses arrive in and whatever *)
(* the logout goroutine does.                                              *)
THEOREM RetainedRefreshReachableHolds == Spec => []RetainedRefreshReachable
BY IInvRetained, InitIInv, NextIInv, PTL DEF Spec

(* The inductive invariant itself holds in every reachable state: pairs    *)
(* issued in order, tokens in use belonging to active pairs, the delete    *)
(* goroutine only removing entries of logged-out sessions, and kc-access   *)
(* and kc-state set together, through every interleaving of handlers,      *)
(* deliveries and deletes.                                                 *)
THEOREM IInvHolds == Spec => []IInv
BY InitIInv, NextIInv, PTL DEF Spec

=============================================================================
