---------------------------- MODULE ProxyHandlers ----------------------------
(***************************************************************************)
(* The OAuth flow handlers of keycloak-proxy (src/handlers.go):            *)
(* /oauth/authorize, /oauth/callback, /oauth/login and /oauth/logout,      *)
(* together with retrieveRefreshToken and the goroutine that deletes a     *)
(* refresh token from the store after a logout.                            *)
(*                                                                         *)
(* Around the handlers the module keeps the parts of the system they act   *)
(* on: the browsers' cookie jars (kc-access, kc-state), the refresh-token  *)
(* store, and the OpenID provider (authorization codes, token pairs,       *)
(* revocation).  Requests carry the cookies the browser held when it sent  *)
(* them; responses carry Set-Cookie operations that the browser applies    *)
(* when the response arrives, and responses arrive in any order.  Each     *)
(* handler runs as one step: the handlers share only the store and the     *)
(* provider, and no two handlers touch the same store key or code except   *)
(* as the model shows (see README).                                        *)
(*                                                                         *)
(* Tokens are abstracted to the pair they belong to: the provider issues   *)
(* token pair c for authorization code c (or for a password grant), and    *)
(* the access and id tokens of pair c are the records [p |-> c, kind |->   *)
(* "access"] and [p |-> c, kind |-> "id"].  A refresh token is named by    *)
(* its pair id; its encryption (encodeText/decodeText) is the identity on  *)
(* this name because the key never changes during the process lifetime.   *)
(***************************************************************************)
EXTENDS Naturals, FiniteSets

CONSTANTS
    Browser,                \* user agents, each with a cookie jar
    User,                   \* accounts at the OpenID provider
    MaxPairs,               \* codes and token pairs the provider may issue
    MaxRequests,            \* requests the browsers may send
    UseStore,               \* r.useStore(): refresh tokens go to the store
    EnableRefreshTokens,    \* r.config.EnableRefreshTokens
    EnableLoginHandler,     \* r.config.EnableLoginHandler
    SkipTokenVerification,  \* r.config.SkipTokenVerification
    HasRevocationURL,       \* defaultTo(RevocationEndpoint, EndSessionEndpoint) # ""
    CustomSignInPage        \* r.config.hasCustomSignInPage()

ASSUME ConstantsAssumption ==
    /\ Browser # {}
    /\ User # {}
    /\ MaxPairs \in Nat
    /\ MaxRequests \in Nat
    /\ UseStore \in BOOLEAN
    /\ EnableRefreshTokens \in BOOLEAN
    /\ EnableLoginHandler \in BOOLEAN
    /\ SkipTokenVerification \in BOOLEAN
    /\ HasRevocationURL \in BOOLEAN
    /\ CustomSignInPage \in BOOLEAN

-----------------------------------------------------------------------------
(* Data.                                                                   *)

PairId == 1..MaxPairs
PairOrNone == 0..MaxPairs                 \* 0: no pair (no code, no kc-state)
Token == [p : PairId, kind : {"access", "id"}]
NoToken == [p |-> 0, kind |-> "none"]     \* no kc-access cookie
CookieValue == Token \cup {NoToken}

(* Redirect targets: the proxy's root, another same-origin path, and a     *)
(* URL of another origin.  The state query parameter is either absent,     *)
(* not valid base64, or the base64 encoding of a target.                   *)
Target == {"/", "local", "external"}
StateParam == {"empty", "malformed", "local", "external"}
Loc == {"none", "idp"} \cup Target
RedirectParam == {"none"} \cup Target
Cred == {"empty", "wrong", "right"}
Op == {"authorize", "callback", "login", "logout"}
Status == {200, 302, 400, 401, 403, 406, 500, 501}

(* An arbitrary user, the owner recorded for a pair not yet issued. *)
Nobody == CHOOSE u \in User : TRUE

Request ==
    [id : 1..MaxRequests, b : Browser, op : Op, acc : CookieValue,
     st : PairOrNone, code : PairOrNone, state : StateParam, user : User,
     cred : Cred, redirect : RedirectParam]

Response ==
    [id : 1..MaxRequests, b : Browser, op : Op, status : Status,
     setAcc : BOOLEAN, acc : CookieValue, setSt : BOOLEAN, st : PairOrNone,
     loc : Loc, state : StateParam]

-----------------------------------------------------------------------------
VARIABLES
    npairs,       \* provider: pairs 1..npairs have been issued (as code or grant)
    pairSt,       \* provider: "free", "code" (code not redeemed) or "active"
    owner,        \* provider: the user each code / pair was issued to
    revoked,      \* provider: pairs a revocation POST named and got an answer to
    store,        \* refresh-token store: session token -> pair of its refresh token
    deletes,      \* DeleteRefreshToken goroutines started by logout, not yet run
    jar,          \* browser cookies: kc-access token and kc-state refresh token
    pendingAuth,  \* browser: sign-in pages of the provider open, by state param
    reqs,         \* requests sent and not yet handled
    resps,        \* responses written and not yet received by the browser
    nreq,         \* requests sent so far
    ownCodes,     \* history: codes issued to sign-ins that browser b started
    retained,     \* history: session tokens whose refresh token the proxy kept
    loggedOut     \* history: session tokens a logout has been handled for

idpVars == <<npairs, pairSt, owner, revoked>>
proxyVars == <<store, deletes>>
browserVars == <<jar, pendingAuth>>
netVars == <<reqs, resps, nreq>>
histVars == <<ownCodes, retained, loggedOut>>
vars == <<idpVars, proxyVars, browserVars, netVars, histVars>>

TypeOK ==
    /\ npairs \in 0..MaxPairs
    /\ pairSt \in [PairId -> {"free", "code", "active"}]
    /\ owner \in [PairId -> User]
    /\ revoked \subseteq PairId
    /\ store \in [Token -> PairOrNone]
    /\ deletes \subseteq Token
    /\ jar \in [Browser -> [acc : CookieValue, st : PairOrNone]]
    /\ pendingAuth \in [Browser -> SUBSET StateParam]
    /\ reqs \subseteq Request
    /\ resps \subseteq Response
    /\ nreq \in 0..MaxRequests
    /\ ownCodes \in [Browser -> SUBSET PairId]
    /\ retained \subseteq Token
    /\ loggedOut \subseteq Token

Init ==
    /\ npairs = 0
    /\ pairSt = [p \in PairId |-> "free"]
    /\ owner = [p \in PairId |-> Nobody]
    /\ revoked = {}
    /\ store = [t \in Token |-> 0]
    /\ deletes = {}
    /\ jar = [b \in Browser |-> [acc |-> NoToken, st |-> 0]]
    /\ pendingAuth = [b \in Browser |-> {}]
    /\ reqs = {}
    /\ resps = {}
    /\ nreq = 0
    /\ ownCodes = [b \in Browser |-> {}]
    /\ retained = {}
    /\ loggedOut = {}

-----------------------------------------------------------------------------
(* Messages.                                                               *)

(* Browser b sends a request; it carries the cookies b holds now. *)
Send(b, op, code, state, user, cred, redirect) ==
    /\ nreq < MaxRequests
    /\ nreq' = nreq + 1
    /\ reqs' = reqs \cup
          {[id |-> nreq + 1, b |-> b, op |-> op, acc |-> jar[b].acc,
            st |-> jar[b].st, code |-> code, state |-> state, user |-> user,
            cred |-> cred, redirect |-> redirect]}
    /\ UNCHANGED resps

(* The handler of request r returns; its response carries Set-Cookie       *)
(* operations for kc-access (setAcc, acc) and kc-state (setSt, st), where  *)
(* NoToken and 0 stand for the cookie cleared with MaxAge -1.              *)
Reply(r, status, setAcc, acc, setSt, st, loc) ==
    /\ reqs' = reqs \ {r}
    /\ resps' = resps \cup
          {[id |-> r.id, b |-> r.b, op |-> r.op, status |-> status,
            setAcc |-> setAcc, acc |-> acc, setSt |-> setSt, st |-> st,
            loc |-> loc, state |-> r.state]}
    /\ UNCHANGED nreq

(* cx.AbortWithStatus(status): no cookie set, no redirect. *)
Abort(r, status) == Reply(r, status, FALSE, NoToken, FALSE, 0, "none")

-----------------------------------------------------------------------------
(* The browsers and the provider.                                          *)

SendAuthorize(b, s) ==
    /\ Send(b, "authorize", 0, s, Nobody, "empty", "none")
    /\ UNCHANGED <<idpVars, proxyVars, browserVars, histVars>>

SendLogin(b, u, cred) ==
    /\ Send(b, "login", 0, "empty", u, cred, "none")
    /\ UNCHANGED <<idpVars, proxyVars, browserVars, histVars>>

SendLogout(b, redirect) ==
    /\ Send(b, "logout", 0, "empty", Nobody, "empty", redirect)
    /\ UNCHANGED <<idpVars, proxyVars, browserVars, histVars>>

(* Browser b opens a /oauth/callback link it did not get from a sign-in it *)
(* started: a link planted by another site, a replayed code, or no code.   *)
OpenCallbackLink(b, c, s) ==
    /\ c \in 0..npairs
    /\ Send(b, "callback", c, s, Nobody, "empty", "none")
    /\ UNCHANGED <<idpVars, proxyVars, browserVars, histVars>>

(* On the provider's sign-in page that browser b was sent to with state s, *)
(* user u signs in; the provider issues a fresh code and redirects b to    *)
(* /oauth/callback?code=c&state=s.                                         *)
ProviderSignIn(b, s, u) ==
    /\ s \in pendingAuth[b]
    /\ npairs < MaxPairs
    /\ LET c == npairs + 1 IN
       /\ npairs' = c
       /\ pairSt' = [pairSt EXCEPT ![c] = "code"]
       /\ owner' = [owner EXCEPT ![c] = u]
       /\ ownCodes' = [ownCodes EXCEPT ![b] = @ \cup {c}]
       /\ Send(b, "callback", c, s, Nobody, "empty", "none")
    /\ pendingAuth' = [pendingAuth EXCEPT ![b] = @ \ {s}]
    /\ UNCHANGED <<revoked, proxyVars, jar, retained, loggedOut>>

(* Browser b receives response x: it applies the Set-Cookie headers and,   *)
(* when x redirects to the provider, opens its sign-in page.              *)
Receive(x) ==
    /\ x \in resps
    /\ resps' = resps \ {x}
    /\ jar' = [jar EXCEPT ![x.b] =
                 [acc |-> IF x.setAcc THEN x.acc ELSE @.acc,
                  st  |-> IF x.setSt THEN x.st ELSE @.st]]
    /\ pendingAuth' = IF x.loc = "idp"
                        THEN [pendingAuth EXCEPT ![x.b] = @ \cup {x.state}]
                        ELSE pendingAuth
    /\ UNCHANGED <<idpVars, proxyVars, reqs, nreq, histVars>>

-----------------------------------------------------------------------------
(* The handlers.                                                           *)

(* oauthAuthorizationHandler: 406 when token verification is skipped, 500 *)
(* when the oauth client cannot be built, else the browser is sent to the *)
(* provider's authorization URL (by a redirect, or by a sign-in page that  *)
(* links to it) with the state query parameter passed on unchanged.        *)
oauthAuthorizationHandler(r) ==
    /\ r \in reqs
    /\ r.op = "authorize"
    /\ \/ SkipTokenVerification /\ Abort(r, 406)
       \/ ~SkipTokenVerification /\ Abort(r, 500)
       \/ ~SkipTokenVerification
          /\ Reply(r, IF CustomSignInPage THEN 200 ELSE 302,
                   FALSE, NoToken, FALSE, 0, "idp")
    /\ UNCHANGED <<idpVars, proxyVars, browserVars, histVars>>

(* Bug variant of DecodeState: the state parameter used undecoded. *)
DecodeStateUndecoded(s) == s

(* The state parameter decoded into the post-login target (lines 201-212): *)
(* absent or not valid base64 gives "/", else the decoded URL as it is.    *)
DecodeState(s) == IF s \in Target THEN s ELSE "/"

(* The token the callback keeps as the session token (lines 137-160): the *)
(* access token when it parses as a JWT, else the verified id token.       *)
SessionToken(c, accessIsJWT) ==
    [p |-> c, kind |-> IF accessIsJWT THEN "access" ELSE "id"]

(* exchangeAuthenticationCode failed: the code was unknown or already      *)
(* redeemed, or the exchange failed in transport, before or after the      *)
(* provider redeemed the code.                                             *)
ExchangeFails(c) ==
    /\ \/ UNCHANGED pairSt
       \/ pairSt[c] = "code" /\ pairSt' = [pairSt EXCEPT ![c] = "active"]
    /\ UNCHANGED <<npairs, owner, revoked>>

(* Bug variant of KeepRefreshToken: the refresh token stored under the id *)
(* token even when the session token is the access token.                  *)
KeepRefreshTokenUnderIdToken(r, c, tok) ==
    \/ /\ UseStore
       /\ Reply(r, 302, TRUE, tok, FALSE, 0, DecodeState(r.state))
       /\ store' = [store EXCEPT ![[p |-> c, kind |-> "id"]] = c]
       /\ retained' = retained \cup {tok}
    \/ /\ UseStore
       /\ Reply(r, 302, TRUE, tok, FALSE, 0, DecodeState(r.state))
       /\ UNCHANGED <<store, retained>>
    \/ /\ ~UseStore
       /\ Reply(r, 302, TRUE, tok, TRUE, c, DecodeState(r.state))
       /\ retained' = retained \cup {tok}
       /\ UNCHANGED store

(* Bug variant of KeepRefreshToken: lines 190-194 missing, so in cookie    *)
(* mode kc-access is dropped but kc-state keeps its old value.             *)
KeepRefreshTokenWithoutStateCookie(r, c, tok) ==
    \/ /\ UseStore
       /\ Reply(r, 302, TRUE, tok, FALSE, 0, DecodeState(r.state))
       /\ store' = [store EXCEPT ![tok] = c]
       /\ retained' = retained \cup {tok}
    \/ /\ UseStore
       /\ Reply(r, 302, TRUE, tok, FALSE, 0, DecodeState(r.state))
       /\ UNCHANGED <<store, retained>>
    \/ /\ ~UseStore
       /\ Reply(r, 302, TRUE, tok, FALSE, 0, DecodeState(r.state))
       /\ retained' = retained \cup {tok}
       /\ UNCHANGED store

(* Bug variant of KeepRefreshToken: the entry is stored under the session *)
(* token the request came with, when it had one, not under the new token.  *)
KeepRefreshTokenUnderRequestToken(r, c, tok) ==
    \/ /\ UseStore
       /\ Reply(r, 302, TRUE, tok, FALSE, 0, DecodeState(r.state))
       /\ store' = [store EXCEPT ![IF r.acc = NoToken THEN tok ELSE r.acc] = c]
       /\ retained' = retained \cup {tok}
    \/ /\ UseStore
       /\ Reply(r, 302, TRUE, tok, FALSE, 0, DecodeState(r.state))
       /\ UNCHANGED <<store, retained>>
    \/ /\ ~UseStore
       /\ Reply(r, 302, TRUE, tok, TRUE, c, DecodeState(r.state))
       /\ retained' = retained \cup {tok}
       /\ UNCHANGED store

(* Lines 169-195, refresh tokens enabled and returned: kc-access := tok,   *)
(* and the encrypted refresh token of pair c either written to the store   *)
(* under tok (a failed write is only logged) or dropped in kc-state.       *)
KeepRefreshToken(r, c, tok) ==
    \/ /\ UseStore
       /\ Reply(r, 302, TRUE, tok, FALSE, 0, DecodeState(r.state))
       /\ store' = [store EXCEPT ![tok] = c]
       /\ retained' = retained \cup {tok}
    \/ /\ UseStore
       /\ Reply(r, 302, TRUE, tok, FALSE, 0, DecodeState(r.state))
       /\ UNCHANGED <<store, retained>>
    \/ /\ ~UseStore
       /\ Reply(r, 302, TRUE, tok, TRUE, c, DecodeState(r.state))
       /\ retained' = retained \cup {tok}
       /\ UNCHANGED store

(* oauthCallbackHandler (lines 105-215).                                   *)
oauthCallbackHandler(r) ==
    /\ r \in reqs
    /\ r.op = "callback"
    /\ \/ /\ SkipTokenVerification
          /\ Abort(r, 406)
          /\ UNCHANGED <<idpVars, store, retained>>
       \/ /\ ~SkipTokenVerification
          /\ r.code = 0
          /\ Abort(r, 400)
          /\ UNCHANGED <<idpVars, store, retained>>
       \/ /\ ~SkipTokenVerification
          /\ r.code # 0
          /\ Abort(r, 500)                 \* getOAuthClient failed
          /\ UNCHANGED <<idpVars, store, retained>>
       \/ /\ ~SkipTokenVerification
          /\ r.code # 0
          /\ Abort(r, 403)
          /\ ExchangeFails(r.code)
          /\ UNCHANGED <<store, retained>>
       \/ /\ ~SkipTokenVerification
          /\ r.code # 0
          /\ pairSt[r.code] = "code"
          /\ pairSt' = [pairSt EXCEPT ![r.code] = "active"]
          /\ UNCHANGED <<npairs, owner, revoked>>
          /\ \/ /\ Abort(r, 403)           \* id token does not parse or verify
                /\ UNCHANGED <<store, retained>>
             \/ \E accessIsJWT \in BOOLEAN :
                  LET tok == SessionToken(r.code, accessIsJWT) IN
                  \/ /\ EnableRefreshTokens    \* and a refresh token returned
                     /\ \/ /\ Abort(r, 500)    \* encodeText failed
                           /\ UNCHANGED <<store, retained>>
                        \/ KeepRefreshToken(r, r.code, tok)
                  \/ /\ Reply(r, 302, TRUE, tok, FALSE, 0, DecodeState(r.state))
                     /\ UNCHANGED <<store, retained>>
    /\ UNCHANGED <<deletes, browserVars, ownCodes, loggedOut>>

(* loginHandler (lines 218-272): the resource-owner password grant.  On    *)
(* success only kc-access is set; the tokens go back in the JSON body.     *)
loginHandler(r) ==
    /\ r \in reqs
    /\ r.op = "login"
    /\ \/ /\ ~EnableLoginHandler
          /\ Abort(r, 501)
          /\ UNCHANGED idpVars
       \/ /\ EnableLoginHandler
          /\ r.cred = "empty"
          /\ Abort(r, 400)
          /\ UNCHANGED idpVars
       \/ /\ EnableLoginHandler
          /\ r.cred # "empty"
          /\ Abort(r, 500)                 \* no oauth client, or transport error
          /\ UNCHANGED idpVars
       \/ /\ EnableLoginHandler
          /\ r.cred = "wrong"
          /\ Abort(r, 401)                 \* invalid_grant
          /\ UNCHANGED idpVars
       \/ /\ EnableLoginHandler
          /\ r.cred = "right"
          /\ npairs < MaxPairs
          /\ LET c == npairs + 1 IN
             /\ npairs' = c
             /\ pairSt' = [pairSt EXCEPT ![c] = "active"]
             /\ owner' = [owner EXCEPT ![c] = r.user]
             /\ \/ Abort(r, 501)           \* access token does not parse
                \/ Reply(r, 200, TRUE, [p |-> c, kind |-> "access"], FALSE, 0, "none")
          /\ UNCHANGED revoked
    /\ UNCHANGED <<proxyVars, browserVars, histVars>>

(* retrieveRefreshToken (lines 464-480): the refresh token of the session  *)
(* from the store under the session token, or from kc-state; 0 when there  *)
(* is none or the store cannot be read.                                    *)
retrieveRefreshToken(r) == IF UseStore THEN {store[r.acc], 0} ELSE {r.st}

(* clearAllCookies, then cx.AbortWithStatus(status). *)
ClearAll(r, status) == Reply(r, status, TRUE, NoToken, TRUE, 0, "none")

LogoutDone(r) ==
    IF r.redirect = "none"
    THEN ClearAll(r, 200)
    ELSE Reply(r, 302, TRUE, NoToken, TRUE, 0, r.redirect)

(* logoutHandler (lines 280-371).  The refresh token, when found, is what  *)
(* is posted to the revocation endpoint, else the access token, which the  *)
(* provider does not revoke anything for.  Once the POST has an answer,    *)
(* 204 or another status (only logged, lines 349-359), the handler goes on *)
(* to LogoutDone; revoked records the refresh token the POST named.        *)
logoutHandler(r) ==
    /\ r \in reqs
    /\ r.op = "logout"
    /\ \/ /\ r.acc = NoToken               \* getIdentity failed
          /\ Abort(r, 400)
          /\ UNCHANGED <<idpVars, deletes, loggedOut>>
       \/ /\ r.acc # NoToken
          /\ deletes' = IF UseStore THEN deletes \cup {r.acc} ELSE deletes
          /\ loggedOut' = loggedOut \cup {r.acc}
          /\ UNCHANGED <<npairs, pairSt, owner>>
          /\ \E refresh \in retrieveRefreshToken(r) :
               \/ /\ ~HasRevocationURL
                  /\ LogoutDone(r)
                  /\ UNCHANGED revoked
               \/ /\ HasRevocationURL
                  /\ ClearAll(r, 500)      \* OAuthClient failed
                  /\ UNCHANGED revoked
               \/ /\ HasRevocationURL
                  /\ ClearAll(r, 200)      \* the POST failed: plain return
                  /\ UNCHANGED revoked
               \/ /\ HasRevocationURL
                  /\ revoked' = IF refresh # 0 THEN revoked \cup {refresh}
                                               ELSE revoked
                  /\ LogoutDone(r)
    /\ UNCHANGED <<store, browserVars, ownCodes, retained>>

(* The goroutine started by logout (lines 299-307): DeleteRefreshToken of  *)
(* the session token; a failure is only logged.                            *)
DeleteRefreshToken(t) ==
    /\ t \in deletes
    /\ deletes' = deletes \ {t}
    /\ \/ store' = [store EXCEPT ![t] = 0]
       \/ UNCHANGED store
    /\ UNCHANGED <<idpVars, browserVars, netVars, histVars>>

(* Every request answered and the request budget spent: the proxy idles. *)
Idle ==
    /\ reqs = {}
    /\ resps = {}
    /\ deletes = {}
    /\ nreq = MaxRequests
    /\ UNCHANGED vars

-----------------------------------------------------------------------------
BrowserStep(b) ==
    \/ \E s \in StateParam : SendAuthorize(b, s)
    \/ \E c \in PairOrNone, s \in StateParam : OpenCallbackLink(b, c, s)
    \/ \E u \in User, cred \in Cred : SendLogin(b, u, cred)
    \/ \E d \in RedirectParam : SendLogout(b, d)
    \/ \E s \in StateParam, u \in User : ProviderSignIn(b, s, u)

HandlerStep(r) ==
    \/ oauthAuthorizationHandler(r)
    \/ oauthCallbackHandler(r)
    \/ loginHandler(r)
    \/ logoutHandler(r)

Next ==
    \/ \E b \in Browser : BrowserStep(b)
    \/ \E r \in reqs : HandlerStep(r)
    \/ \E x \in resps : Receive(x)
    \/ \E t \in deletes : DeleteRefreshToken(t)
    \/ Idle

Spec == Init /\ [][Next]_vars

-----------------------------------------------------------------------------
(* Properties.                                                             *)

(* The refresh token a session can be refreshed or revoked with is where   *)
(* the handlers look for it: in store mode under the session token the     *)
(* browser holds, in cookie mode in the same jar's kc-state.               *)
RefreshReachable(b) ==
    IF UseStore THEN store[jar[b].acc] = jar[b].acc.p
                ELSE jar[b].st = jar[b].acc.p

(* Whenever a browser holds the kc-access token of a session whose refresh *)
(* token the callback kept, and no logout of that session has been         *)
(* handled, retrieveRefreshToken would find that session's refresh token:  *)
(* the callback's write (store key or kc-state), the out-of-order arrival  *)
(* of responses, other tabs' logouts and the delete goroutine never leave  *)
(* a live session pointing at a missing or foreign refresh token.         *)
RetainedRefreshReachable ==
    \A b \in Browser :
        jar[b].acc \in retained \ loggedOut => RefreshReachable(b)

(* Spec section 3: "Sessions are never shared across subjects": the        *)
(* kc-access and kc-state cookies of a browser belong to the same user.    *)
NoSharedSession ==
    \A b \in Browser :
        (jar[b].acc # NoToken /\ jar[b].st # 0)
            => owner[jar[b].acc.p] = owner[jar[b].st]

(* Spec 4.8: the URL decoded from the callback's state parameter "MUST be  *)
(* restricted to same-origin targets": no callback response redirects to   *)
(* another origin.                                                         *)
CallbackRedirectSameOrigin ==
    \A x \in resps : x.op = "callback" => x.loc # "external"

(* Spec 4.8: the authorize step builds the provider URL with nonce and     *)
(* state, so that a callback completes only a sign-in the same browser     *)
(* started: a session from an authorization code sits only in the jar of  *)
(* the browser whose sign-in the code was issued to.                      *)
SessionFromOwnSignIn ==
    \A b \in Browser :
        (jar[b].acc # NoToken /\ jar[b].acc.p \in UNION {ownCodes[o] : o \in Browser})
            => jar[b].acc.p \in ownCodes[b]

(* Spec 7 and scenario 5: a revocation failure on logout is swallowed and  *)
(* the client still sees a successful logout, redirected to ?redirect=     *)
(* when given: every successful answer to a logout with a redirect        *)
(* parameter redirects there.                                              *)
LogoutRedirectHonoured ==
    [][\A r \in reqs \ reqs' :
         (r.op = "logout" /\ r.redirect # "none")
            => \A x \in resps' \ resps :
                  x.status \in {200, 302} => x.loc = r.redirect]_vars

(* Spec 4.8 ("GET /oauth/logout: revoke (C3)"), section 6 ("revokes        *)
(* upstream") and scenario 5: a logout of a valid session asks the         *)
(* provider to revoke it.  Every logout of a session whose refresh token   *)
(* the callback kept that answers with the 302 to ?redirect= has posted    *)
(* that session's refresh token, not the access token, to the revocation   *)
(* endpoint and got an answer (lines 292-295, 331-370).  The answer's      *)
(* status is only logged, so this says the POST was made and answered,     *)
(* not that the provider accepted it.                                      *)
LogoutRevokesSession ==
    [][\A r \in reqs \ reqs' :
         (/\ r.op = "logout"
          /\ r.acc \in retained
          /\ HasRevocationURL
          /\ \E x \in resps' \ resps : x.status = 302)
            => r.acc.p \in revoked']_vars

(* The refresh-token store as the flow handlers use it implements the      *)
(* store's abstract contract (SessionStore) under the mapping of its keys  *)
(* and of the logged-out sessions: the callback writes an entry only for a *)
(* live session that has none (never overwriting another session's entry, *)
(* lines 182-186), logout closes the session (280-296), and the delete     *)
(* goroutine only removes entries of closed sessions (299-307).            *)
SS == INSTANCE SessionStore
        WITH Session <- Token, Refresh <- PairId, None <- 0,
             kv <- store, closed <- loggedOut

StoreRefinesSessionStore == SS!Spec

-----------------------------------------------------------------------------
(* The inductive invariant behind RetainedRefreshReachable (proved in      *)
(* ProxyHandlersProofs).  Pairs are issued in order and never return to    *)
(* "free", so a code being redeemed names a pair no cookie, response or    *)
(* retained token refers to yet; logout schedules deletes only for the     *)
(* sessions it logs out; and in cookie mode every response that sets       *)
(* kc-state also sets kc-access, and one that sets a retained kc-access    *)
(* sets its refresh token beside it.                                       *)

IssuedInOrder == \A p \in PairId : (pairSt[p] = "free") <=> (p > npairs)

RetainedActive == \A t \in retained : pairSt[t.p] = "active"

JarActive ==
    \A b \in Browser : jar[b].acc # NoToken => pairSt[jar[b].acc.p] = "active"

RespActive ==
    \A x \in resps : (x.setAcc /\ x.acc # NoToken) => pairSt[x.acc.p] = "active"

DeletesLoggedOut == deletes \subseteq loggedOut

StoreHoldsRetained ==
    UseStore => \A t \in retained \ loggedOut : store[t] = t.p

RespCookiesPaired ==
    ~UseStore =>
        \A x \in resps :
            /\ x.setSt => x.setAcc
            /\ (x.setAcc /\ x.acc \in retained) => (x.setSt /\ x.st = x.acc.p)

JarCookiesPaired ==
    ~UseStore => \A b \in Browser : jar[b].acc \in retained => jar[b].st = jar[b].acc.p

IInv ==
    /\ TypeOK
    /\ IssuedInOrder
    /\ RetainedActive
    /\ JarActive
    /\ RespActive
    /\ DeletesLoggedOut
    /\ StoreHoldsRetained
    /\ RespCookiesPaired
    /\ JarCookiesPaired

=============================================================================
