\* Cookie mode: the encrypted refresh token travels in the kc-state cookie;
\* login handler, revocation endpoint and a custom sign-in page configured.
\* Logouts come with and without ?redirect=, so that a logout's 302 tells a
\* successful revocation POST from a failed one.
CONSTANTS
    Browser = {b1, b2}
    User = {u1}
    MaxPairs = 2
    MaxRequests = 4
    UseStore = FALSE
    EnableRefreshTokens = TRUE
    EnableLoginHandler = TRUE
    SkipTokenVerification = FALSE
    HasRevocationURL = TRUE
    CustomSignInPage = TRUE
    StateParam <- MCStateParam
    RedirectParam <- MCLogoutRedirectParam
SYMMETRY BrowserSymmetry
SPECIFICATION Spec
INVARIANT RetainedRefreshReachable
INVARIANT IInv
PROPERTY LogoutRevokesSession
