\* Store mode: refresh tokens encrypted into the refresh-token store, keyed
\* by the session token; login handler disabled, revocation endpoint configured.
CONSTANTS
    Browser = {b1, b2}
    User = {u1}
    MaxPairs = 2
    MaxRequests = 4
    UseStore = TRUE
    EnableRefreshTokens = TRUE
    EnableLoginHandler = FALSE
    SkipTokenVerification = FALSE
    HasRevocationURL = TRUE
    CustomSignInPage = FALSE
    StateParam <- MCStateParam
    RedirectParam <- MCRedirectParam
SYMMETRY BrowserSymmetry
SPECIFICATION Spec
INVARIANT TypeOK
INVARIANT RetainedRefreshReachable
INVARIANT IInv
PROPERTY StoreRefinesSessionStore
