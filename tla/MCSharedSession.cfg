\* Cookie mode, two users: can one jar hold kc-access of one user and kc-state of another?
CONSTANTS
    Browser = {b1, b2}
    User = {u1, u2}
    MaxPairs = 2
    MaxRequests = 3
    UseStore = FALSE
    EnableRefreshTokens = TRUE
    EnableLoginHandler = TRUE
    SkipTokenVerification = FALSE
    HasRevocationURL = TRUE
    CustomSignInPage = FALSE
    StateParam <- MCStateParam
    RedirectParam <- MCRedirectParam
SYMMETRY BrowserSymmetry
SPECIFICATION Spec
INVARIANT NoSharedSession
