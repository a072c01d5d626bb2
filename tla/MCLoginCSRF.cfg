\* Can a browser end up holding a session from a sign-in another browser started?
CONSTANTS
    Browser = {b1, b2}
    User = {u1, u2}
    MaxPairs = 2
    MaxRequests = 4
    UseStore = TRUE
    EnableRefreshTokens = TRUE
    EnableLoginHandler = TRUE
    SkipTokenVerification = FALSE
    HasRevocationURL = TRUE
    CustomSignInPage = FALSE
    StateParam <- MCStateParam
    RedirectParam <- MCRedirectParam
SYMMETRY BrowserSymmetry
SPECIFICATION Spec
INVARIANT SessionFromOwnSignIn
