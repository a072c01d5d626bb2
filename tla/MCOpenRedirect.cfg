\* All state parameters: does a callback ever redirect to another origin?
CONSTANTS
    Browser = {b1, b2}
    User = {u1}
    MaxPairs = 2
    MaxRequests = 4
    UseStore = TRUE
    EnableRefreshTokens = TRUE
    EnableLoginHandler = TRUE
    SkipTokenVerification = FALSE
    HasRevocationURL = TRUE
    CustomSignInPage = FALSE
    RedirectParam <- MCRedirectParam
SYMMETRY BrowserSymmetry
SPECIFICATION Spec
INVARIANT CallbackRedirectSameOrigin
