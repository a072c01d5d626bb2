\* Store mode with ?redirect= values: does every logout that answers with
\* the redirect revoke the session's refresh token at the provider?
CONSTANTS
    Browser = {b1, b2}
    User = {u1}
    MaxPairs = 2
    MaxRequests = 4
    UseStore = TRUE
    EnableRefreshTokens = TRUE
    EnableLoginHandler = FALSE
    SkipTokenVerification = FALSE
    HasRevocationURL = TRUE
    CustomSignInPage = FALSE
    StateParam <- MCStateParam
SYMMETRY BrowserSymmetry
SPECIFICATION Spec
PROPERTY LogoutRevokesSession
