\* All ?redirect= values: is every successful logout with a redirect parameter redirected?
CONSTANTS
    Browser = {b1, b2}
    User = {u1}
    MaxPairs = 2
    MaxRequests = 4
    UseStore = TRUE
    EnableRefreshTokens = TRUE
    EnableLoginHandler = TRUE
    SkipTokenVerification = FALSE
    HasRevocationURL = TRUE
    CustomSignInPage = FALSE
    StateParam <- MCStateParam
SYMMETRY BrowserSymmetry
SPECIFICATION Spec
PROPERTY LogoutRedirectHonoured
