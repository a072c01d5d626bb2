--------------------------- MODULE MCProxyHandlers ---------------------------
(***************************************************************************)
(* Model-checking instance of ProxyHandlers.  Browsers and users are model *)
(* values given in the .cfg files; the configuration flags of the proxy    *)
(* are chosen per .cfg.  Browsers are interchangeable (nothing in the      *)
(* specification names one), so the runs without liveness properties use   *)
(* symmetry over them.  Users are not: Nobody picks one of them.           *)
(***************************************************************************)
EXTENDS ProxyHandlers, TLC

BrowserSymmetry == Permutations(Browser)

(* Smaller sets of request parameters, for the runs whose properties do    *)
(* not depend on redirect targets: one same-origin state, no ?redirect=.   *)
MCStateParam == {"empty", "local"}
MCRedirectParam == {"none"}

(* Logout with and without ?redirect=: the 302 answer of a logout is what  *)
(* tells a successful revocation POST from a failed one.                   *)
MCLogoutRedirectParam == {"none", "/"}

=============================================================================
