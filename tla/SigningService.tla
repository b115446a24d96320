--------------------------- MODULE SigningService ---------------------------
(***************************************************************************)
(* What a caller of the host library sees of a signature: a request, and   *)
(* later either a signature of exactly that request or an error.           *)
(***************************************************************************)
CONSTANTS
  Request,   \* what a caller may ask to have signed
  Nothing    \* no request

VARIABLES
  pending,   \* the request that is being served, or Nothing
  outcome    \* what the last request got: the request signed, or Nothing

serviceVars == <<pending, outcome>>

Init == pending = Nothing /\ outcome = Nothing

Ask ==
  /\ pending = Nothing
  /\ pending' \in Request
  /\ outcome' = Nothing

Sign == pending # Nothing /\ outcome' = pending /\ pending' = Nothing

Fail == pending # Nothing /\ outcome' = Nothing /\ pending' = Nothing

Next == Ask \/ Sign \/ Fail

\* Every request is served.
Spec == Init /\ [][Next]_serviceVars /\ WF_serviceVars(Sign \/ Fail)
=============================================================================
