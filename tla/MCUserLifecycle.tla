-------------------------- MODULE MCUserLifecycle --------------------------
(***************************************************************************)
(* An account: its row under cycles, expiry and one request in flight, with *)
(* a limit of one byte; and what is sold to it, through the API's           *)
(* idempotency keys ("api") and as operations and successor plans           *)
(* ("plans").  A behaviour exercises one of the three, which `subject'      *)
(* names.                                                                   *)
(***************************************************************************)
EXTENDS UserLifecycle, Orders

VARIABLE subject

allVars == <<subject, vars, ovars>>

InAccount(A) == subject = "account" /\ A /\ UNCHANGED <<subject, ovars>>
InApi(A) == subject = "api" /\ A /\ UNCHANGED <<subject, vars>>
InPlans(A) == subject = "plans" /\ A /\ UNCHANGED <<subject, vars>>

SoldInit ==
  /\ subject \in {"account", "api", "plans"}
  /\ Init /\ OInit
  /\ subject # "account" => acct = CHOOSE a \in NewAccounts : TRUE
\* The bound on replay windows ends a behaviour of the API.
AtBound == subject = "api" /\ windows = MaxWindows /\ UNCHANGED allVars
SoldNext == InAccount(Next) \/ InApi(ApiNext) \/ InPlans(PlanNext) \/ AtBound
SoldSpec ==
  /\ SoldInit /\ [][SoldNext]_allVars
  /\ WF_allVars(InAccount(Cycle)) /\ WF_allVars(InAccount(EnforceExpiry))
=============================================================================
