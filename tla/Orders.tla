------------------------------- MODULE Orders --------------------------------
(***************************************************************************)
(* Paid operations over an unreliable client connection.                   *)
(* internal/api/idempotency.go: a mutating request claims its key, runs    *)
(* its handler and stores the response, each in a transaction of its own.  *)
(* internal/integration/purchase.go: purchases and top-ups record their    *)
(* result in the transaction that has the effect.                          *)
(* internal/integration/next_plan.go: a successor plan is queued for an    *)
(* account and takes effect at the end of the current entitlement, while   *)
(* operators edit the account: internal/user/user.go reads the whole row   *)
(* in one step and saves it in another.  The database has one writer, so a *)
(* transaction is a step.  Plans have finite traffic.                      *)
(***************************************************************************)
EXTENDS Integers, FiniteSets

CONSTANTS
  Keys,        \* idempotency keys
  Bodies,      \* request fingerprints
  Clients,     \* HTTP requests in progress
  NoBody,      \* no row
  Plans,       \* plan templates
  NoEdit,      \* no operator's edit in progress
  MaxLate,     \* bound on effects of a key that are answered with an error
  MaxAuths,    \* bound on authorized successor plans
  MaxUnits,    \* bound on the traffic used of one plan
  MaxHours,    \* bound on time
  MaxWindows   \* bound on replay windows that expire

ASSUME NoBodyAssumption == NoBody \notin Bodies
ASSUME PlansAssumption == Plans # {}
ASSUME OrderBoundsAssumption == MaxAuths \in Nat /\ MaxUnits \in Nat /\ MaxHours \in Nat

VARIABLES
  idem,        \* idempotency_keys: fingerprint and whether a response is stored
  reqs,        \* where each request is
  commits,     \* ghost: effects of a key in its window
  late,        \* ghost: those of them that were answered with an error
  opRow,       \* integration_operations
  bought,      \* ghost: effects of an operation key in its window
  account,     \* the account's entitlement
  editor,      \* the row an operator's request has read and changed
  hour,        \* time
  next,        \* next_plan_queue row
  dueSeen,     \* an activation pass has listed the account as due
  auths, windows,
  applied,     \* ghost: how often each authorization took effect
  owed         \* ghost: the traffic the customer may still use, from what was
               \* paid for, granted by an operator, used, and lost with a plan

ovars == <<idem, reqs, commits, late, opRow, bought, account, editor, hour, next, dueSeen, auths,
           windows, applied, owed>>
apiVars == <<idem, reqs, commits, late>>
opVars == <<opRow, bought>>
planVars == <<account, editor, hour, next, dueSeen, auths, applied, owed>>

NoRow == [body |-> NoBody, stored |-> FALSE]
NoRequest == [pc |-> "idle", key |-> NoBody, body |-> NoBody]
Terms == 2   \* traffic of a plan, which lasts an hour
FirstPlan == CHOOSE p \in Plans : TRUE
NoNext == [auth |-> 0, plan |-> FirstPlan, source |-> FirstPlan, carry |-> FALSE, review |-> FALSE]
Editable == [plan : Plans, limit : Nat, ends : Nat, on : BOOLEAN]   \* what a save writes
Accounts == [plan : Plans, limit : Nat, ends : Nat, on : BOOLEAN, used : Nat, fits : BOOLEAN]

OTypeOK ==
  /\ idem \in [Keys -> [body : Bodies \cup {NoBody}, stored : BOOLEAN]]
  /\ reqs \in [Clients -> [pc : {"idle", "handle", "store", "release"},
                            key : Keys \cup {NoBody}, body : Bodies \cup {NoBody}]]
  /\ commits \in [Keys -> Nat] /\ late \in [Keys -> 0..MaxLate] /\ bought \in [Keys -> Nat]
  /\ opRow \in [Keys -> Bodies \cup {NoBody}]
  /\ account \in Accounts /\ editor \in Editable \cup {NoEdit} /\ hour \in 0..MaxHours
  /\ next \in [auth : 0..MaxAuths, plan : Plans, source : Plans, carry : BOOLEAN, review : BOOLEAN]
  /\ dueSeen \in BOOLEAN /\ auths \in 0..MaxAuths /\ windows \in 0..MaxWindows
  /\ applied \in [1..MaxAuths -> Nat] /\ owed \in Int

OInit ==
  /\ idem = [k \in Keys |-> NoRow] /\ reqs = [r \in Clients |-> NoRequest]
  /\ commits = [k \in Keys |-> 0] /\ late = commits /\ bought = commits
  /\ opRow = [k \in Keys |-> NoBody]
  /\ account = [plan |-> FirstPlan, limit |-> Terms, ends |-> 1, on |-> TRUE, used |-> 0, fits |-> TRUE]
  /\ editor = NoEdit /\ hour = 0
  /\ next = NoNext /\ dueSeen = FALSE /\ auths = 0 /\ windows = 0
  /\ applied = [a \in 1..MaxAuths |-> 0] /\ owed = Terms

-----------------------------------------------------------------------------
(* The idempotency store of the API.                                        *)

\* wrap: the primary key arbitrates.  A key that exists answers with the
\* stored response, or refuses (another request, or still in progress).
Claim(r, k, b) ==
  /\ reqs[r].pc = "idle" /\ idem[k].body = NoBody
  /\ idem' = [idem EXCEPT ![k] = [body |-> b, stored |-> FALSE]]
  /\ reqs' = [reqs EXCEPT ![r] = [pc |-> "handle", key |-> k, body |-> b]]
  /\ UNCHANGED <<commits, late, opVars, planVars, windows>>

\* The handler: its transaction commits and it answers with success, or it
\* fails first, or it commits and a read of the answer's body fails ("late").
Handle(r, how) ==
  /\ reqs[r].pc = "handle" /\ how \in {"done", "failed", "late"}
  /\ how = "late" => late[reqs[r].key] < MaxLate
  /\ reqs' = [reqs EXCEPT ![r].pc = IF how = "done" THEN "store" ELSE "release"]
  /\ commits' = [commits EXCEPT ![reqs[r].key] = @ + (IF how = "failed" THEN 0 ELSE 1)]
  /\ late' = [late EXCEPT ![reqs[r].key] = @ + (IF how = "late" THEN 1 ELSE 0)]
  /\ UNCHANGED <<idem, opVars, planVars, windows>>

\* Variant: a response that cannot be stored releases the key.
SettleReleasing(r, reaches) ==
  /\ reqs[r].pc \in {"store", "release"}
  /\ reqs' = [reqs EXCEPT ![r] = NoRequest]
  /\ idem' = [idem EXCEPT ![reqs[r].key] =
                IF reaches /\ reqs[r].pc = "store" THEN [@ EXCEPT !.stored = TRUE] ELSE NoRow]
  /\ UNCHANGED <<commits, late, opVars, planVars, windows>>

\* store and release run in the request's context and their errors are
\* dropped: when the client has gone (or the process dies) the row stays as
\* claimed.
Settle(r, reaches) ==
  /\ reqs[r].pc \in {"store", "release"}
  /\ reqs' = [reqs EXCEPT ![r] = NoRequest]
  /\ idem' = [idem EXCEPT ![reqs[r].key] =
                IF ~reaches THEN @ ELSE IF reqs[r].pc = "store" THEN [@ EXCEPT !.stored = TRUE] ELSE NoRow]
  /\ UNCHANGED <<commits, late, opVars, planVars, windows>>

\* The replay window ends, long after any handler: the row is pruned.
ExpireKey(k) ==
  /\ idem[k].body # NoBody /\ windows < MaxWindows /\ windows' = windows + 1
  /\ \A r \in Clients : reqs[r].key # k
  /\ idem' = [idem EXCEPT ![k] = NoRow]
  /\ commits' = [commits EXCEPT ![k] = 0] /\ late' = [late EXCEPT ![k] = 0]
  /\ UNCHANGED <<reqs, opVars, planVars>>

-----------------------------------------------------------------------------
(* Durable operations.                                                      *)

\* Purchase and TopUpQuota: replayTx, the effect and recordResultTx are one
\* transaction.  A used key replays its own operation and refuses another.
Operate(k, b, topUp) ==
  /\ opRow[k] = NoBody
  /\ opRow' = [opRow EXCEPT ![k] = b] /\ bought' = [bought EXCEPT ![k] = @ + 1]
  /\ IF topUp THEN account' = [account EXCEPT !.limit = @ + 1] /\ owed' = owed + 1
              ELSE UNCHANGED <<account, owed>>
  /\ UNCHANGED <<apiVars, editor, hour, next, dueSeen, auths, applied, windows>>

ExpireOperation(k) ==
  /\ opRow[k] # NoBody /\ windows < MaxWindows /\ windows' = windows + 1
  /\ opRow' = [opRow EXCEPT ![k] = NoBody] /\ bought' = [bought EXCEPT ![k] = 0]
  /\ UNCHANGED <<apiVars, planVars>>

-----------------------------------------------------------------------------
(* Successor plans.                                                         *)

AtQuota == account.used >= account.limit
AtBoundary == AtQuota \/ account.ends <= hour

\* QueueNextPlan: one successor per account; a new one replaces the old.
QueueNextPlan(p, carry) ==
  /\ auths < MaxAuths /\ account.fits /\ auths' = auths + 1
  /\ next' = [auth |-> auths + 1, plan |-> p, source |-> account.plan, carry |-> carry, review |-> FALSE]
  /\ UNCHANGED <<apiVars, opVars, account, editor, hour, dueSeen, applied, owed, windows>>

CancelNextPlan ==
  /\ next # NoNext /\ next' = NoNext
  /\ UNCHANGED <<apiVars, opVars, account, editor, hour, dueSeen, auths, applied, owed, windows>>

\* ActivateDueNextPlans lists the due accounts first ...
ListDue ==
  /\ ~dueSeen /\ next # NoNext /\ ~next.review /\ account.on /\ AtBoundary
  /\ dueSeen' = TRUE
  /\ UNCHANGED <<apiVars, opVars, account, editor, hour, next, auths, applied, owed, windows>>

\* Variant: the old allowance is carried, not what is left of it.
CarriedAll == IF next.carry /\ ~AtQuota THEN account.limit ELSE 0

\* Traffic that is carried over: what is left, when time ran out.
Carried == IF next.carry /\ ~AtQuota THEN account.limit - account.used ELSE 0

\* The successor replaces the entitlement: usage starts again from zero, so
\* what was used beyond the old limit is never charged to the new one.
Replace ==
  /\ account' = [account EXCEPT !.plan = next.plan, !.limit = Terms + Carried, !.ends = hour + 1, !.used = 0]
  /\ next' = NoNext /\ applied' = [applied EXCEPT ![next.auth] = @ + 1]
  /\ owed' = Terms + (IF next.carry /\ owed > 0 THEN owed ELSE 0)

\* Variant: what the pass listed is activated without another look.
ActivateListed ==
  /\ dueSeen /\ dueSeen' = FALSE
  /\ IF next = NoNext THEN UNCHANGED <<account, next, applied, owed>> ELSE Replace
  /\ UNCHANGED <<apiVars, opVars, editor, hour, auths, windows>>

\* ... and activates each in a transaction that reads everything again: a
\* plan the operator changed since, or devices that do not fit, go to review.
ActivateNextPlan ==
  /\ dueSeen /\ dueSeen' = FALSE
  /\ \/ /\ next = NoNext \/ next.review \/ ~account.on \/ ~AtBoundary
        /\ UNCHANGED <<account, next, applied, owed>>
     \/ /\ next # NoNext /\ ~next.review /\ account.on /\ AtBoundary
        /\ next.source # account.plan \/ ~account.fits
        /\ next' = [next EXCEPT !.review = TRUE] /\ UNCHANGED <<account, applied, owed>>
     \/ /\ next # NoNext /\ ~next.review /\ account.on /\ AtBoundary
        /\ next.source = account.plan /\ account.fits
        /\ Replace
  /\ UNCHANGED <<apiVars, opVars, editor, hour, auths, windows>>

-----------------------------------------------------------------------------
(* What else happens to the account.                                        *)

\* A cycle charges what the counters moved by, however far past the limit.
Use(n) ==
  /\ account.used + n <= MaxUnits
  /\ account' = [account EXCEPT !.used = @ + n] /\ owed' = owed - n
  /\ UNCHANGED <<apiVars, opVars, editor, hour, next, dueSeen, auths, applied, windows>>

TimePasses ==
  /\ hour < MaxHours /\ hour' = hour + 1
  /\ UNCHANGED <<apiVars, opVars, account, editor, next, dueSeen, auths, applied, owed, windows>>

\* Update reads the row and changes the plan, the limit or the switch in its
\* copy; Renew changes the time ...
Edit ==
  /\ editor = NoEdit
  /\ \/ \E p \in Plans, l \in {account.limit, Terms}, o \in BOOLEAN :
          editor' = [plan |-> p, limit |-> l, ends |-> account.ends, on |-> o]
     \/ editor' = [plan |-> account.plan, limit |-> account.limit, ends |-> hour + 1, on |-> account.on]
  /\ UNCHANGED <<apiVars, opVars, account, hour, next, dueSeen, auths, applied, owed, windows>>

\* ... and saves the whole copy: what was bought or replaced in between is
\* overwritten.  Usage is not among the saved columns.
SaveEdit ==
  /\ editor # NoEdit /\ editor' = NoEdit
  /\ account' = [account EXCEPT !.plan = editor.plan, !.limit = editor.limit,
                                !.ends = editor.ends, !.on = editor.on]
  /\ owed' = owed + (editor.limit - account.limit)
  /\ UNCHANGED <<apiVars, opVars, hour, next, dueSeen, auths, applied, windows>>

\* ResetTraffic and SetTraffic.
Correct(n) ==
  /\ account' = [account EXCEPT !.used = n]
  /\ owed' = owed + (account.used - n)
  /\ UNCHANGED <<apiVars, opVars, editor, hour, next, dueSeen, auths, applied, windows>>

\* Devices come and go, and with them whether the successor fits them.
DevicesChange ==
  /\ account' = [account EXCEPT !.fits = ~@]
  /\ UNCHANGED <<apiVars, opVars, editor, hour, next, dueSeen, auths, applied, owed, windows>>

ApiNext ==
  \/ (\E r \in Clients : (\E how \in {"done", "failed", "late"} : Handle(r, how))
                          \/ (\E reaches \in BOOLEAN : Settle(r, reaches))
                          \/ (\E k \in Keys, b \in Bodies : Claim(r, k, b)))
  \/ (\E k \in Keys : ExpireKey(k))

PlanNext ==
  \/ (\E k \in Keys : ExpireOperation(k) \/ (\E b \in Bodies, t \in BOOLEAN : Operate(k, b, t)))
  \/ (\E p \in Plans, c \in BOOLEAN : QueueNextPlan(p, c)) \/ CancelNextPlan
  \/ ListDue \/ ActivateNextPlan
  \/ (\E n \in 1..MaxUnits : Use(n)) \/ (\E n \in 0..1 : Correct(n))
  \/ TimePasses \/ Edit \/ SaveEdit \/ DevicesChange

\* The two halves share no state, so either may be checked with the other at
\* rest.
ONext == ApiNext \/ PlanNext

OSpec == OInit /\ [][ONext]_ovars

-----------------------------------------------------------------------------

\* "retries from bots and panels never duplicate effects": within its replay
\* window a key has at most one effect that was not answered with an error,
\* whatever request, disconnect or crash meets whatever step.  An effect whose
\* request was answered with an error releases the key, and its retry has
\* another; an operation, which records its result with its effect, has one.
OneEffectPerKey == \A k \in Keys : commits[k] <= 1 + late[k] /\ bought[k] <= 1

\* Traffic is conserved: through top-ups, cycles that charge past the limit,
\* edits and successors, what the row lets the account use is what it is owed.
\* An edit counts for the limit it saves, even over a top-up made since it was
\* read.  A successor brings its own traffic and, if that was agreed, what was
\* left; what else was left, or was used beyond the old limit, is written off.
TrafficConserved == account.limit - account.used = owed

\* A successor takes effect only at the end of the entitlement, while the
\* account is on and its devices fit, only on the plan it was queued for, and
\* once: what the pass listed may have been renewed, switched off, edited to
\* another plan, replaced or cancelled since.
ReplacedAtBoundary ==
  [][\A a \in 1..MaxAuths : applied'[a] # applied[a] =>
       /\ applied[a] = 0 /\ next.auth = a /\ ~next.review
       /\ AtBoundary /\ account.on /\ account.fits /\ next.source = account.plan]_ovars
=============================================================================
