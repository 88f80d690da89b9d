---------------------------- MODULE UserLifecycle ----------------------------
(***************************************************************************)
(* One account that has a device: internal/user, and the writes of         *)
(* internal/accounting to the users row.                                   *)
(*                                                                         *)
(* internal/accounting reads and writes the row in one transaction.        *)
(* internal/user reads the row, computes the new one, and writes all its   *)
(* columns but the usage in a later transaction: what was committed in     *)
(* between is overwritten.  Byte counts are int64.                         *)
(***************************************************************************)
EXTENDS Integers

CONSTANTS Admins,     \* requests of internal/user that may be in flight
          Limits,     \* traffic limits an operator sets
          Amounts,    \* byte counts of one cycle, push or quota addition
          Durations,  \* subscription lengths
          None,       \* SQL NULL
          Idle,       \* no request in flight
          MaxInt,     \* math.MaxInt64
          MaxUsed,    \* bound: bytes charged by cycles and pushes
          MaxTime     \* bound: clock; renewals end at most one tick later

ASSUME ByteAssumption ==
  /\ MaxInt \in Nat /\ MaxUsed \in Nat /\ MaxTime \in Nat
  /\ Limits \subseteq 0..MaxInt /\ Amounts \subseteq 0..MaxInt
ASSUME DurationAssumption == Durations \subseteq Nat \ {0}
ASSUME NullAssumption == None \notin Int

Statuses == {"active", "disabled", "suspended", "expired", "traffic_exceeded",
             "waiting_first_connection"}
Reasons == {"manual", "expired", "traffic_limit", "admin_action"}
Policies == {"immediate", "first_connection"}

Int64 == -(MaxInt + 1)..MaxInt
Wrap(n) == ((n + MaxInt + 1) % (2 * (MaxInt + 1))) - (MaxInt + 1)

\* The columns user.save writes.
Rows == [status : Statuses, reason : Reasons \cup {None}, enabled : BOOLEAN,
         limit : Int64 \cup {None}, policy : Policies,
         duration : Durations \cup {None}, activated : Nat \cup {None},
         expires : Nat \cup {None}]

VARIABLES acct,      \* the row, without its usage
          rx, tx,    \* traffic_used_rx, traffic_used_tx
          held,      \* held[a]: the row request a will save, or Idle
          now

usage == <<rx, tx>>
vars == <<acct, rx, tx, held, now>>

TypeOK ==
  /\ acct \in Rows
  /\ rx \in Int64 /\ tx \in Int64
  /\ held \in [Admins -> Rows \cup {Idle}]
  /\ now \in 0..MaxTime

\* buildCreate: an immediate subscription starts now and ends on a given date
\* or after its duration; a first_connection one waits, possibly with a given
\* end.
NewAccounts ==
  {[status |-> "active", reason |-> None, enabled |-> TRUE, limit |-> l,
    policy |-> "immediate", duration |-> d, activated |-> 0,
    expires |-> IF e = None THEN d ELSE e]
     : l \in Limits \cup {None}, d \in Durations \cup {None},
       e \in Durations \cup {None}}
  \cup
  {[status |-> "waiting_first_connection", reason |-> None, enabled |-> TRUE,
    limit |-> l, policy |-> "first_connection", duration |-> d,
    activated |-> None, expires |-> e]
     : l \in Limits \cup {None}, d \in Durations \cup {None},
       e \in Durations \cup {None}}

Init ==
  /\ acct \in NewAccounts
  /\ rx = 0 /\ tx = 0
  /\ held = [a \in Admins |-> Idle]
  /\ now = 0

Tick == now < MaxTime /\ now' = now + 1 /\ UNCHANGED <<acct, usage, held>>

Live(row) == row.status \in {"active", "waiting_first_connection"}
Over(row, total) == row.limit # None /\ total >= row.limit
Used == rx + tx
Due == acct.expires # None /\ acct.expires < now

\* Where an unblocked account returns to.
Revived(row) == IF row.activated = None /\ row.policy = "first_connection"
                  THEN "waiting_first_connection" ELSE "active"

-----------------------------------------------------------------------------
(* internal/user: read and compute, then save.                             *)

Hold(a, row) ==
  /\ held[a] = Idle
  /\ held' = [held EXCEPT ![a] = row]
  /\ UNCHANGED <<acct, usage, now>>

Update(a, limit, duration, enabled) ==
  Hold(a, [acct EXCEPT !.limit = limit, !.duration = duration, !.enabled = enabled])

\* SetStatus, as SetEnabledStatus calls it.
Enable(a) ==
  Hold(a, [acct EXCEPT !.status = Revived(acct), !.reason = None, !.enabled = TRUE])

Disable(a, reason) ==
  Hold(a, [acct EXCEPT !.status = "disabled", !.reason = reason, !.enabled = FALSE])

\* The new end: from the current one, from now, or a given date.
RenewedUntil(mode, d, exact) ==
  CASE mode = "from_expiration" ->
         (IF acct.expires # None /\ acct.expires > now THEN acct.expires ELSE now) + d
    [] mode = "from_now" -> now + d
    [] mode = "exact" -> exact

\* Variant: renewal leaves an expired account expired.
RenewKeepsStatus(a, mode, d, exact) ==
  /\ mode # "exact" => d # None
  /\ RenewedUntil(mode, d, exact) <= MaxTime + 1
  /\ Hold(a, [acct EXCEPT !.expires = RenewedUntil(mode, d, exact)])

\* Only an expired account is put back in service.
Renew(a, mode, d, exact) ==
  /\ mode # "exact" => d # None
  /\ RenewedUntil(mode, d, exact) <= MaxTime + 1
  /\ Hold(a, [acct EXCEPT
       !.expires = RenewedUntil(mode, d, exact),
       !.status = IF @ = "expired" THEN "active" ELSE @,
       !.reason = IF acct.status = "expired" THEN None ELSE @])

Save(a) ==
  /\ held[a] # Idle
  /\ acct' = held[a]
  /\ held' = [held EXCEPT ![a] = Idle]
  /\ UNCHANGED <<usage, now>>

\* The request fails or is cancelled before its transaction commits.
GiveUp(a) ==
  /\ held[a] # Idle
  /\ held' = [held EXCEPT ![a] = Idle]
  /\ UNCHANGED <<acct, usage, now>>

-----------------------------------------------------------------------------
(* internal/accounting: one transaction each.                              *)

\* The first handshake starts the subscription.
Activated(row) ==
  [row EXCEPT !.status = "active", !.activated = now,
              !.expires = IF row.duration = None THEN @ ELSE now + row.duration]

Tripped(row) == [row EXCEPT !.status = "traffic_exceeded", !.reason = "traffic_limit"]

\* Variant: the edge is checked with a strict comparison.
QuotaEdgeStrict(row, total) ==
  IF Live(row) /\ row.limit # None /\ total > row.limit THEN Tripped(row) ELSE row

\* Only an account in service trips.
QuotaEdge(row, total) == IF Live(row) /\ Over(row, total) THEN Tripped(row) ELSE row

\* cycleTx for this account: bytes metered, a newer handshake seen or not.
CycleTx(drx, dtx, shake) ==
  /\ Used + drx + dtx <= MaxUsed
  /\ LET first == shake /\ acct.status = "waiting_first_connection"
         row == IF first THEN Activated(acct) ELSE acct
     IN  acct' = QuotaEdge(row, Wrap(rx + drx + tx + dtx))
  /\ rx' = Wrap(rx + drx)
  /\ tx' = Wrap(tx + dtx)
  /\ UNCHANGED <<held, now>>

\* Variant: an account that waits for its first connection does not expire.
EnforceExpiryActiveOnly ==
  /\ acct.status = "active" /\ Due
  /\ acct' = [acct EXCEPT !.status = "expired", !.reason = "expired"]
  /\ UNCHANGED <<usage, held, now>>

\* The set-based pass over accounts in service past their end.
EnforceExpiry ==
  /\ Live(acct) /\ Due
  /\ acct' = [acct EXCEPT !.status = "expired", !.reason = "expired"]
  /\ UNCHANGED <<usage, held, now>>

\* Usage goes to zero and a tripped account comes back.  disable_reason is
\* written NULL whatever the status.
ResetTraffic ==
  /\ acct' = [acct EXCEPT !.status = IF @ = "traffic_exceeded" THEN Revived(acct) ELSE @,
                          !.reason = None]
  /\ rx' = 0 /\ tx' = 0
  /\ UNCHANGED <<held, now>>

\* The level check of the traffic edits: trip, unblock or leave the status,
\* with disable_reason NULL unless tripped.
LevelCheck(total) ==
  IF Live(acct) /\ Over(acct, total) THEN Tripped(acct)
  ELSE [acct EXCEPT
         !.status = IF @ = "traffic_exceeded" /\ acct.limit # None /\ total < acct.limit
                      THEN Revived(acct) ELSE @,
         !.reason = None]

Saturate(n) == IF n > MaxInt THEN MaxInt ELSE n

AddTraffic(drx, dtx) ==
  /\ Wrap(drx + dtx) > 0
  /\ Used + drx + dtx <= MaxUsed
  /\ rx' = Saturate(rx + drx)
  /\ tx' = Saturate(tx + dtx)
  /\ acct' = LevelCheck(Wrap(rx' + tx'))
  /\ UNCHANGED <<held, now>>

SetTraffic(newRX, newTX) ==
  /\ newRX + newTX <= MaxUsed
  /\ rx' = newRX /\ tx' = newTX
  /\ acct' = LevelCheck(Wrap(newRX + newTX))
  /\ UNCHANGED <<held, now>>

\* AddQuotaTx: more allowance, and a tripped account that fits again is
\* unblocked.
AddQuota(bytes) ==
  /\ bytes > 0 /\ acct.limit # None /\ acct.limit <= MaxInt - bytes
  /\ LET revive == acct.status = "traffic_exceeded" /\ rx <= MaxInt - tx
                     /\ rx + tx < acct.limit + bytes
     IN  acct' = [acct EXCEPT !.limit = @ + bytes,
                              !.status = IF revive THEN Revived(acct) ELSE @,
                              !.reason = IF revive THEN None ELSE @]
  /\ UNCHANGED <<usage, held, now>>

Requests(a) ==
  \/ \E l \in Limits \cup {None, acct.limit}, d \in Durations \cup {acct.duration},
        en \in BOOLEAN : Update(a, l, d, en)
  \/ Enable(a)
  \/ \E r \in {"manual", "admin_action"} : Disable(a, r)
  \/ \E mode \in {"from_expiration", "from_now", "exact"},
        d \in Durations \cup {acct.duration}, e \in 0..MaxTime : Renew(a, mode, d, e)

Cycle == \E drx, dtx \in Amounts \cup {0}, shake \in BOOLEAN : CycleTx(drx, dtx, shake)

Next ==
  \/ Tick
  \/ \E a \in Admins : Requests(a) \/ Save(a) \/ GiveUp(a)
  \/ Cycle
  \/ EnforceExpiry
  \/ ResetTraffic
  \/ \E drx, dtx \in Amounts \cup {0} : AddTraffic(drx, dtx)
  \/ \E newRX, newTX \in Amounts \cup {0} : SetTraffic(newRX, newTX)
  \/ \E bytes \in Amounts : AddQuota(bytes)

Spec == Init /\ [][Next]_vars

\* jobAccounting runs a cycle and an expiry pass every interval for as long
\* as the node is up.
FairSpec == Spec /\ WF_vars(Cycle) /\ WF_vars(EnforceExpiry)

-----------------------------------------------------------------------------
(* Properties.                                                             *)

\* An expired account has an end and that end has passed: no race of a
\* renewal with the expiry pass leaves a paid account expired.
ExpiredIsDue == acct.status = "expired" => Due

\* An account over its allowance does not stay in service, however often
\* requests with a stale row put it back.
OverQuotaStops == (Live(acct) /\ Over(acct, Used)) ~> ~(Live(acct) /\ Over(acct, Used))

\* An account past its end does not stay in service.
DueStops == (Live(acct) /\ Due) ~> ~(Live(acct) /\ Due)

\* "activate first_connection twice" must not happen: the start of a
\* subscription, once recorded, stands.
ActivationStands ==
  [][acct.activated # None => acct'.activated = acct.activated]_vars
=============================================================================
