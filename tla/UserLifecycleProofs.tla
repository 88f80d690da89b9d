------------------------ MODULE UserLifecycleProofs ------------------------
(***************************************************************************)
(* UserLifecycle, for any number of requests in flight, any limits and any *)
(* subscription lengths: an account shown as expired is past its end,      *)
(* although requests save rows they read long before.                      *)
(* Orders, for any keys, clients and plans: a key has one effect that was  *)
(* not answered with an error, traffic is conserved, and a successor takes *)
(* effect once, at the end of the plan it was queued for.                  *)
(***************************************************************************)
EXTENDS UserLifecycle, Orders, TLAPS

\* The columns the argument needs, with the types arithmetic needs.
Shape == [status : Statuses, reason : Reasons \cup {None}, enabled : BOOLEAN,
          limit : Int \cup {None}, policy : Policies,
          duration : Int \cup {None}, activated : Int \cup {None},
          expires : Int \cup {None}]

\* The status of a row agrees with its end.
Agrees(row) == row.status = "expired" => row.expires # None /\ row.expires < now

\* It does in the row of the database and in every row a request holds: a
\* save may bring back any of these.
IInv ==
  /\ acct \in Shape /\ held \in [Admins -> Shape \cup {Idle}] /\ now \in Int
  /\ Agrees(acct)
  /\ \A a \in Admins : held[a] # Idle => held[a] \in Shape /\ Agrees(held[a])

\* Unblocking an account puts it where its dates say.
LEMMA RevivedAgrees ==
  ASSUME NEW row \in Shape
  PROVE  Revived(row) \in Statuses /\ Revived(row) # "expired"
  BY DEF Revived, Statuses

\* A new account agrees with its dates.
LEMMA InitIInv == Init => IInv
<1> SUFFICES ASSUME Init PROVE IInv
  OBVIOUS
<1> USE ByteAssumption, DurationAssumption
<1>1. acct \in Shape /\ Agrees(acct)
  <2>1. ASSUME NEW l \in Limits \cup {None}, NEW d \in Durations \cup {None},
               NEW e \in Durations \cup {None},
               acct = [status |-> "active", reason |-> None, enabled |-> TRUE, limit |-> l,
                       policy |-> "immediate", duration |-> d, activated |-> 0,
                       expires |-> IF e = None THEN d ELSE e]
        PROVE  acct \in Shape /\ Agrees(acct)
    BY <2>1 DEF Shape, Agrees, Statuses, Reasons, Policies
  <2>2. ASSUME NEW l \in Limits \cup {None}, NEW d \in Durations \cup {None},
               NEW e \in Durations \cup {None},
               acct = [status |-> "waiting_first_connection", reason |-> None,
                       enabled |-> TRUE, limit |-> l, policy |-> "first_connection",
                       duration |-> d, activated |-> None, expires |-> e]
        PROVE  acct \in Shape /\ Agrees(acct)
    BY <2>2 DEF Shape, Agrees, Statuses, Reasons, Policies
  <2> QED
    BY <2>1, <2>2 DEF Init, NewAccounts
<1> QED
  BY <1>1 DEF Init, IInv

\* A request that starts holds a row in agreement.
LEMMA HoldIInv ==
  ASSUME IInv, NEW a \in Admins, NEW row \in Shape, Hold(a, row), Agrees(row)
  PROVE  IInv'
<1>1. held' \in [Admins -> Shape \cup {Idle}] /\ acct' = acct /\ now' = now
  BY DEF Hold, IInv, usage
<1>2. \A b \in Admins : held'[b] = held[b] \/ held'[b] = row
  BY DEF Hold, IInv
<1> QED
  BY <1>1, <1>2 DEF IInv, Agrees

\* A transaction that leaves the row in agreement keeps the invariant.
LEMMA WriteIInv ==
  ASSUME IInv, acct' \in Shape, Agrees(acct)', UNCHANGED <<held, now>>
  PROVE  IInv'
  BY DEF IInv, Agrees

\* Every action keeps the invariant.
LEMMA NextIInv == IInv /\ [Next]_vars => IInv'
<1> SUFFICES ASSUME IInv, [Next]_vars PROVE IInv'
  OBVIOUS
<1> USE ByteAssumption, DurationAssumption, NullAssumption
<1>a. acct \in Shape /\ Agrees(acct) /\ now \in Int
  BY DEF IInv
<1>0. CASE UNCHANGED vars
  BY <1>0 DEF vars, IInv, Agrees
<1>1. CASE Tick
  <2>1. ASSUME NEW row \in Shape, Agrees(row) PROVE Agrees(row)'
    BY <1>1, <1>a, <2>1 DEF Tick, Agrees, Shape
  <2> QED
    BY <1>1, <2>1 DEF Tick, IInv, Agrees, usage
<1>2. ASSUME NEW a \in Admins, NEW l \in Limits \cup {None, acct.limit},
             NEW du \in Durations \cup {acct.duration}, NEW en \in BOOLEAN, Update(a, l, du, en)
      PROVE  IInv'
  <2>0. l \in Int \cup {None} /\ du \in Int \cup {None}
    BY <1>a DEF Shape
  <2>1. [acct EXCEPT !.limit = l, !.duration = du, !.enabled = en] \in Shape
    BY <1>a, <2>0 DEF Shape
  <2>2. Agrees([acct EXCEPT !.limit = l, !.duration = du, !.enabled = en])
    BY <1>a DEF Shape, Agrees
  <2> QED
    BY <1>2, <2>1, <2>2, HoldIInv DEF Update
<1>3. ASSUME NEW a \in Admins, Enable(a) PROVE IInv'
  <2> DEFINE row == [acct EXCEPT !.status = Revived(acct), !.reason = None, !.enabled = TRUE]
  <2>1. row \in Shape
    BY <1>a, RevivedAgrees DEF Shape
  <2>2. Agrees(row)
    BY <1>a, RevivedAgrees DEF Shape, Agrees
  <2> QED
    BY <1>3, <2>1, <2>2, HoldIInv DEF Enable
<1>4. ASSUME NEW a \in Admins, NEW r \in {"manual", "admin_action"}, Disable(a, r)
      PROVE  IInv'
  <2> DEFINE row == [acct EXCEPT !.status = "disabled", !.reason = r, !.enabled = FALSE]
  <2>1. row \in Shape
    BY <1>a DEF Shape, Statuses, Reasons
  <2>2. Agrees(row)
    BY <1>a DEF Shape, Agrees
  <2> QED
    BY <1>4, <2>1, <2>2, HoldIInv DEF Disable
<1>5. ASSUME NEW a \in Admins, NEW mode \in {"from_expiration", "from_now", "exact"},
             NEW d \in Durations \cup {acct.duration}, NEW e \in 0..MaxTime,
             Renew(a, mode, d, e)
      PROVE  IInv'
  <2> DEFINE until == RenewedUntil(mode, d, e)
             row == [acct EXCEPT
                      !.expires = until,
                      !.status = IF @ = "expired" THEN "active" ELSE @,
                      !.reason = IF acct.status = "expired" THEN None ELSE @]
  <2>1. d \in Int \/ mode = "exact"
    BY <1>5, <1>a DEF Renew, Shape
  <2>2. until \in Int
    <3>1. CASE mode = "from_expiration"
      BY <3>1, <2>1, <1>a DEF RenewedUntil, Shape
    <3>2. CASE mode = "from_now"
      BY <3>2, <2>1, <1>a DEF RenewedUntil
    <3>3. CASE mode = "exact"
      BY <3>3 DEF RenewedUntil
    <3> QED
      BY <3>1, <3>2, <3>3
  <2> HIDE DEF until
  <2>3. row \in Shape
    BY <1>a, <2>2, ZenonT(60) DEF Shape, Statuses
  <2>4. Agrees(row)
    BY <1>a, <2>2 DEF Shape, Agrees
  <2>5. Hold(a, row)
    BY <1>5 DEF Renew, until
  <2> QED
    BY <2>3, <2>4, <2>5, HoldIInv
<1>6. ASSUME NEW a \in Admins, Save(a) \/ GiveUp(a) PROVE IInv'
  <2>1. held' \in [Admins -> Shape \cup {Idle}] /\ now' = now
    BY <1>6 DEF Save, GiveUp, IInv, usage
  <2>2. \A b \in Admins : held'[b] # Idle => held'[b] = held[b]
    BY <1>6 DEF Save, GiveUp, IInv
  <2>3. acct' = acct \/ (held[a] # Idle /\ acct' = held[a])
    BY <1>6 DEF Save, GiveUp
  <2> QED
    BY <2>1, <2>2, <2>3 DEF IInv, Agrees
<1>7. ASSUME NEW drx, NEW dtx, NEW shake \in BOOLEAN, CycleTx(drx, dtx, shake)
      PROVE  IInv'
  <2> DEFINE first == shake /\ acct.status = "waiting_first_connection"
             row == IF first THEN Activated(acct) ELSE acct
  <2>1. row \in Shape /\ Agrees(row)
    <3> DEFINE end == IF acct.duration = None THEN acct.expires ELSE now + acct.duration
    <3>0. end \in Int \cup {None} /\ now \in Int \cup {None}
      BY <1>a DEF Shape
    <3>0a. Activated(acct) = [acct EXCEPT !.status = "active", !.activated = now,
                                          !.expires = end]
      BY <1>a DEF Activated, Shape
    <3> HIDE DEF end
    <3>1. Activated(acct) \in Shape
      BY <1>a, <3>0, <3>0a DEF Shape, Statuses
    <3>2. Agrees(Activated(acct))
      BY <1>a DEF Activated, Agrees, Shape
    <3> QED
      BY <1>a, <3>1, <3>2
  <2>2. Tripped(row) \in Shape /\ Agrees(Tripped(row))
    BY <2>1, ZenonT(60) DEF Tripped, Shape, Agrees, Statuses, Reasons
  <2>3. acct' = row \/ acct' = Tripped(row)
    BY <1>7 DEF CycleTx, QuotaEdge
  <2> HIDE DEF row
  <2>4. now' = now /\ held' = held
    BY <1>7 DEF CycleTx
  <2>5. acct' \in Shape /\ Agrees(acct)'
    BY <2>1, <2>2, <2>3, <2>4 DEF Agrees
  <2> QED
    BY <2>4, <2>5, WriteIInv
<1>8. CASE EnforceExpiry
  <2>1. acct' \in Shape
    BY <1>8, <1>a DEF EnforceExpiry, Shape, Statuses, Reasons
  <2>2. Agrees(acct)'
    BY <1>8, <1>a DEF EnforceExpiry, Shape, Agrees, Due
  <2> QED
    BY <1>8, <2>1, <2>2, WriteIInv DEF EnforceExpiry
<1>9. CASE ResetTraffic
  <2>1. acct' \in Shape
    BY <1>9, <1>a, RevivedAgrees DEF ResetTraffic, Shape
  <2>2. Agrees(acct)'
    BY <1>9, <1>a, RevivedAgrees DEF ResetTraffic, Shape, Agrees
  <2> QED
    BY <1>9, <2>1, <2>2, WriteIInv DEF ResetTraffic
<1>10. ASSUME NEW total, acct' = LevelCheck(total), UNCHANGED <<held, now>>
       PROVE  IInv'
  <2>1. acct' \in Shape
    BY <1>10, <1>a, RevivedAgrees DEF LevelCheck, Tripped, Shape, Statuses, Reasons
  <2>2. Agrees(acct)'
    BY <1>10, <1>a, RevivedAgrees DEF LevelCheck, Tripped, Shape, Agrees
  <2> QED
    BY <1>10, <2>1, <2>2, WriteIInv
<1>11. ASSUME NEW drx, NEW dtx, AddTraffic(drx, dtx) \/ SetTraffic(drx, dtx)
       PROVE  IInv'
  BY <1>10, <1>11 DEF AddTraffic, SetTraffic
<1>12. ASSUME NEW bytes \in Amounts, AddQuota(bytes) PROVE IInv'
  <2> DEFINE revive == acct.status = "traffic_exceeded" /\ rx <= MaxInt - tx
                         /\ rx + tx < acct.limit + bytes
  <2>1. acct' = [acct EXCEPT !.limit = @ + bytes,
                             !.status = IF revive THEN Revived(acct) ELSE @,
                             !.reason = IF revive THEN None ELSE @]
    BY <1>12 DEF AddQuota
  <2>2. acct.limit \in Int /\ bytes \in Int
    BY <1>12, <1>a DEF AddQuota, Shape
  <2> HIDE DEF revive
  <2>3. acct' \in Shape
    <3>1. acct.limit + bytes \in Int
      BY <2>2
    <3>2. CASE revive
      <4>1. acct' = [acct EXCEPT !.limit = acct.limit + bytes,
                                 !.status = Revived(acct), !.reason = None]
        BY <1>a, <2>1, <3>2 DEF Shape
      <4> QED
        BY <1>a, <3>1, <4>1, RevivedAgrees DEF Shape
    <3>3. CASE ~revive
      <4>1. acct' = [acct EXCEPT !.limit = acct.limit + bytes]
        BY <1>a, <2>1, <3>3 DEF Shape
      <4> QED
        BY <1>a, <3>1, <4>1 DEF Shape
    <3> QED
      BY <3>2, <3>3
  <2>4. now' = now /\ held' = held
    BY <1>12 DEF AddQuota
  <2>5. Agrees(acct)'
    BY <1>a, <2>1, <2>4, RevivedAgrees DEF Shape, Agrees
  <2> QED
    BY <2>3, <2>4, <2>5, WriteIInv
<1> QED
  BY <1>0, <1>1, <1>2, <1>3, <1>4, <1>5, <1>6, <1>7, <1>8, <1>9, <1>11, <1>12
     DEF Next, Requests, Cycle

\* An account shown as expired is past its end, whatever renewals raced with
\* the expiry pass.
THEOREM ExpiredIsHonest == Spec => []ExpiredIsDue
<1>1. Spec => []IInv
  BY InitIInv, NextIInv, PTL DEF Spec
<1>2. IInv => ExpiredIsDue
  BY DEF IInv, Agrees, ExpiredIsDue, Due
<1> QED
  BY <1>1, <1>2, PTL
-----------------------------------------------------------------------------
(* Orders.                                                                 *)

\* A key is held by one request at a time, from the claim of its row to the end
\* of the request, and its earlier effects were all answered with an error.
KeyHeld ==
  /\ idem \in [Keys -> [body : Bodies \cup {NoBody}, stored : BOOLEAN]]
  /\ \A r \in Clients : reqs[r].pc \in {"handle", "store", "release"} =>
       /\ reqs[r].key \in Keys /\ idem[reqs[r].key].body # NoBody
       /\ reqs[r].pc # "store" => commits[reqs[r].key] = late[reqs[r].key]
       /\ \A q \in Clients \ {r} :
            reqs[q].pc \in {"handle", "store", "release"} => reqs[q].key # reqs[r].key
  /\ \A k \in Keys : idem[k].body = NoBody => commits[k] = late[k]

EffectTypes ==
  /\ reqs \in [Clients -> [pc : {"idle", "handle", "store", "release"},
                           key : Keys \cup {NoBody}, body : Bodies \cup {NoBody}]]
  /\ commits \in [Keys -> Nat] /\ late \in [Keys -> Nat] /\ bought \in [Keys -> Nat]
  /\ opRow \in [Keys -> Bodies \cup {NoBody}]

\* An operation has had an effect only if its result is on record.
OpRecorded == \A k \in Keys : opRow[k] = NoBody => bought[k] = 0

EInv == EffectTypes /\ KeyHeld /\ OpRecorded /\ OneEffectPerKey

\* What holds of the store of keys is kept by every step of the API.
LEMMA ApiKeepsKeys == ASSUME EInv, ApiNext PROVE EInv'
<1> USE NoBodyAssumption DEF EInv, opVars
<1>1. ASSUME NEW r \in Clients, NEW k \in Keys, NEW b \in Bodies, Claim(r, k, b) PROVE EInv'
  <2>1. EffectTypes' BY <1>1 DEF Claim, EffectTypes
  <2>2. KeyHeld' BY <1>1 DEF Claim, EffectTypes, KeyHeld
  <2> QED BY <1>1, <2>1, <2>2 DEF Claim, OpRecorded, OneEffectPerKey
<1>2. ASSUME NEW r \in Clients, NEW how \in {"done", "failed", "late"}, Handle(r, how) PROVE EInv'
  <2>1. PICK k \in Keys : k = reqs[r].key /\ commits[k] = late[k]
    BY <1>2 DEF Handle, EffectTypes, KeyHeld
  <2>2. /\ commits' \in [Keys -> Nat] /\ late' \in [Keys -> Nat]
        /\ \A m \in Keys \ {k} : commits'[m] = commits[m] /\ late'[m] = late[m]
        /\ idem' = idem /\ UNCHANGED <<opRow, bought>>
    BY <1>2, <2>1 DEF Handle, EffectTypes
  <2>3. /\ commits'[k] <= 1 + late'[k]
        /\ how # "done" => commits'[k] = late'[k]
    BY <1>2, <2>1 DEF Handle, EffectTypes
  <2>4. /\ reqs' = [reqs EXCEPT ![r].pc = IF how = "done" THEN "store" ELSE "release"]
        /\ reqs[r].pc = "handle"
    BY <1>2 DEF Handle
  <2>5. EffectTypes' BY <2>2, <2>4 DEF EffectTypes
  <2>6. KeyHeld'
    <3>1. \A q \in Clients : /\ reqs'[q].key = reqs[q].key
                             /\ q # r => reqs'[q].pc = reqs[q].pc
      BY <2>4 DEF EffectTypes
    <3>2. reqs'[r].pc = IF how = "done" THEN "store" ELSE "release"
      BY <2>4 DEF EffectTypes
    <3>3. idem[k].body # NoBody
          /\ \A q \in Clients \ {r} : reqs[q].pc \in {"handle", "store", "release"} => reqs[q].key # k
      BY <2>1, <2>4 DEF KeyHeld
    <3>4. KeyHeld BY DEF EInv
    <3> HIDE DEF EInv
    <3> QED BY <2>1, <2>2, <2>3, <2>4, <3>1, <3>2, <3>3, <3>4 DEF KeyHeld
  <2>7. OneEffectPerKey' BY <2>1, <2>2, <2>3 DEF OneEffectPerKey
  <2> QED BY <2>2, <2>5, <2>6, <2>7 DEF OpRecorded
<1>3. ASSUME NEW r \in Clients, NEW ok \in BOOLEAN, Settle(r, ok) PROVE EInv'
  <2>1. EffectTypes' BY <1>3 DEF Settle, EffectTypes, NoRequest
  <2>2. KeyHeld'
    <3>1. PICK k \in Keys : k = reqs[r].key
      BY <1>3 DEF Settle, KeyHeld
    <3>2. /\ commits' = commits /\ late' = late /\ reqs'[r].pc = "idle"
          /\ \A q \in Clients \ {r} : reqs'[q] = reqs[q]
      BY <1>3 DEF Settle, EffectTypes, NoRequest
    <3>3. idem' \in [Keys -> [body : Bodies \cup {NoBody}, stored : BOOLEAN]]
      BY <1>3, <3>1, ZenonT(60) DEF Settle, KeyHeld, NoRow
    <3>4. \A m \in Keys \ {k} : idem'[m] = idem[m]
      BY <1>3, <3>1 DEF Settle, KeyHeld
    <3>5. idem'[k].body = idem[k].body \/ reqs[r].pc # "store"
      BY <1>3, <3>1 DEF Settle, KeyHeld
    <3>6. reqs[r].pc # "store" => commits[k] = late[k]
      BY <1>3, <3>1 DEF Settle, KeyHeld
    <3>7. \A q \in Clients \ {r} :
            reqs[q].pc \in {"handle", "store", "release"} => reqs[q].key # k
      BY <1>3, <3>1 DEF Settle, KeyHeld
    <3> HIDE DEF EInv
    <3>8. KeyHeld
      BY DEF EInv
    <3> QED BY <3>2, <3>3, <3>4, <3>5, <3>6, <3>7, <3>8 DEF KeyHeld
  <2> QED BY <1>3, <2>1, <2>2 DEF Settle, OpRecorded, OneEffectPerKey
<1>4. ASSUME NEW k \in Keys, ExpireKey(k) PROVE EInv'
  <2>1. EffectTypes' BY <1>4 DEF ExpireKey, EffectTypes
  <2>2. KeyHeld' BY <1>4 DEF ExpireKey, EffectTypes, KeyHeld, NoRow
  <2> QED BY <1>4, <2>1, <2>2 DEF ExpireKey, EffectTypes, OpRecorded, OneEffectPerKey
<1> QED BY <1>1, <1>2, <1>3, <1>4 DEF ApiNext

\* And by every step of the operations and plans.
LEMMA PlansKeepKeys == ASSUME EInv, PlanNext PROVE EInv'
<1> USE NoBodyAssumption DEF EInv, apiVars, planVars
<1>1. ASSUME NEW k \in Keys, NEW b \in Bodies, NEW t \in BOOLEAN, Operate(k, b, t) PROVE EInv'
  BY <1>1 DEF Operate, EffectTypes, KeyHeld, OpRecorded, OneEffectPerKey
<1>2. ASSUME NEW k \in Keys, ExpireOperation(k) PROVE EInv'
  BY <1>2 DEF ExpireOperation, EffectTypes, KeyHeld, OpRecorded, OneEffectPerKey
<1>3. ASSUME UNCHANGED <<apiVars, opVars>> PROVE EInv'
  BY <1>3 DEF opVars, EffectTypes, KeyHeld, OpRecorded, OneEffectPerKey
<1>4. \/ \E p \in Plans, c \in BOOLEAN : QueueNextPlan(p, c)
      \/ CancelNextPlan \/ ListDue \/ ActivateNextPlan \/ (\E n \in 1..MaxUnits : Use(n))
      \/ (\E n \in 0..1 : Correct(n)) \/ TimePasses \/ Edit \/ SaveEdit \/ DevicesChange
      => UNCHANGED <<apiVars, opVars>>
  BY DEF QueueNextPlan, CancelNextPlan, ListDue, ActivateNextPlan, Use, Correct, TimePasses, Edit,
         SaveEdit, DevicesChange
<1> QED BY <1>1, <1>2, <1>3, <1>4 DEF PlanNext

\* api/idempotency.go wrap and integration replayTx: whatever request, retry,
\* disconnect or crash meets whatever step, a key has one effect in its window
\* but for those that were answered with an error, and an operation has one.
THEOREM KeysActOnce == OSpec => []OneEffectPerKey
<1>1. OInit => EInv
  BY DEF OInit, EInv, EffectTypes, KeyHeld, OpRecorded, OneEffectPerKey, NoRow, NoRequest
<1>2. EInv /\ UNCHANGED ovars => EInv'
  BY DEF ovars, EInv, EffectTypes, KeyHeld, OpRecorded, OneEffectPerKey
<1>3. EInv => OneEffectPerKey
  BY DEF EInv
<1> QED BY <1>1, <1>2, <1>3, ApiKeepsKeys, PlansKeepKeys, PTL DEF OSpec, ONext

Queue == [auth : Nat, plan : Plans, source : Plans, carry : BOOLEAN, review : BOOLEAN]

PlanTypes ==
  /\ account \in Accounts /\ editor \in Editable \cup {NoEdit} /\ hour \in Nat
  /\ next \in Queue /\ owed \in Int /\ auths \in Nat
  /\ applied \in [1..MaxAuths -> Nat]

\* A queued authorization is one that was given out and has not been applied;
\* nor has any that was not given out yet.
Unapplied ==
  /\ next # NoNext => next.auth \in 1..MaxAuths /\ next.auth <= auths /\ applied[next.auth] = 0
  /\ \A a \in 1..MaxAuths : a > auths => applied[a] = 0

PInv == PlanTypes /\ Unapplied /\ TrafficConserved

\* No successor is a row of the queue.
LEMMA NoNextTyped == NoNext \in Queue
<1>1. FirstPlan \in Plans
  BY PlansAssumption DEF FirstPlan
<1> QED BY <1>1 DEF NoNext, Queue

\* What is carried over is what the customer is owed, if that is anything.
LEMMA CarriedIsOwed ==
  ASSUME PlanTypes, TrafficConserved
  PROVE  Carried \in Nat /\ Carried = IF next.carry /\ owed > 0 THEN owed ELSE 0
  BY DEF PlanTypes, TrafficConserved, Carried, AtQuota, Accounts

\* A successor that takes effect.
LEMMA ReplaceKeeps ==
  ASSUME PInv, Replace, next # NoNext, UNCHANGED <<editor, hour, auths>>
  PROVE  PInv'
<1> USE DEF PInv
<1>1. Carried \in Nat /\ Carried = IF next.carry /\ owed > 0 THEN owed ELSE 0
  BY CarriedIsOwed
<1>2. /\ account' = [account EXCEPT !.plan = next.plan, !.limit = Terms + Carried, !.ends = hour + 1, !.used = 0]
      /\ next' = NoNext /\ applied' = [applied EXCEPT ![next.auth] = @ + 1]
      /\ owed' = Terms + (IF next.carry /\ owed > 0 THEN owed ELSE 0)
  BY DEF Replace
<1>3. next.plan \in Plans /\ Terms + Carried \in Nat /\ hour + 1 \in Nat
  BY <1>1 DEF PlanTypes, Queue, Terms
<1>4. account' \in Accounts /\ account'.limit = Terms + Carried /\ account'.used = 0
  BY <1>2, <1>3 DEF PlanTypes, Accounts
<1>5. owed' \in Int /\ owed' = Terms + Carried
  BY <1>1, <1>2 DEF PlanTypes, Terms
<1>6. applied' \in [1..MaxAuths -> Nat] /\ \A a \in 1..MaxAuths : a # next.auth => applied'[a] = applied[a]
  BY <1>2 DEF PlanTypes, Unapplied
<1>7. PlanTypes'
  BY <1>2, <1>4, <1>5, <1>6, NoNextTyped DEF PlanTypes
<1>8. Unapplied'
  BY <1>2, <1>6, OrderBoundsAssumption DEF Unapplied, PlanTypes
<1>9. TrafficConserved'
  BY <1>1, <1>4, <1>5 DEF TrafficConserved, Terms
<1> QED BY <1>7, <1>8, <1>9

\* Every step keeps the ledger and the authorizations.
LEMMA StepConserves == ASSUME PInv, [ONext]_ovars PROVE PInv'
<1> USE DEF PInv
<1>1. CASE UNCHANGED ovars
  BY <1>1 DEF ovars, PlanTypes, Unapplied, TrafficConserved
<1>2. CASE ApiNext
  <2>1. UNCHANGED planVars
    BY <1>2 DEF ApiNext, Claim, Handle, Settle, ExpireKey
  <2> QED BY <2>1 DEF planVars, PlanTypes, Unapplied, TrafficConserved
<1>3. ASSUME NEW k \in Keys, NEW b \in Bodies, NEW t \in BOOLEAN, Operate(k, b, t) PROVE PInv'
  <2>1. UNCHANGED <<editor, hour, next, auths, applied>>
    BY <1>3 DEF Operate
  <2>2. \/ account' = [account EXCEPT !.limit = @ + 1] /\ owed' = owed + 1
        \/ UNCHANGED <<account, owed>>
    BY <1>3 DEF Operate
  <2>3. /\ account' \in Accounts /\ owed' \in Int
        /\ account'.limit - account'.used = owed'
    BY <2>2 DEF PlanTypes, Accounts, TrafficConserved
  <2> QED BY <2>1, <2>3 DEF PlanTypes, Unapplied, TrafficConserved
<1>4. ASSUME NEW k \in Keys, ExpireOperation(k) PROVE PInv'
  BY <1>4 DEF ExpireOperation, planVars, PlanTypes, Unapplied, TrafficConserved
<1>5. ASSUME NEW p \in Plans, NEW c \in BOOLEAN, QueueNextPlan(p, c) PROVE PInv'
  <2>1. /\ next' = [auth |-> auths + 1, plan |-> p, source |-> account.plan, carry |-> c, review |-> FALSE]
        /\ auths' = auths + 1 /\ auths < MaxAuths
        /\ UNCHANGED <<account, editor, hour, applied, owed>>
    BY <1>5 DEF QueueNextPlan
  <2>2. next' \in Queue /\ next'.auth = auths + 1
    BY <2>1 DEF PlanTypes, Queue, Accounts
  <2>3. auths + 1 \in 1..MaxAuths /\ auths' \in Nat
    BY <2>1, OrderBoundsAssumption DEF PlanTypes
  <2> QED BY <2>1, <2>2, <2>3, OrderBoundsAssumption DEF PlanTypes, Unapplied, TrafficConserved
<1>6. CASE CancelNextPlan
  BY <1>6, NoNextTyped DEF CancelNextPlan, PlanTypes, Unapplied, TrafficConserved
<1>7. CASE ListDue \/ TimePasses
  <2>1. UNCHANGED <<account, editor, next, auths, applied, owed>> /\ hour' \in Nat
    BY <1>7 DEF ListDue, TimePasses, PlanTypes
  <2> QED BY <2>1 DEF PlanTypes, Unapplied, TrafficConserved
<1>8. CASE ActivateNextPlan
  <2>1. UNCHANGED <<editor, hour, auths>>
    BY <1>8 DEF ActivateNextPlan
  <2>2. CASE UNCHANGED <<account, next, applied, owed>>
    BY <2>1, <2>2 DEF PlanTypes, Unapplied, TrafficConserved
  <2>3. CASE next' = [next EXCEPT !.review = TRUE] /\ next # NoNext /\ UNCHANGED <<account, applied, owed>>
    <3>1. next' \in Queue /\ next'.auth = next.auth
      BY <2>3 DEF PlanTypes, Queue
    <3> QED BY <2>1, <2>3, <3>1 DEF PlanTypes, Unapplied, TrafficConserved
  <2>4. CASE Replace /\ next # NoNext
    BY <2>1, <2>4, ReplaceKeeps
  <2> QED BY <1>8, <2>2, <2>3, <2>4 DEF ActivateNextPlan
<1>9. ASSUME NEW n \in Nat, Use(n) \/ Correct(n) PROVE PInv'
  <2>1. UNCHANGED <<editor, hour, next, auths, applied>>
    BY <1>9 DEF Use, Correct
  <2>2. \/ account' = [account EXCEPT !.used = @ + n] /\ owed' = owed - n
        \/ account' = [account EXCEPT !.used = n] /\ owed' = owed + (account.used - n)
    BY <1>9 DEF Use, Correct
  <2>3. account.used + n \in Nat /\ account.limit \in Nat /\ account.used \in Nat
    BY DEF PlanTypes, Accounts
  <2>4. /\ account' \in Accounts /\ account'.limit = account.limit
        /\ \/ account'.used = account.used + n /\ owed' = owed - n
           \/ account'.used = n /\ owed' = owed + (account.used - n)
    <3>1. [account EXCEPT !.used = account.used + n] \in Accounts
      BY <2>3 DEF PlanTypes, Accounts
    <3>2. [account EXCEPT !.used = n] \in Accounts
      BY DEF PlanTypes, Accounts
    <3> QED BY <2>2, <3>1, <3>2 DEF PlanTypes, Accounts
  <2>5. owed' \in Int /\ account'.limit - account'.used = owed'
    BY <2>3, <2>4 DEF PlanTypes, TrafficConserved
  <2> QED BY <2>1, <2>4, <2>5 DEF PlanTypes, Unapplied, TrafficConserved
<1>10. CASE Edit
  <2>1. UNCHANGED <<account, hour, next, auths, applied, owed>>
    BY <1>10 DEF Edit
  <2>2. editor' \in Editable
    BY <1>10 DEF Edit, Editable, PlanTypes, Accounts, Terms
  <2> QED BY <2>1, <2>2 DEF PlanTypes, Unapplied, TrafficConserved
<1>11. CASE SaveEdit
  <2>1. UNCHANGED <<hour, next, auths, applied>> /\ editor' = NoEdit
    BY <1>11 DEF SaveEdit
  <2>2. editor \in Editable
    BY <1>11 DEF SaveEdit, PlanTypes
  <2>3. /\ account' = [account EXCEPT !.plan = editor.plan, !.limit = editor.limit,
                                      !.ends = editor.ends, !.on = editor.on]
        /\ owed' = owed + (editor.limit - account.limit)
    BY <1>11 DEF SaveEdit
  <2>4. account' \in Accounts /\ account'.limit = editor.limit /\ account'.used = account.used
    BY <2>2, <2>3 DEF PlanTypes, Accounts, Editable
  <2>5. owed' \in Int /\ account'.limit - account'.used = owed'
    BY <2>2, <2>3, <2>4 DEF PlanTypes, Accounts, Editable, TrafficConserved
  <2> QED BY <2>1, <2>4, <2>5 DEF PlanTypes, Unapplied, TrafficConserved
<1>12. CASE DevicesChange
  <2>1. account' \in Accounts /\ account'.limit = account.limit /\ account'.used = account.used
    BY <1>12 DEF DevicesChange, PlanTypes, Accounts
  <2> QED BY <1>12, <2>1 DEF DevicesChange, PlanTypes, Unapplied, TrafficConserved
<1>13. CASE (\E n \in 1..MaxUnits : Use(n)) \/ (\E n \in 0..1 : Correct(n))
  BY <1>9, <1>13
<1> QED BY <1>1, <1>2, <1>3, <1>4, <1>5, <1>6, <1>7, <1>8, <1>10, <1>11, <1>12, <1>13 DEF ONext, PlanNext

\* The first plan is paid for, and nothing is queued.
LEMMA PlansStart == OInit => PInv
<1>1. FirstPlan \in Plans
  BY PlansAssumption DEF FirstPlan
<1> QED
  BY <1>1, NoNextTyped DEF OInit, PInv, PlanTypes, Unapplied, TrafficConserved, Accounts, Terms

\* integration/next_plan.go activateNextPlanTx, purchase.go, accounting.go: what
\* the row lets an account use is what it is owed, for any amounts, however far
\* past the limit a cycle charges and whatever an operator saves.
THEOREM TrafficStaysConserved == OSpec => []TrafficConserved
<1>1. PInv => TrafficConserved
  BY DEF PInv
<1> QED BY <1>1, PlansStart, StepConserves, PTL DEF OSpec

\* next_plan.go activateNextPlanTx: a successor takes effect once, at the end of
\* the plan it was queued for, although the list of due accounts is old and
\* operators change plans in between.
THEOREM PlansEndFirst == OSpec => ReplacedAtBoundary
<1>1. ASSUME PInv, [ONext]_ovars, NEW a \in 1..MaxAuths, applied'[a] # applied[a]
      PROVE  /\ applied[a] = 0 /\ next.auth = a /\ ~next.review
             /\ AtBoundary /\ account.on /\ account.fits /\ next.source = account.plan
  <2>1. ActivateNextPlan
    BY <1>1 DEF ovars, ONext, ApiNext, PlanNext, Claim, Handle, Settle, ExpireKey, planVars, Operate,
         ExpireOperation, QueueNextPlan, CancelNextPlan, ListDue, Use, Correct, TimePasses, Edit,
         SaveEdit, DevicesChange
  <2>2. /\ next # NoNext /\ ~next.review /\ account.on /\ AtBoundary
        /\ next.source = account.plan /\ account.fits /\ Replace
    BY <1>1, <2>1 DEF ActivateNextPlan
  <2>3. next.auth = a
    BY <1>1, <2>2 DEF Replace, PInv, PlanTypes
  <2> QED BY <1>1, <2>2, <2>3 DEF PInv, Unapplied
<1>2. PInv /\ [ONext]_ovars =>
        (\A a \in 1..MaxAuths : applied'[a] # applied[a] =>
           /\ applied[a] = 0 /\ next.auth = a /\ ~next.review
           /\ AtBoundary /\ account.on /\ account.fits /\ next.source = account.plan)
  BY <1>1
<1> QED BY <1>2, PlansStart, StepConserves, PTL DEF OSpec, ReplacedAtBoundary
=============================================================================
