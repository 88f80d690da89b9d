------------------------------ MODULE Profiles ------------------------------
(***************************************************************************)
(* internal/iface and the address allocation of internal/device: tunnel    *)
(* profiles with their address pools, the devices that take addresses from *)
(* them, and the links that passes of the reconcile engine keep for them.  *)
(* Handlers run concurrently; a transaction is one step, and what a handler *)
(* read before it is a step of its own.  A pass is made by the handler that *)
(* asked for it, under the coordinator's gate: it reads the profiles, then  *)
(* brings the links in line.  A pass removes links of disabled profiles and *)
(* leaves links it has no profile for alone.                                *)
(***************************************************************************)
EXTENDS Naturals, Sequences, FiniteSets

CONSTANTS
  Ifaces,       \* profile names
  Clients,      \* device rows there may be
  Handlers,     \* handlers at a time
  PoolLists,    \* the ordered pool lists in use, as sequences of pools
  Slots,        \* the assignable addresses of a pool are 1..Slots
  NoRow,        \* no profile, no device, nothing read
  MaxCalls,     \* bound on calls that change a profile
  MaxPassFaults \* bound on interfaces that fail in a pass, and on crashes

VARIABLES
  profile,      \* tunnel_interfaces
  client,       \* devices: profile and address
  links,        \* live links
  handler,      \* where each handler is, and what it has read
  gate,         \* the handler whose pass is under way
  seenRows,     \* the profiles that pass has read
  calls, pfaults,
  raced         \* ghost: profiles enabled again while they were being deleted

pvars == <<profile, client, links, handler, gate, seenRows, calls, pfaults, raced>>

PoolsOf(pools) == {pools[k] : k \in 1..Len(pools)}
\* A row has an id of its own: a profile made anew under an old name is another.
Row == [id : 0..MaxCalls, on : BOOLEAN, pools : PoolLists]
Device == [i : Ifaces, addr : (UNION {PoolsOf(p) : p \in PoolLists}) \X (1..Slots)]
Idle == [pc |-> "idle", i |-> NoRow, row |-> NoRow]
Deleting == {"disable", "d-pass", "d-passing", "d-row"}

ASSUME ProfilesAssumption ==
  /\ IsFiniteSet(Ifaces) /\ Slots \in Nat /\ MaxCalls \in Nat
  /\ (\A p \in PoolLists : Len(p) \in Nat) /\ \E p \in PoolLists : Len(p) = 1
  /\ NoRow \notin Handlers /\ NoRow \notin Row /\ NoRow \notin Device

PTypeOK ==
  /\ profile \in [Ifaces -> Row \cup {NoRow}]
  /\ client \in [Clients -> Device \cup {NoRow}]
  /\ links \subseteq Ifaces /\ raced \subseteq Ifaces
  /\ \A h \in Handlers : handler[h].pc \in
       {"idle", "save", "pass", "passing", "rollback"} \cup Deleting
  /\ gate \in Handlers \cup {NoRow} /\ seenRows \in [Ifaces -> Row \cup {NoRow}]
  /\ calls \in 0..MaxCalls /\ pfaults \in 0..MaxPassFaults

PInit ==
  /\ profile \in [Ifaces -> {NoRow, [id |-> 0, on |-> TRUE, pools |-> CHOOSE p \in PoolLists : Len(p) = 1]}]
  /\ Cardinality({i \in Ifaces : profile[i] # NoRow}) = 1
  /\ client = [c \in Clients |-> NoRow]
  /\ links = {i \in Ifaces : profile[i] # NoRow}
  /\ handler = [h \in Handlers |-> Idle]
  /\ gate = NoRow /\ seenRows = [i \in Ifaces |-> NoRow]
  /\ calls = 0 /\ pfaults = 0 /\ raced = {}

Advance(h, pc) == handler' = [handler EXCEPT ![h] = IF pc = "idle" THEN Idle ELSE [@ EXCEPT !.pc = pc]]
Call == calls < MaxCalls /\ calls' = calls + 1
\* The row the handler read is still there.
StillThere(h) == LET now == profile[handler[h].i] IN now # NoRow /\ now.id = handler[h].row.id
UsedBy(i) == {c \in Clients : client[c] # NoRow /\ client[c].i = i}

\* A profile that is switched on again under the feet of its deletion.
Marked(i) == raced \cup {j \in {i} : \E h \in Handlers : handler[h].i = i /\ handler[h].pc \in Deleting}

-----------------------------------------------------------------------------
(* Create and Update.                                                       *)

\* checkOverlaps: no pool of another profile.
Overlapping(i, pools) ==
  \E j \in Ifaces \ {i} : profile[j] # NoRow /\ PoolsOf(profile[j].pools) \cap PoolsOf(pools) # {}

\* Create: name and pools are checked and the row inserted in a transaction.
Create(h, i, pools) ==
  /\ handler[h] = Idle /\ profile[i] = NoRow /\ Call
  /\ ~Overlapping(i, pools)
  /\ profile' = [profile EXCEPT ![i] = [id |-> calls', on |-> TRUE, pools |-> pools]]
  /\ handler' = [handler EXCEPT ![h] = [pc |-> "pass", i |-> i, row |-> NoRow]]
  /\ UNCHANGED <<client, links, gate, seenRows, pfaults, raced>>

\* Update reads the row ...
Hold(h, i) ==
  /\ handler[h] = Idle /\ profile[i] # NoRow /\ Call
  /\ handler' = [handler EXCEPT ![h] = [pc |-> "save", i |-> i, row |-> profile[i]]]
  /\ UNCHANGED <<profile, client, links, gate, seenRows, pfaults, raced>>

\* updatePoolsTx reads the row again: the primary pool stays, nothing overlaps
\* and no device has an address of a pool that goes.
PoolsAllowed(i, pools) ==
  /\ Head(pools) = Head(profile[i].pools)
  /\ ~Overlapping(i, pools)
  /\ \A c \in UsedBy(i) : client[c].addr[1] \in PoolsOf(pools)

\* ... and writes every column but the pools as it read or was told them.  A
\* row that is gone is updated without an error, unless pools are given.
Update(h, on, pools) ==
  LET i == handler[h].i
      allowed == pools = <<>> \/ (StillThere(h) /\ PoolsAllowed(i, pools))
  IN /\ handler[h].pc = "save"
     /\ Advance(h, IF allowed THEN "pass" ELSE "idle")
     /\ IF allowed /\ StillThere(h)
          THEN /\ profile' = [profile EXCEPT ![i] =
                    [id |-> @.id, on |-> on, pools |-> IF pools = <<>> THEN @.pools ELSE pools]]
               /\ raced' = IF on THEN Marked(i) ELSE raced
          ELSE UNCHANGED <<profile, raced>>
     /\ UNCHANGED <<client, links, gate, seenRows, calls, pfaults>>

-----------------------------------------------------------------------------
(* A pass, as far as links go.                                              *)

\* The gate is taken and the profiles are read.  The scheduler's jobs make
\* passes too: a handler may come for nothing else.
PassReads(h) ==
  /\ gate = NoRow /\ handler[h].pc \in {"idle", "pass", "d-pass"}
  /\ gate' = h /\ seenRows' = profile
  /\ Advance(h, IF handler[h].pc = "d-pass" THEN "d-passing" ELSE "passing")
  /\ UNCHANGED <<profile, client, links, calls, pfaults, raced>>

Owned == {i \in Ifaces : seenRows[i] # NoRow}
Wanted == {i \in Owned : seenRows[i].on}

\* Interfaces in `bad' fail, some with a link left; the caller gets an error.
PassApplies(h, bad, left) ==
  /\ gate = h /\ handler[h].pc \in {"passing", "d-passing"}
  /\ bad \subseteq Owned /\ left \subseteq bad \cap (links \cup Wanted)
  /\ pfaults + Cardinality(bad) <= MaxPassFaults
  /\ pfaults' = pfaults + Cardinality(bad)
  /\ links' = (links \ (Owned \ bad)) \cup (Wanted \ bad) \cup left
  /\ gate' = NoRow /\ seenRows' = [i \in Ifaces |-> NoRow]
  /\ Advance(h, IF handler[h].pc = "passing" THEN "idle" ELSE IF bad = {} THEN "d-row" ELSE "rollback")
  /\ UNCHANGED <<profile, client, calls, raced>>

\* Run is cancelled while it waits for the gate (Attempt gives it 30 seconds).
PassTimesOut(h) ==
  /\ handler[h].pc \in {"pass", "d-pass"} /\ gate # NoRow
  /\ Advance(h, IF handler[h].pc = "pass" THEN "idle" ELSE "rollback")
  /\ UNCHANGED <<profile, client, links, gate, seenRows, calls, pfaults, raced>>

-----------------------------------------------------------------------------
(* DeleteReconciled.                                                        *)

\* The profile as it is, and no device on it.
DeleteReconciled(h, i) ==
  /\ handler[h] = Idle /\ profile[i] # NoRow /\ UsedBy(i) = {} /\ Call
  /\ handler' = [handler EXCEPT ![h] = [pc |-> "disable", i |-> i, row |-> profile[i]]]
  /\ UNCHANGED <<profile, client, links, gate, seenRows, pfaults, raced>>

\* Variant: the row goes first and the pass is left to find the link.
DisableDeletes(h) ==
  LET i == handler[h].i
  IN /\ handler[h].pc = "disable"
     /\ profile' = [profile EXCEPT ![i] = NoRow] /\ Advance(h, "pass")
     /\ UNCHANGED <<client, links, gate, seenRows, calls, pfaults, raced>>

\* SetEnabled(false), if it was on: then a pass takes the link away.
Disable(h) ==
  LET i == handler[h].i
  IN /\ handler[h].pc = "disable"
     /\ IF handler[h].row.on /\ StillThere(h)
          THEN profile' = [profile EXCEPT ![i].on = FALSE] ELSE UNCHANGED profile
     /\ Advance(h, IF handler[h].row.on /\ ~StillThere(h) THEN "idle" ELSE "d-pass")
     /\ UNCHANGED <<client, links, gate, seenRows, calls, pfaults, raced>>

\* Delete: refused while devices refer to it, by the count or the foreign key.
DeleteRow(h) ==
  LET i == handler[h].i
  IN /\ handler[h].pc = "d-row"
     /\ IF StillThere(h) /\ UsedBy(i) = {}
          THEN profile' = [profile EXCEPT ![i] = NoRow] /\ Advance(h, "idle")
          ELSE Advance(h, "rollback") /\ UNCHANGED profile
     /\ UNCHANGED <<client, links, gate, seenRows, calls, pfaults, raced>>

\* SetEnabled(true) if it was on, and another pass.
Rollback(h) ==
  LET i == handler[h].i
      restore == handler[h].row.on /\ StillThere(h)
  IN /\ handler[h].pc = "rollback"
     /\ profile' = IF restore THEN [profile EXCEPT ![i].on = TRUE] ELSE profile
     /\ raced' = IF restore THEN Marked(i) ELSE raced
     /\ Advance(h, IF restore THEN "pass" ELSE "idle")
     /\ UNCHANGED <<client, links, gate, seenRows, calls, pfaults>>

-----------------------------------------------------------------------------
(* Devices.                                                                 *)

\* allocateIP: the first free address, pool by pool.
Free(i) == {x \in (1..Len(profile[i].pools)) \X (1..Slots) :
              \A c \in UsedBy(i) : client[c].addr # <<profile[i].pools[x[1]], x[2]>>}
FirstFree(i) ==
  LET at == CHOOSE x \in Free(i) :
              \A y \in Free(i) : x[1] < y[1] \/ (x[1] = y[1] /\ x[2] <= y[2])
  IN  <<profile[i].pools[at[1]], at[2]>>

\* CreateTx, one transaction: the profile is enabled and has a free address.
CreateClient(c, i) ==
  /\ client[c] = NoRow /\ profile[i] # NoRow /\ profile[i].on /\ Free(i) # {}
  /\ client' = [client EXCEPT ![c] = [i |-> i, addr |-> FirstFree(i)]]
  /\ UNCHANGED <<profile, links, handler, gate, seenRows, calls, pfaults, raced>>

DeleteClient(c) ==
  /\ client[c] # NoRow /\ client' = [client EXCEPT ![c] = NoRow]
  /\ UNCHANGED <<profile, links, handler, gate, seenRows, calls, pfaults, raced>>

\* The process dies: rows and links stay.
Crash ==
  /\ pfaults < MaxPassFaults /\ pfaults' = pfaults + 1
  /\ handler' = [h \in Handlers |-> Idle] /\ gate' = NoRow
  /\ seenRows' = [i \in Ifaces |-> NoRow]
  /\ UNCHANGED <<profile, client, links, calls, raced>>

PNext ==
  \/ \E h \in Handlers :
       \/ \E i \in Ifaces : Hold(h, i) \/ DeleteReconciled(h, i)
                            \/ (\E p \in PoolLists : Create(h, i, p))
       \/ \E on \in BOOLEAN, p \in PoolLists \cup {<<>>} : Update(h, on, p)
       \/ PassReads(h) \/ PassTimesOut(h) \/ (\E bad, left \in SUBSET Ifaces : PassApplies(h, bad, left))
       \/ Disable(h) \/ DeleteRow(h) \/ Rollback(h)
  \/ \E c \in Clients : DeleteClient(c) \/ (\E i \in Ifaces : CreateClient(c, i))
  \/ Crash

PSpec == PInit /\ [][PNext]_pvars

-----------------------------------------------------------------------------
(* Properties.                                                              *)

\* No two devices of the node have the same address, and every device has one
\* of a pool its profile still has, however creations, pool edits that read
\* the profile earlier, and deletions interleave.
AddressesSound ==
  /\ \A c \in Clients : client[c] # NoRow =>
       profile[client[c].i] # NoRow /\ client[c].addr[1] \in PoolsOf(profile[client[c].i].pools)
  /\ \A c, d \in Clients : c # d /\ client[c] # NoRow /\ client[d] # NoRow =>
       client[c].addr # client[d].addr

\* "deleting the row first would deliberately classify the live link as foreign
\* and leave it behind": a live link has a profile, unless somebody enabled the
\* profile again while it was being deleted.
LinksOwned == \A i \in links : profile[i] # NoRow \/ i \in raced

\* Both, for the profiles and devices of the node (iface.go, device.go).
ProfilesSound == AddressesSound /\ LinksOwned
=============================================================================
