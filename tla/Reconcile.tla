----------------------------- MODULE Reconcile -----------------------------
(***************************************************************************)
(* internal/reconcile: one pass makes the tunnel backend reflect SQLite.   *)
(*                                                                         *)
(* The pass reads interfaces, eligible devices, all device keys and the    *)
(* retired keys with four separate queries, then treats one interface      *)
(* after the other: dump it, create, recreate or reconfigure the link,     *)
(* sync the peer set, acknowledge the retired keys.  Handlers commit       *)
(* changes between any two of those steps, every backend command may fail, *)
(* the process may die anywhere, and a reboot loses the links.             *)
(*                                                                         *)
(* Abstraction: a device row keeps the interface, the public key and       *)
(* whether desiredPeerWhere selects it; an interface's parameters are a    *)
(* kind (what only a link recreation can change: backend mode, plain or    *)
(* obfuscated, header-protection key) and a param (what setconf applies).  *)
(* Keys are generated by the node and never reused.                        *)
(***************************************************************************)
EXTENDS Naturals, FiniteSets

CONSTANTS Ifaces,   \* rows of tunnel_interfaces
          Devices,  \* device identities
          Keys,     \* public keys the node may generate
          Foreign,  \* public keys of peers somebody else configured
          Kinds, Params,
          Policy,   \* drift policy for peers the database does not know
          NoRow, NoLink,
          MaxFaults \* bound: backend failures, crashes, reboots, foreign edits

ASSUME KeysAssumption == Keys \cap Foreign = {}
ASSUME PolicyAssumption == Policy \in {"report", "adopt", "remove"}
ASSUME NoRowAssumption ==
  NoRow \notin [iface : Ifaces, key : Keys, eligible : BOOLEAN]
ASSUME NoLinkAssumption ==
  NoLink \notin [cfg : [kind : Kinds, param : Params],
                 peers : SUBSET (Keys \cup Foreign),
                 moved : SUBSET (Keys \cup Foreign)]
ASSUME MaxFaultsAssumption == MaxFaults \in Nat

Cfgs  == [kind : Kinds, param : Params]
Rows  == [iface : Ifaces, key : Keys, eligible : BOOLEAN]
Peers == Keys \cup Foreign
\* moved: peers whose allowed-IPs are not the device's address.
Links == [cfg : Cfgs, peers : SUBSET Peers, moved : SUBSET Peers]

PCs == {"idle", "interfaces", "desired", "known", "retired",
        "next", "link", "sync", "ack", "remove"}

VARIABLES
  \* SQLite
  enabled,  \* enabled[i]: tunnel_interfaces.enabled
  cfg,      \* cfg[i]: stored parameters of i
  device,   \* device[d]: row of d, or NoRow
  retired,  \* retired_peer_keys
  issued,   \* keys generated so far
  \* the backend
  link,     \* link[i]: the live link, or NoLink
  \* locals of Engine.Run
  pc, todo, cur, ifs, desired, known, ret, seen, created, good,
  \* ghost
  torn,     \* keys one pass read both as desired and as retired
  edited,   \* links were edited by hand since the pass started
  faults

db      == <<enabled, cfg, device, retired, issued>>
locals  == <<todo, cur, ifs, desired, known, ret, seen, created, good>>
vars    == <<enabled, cfg, device, retired, issued, link, pc, todo, cur, ifs,
             desired, known, ret, seen, created, good, torn, edited, faults>>

TypeOK ==
  /\ enabled \in [Ifaces -> BOOLEAN]
  /\ cfg \in [Ifaces -> Cfgs]
  /\ device \in [Devices -> Rows \cup {NoRow}]
  /\ retired \subseteq Ifaces \X Keys
  /\ issued \subseteq Keys
  /\ link \in [Ifaces -> Links \cup {NoLink}]
  /\ pc \in PCs
  /\ todo \subseteq Ifaces
  /\ cur \in Ifaces
  /\ ifs \in [Ifaces -> [on : BOOLEAN, cfg : Cfgs] \cup {NoRow}]
  /\ desired \in [Ifaces -> SUBSET Keys]
  /\ known \subseteq Keys
  /\ ret \subseteq Ifaces \X Keys
  /\ seen \in Links \cup {NoLink}
  /\ created \in BOOLEAN
  /\ good \in BOOLEAN
  /\ torn \subseteq Ifaces \X Keys
  /\ edited \in BOOLEAN
  /\ faults \in Nat

Existing == {d \in Devices : device[d] # NoRow}
OwnedBy(i) == {d \in Existing : device[d].iface = i}
KeysOf(ds) == {device[d].key : d \in ds}

Init ==
  /\ enabled \in [Ifaces -> BOOLEAN]
  /\ cfg \in [Ifaces -> Cfgs]
  /\ device = [d \in Devices |-> NoRow]
  /\ retired = {} /\ issued = {}
  /\ link = [i \in Ifaces |-> NoLink]
  /\ pc = "idle"
  /\ todo = {} /\ cur \in Ifaces
  /\ ifs = [i \in Ifaces |-> NoRow]
  /\ desired = [i \in Ifaces |-> {}]
  /\ known = {} /\ ret = {}
  /\ seen = NoLink
  /\ created = FALSE /\ good = TRUE
  /\ torn = {} /\ edited = FALSE /\ faults = 0

-----------------------------------------------------------------------------
(* Handlers: each is one committed transaction.                            *)

MutatesDB == UNCHANGED <<link, pc, locals, torn, edited, faults>>

\* device.Service.Create: the account must be peer-eligible and the profile
\* enabled; the node generates a key nobody has.
CreateDevice(d, i, k) ==
  /\ device[d] = NoRow
  /\ enabled[i]
  /\ k \notin issued
  /\ device' = [device EXCEPT ![d] = [iface |-> i, key |-> k, eligible |-> TRUE]]
  /\ issued' = issued \cup {k}
  /\ UNCHANGED <<enabled, cfg, retired>>
  /\ MutatesDB

\* device.SetEnabled and every change of users.status, enabled or deleted_at:
\* what desiredPeerWhere selects changes, the row stays.
SetEligible(d, e) ==
  /\ d \in Existing
  /\ device[d].eligible # e
  /\ device' = [device EXCEPT ![d].eligible = e]
  /\ UNCHANGED <<enabled, cfg, retired, issued>>
  /\ MutatesDB

\* The rows of ds get fresh keys and their former keys are retired, in one
\* transaction.
Rekey(ds, newKey) ==
  /\ ds # {} /\ ds \subseteq Existing
  /\ \A d \in ds : newKey[d] \notin issued
  /\ \A d, e \in ds : newKey[d] = newKey[e] => d = e
  /\ device' = [d \in Devices |-> IF d \in ds
                                    THEN [device[d] EXCEPT !.key = newKey[d]]
                                    ELSE device[d]]
  /\ retired' = retired \cup {<<device[d].iface, device[d].key>> : d \in ds}
  /\ issued' = issued \cup {newKey[d] : d \in ds}
  /\ UNCHANGED <<enabled, cfg>>
  /\ MutatesDB

Regenerate(d, k) == Rekey({d}, [e \in {d} |-> k])

\* Access rotation: all devices of one account together.
ReplaceUserCredentialsTx(ds, newKey) == Rekey(ds, newKey)

\* The rows of ds disappear and their keys are retired.
Remove(ds) ==
  /\ ds # {} /\ ds \subseteq Existing
  /\ device' = [d \in Devices |-> IF d \in ds THEN NoRow ELSE device[d]]
  /\ retired' = retired \cup {<<device[d].iface, device[d].key>> : d \in ds}
  /\ UNCHANGED <<enabled, cfg, issued>>
  /\ MutatesDB

DeleteDevice(d) == Remove({d})

\* user.DeleteTx: the cascade removes every device of the account.
DeleteUserTx(ds) == Remove(ds)

SetInterfaceEnabled(i, e) ==
  /\ enabled[i] # e
  /\ enabled' = [enabled EXCEPT ![i] = e]
  /\ UNCHANGED <<cfg, device, retired, issued>>
  /\ MutatesDB

UpdateInterface(i, c) ==
  /\ cfg[i] # c
  /\ cfg' = [cfg EXCEPT ![i] = c]
  /\ UNCHANGED <<enabled, device, retired, issued>>
  /\ MutatesDB

Mutate ==
  \/ \E d \in Devices, i \in Ifaces, k \in Keys : CreateDevice(d, i, k)
  \/ \E d \in Devices, e \in BOOLEAN : SetEligible(d, e)
  \/ \E d \in Devices, k \in Keys : Regenerate(d, k)
  \/ \E ds \in SUBSET Devices : \E f \in [ds -> Keys] :
        ReplaceUserCredentialsTx(ds, f)
  \/ \E d \in Devices : DeleteDevice(d)
  \/ \E ds \in SUBSET Devices : DeleteUserTx(ds)
  \/ \E i \in Ifaces, e \in BOOLEAN : SetInterfaceEnabled(i, e)
  \/ \E i \in Ifaces, c \in Cfgs : UpdateInterface(i, c)

-----------------------------------------------------------------------------
(* Engine.Run.                                                             *)

\* The locals go out of scope; good is what the pass returned.
PassEnds ==
  /\ pc' = "idle"
  /\ todo' = {}
  /\ ifs' = [i \in Ifaces |-> NoRow]
  /\ desired' = [i \in Ifaces |-> {}]
  /\ known' = {} /\ ret' = {}
  /\ seen' = NoLink
  /\ created' = FALSE
  /\ UNCHANGED cur

ReadsOnly == UNCHANGED <<db, link, edited, faults>>

StartPass ==
  /\ pc = "idle"
  /\ pc' = "interfaces"
  /\ good' = TRUE
  /\ edited' = FALSE
  /\ UNCHANGED <<db, link, todo, cur, ifs, desired, known, ret, seen, created,
                 torn, faults>>

LoadInterfaces ==
  /\ pc = "interfaces"
  /\ ifs' = [i \in Ifaces |-> [on |-> enabled[i], cfg |-> cfg[i]]]
  /\ todo' = Ifaces
  /\ pc' = "desired"
  /\ UNCHANGED <<cur, desired, known, ret, seen, created, good, torn>>
  /\ ReadsOnly

\* First query of loadDesiredPeers, filtered by desiredPeerWhere.
LoadDesired ==
  /\ pc = "desired"
  /\ desired' = [i \in Ifaces |-> KeysOf({d \in OwnedBy(i) : device[d].eligible})]
  /\ pc' = "known"
  /\ UNCHANGED <<todo, cur, ifs, known, ret, seen, created, good, torn>>
  /\ ReadsOnly

\* Second query: every key with a device row.
LoadKnown ==
  /\ pc = "known"
  /\ known' = KeysOf(Existing)
  /\ pc' = "retired"
  /\ UNCHANGED <<todo, cur, ifs, desired, ret, seen, created, good, torn>>
  /\ ReadsOnly

\* Third query: former keys not yet confirmed absent.
LoadRetired ==
  /\ pc = "retired"
  /\ ret' = retired
  /\ torn' = torn \cup {e \in retired : e[2] \in desired[e[1]]}
  /\ pc' = "next"
  /\ UNCHANGED <<todo, cur, ifs, desired, known, seen, created, good>>
  /\ ReadsOnly

\* The loop head: the next interface is dumped.  Interfaces are independent,
\* so their order (by name) is left open.
Dump(i, fails) ==
  /\ pc = "next"
  /\ i \in todo
  /\ cur' = i
  /\ todo' = todo \ {i}
  /\ created' = FALSE
  /\ fails => faults < MaxFaults
  /\ faults' = IF fails THEN faults + 1 ELSE faults
  /\ good' = (good /\ ~fails)
  /\ seen' = IF fails THEN seen ELSE link[i]
  /\ pc' = CASE fails -> "next"
             [] ~fails /\ ifs[i].on -> "link"
             [] ~fails /\ ~ifs[i].on /\ link[i] # NoLink -> "remove"
             [] OTHER -> "ack"
  /\ UNCHANGED <<db, link, ifs, desired, known, ret, torn, edited>>

\* A backend or database error on one interface: recorded in Report.Errors,
\* the pass goes on with the next interface.
Fail ==
  /\ faults < MaxFaults
  /\ faults' = faults + 1
  /\ good' = FALSE
  /\ pc' = "next"

EmptyLink(c) == [cfg |-> c, peers |-> {}, moved |-> {}]

LinkDone == UNCHANGED <<good, faults>> /\ pc' = "sync"
LinkOnly == UNCHANGED <<db, todo, cur, ifs, desired, known, ret, seen, torn, edited>>

\* The dump found no link: CreateInterface, then ApplyInterfaceConfig.  When
\* the second command fails the link exists without peers.
CreateLink ==
  /\ pc = "link" /\ seen = NoLink
  /\ created' = TRUE
  /\ \/ link' = [link EXCEPT ![cur] = EmptyLink(ifs[cur].cfg)] /\ LinkDone
     \/ link' = [link EXCEPT ![cur] = EmptyLink(ifs[cur].cfg)] /\ Fail
     \/ UNCHANGED link /\ Fail
  /\ LinkOnly

\* Another kind than stored: RemoveInterface, then CreateInterface.
RecreateLink ==
  /\ pc = "link" /\ seen # NoLink /\ seen.cfg.kind # ifs[cur].cfg.kind
  /\ created' = TRUE
  /\ \/ link' = [link EXCEPT ![cur] = EmptyLink(ifs[cur].cfg)] /\ LinkDone
     \/ link' = [link EXCEPT ![cur] = NoLink] /\ Fail
     \/ UNCHANGED link /\ Fail
  /\ LinkOnly

\* Same kind, other parameters: ApplyInterfaceConfig, then EnsureAddresses.
ApplyConfig ==
  /\ pc = "link" /\ seen # NoLink
  /\ seen.cfg.kind = ifs[cur].cfg.kind /\ seen.cfg # ifs[cur].cfg
  /\ UNCHANGED created
  /\ \/ link' = [link EXCEPT ![cur].cfg = ifs[cur].cfg] /\ LinkDone
     \/ link' = [link EXCEPT ![cur].cfg = ifs[cur].cfg] /\ Fail
     \/ UNCHANGED link /\ Fail
  /\ LinkOnly

\* Nothing to change but the addresses.
KeepLink ==
  /\ pc = "link" /\ seen # NoLink /\ seen.cfg = ifs[cur].cfg
  /\ UNCHANGED <<created, link>>
  /\ LinkDone \/ Fail
  /\ LinkOnly

SeenPeers == IF created \/ seen = NoLink THEN {} ELSE seen.peers
SeenMoved == IF created \/ seen = NoLink THEN {} ELSE seen.moved

\* Variant: retired keys are not consulted.
StaleKnownOnly == {k \in SeenPeers \ desired[cur] : k \in known}

\* Peers the database knows of but does not want: removed whatever the policy.
Stale == {k \in SeenPeers \ desired[cur] : k \in known \/ <<cur, k>> \in ret}
Unknown == (SeenPeers \ desired[cur]) \ Stale

\* Variant: the sync list holds the desired peers only.
NoneKept == {}

\* Under report and adopt, unknown peers are passed back to SyncPeers.
KeptUnknown == IF Policy = "remove" THEN {} ELSE Unknown

\* Something on the link differs from what the pass wants.
Dirty ==
  \/ created
  \/ \E k \in desired[cur] : k \notin SeenPeers \/ k \in SeenMoved
  \/ Stale # {}
  \/ Policy = "remove" /\ Unknown # {}

\* SyncPeers replaces the whole peer set; it is called only when something
\* differs.
SyncPeers ==
  /\ pc = "sync"
  /\ \/ ~Dirty /\ UNCHANGED <<link, good, faults>> /\ pc' = "ack"
     \/ /\ Dirty
        /\ link' = [link EXCEPT ![cur].peers = desired[cur] \cup KeptUnknown,
                                ![cur].moved = @ \cap KeptUnknown]
        /\ UNCHANGED <<good, faults>>
        /\ pc' = "ack"
     \/ Dirty /\ UNCHANGED link /\ Fail
  /\ UNCHANGED <<db, todo, cur, ifs, desired, known, ret, seen, created, torn,
                 edited>>

\* Disabled in the database but present: the link goes.
RemoveInterface ==
  /\ pc = "remove"
  /\ \/ /\ link' = [link EXCEPT ![cur] = NoLink]
        /\ UNCHANGED <<good, faults>>
        /\ pc' = "ack"
     \/ UNCHANGED link /\ Fail
  /\ UNCHANGED <<db, todo, cur, ifs, desired, known, ret, seen, created, torn,
                 edited>>

\* Variant: every row of the interface is deleted, also those retired while
\* the pass was running.
AckAllRetiredKeys ==
  /\ pc = "ack"
  /\ retired' = {e \in retired : e[1] # cur}
  /\ pc' = "next"
  /\ UNCHANGED <<enabled, cfg, device, issued, link, locals, torn, edited, faults>>

\* ackRetiredKeys: the rows this pass has read are deleted in one
\* transaction.
AckRetiredKeys ==
  /\ pc = "ack"
  /\ \/ /\ retired' = {e \in retired : ~(e[1] = cur /\ e \in ret)}
        /\ UNCHANGED <<good, faults>>
        /\ pc' = "next"
     \/ UNCHANGED retired /\ Fail
  /\ UNCHANGED <<enabled, cfg, device, issued, link, todo, cur, ifs, desired,
                 known, ret, seen, created, torn, edited>>

\* The listing of foreign interfaces ends the pass; its failure loses the
\* report.
FinishPass ==
  /\ pc = "next" /\ todo = {}
  /\ PassEnds
  /\ \/ UNCHANGED <<good, faults>>
     \/ good' = FALSE /\ faults < MaxFaults /\ faults' = faults + 1
  /\ UNCHANGED <<db, link, torn, edited>>

PassStep ==
  \/ LoadInterfaces \/ LoadDesired \/ LoadKnown \/ LoadRetired
  \/ \E i \in Ifaces, fails \in BOOLEAN : Dump(i, fails)
  \/ CreateLink \/ RecreateLink \/ ApplyConfig \/ KeepLink
  \/ SyncPeers \/ RemoveInterface \/ AckRetiredKeys

-----------------------------------------------------------------------------
(* The environment.                                                        *)

\* The process dies in the middle of a pass (links survive it).
Crash ==
  /\ pc # "idle"
  /\ faults < MaxFaults
  /\ faults' = faults + 1
  /\ PassEnds
  /\ good' = FALSE
  /\ UNCHANGED <<db, link, torn, edited>>

\* The host reboots: links are gone, the database is not.
Reboot ==
  /\ faults < MaxFaults
  /\ faults' = faults + 1
  /\ PassEnds
  /\ good' = FALSE
  /\ link' = [i \in Ifaces |-> NoLink]
  /\ UNCHANGED <<db, torn, edited>>

\* Somebody edits an owned link by hand: a foreign peer appears, a peer is
\* removed, or its allowed-IPs change.
ForeignEdit(i, k) ==
  /\ faults < MaxFaults
  /\ faults' = faults + 1
  /\ link[i] # NoLink
  /\ \/ k \in Foreign /\ link' = [link EXCEPT ![i].peers = @ \cup {k}]
     \/ k \in link[i].peers /\ link' = [link EXCEPT ![i].peers = @ \ {k},
                                                    ![i].moved = @ \ {k}]
     \/ /\ k \in link[i].peers \cap Keys
        /\ link' = [link EXCEPT ![i].moved = @ \cup {k}]
  /\ edited' = TRUE
  /\ UNCHANGED <<db, pc, locals, torn>>

Environment ==
  \/ Crash \/ Reboot
  \/ \E i \in Ifaces, k \in Peers : ForeignEdit(i, k)

Next == Mutate \/ StartPass \/ PassStep \/ FinishPass \/ Environment

Spec == Init /\ [][Next]_vars

-----------------------------------------------------------------------------
(* Properties.                                                             *)

LivePeers(i) == IF link[i] = NoLink THEN {} ELSE link[i].peers

\* The database can still name the peer: a device row carries the key, or it
\* waits in retired_peer_keys.
Tracked(i, k) == k \in KeysOf(OwnedBy(i)) \/ <<i, k>> \in retired

\* The promise of migration 0008, as far as the code keeps it: across
\* failures, crashes and reboots a peer the node once configured is never
\* left on a link without a database row naming it, unless one pass read
\* the key both as desired and as retired (loadDesiredPeers' queries are not
\* one snapshot).  An untracked peer counts as foreign and is never removed.
FormerKeysTracked ==
  \A i \in DOMAIN link : \A k \in LivePeers(i) \cap Keys :
    Tracked(i, k) \/ <<i, k>> \in torn

\* The comment on ackRetiredKeys: "Acknowledge only keys observed absent
\* after a successful backend pass."  A commit between the first and the
\* third query of loadDesiredPeers breaks it.
AckOnlyAbsent ==
  [][\A e \in retired \ retired' : e[2] \notin LivePeers(e[1])]_vars

\* The link of i is as the pass has read the database: right parameters, every
\* desired peer, no peer of a known or retired key that is not desired, and no
\* link for a disabled profile.
Applied(i) ==
  IF ifs[i].on
  THEN /\ link[i] # NoLink
       /\ link[i].cfg = ifs[i].cfg
       /\ desired[i] \subseteq link[i].peers
       /\ \A k \in link[i].peers \ desired[i] : k \notin known /\ <<i, k>> \notin ret
  ELSE link[i] = NoLink

\* A pass that reports no error left every link as it read the database,
\* whatever handlers committed meanwhile.
GoodPassApplied ==
  pc = "next" /\ todo = {} /\ good /\ ~edited => \A i \in DOMAIN link : Applied(i)

\* A step takes no peer of others away from a link it need not recreate.
ForeignPeersStay ==
  \A i \in DOMAIN link :
    /\ Policy # "remove" /\ ~edited /\ edited' = edited
    /\ link[i] # NoLink /\ link'[i] # NoLink
    /\ link[i].cfg.kind = link'[i].cfg.kind
    => LivePeers(i) \cap Foreign \subseteq link'[i].peers

\* Under report and adopt a pass takes no peer it does not know away from a
\* link it need not recreate ("report only, never touch").
ForeignKept == [][ForeignPeersStay]_vars
=============================================================================
