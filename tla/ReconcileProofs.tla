-------------------------- MODULE ReconcileProofs --------------------------
(***************************************************************************)
(* What a reconcile pass promises, for any interfaces, devices, keys and   *)
(* policy, whatever handlers commit between its queries, however commands  *)
(* fail and wherever the process dies.                                     *)
(***************************************************************************)
EXTENDS Reconcile, TLAPS

\* The key of a peer is on file, or one pass has read it as desired and as
\* retired.
OnFile(i, k) == Tracked(i, k) \/ <<i, k>> \in torn

RTypes ==
  /\ enabled \in [Ifaces -> BOOLEAN] /\ cfg \in [Ifaces -> Cfgs]
  /\ device \in [Devices -> Rows \cup {NoRow}]
  /\ retired \subseteq Ifaces \X Keys /\ issued \subseteq Keys
  /\ link \in [Ifaces -> Links \cup {NoLink}] /\ seen \in Links \cup {NoLink}
  /\ pc \in PCs /\ todo \subseteq Ifaces /\ cur \in Ifaces
  /\ desired \in [Ifaces -> SUBSET Keys] /\ known \subseteq Keys
  /\ ret \subseteq Ifaces \X Keys

\* Where the pass is, and what it has there.
Course ==
  /\ pc \in {"idle", "interfaces", "desired", "known", "retired"} => ret = {}
  /\ pc \in {"desired", "known", "retired"} => todo = Ifaces
  /\ pc \notin {"idle", "interfaces"} => ifs \in [Ifaces -> [on : BOOLEAN, cfg : Cfgs]]
  /\ pc \in {"link", "sync", "ack", "remove"} => cur \notin todo
  /\ pc = "link" => ~created /\ ifs[cur].on /\ (seen = NoLink <=> link[cur] = NoLink)
  /\ pc = "sync" => ifs[cur].on /\ link[cur] # NoLink
  /\ pc = "remove" => ~ifs[cur].on

\* What the pass will put on a link is on file: the desired keys, and the peers
\* it has seen, which it may hand back.
DesiredOnFile == \A i \in Ifaces : \A k \in desired[i] : OnFile(i, k)
SeenOnFile == pc \in {"link", "sync"} => \A k \in SeenPeers \cap Keys : OnFile(cur, k)

\* A retired key that is also desired has been noted.
TornNoted == \A i \in Ifaces, k \in Keys :
  <<i, k>> \in ret /\ k \in desired[i] => <<i, k>> \in torn

\* No key of the node is added to a link behind the pass: what it will compare
\* is all there is.
LinkSeen == pc \in {"link", "sync"} => LivePeers(cur) \cap Keys \subseteq SeenPeers

\* A retired key is acknowledged when it has left the link.
AckReady == pc = "ack" => \A k \in LivePeers(cur) \cap Keys :
  <<cur, k>> \in ret => <<cur, k>> \in torn

\* In a pass without error on links nobody edits, the treated interfaces are as
\* the pass has read them, and the current one is half way there.
Treated == pc \in {"next", "link", "sync", "ack", "remove"} /\ good /\ ~edited =>
  \A i \in Ifaces \ todo : i # cur \/ pc \in {"next", "ack"} => Applied(i)
HalfWay == ~edited =>
  /\ pc = "link" => seen = link[cur]
  /\ pc = "sync" => link[cur].cfg = ifs[cur].cfg /\ link[cur].peers = SeenPeers

RInv ==
  /\ RTypes /\ Course
  /\ DesiredOnFile /\ SeenOnFile /\ TornNoted /\ LinkSeen /\ AckReady
  /\ FormerKeysTracked /\ Treated /\ HalfWay

LEMMA RInitial == ASSUME Init PROVE RInv
  BY DEF Init, RInv, RTypes, Course, DesiredOnFile, SeenOnFile, TornNoted, LinkSeen,
         AckReady, FormerKeysTracked, LivePeers, Treated, HalfWay, PCs, Cfgs, Links, Rows

-----------------------------------------------------------------------------
(* Handlers.                                                               *)

\* A handler commits; pass and links are left alone and every key that was on
\* file still is.
Committed ==
  /\ enabled' \in [Ifaces -> BOOLEAN] /\ cfg' \in [Ifaces -> Cfgs]
  /\ device' \in [Devices -> Rows \cup {NoRow}]
  /\ retired' \subseteq Ifaces \X Keys /\ issued' \subseteq Keys
  /\ MutatesDB
  /\ \A i \in Ifaces, k \in Keys : Tracked(i, k) => Tracked(i, k)'

LEMMA CreateDeviceCommits ==
  ASSUME RTypes, NEW d \in Devices, NEW i \in Ifaces, NEW k \in Keys, CreateDevice(d, i, k)
  PROVE Committed
<1>1. device' \in [Devices -> Rows \cup {NoRow}]
  BY DEF CreateDevice, RTypes, Rows
<1>2. \A j \in Ifaces, c \in Keys : Tracked(j, c) => Tracked(j, c)'
  BY DEF CreateDevice, RTypes, Tracked, KeysOf, OwnedBy, Existing
<1> QED BY <1>1, <1>2 DEF CreateDevice, Committed, RTypes

LEMMA SetEligibleCommits ==
  ASSUME RTypes, NEW d \in Devices, NEW e \in BOOLEAN, SetEligible(d, e)
  PROVE Committed
<1>1. device' \in [Devices -> Rows \cup {NoRow}]
  BY DEF SetEligible, RTypes, Rows, Existing
<1>2. \A f \in Existing : /\ f \in Existing' /\ device'[f].key = device[f].key
                          /\ device'[f].iface = device[f].iface
  BY NoRowAssumption DEF SetEligible, RTypes, Rows, Existing
<1>3. \A j \in Ifaces, c \in Keys : Tracked(j, c) => Tracked(j, c)'
  BY <1>2 DEF SetEligible, Tracked, KeysOf, OwnedBy
<1> QED BY <1>1, <1>3 DEF SetEligible, Committed, RTypes

LEMMA RekeyCommits ==
  ASSUME RTypes, NEW ds \in SUBSET Devices, NEW f \in [ds -> Keys], Rekey(ds, f)
  PROVE Committed
<1>1. \A d \in Existing : device[d] \in Rows
  BY DEF RTypes, Existing
<1>2. device' \in [Devices -> Rows \cup {NoRow}]
  BY <1>1 DEF Rekey, RTypes, Rows
<1>3. \A d \in Existing \ ds : d \in Existing' /\ device'[d] = device[d]
  BY DEF Rekey, RTypes, Existing
<1>4. \A d \in ds : <<device[d].iface, device[d].key>> \in retired'
  BY DEF Rekey
<1>5. ASSUME NEW j \in Ifaces, NEW c \in Keys, Tracked(j, c) PROVE Tracked(j, c)'
  <2>1. CASE <<j, c>> \in retired BY <2>1 DEF Rekey, Tracked
  <2>2. CASE c \in KeysOf(OwnedBy(j))
    <3>1. PICK d \in Existing : device[d].iface = j /\ device[d].key = c
      BY <2>2 DEF KeysOf, OwnedBy
    <3>2. CASE d \in ds BY <3>1, <3>2, <1>4 DEF Tracked
    <3>3. CASE d \notin ds BY <3>1, <3>3, <1>3 DEF Tracked, KeysOf, OwnedBy
    <3> QED BY <3>2, <3>3
  <2> QED BY <1>5, <2>1, <2>2 DEF Tracked
<1>6. retired' \subseteq Ifaces \X Keys /\ issued' \subseteq Keys
  BY <1>1 DEF Rekey, RTypes, Rows
<1> QED BY <1>2, <1>5, <1>6 DEF Rekey, Committed, RTypes

LEMMA RemoveCommits ==
  ASSUME RTypes, NEW ds \in SUBSET Devices, Remove(ds) PROVE Committed
<1>1. \A d \in Existing : device[d] \in Rows
  BY DEF RTypes, Existing
<1>2. device' \in [Devices -> Rows \cup {NoRow}]
  BY DEF Remove, RTypes
<1>3. \A d \in Existing \ ds : d \in Existing' /\ device'[d] = device[d]
  BY DEF Remove, RTypes, Existing
<1>4. \A d \in ds : <<device[d].iface, device[d].key>> \in retired'
  BY DEF Remove
<1>5. ASSUME NEW j \in Ifaces, NEW c \in Keys, Tracked(j, c) PROVE Tracked(j, c)'
  <2>1. CASE <<j, c>> \in retired BY <2>1 DEF Remove, Tracked
  <2>2. CASE c \in KeysOf(OwnedBy(j))
    <3>1. PICK d \in Existing : device[d].iface = j /\ device[d].key = c
      BY <2>2 DEF KeysOf, OwnedBy
    <3>2. CASE d \in ds BY <3>1, <3>2, <1>4 DEF Tracked
    <3>3. CASE d \notin ds BY <3>1, <3>3, <1>3 DEF Tracked, KeysOf, OwnedBy
    <3> QED BY <3>2, <3>3
  <2> QED BY <1>5, <2>1, <2>2 DEF Tracked
<1>6. retired' \subseteq Ifaces \X Keys /\ issued' \subseteq Keys
  BY <1>1 DEF Remove, RTypes, Rows
<1> QED BY <1>2, <1>5, <1>6 DEF Remove, Committed, RTypes

LEMMA MutateCommits == ASSUME RTypes, Mutate PROVE Committed
<1>1. ASSUME NEW d \in Devices, NEW i \in Ifaces, NEW k \in Keys, CreateDevice(d, i, k)
      PROVE Committed
  BY <1>1, CreateDeviceCommits
<1>2. ASSUME NEW d \in Devices, NEW e \in BOOLEAN, SetEligible(d, e) PROVE Committed
  BY <1>2, SetEligibleCommits
<1>3. ASSUME NEW d \in Devices, NEW k \in Keys, Regenerate(d, k) PROVE Committed
  <2>1. {d} \in SUBSET Devices /\ [e \in {d} |-> k] \in [{d} -> Keys] OBVIOUS
  <2> QED BY <1>3, <2>1, RekeyCommits DEF Regenerate
<1>4. ASSUME NEW ds \in SUBSET Devices, NEW f \in [ds -> Keys], ReplaceUserCredentialsTx(ds, f)
      PROVE Committed
  BY <1>4, RekeyCommits DEF ReplaceUserCredentialsTx
<1>5. ASSUME NEW d \in Devices, DeleteDevice(d) PROVE Committed
  <2>1. {d} \in SUBSET Devices OBVIOUS
  <2> QED BY <1>5, <2>1, RemoveCommits DEF DeleteDevice
<1>6. ASSUME NEW ds \in SUBSET Devices, DeleteUserTx(ds) PROVE Committed
  BY <1>6, RemoveCommits DEF DeleteUserTx
<1>7. ASSUME NEW i \in Ifaces, NEW e \in BOOLEAN, SetInterfaceEnabled(i, e) PROVE Committed
  BY <1>7 DEF SetInterfaceEnabled, Committed, RTypes, Tracked, KeysOf, OwnedBy, Existing
<1>8. ASSUME NEW i \in Ifaces, NEW c \in Cfgs, UpdateInterface(i, c) PROVE Committed
  BY <1>8 DEF UpdateInterface, Committed, RTypes, Tracked, KeysOf, OwnedBy, Existing
<1> QED BY <1>1, <1>2, <1>3, <1>4, <1>5, <1>6, <1>7, <1>8 DEF Mutate

LEMMA CommittedKeeps == ASSUME RInv, Committed PROVE RInv'
<1> USE DEF RInv, Committed, MutatesDB, locals
<1>1. RTypes' BY DEF RTypes
<1>2. Course' BY DEF RTypes, Course
<1>3. DesiredOnFile' BY DEF RTypes, DesiredOnFile, OnFile
<1>4. SeenOnFile' BY DEF RTypes, SeenOnFile, OnFile, SeenPeers
<1>5. TornNoted' BY DEF TornNoted
<1>6. LinkSeen' BY DEF LinkSeen, LivePeers, SeenPeers
<1>7. AckReady' BY DEF AckReady, LivePeers
<1>8. FormerKeysTracked' BY DEF RTypes, FormerKeysTracked, LivePeers
<1>9. Treated' BY DEF Treated, Applied
<1>10. HalfWay' BY DEF HalfWay, SeenPeers
<1> QED BY <1>1, <1>2, <1>3, <1>4, <1>5, <1>6, <1>7, <1>8, <1>9, <1>10

-----------------------------------------------------------------------------
(* The pass and the environment.                                           *)

\* A link is created, recreated, configured or kept: then l is the link of cur,
\* which holds no other keys of the node than before and than the pass has seen.
LinkTreated(l) ==
  /\ pc = "link" /\ LinkOnly
  /\ link' = [link EXCEPT ![cur] = l]
  /\ l # NoLink => l.peers \cap Keys \subseteq LivePeers(cur)
  /\ \/ pc' = "next" /\ ~good'
     \/ /\ pc' = "sync" /\ good' = good /\ l # NoLink
        /\ l.peers \cap Keys \subseteq SeenPeers' /\ SeenPeers' \subseteq SeenPeers
        /\ ~edited => l.cfg = ifs[cur].cfg /\ l.peers = SeenPeers'

\* The peers of cur are synced: l is its link then, which holds desired keys and
\* peers the database does not know.
PeersSynced(l) ==
  /\ pc = "sync"
  /\ link' = [link EXCEPT ![cur] = l]
  /\ l.peers \subseteq desired[cur] \cup SeenPeers \cup LivePeers(cur)
  /\ l.cfg = link[cur].cfg
  /\ \/ pc' = "next" /\ ~good'
     \/ /\ pc' = "ack" /\ good' = good
        /\ \A k \in (l.peers \cap Keys) \ desired[cur] : k \notin known /\ <<cur, k>> \notin ret
        /\ ~edited => desired[cur] \subseteq l.peers
  /\ UNCHANGED <<db, todo, cur, ifs, desired, known, ret, seen, created, torn, edited>>

\* Somebody edits the link of i, but does not add a key of the node.
Edited(i, l) ==
  /\ link[i] # NoLink /\ link' = [link EXCEPT ![i] = l]
  /\ l.peers \cap Keys \subseteq link[i].peers
  /\ edited' /\ UNCHANGED <<db, pc, locals, torn>>


LEMMA StartPassKeeps ==
  ASSUME RInv, StartPass PROVE RInv'
<1> USE KeysAssumption, NoLinkAssumption DEF RInv, StartPass, db, locals
<1>0. \A i \in Ifaces, k \in Keys : Tracked(i, k)' <=> Tracked(i, k)
  BY DEF Tracked, KeysOf, OwnedBy, Existing
<1>1. RTypes'
  BY DEF RTypes, Cfgs, Rows, Links, Peers, PCs
<1>2. Course'
  BY DEF RTypes, Course
<1>3. DesiredOnFile'
  BY <1>0 DEF RTypes, Course, DesiredOnFile, OnFile, TornNoted
<1>4. SeenOnFile'
  BY <1>0 DEF RTypes, Course, SeenOnFile, OnFile, SeenPeers
<1>5. TornNoted'
  BY DEF RTypes, Course, TornNoted
<1>6. LinkSeen'
  BY DEF RTypes, Course, LinkSeen, LivePeers, SeenPeers
<1>7. AckReady'
  BY DEF RTypes, Course, AckReady, LivePeers
<1>8. FormerKeysTracked'
  BY <1>0 DEF RTypes, Course, FormerKeysTracked, OnFile, LivePeers
<1>9. Treated'
  BY DEF RTypes, Course, Treated, Applied
<1>10. HalfWay'
  BY DEF RTypes, Course, HalfWay, SeenPeers
<1> QED BY <1>1, <1>2, <1>3, <1>4, <1>5, <1>6, <1>7, <1>8, <1>9, <1>10

LEMMA LoadInterfacesKeeps ==
  ASSUME RInv, LoadInterfaces PROVE RInv'
<1> USE KeysAssumption, NoLinkAssumption DEF RInv, LoadInterfaces, ReadsOnly, db, locals
<1>0. \A i \in Ifaces, k \in Keys : Tracked(i, k)' <=> Tracked(i, k)
  BY DEF Tracked, KeysOf, OwnedBy, Existing
<1>1. RTypes'
  BY DEF RTypes, Cfgs, Rows, Links, Peers, PCs
<1>2. Course'
  BY DEF RTypes, Course, Cfgs
<1>3. DesiredOnFile'
  BY <1>0 DEF RTypes, Course, DesiredOnFile, OnFile, TornNoted
<1>4. SeenOnFile'
  BY <1>0 DEF RTypes, Course, SeenOnFile, OnFile, SeenPeers
<1>5. TornNoted'
  BY DEF RTypes, Course, TornNoted
<1>6. LinkSeen'
  BY DEF RTypes, Course, LinkSeen, LivePeers, SeenPeers
<1>7. AckReady'
  BY DEF RTypes, Course, AckReady, LivePeers
<1>8. FormerKeysTracked'
  BY <1>0 DEF RTypes, Course, FormerKeysTracked, OnFile, LivePeers
<1>9. Treated'
  BY DEF RTypes, Course, Treated, Applied
<1>10. HalfWay'
  BY DEF RTypes, Course, HalfWay, SeenPeers
<1> QED BY <1>1, <1>2, <1>3, <1>4, <1>5, <1>6, <1>7, <1>8, <1>9, <1>10

LEMMA LoadDesiredKeeps ==
  ASSUME RInv, LoadDesired PROVE RInv'
<1> USE KeysAssumption, NoLinkAssumption DEF RInv, LoadDesired, ReadsOnly, db, locals
<1>0. \A i \in Ifaces, k \in Keys : Tracked(i, k)' <=> Tracked(i, k)
  BY DEF Tracked, KeysOf, OwnedBy, Existing
<1>1. RTypes'
  BY DEF RTypes, Cfgs, Rows, Links, Peers, PCs, KeysOf, OwnedBy, Existing
<1>2. Course'
  BY DEF RTypes, Course
<1>3. DesiredOnFile'
  BY <1>0 DEF RTypes, Course, DesiredOnFile, OnFile, TornNoted, Tracked, KeysOf, OwnedBy, Existing, Rows
<1>4. SeenOnFile'
  BY <1>0 DEF RTypes, Course, SeenOnFile, OnFile, SeenPeers
<1>5. TornNoted'
  BY DEF RTypes, Course, TornNoted
<1>6. LinkSeen'
  BY DEF RTypes, Course, LinkSeen, LivePeers, SeenPeers
<1>7. AckReady'
  BY DEF RTypes, Course, AckReady, LivePeers
<1>8. FormerKeysTracked'
  BY <1>0 DEF RTypes, Course, FormerKeysTracked, OnFile, LivePeers
<1>9. Treated'
  BY DEF RTypes, Course, Treated, Applied
<1>10. HalfWay'
  BY DEF RTypes, Course, HalfWay, SeenPeers
<1> QED BY <1>1, <1>2, <1>3, <1>4, <1>5, <1>6, <1>7, <1>8, <1>9, <1>10

LEMMA LoadKnownKeeps ==
  ASSUME RInv, LoadKnown PROVE RInv'
<1> USE KeysAssumption, NoLinkAssumption DEF RInv, LoadKnown, ReadsOnly, db, locals
<1>0. \A i \in Ifaces, k \in Keys : Tracked(i, k)' <=> Tracked(i, k)
  BY DEF Tracked, KeysOf, OwnedBy, Existing
<1>1. RTypes'
  BY DEF RTypes, Cfgs, Rows, Links, Peers, PCs, KeysOf, OwnedBy, Existing
<1>2. Course'
  BY DEF RTypes, Course
<1>3. DesiredOnFile'
  BY <1>0 DEF RTypes, Course, DesiredOnFile, OnFile, TornNoted
<1>4. SeenOnFile'
  BY <1>0 DEF RTypes, Course, SeenOnFile, OnFile, SeenPeers
<1>5. TornNoted'
  BY DEF RTypes, Course, TornNoted
<1>6. LinkSeen'
  BY DEF RTypes, Course, LinkSeen, LivePeers, SeenPeers
<1>7. AckReady'
  BY DEF RTypes, Course, AckReady, LivePeers
<1>8. FormerKeysTracked'
  BY <1>0 DEF RTypes, Course, FormerKeysTracked, OnFile, LivePeers
<1>9. Treated'
  BY DEF RTypes, Course, Treated, Applied
<1>10. HalfWay'
  BY DEF RTypes, Course, HalfWay, SeenPeers
<1> QED BY <1>1, <1>2, <1>3, <1>4, <1>5, <1>6, <1>7, <1>8, <1>9, <1>10

LEMMA LoadRetiredKeeps ==
  ASSUME RInv, LoadRetired PROVE RInv'
<1> USE KeysAssumption, NoLinkAssumption DEF RInv, LoadRetired, ReadsOnly, db, locals
<1>0. \A i \in Ifaces, k \in Keys : Tracked(i, k)' <=> Tracked(i, k)
  BY DEF Tracked, KeysOf, OwnedBy, Existing
<1>1. RTypes'
  BY DEF RTypes, Cfgs, Rows, Links, Peers, PCs
<1>2. Course'
  BY DEF RTypes, Course
<1>3. DesiredOnFile'
  BY <1>0 DEF RTypes, Course, DesiredOnFile, OnFile, TornNoted
<1>4. SeenOnFile'
  BY <1>0 DEF RTypes, Course, SeenOnFile, OnFile, SeenPeers
<1>5. TornNoted'
  BY DEF RTypes, Course, TornNoted
<1>6. LinkSeen'
  BY DEF RTypes, Course, LinkSeen, LivePeers, SeenPeers
<1>7. AckReady'
  BY DEF RTypes, Course, AckReady, LivePeers
<1>8. FormerKeysTracked'
  BY <1>0 DEF RTypes, Course, FormerKeysTracked, OnFile, LivePeers
<1>9. Treated'
  BY DEF RTypes, Course, Treated, Applied
<1>10. HalfWay'
  BY DEF RTypes, Course, HalfWay, SeenPeers
<1> QED BY <1>1, <1>2, <1>3, <1>4, <1>5, <1>6, <1>7, <1>8, <1>9, <1>10

LEMMA DumpKeeps ==
  ASSUME RInv, NEW i \in Ifaces, NEW fails \in BOOLEAN, Dump(i, fails) PROVE RInv'
<1> USE KeysAssumption, NoLinkAssumption DEF RInv, Dump, db, locals
<1>0. \A f \in Ifaces, k \in Keys : Tracked(f, k)' <=> Tracked(f, k)
  BY DEF Tracked, KeysOf, OwnedBy, Existing
<1>1. RTypes'
  BY DEF RTypes, Cfgs, Rows, Links, Peers, PCs
<1>2. Course'
  BY DEF RTypes, Course
<1>3. DesiredOnFile'
  BY <1>0 DEF RTypes, Course, DesiredOnFile, OnFile, TornNoted
<1>4. SeenOnFile'
  BY <1>0 DEF RTypes, Course, SeenOnFile, OnFile, SeenPeers, FormerKeysTracked, LivePeers
<1>5. TornNoted'
  BY DEF RTypes, Course, TornNoted
<1>6. LinkSeen'
  BY DEF RTypes, Course, LinkSeen, LivePeers, SeenPeers
<1>7. AckReady'
  BY DEF RTypes, Course, AckReady, LivePeers
<1>8. FormerKeysTracked'
  BY <1>0 DEF RTypes, Course, FormerKeysTracked, OnFile, LivePeers
<1>9. Treated'
  BY DEF RTypes, Course, Treated, Applied
<1>10. HalfWay'
  BY DEF RTypes, Course, HalfWay, SeenPeers
<1> QED BY <1>1, <1>2, <1>3, <1>4, <1>5, <1>6, <1>7, <1>8, <1>9, <1>10

LEMMA LinkTreatedKeeps ==
  ASSUME RInv, NEW l \in Links \cup {NoLink}, LinkTreated(l) PROVE RInv'
<1> USE KeysAssumption, NoLinkAssumption DEF RInv, LinkTreated, LinkOnly, db, locals
<1>0. \A i \in Ifaces, k \in Keys : Tracked(i, k)' <=> Tracked(i, k)
  BY DEF Tracked, KeysOf, OwnedBy, Existing
<1>1. RTypes'
  BY DEF RTypes, Cfgs, Rows, Links, Peers, PCs
<1>2. Course'
  BY DEF RTypes, Course, Links, Cfgs
<1>3. DesiredOnFile'
  BY <1>0 DEF RTypes, Course, DesiredOnFile, OnFile, TornNoted
<1>4. SeenOnFile'
  BY <1>0 DEF RTypes, Course, SeenOnFile, OnFile, SeenPeers
<1>5. TornNoted'
  BY DEF RTypes, Course, TornNoted
<1>6. LinkSeen'
  BY DEF RTypes, Course, LinkSeen, LivePeers, SeenPeers, Links
<1>7. AckReady'
  BY DEF RTypes, Course, AckReady, LivePeers
<1>8. FormerKeysTracked'
  BY <1>0 DEF RTypes, Course, FormerKeysTracked, OnFile, LivePeers, Links
<1>9. Treated'
  BY DEF RTypes, Course, Treated, Applied, Links
<1>10. HalfWay'
  BY DEF RTypes, Course, HalfWay, SeenPeers, Links
<1> QED BY <1>1, <1>2, <1>3, <1>4, <1>5, <1>6, <1>7, <1>8, <1>9, <1>10

LEMMA PeersSyncedKeeps ==
  ASSUME RInv, NEW l \in Links, PeersSynced(l) PROVE RInv'
<1> USE KeysAssumption, NoLinkAssumption DEF RInv, PeersSynced, db, locals
<1>0. \A i \in Ifaces, k \in Keys : Tracked(i, k)' <=> Tracked(i, k)
  BY DEF Tracked, KeysOf, OwnedBy, Existing
<1>1. RTypes'
  BY DEF RTypes, Cfgs, Rows, Links, Peers, PCs
<1>2. Course'
  BY DEF RTypes, Course, Links
<1>3. DesiredOnFile'
  BY <1>0 DEF RTypes, Course, DesiredOnFile, OnFile, TornNoted
<1>4. SeenOnFile'
  BY <1>0 DEF RTypes, Course, SeenOnFile, OnFile, SeenPeers
<1>5. TornNoted'
  BY DEF RTypes, Course, TornNoted
<1>6. LinkSeen'
  BY DEF RTypes, Course, LinkSeen, LivePeers, SeenPeers
<1>7. AckReady'
  BY DEF RTypes, Course, AckReady, LivePeers, Links, TornNoted
<1>8. FormerKeysTracked'
  BY <1>0, ZenonT(60) DEF RTypes, Course, FormerKeysTracked, OnFile, LivePeers, Links, DesiredOnFile, SeenOnFile
<1>9. Treated'
  <2>1. \A i \in Ifaces \ {cur} : link'[i] = link[i]
    BY DEF RTypes
  <2>2. link'[cur] = l /\ cur \in Ifaces /\ cur \notin todo /\ ifs[cur].on
    BY DEF RTypes, Course
  <2>3. \A k \in l.peers \ Keys : k \notin known /\ <<cur, k>> \notin ret
    BY DEF RTypes
  <2>4. l # NoLink
    BY DEF Links, Cfgs, Peers
  <2>5. ~edited => l.cfg = ifs[cur].cfg
    BY DEF HalfWay
  <2> QED BY <2>1, <2>2, <2>3, <2>4, <2>5 DEF Treated, Applied
<1>10. HalfWay'
  BY DEF RTypes, Course, HalfWay, SeenPeers
<1> QED BY <1>1, <1>2, <1>3, <1>4, <1>5, <1>6, <1>7, <1>8, <1>9, <1>10

LEMMA RemoveInterfaceKeeps ==
  ASSUME RInv, RemoveInterface PROVE RInv'
<1> USE KeysAssumption, NoLinkAssumption DEF RInv, RemoveInterface, Fail, db, locals
<1>0. \A i \in Ifaces, k \in Keys : Tracked(i, k)' <=> Tracked(i, k)
  BY DEF Tracked, KeysOf, OwnedBy, Existing
<1>1. RTypes'
  BY DEF RTypes, Cfgs, Rows, Links, Peers, PCs
<1>2. Course'
  BY DEF RTypes, Course
<1>3. DesiredOnFile'
  BY <1>0 DEF RTypes, Course, DesiredOnFile, OnFile, TornNoted
<1>4. SeenOnFile'
  BY <1>0 DEF RTypes, Course, SeenOnFile, OnFile, SeenPeers
<1>5. TornNoted'
  BY DEF RTypes, Course, TornNoted
<1>6. LinkSeen'
  BY DEF RTypes, Course, LinkSeen, LivePeers, SeenPeers
<1>7. AckReady'
  BY DEF RTypes, Course, AckReady, LivePeers
<1>8. FormerKeysTracked'
  BY <1>0 DEF RTypes, Course, FormerKeysTracked, OnFile, LivePeers
<1>9. Treated'
  BY DEF RTypes, Course, Treated, Applied
<1>10. HalfWay'
  BY DEF RTypes, Course, HalfWay, SeenPeers
<1> QED BY <1>1, <1>2, <1>3, <1>4, <1>5, <1>6, <1>7, <1>8, <1>9, <1>10

LEMMA AckRetiredKeysKeeps ==
  ASSUME RInv, AckRetiredKeys PROVE RInv'
<1> USE KeysAssumption, NoLinkAssumption DEF RInv, AckRetiredKeys, Fail, db, locals
<1>0. \A i \in Ifaces, k \in Keys :
        Tracked(i, k) => Tracked(i, k)' \/ (i = cur /\ <<i, k>> \in ret)
  <2>1. \A i \in Ifaces : KeysOf(OwnedBy(i))' = KeysOf(OwnedBy(i))
    BY DEF KeysOf, OwnedBy, Existing
  <2>2. \/ retired' = {e \in retired : ~(e[1] = cur /\ e \in ret)}
       \/ retired' = retired
    OBVIOUS
  <2> HIDE DEF RInv, AckRetiredKeys
  <2>3. \A i, k : <<i, k>> \in retired => <<i, k>> \in retired' \/ (i = cur /\ <<i, k>> \in ret)
    BY <2>2
  <2> QED BY <2>1, <2>3 DEF Tracked
<1>1. RTypes'
  BY DEF RTypes, Cfgs, Rows, Links, Peers, PCs
<1>2. Course'
  BY DEF RTypes, Course
<1>3. DesiredOnFile'
  BY <1>0 DEF RTypes, Course, DesiredOnFile, OnFile, TornNoted
<1>4. SeenOnFile'
  BY <1>0 DEF RTypes, Course, SeenOnFile, OnFile, SeenPeers
<1>5. TornNoted'
  BY DEF RTypes, Course, TornNoted
<1>6. LinkSeen'
  BY DEF RTypes, Course, LinkSeen, LivePeers, SeenPeers
<1>7. AckReady'
  BY DEF RTypes, Course, AckReady, LivePeers
<1>8. FormerKeysTracked'
  BY <1>0 DEF RTypes, Course, FormerKeysTracked, OnFile, LivePeers, AckReady
<1>9. Treated'
  BY DEF RTypes, Course, Treated, Applied
<1>10. HalfWay'
  BY DEF RTypes, Course, HalfWay, SeenPeers
<1> QED BY <1>1, <1>2, <1>3, <1>4, <1>5, <1>6, <1>7, <1>8, <1>9, <1>10

LEMMA FinishPassKeeps ==
  ASSUME RInv, FinishPass PROVE RInv'
<1> USE KeysAssumption, NoLinkAssumption DEF RInv, FinishPass, PassEnds, db, locals
<1>0. \A i \in Ifaces, k \in Keys : Tracked(i, k)' <=> Tracked(i, k)
  BY DEF Tracked, KeysOf, OwnedBy, Existing
<1>1. RTypes'
  BY DEF RTypes, Cfgs, Rows, Links, Peers, PCs
<1>2. Course'
  BY DEF RTypes, Course
<1>3. DesiredOnFile'
  BY <1>0 DEF RTypes, Course, DesiredOnFile, OnFile, TornNoted
<1>4. SeenOnFile'
  BY <1>0 DEF RTypes, Course, SeenOnFile, OnFile, SeenPeers
<1>5. TornNoted'
  BY DEF RTypes, Course, TornNoted
<1>6. LinkSeen'
  BY DEF RTypes, Course, LinkSeen, LivePeers, SeenPeers
<1>7. AckReady'
  BY DEF RTypes, Course, AckReady, LivePeers
<1>8. FormerKeysTracked'
  BY <1>0 DEF RTypes, Course, FormerKeysTracked, OnFile, LivePeers
<1>9. Treated'
  BY DEF RTypes, Course, Treated, Applied
<1>10. HalfWay'
  BY DEF RTypes, Course, HalfWay, SeenPeers
<1> QED BY <1>1, <1>2, <1>3, <1>4, <1>5, <1>6, <1>7, <1>8, <1>9, <1>10

LEMMA CrashKeeps ==
  ASSUME RInv, Crash PROVE RInv'
<1> USE KeysAssumption, NoLinkAssumption DEF RInv, Crash, PassEnds, db, locals
<1>0. \A i \in Ifaces, k \in Keys : Tracked(i, k)' <=> Tracked(i, k)
  BY DEF Tracked, KeysOf, OwnedBy, Existing
<1>1. RTypes'
  BY DEF RTypes, Cfgs, Rows, Links, Peers, PCs
<1>2. Course'
  BY DEF RTypes, Course
<1>3. DesiredOnFile'
  BY <1>0 DEF RTypes, Course, DesiredOnFile, OnFile, TornNoted
<1>4. SeenOnFile'
  BY <1>0 DEF RTypes, Course, SeenOnFile, OnFile, SeenPeers
<1>5. TornNoted'
  BY DEF RTypes, Course, TornNoted
<1>6. LinkSeen'
  BY DEF RTypes, Course, LinkSeen, LivePeers, SeenPeers
<1>7. AckReady'
  BY DEF RTypes, Course, AckReady, LivePeers
<1>8. FormerKeysTracked'
  BY <1>0 DEF RTypes, Course, FormerKeysTracked, OnFile, LivePeers
<1>9. Treated'
  BY DEF RTypes, Course, Treated, Applied
<1>10. HalfWay'
  BY DEF RTypes, Course, HalfWay, SeenPeers
<1> QED BY <1>1, <1>2, <1>3, <1>4, <1>5, <1>6, <1>7, <1>8, <1>9, <1>10

LEMMA RebootKeeps ==
  ASSUME RInv, Reboot PROVE RInv'
<1> USE KeysAssumption, NoLinkAssumption DEF RInv, Reboot, PassEnds, db, locals
<1>0. \A i \in Ifaces, k \in Keys : Tracked(i, k)' <=> Tracked(i, k)
  BY DEF Tracked, KeysOf, OwnedBy, Existing
<1>1. RTypes'
  BY DEF RTypes, Cfgs, Rows, Links, Peers, PCs
<1>2. Course'
  BY DEF RTypes, Course
<1>3. DesiredOnFile'
  BY <1>0 DEF RTypes, Course, DesiredOnFile, OnFile, TornNoted
<1>4. SeenOnFile'
  BY <1>0 DEF RTypes, Course, SeenOnFile, OnFile, SeenPeers
<1>5. TornNoted'
  BY DEF RTypes, Course, TornNoted
<1>6. LinkSeen'
  BY DEF RTypes, Course, LinkSeen, LivePeers, SeenPeers
<1>7. AckReady'
  BY DEF RTypes, Course, AckReady, LivePeers
<1>8. FormerKeysTracked'
  BY <1>0 DEF RTypes, Course, FormerKeysTracked, OnFile, LivePeers
<1>9. Treated'
  BY DEF RTypes, Course, Treated, Applied
<1>10. HalfWay'
  BY DEF RTypes, Course, HalfWay, SeenPeers
<1> QED BY <1>1, <1>2, <1>3, <1>4, <1>5, <1>6, <1>7, <1>8, <1>9, <1>10

LEMMA EditedKeeps ==
  ASSUME RInv, NEW i \in Ifaces, NEW l \in Links, Edited(i, l) PROVE RInv'
<1> USE KeysAssumption, NoLinkAssumption DEF RInv, Edited, db, locals
<1>0. \A f \in Ifaces, k \in Keys : Tracked(f, k)' <=> Tracked(f, k)
  BY DEF Tracked, KeysOf, OwnedBy, Existing
<1>1. RTypes'
  BY DEF RTypes, Cfgs, Rows, Links, Peers, PCs
<1>2. Course'
  BY DEF RTypes, Course, Links, Cfgs, Peers
<1>3. DesiredOnFile'
  BY <1>0 DEF RTypes, Course, DesiredOnFile, OnFile, TornNoted
<1>4. SeenOnFile'
  BY <1>0 DEF RTypes, Course, SeenOnFile, OnFile, SeenPeers
<1>5. TornNoted'
  BY DEF RTypes, Course, TornNoted
<1>6. LinkSeen'
  BY DEF RTypes, Course, LinkSeen, LivePeers, SeenPeers, Links, Cfgs, Peers
<1>7. AckReady'
  BY DEF RTypes, Course, AckReady, LivePeers, Links, Cfgs, Peers
<1>8. FormerKeysTracked'
  <2>1. \A j \in Ifaces : link'[j] = IF j = i THEN l ELSE link[j]
    BY DEF RTypes
  <2> QED BY <1>0, <2>1 DEF RTypes, FormerKeysTracked, OnFile, LivePeers
<1>9. Treated'
  BY DEF RTypes, Course, Treated, Applied
<1>10. HalfWay'
  BY DEF RTypes, Course, HalfWay, SeenPeers
<1> QED BY <1>1, <1>2, <1>3, <1>4, <1>5, <1>6, <1>7, <1>8, <1>9, <1>10

-----------------------------------------------------------------------------
(* Every action on a link is one of those.                                 *)

LEMMA EmptyLinkIsLink == \A c \in Cfgs :
  EmptyLink(c) \in Links /\ EmptyLink(c).cfg = c /\ EmptyLink(c).peers = {}
  BY DEF EmptyLink, Links

LEMMA CreateLinkKeeps == ASSUME RInv, CreateLink PROVE RInv'
<1>1. /\ ifs[cur].cfg \in Cfgs /\ link = [link EXCEPT ![cur] = NoLink]
      /\ SeenPeers = {} /\ SeenPeers' = {} /\ NoLink \notin Links
  BY NoLinkAssumption DEF CreateLink, RInv, RTypes, Course, SeenPeers, Links, Cfgs, Peers
<1>2. \E l \in Links \cup {NoLink} : LinkTreated(l)
  <2>1. CASE link' = [link EXCEPT ![cur] = EmptyLink(ifs[cur].cfg)]
    BY <1>1, <2>1, EmptyLinkIsLink, ZenonT(60) DEF CreateLink, LinkTreated, LinkDone, Fail
  <2>2. CASE link' = link /\ Fail
    BY <1>1, <2>2 DEF CreateLink, LinkTreated, Fail
  <2> QED BY <2>1, <2>2 DEF CreateLink
<1> QED BY <1>2, LinkTreatedKeeps

LEMMA RecreateLinkKeeps == ASSUME RInv, RecreateLink PROVE RInv'
<1>1. /\ ifs[cur].cfg \in Cfgs /\ link[cur] \in Links /\ link = [link EXCEPT ![cur] = link[cur]]
      /\ LivePeers(cur) = link[cur].peers /\ SeenPeers' = {} /\ NoLink \notin Links
  BY NoLinkAssumption
  DEF RecreateLink, RInv, RTypes, Course, LivePeers, SeenPeers, Links, Cfgs, Peers
<1>2. \E l \in Links \cup {NoLink} : LinkTreated(l)
  <2>1. CASE link' = [link EXCEPT ![cur] = EmptyLink(ifs[cur].cfg)] /\ LinkDone
    <3>1. LinkTreated(EmptyLink(ifs[cur].cfg))
      BY <1>1, <2>1, EmptyLinkIsLink DEF RecreateLink, LinkTreated, LinkDone
    <3> QED BY <1>1, <3>1, EmptyLinkIsLink
  <2>2. CASE link' = [link EXCEPT ![cur] = NoLink] /\ Fail
    BY <2>2 DEF RecreateLink, LinkTreated, Fail
  <2>3. CASE link' = link /\ Fail
    BY <1>1, <2>3 DEF RecreateLink, LinkTreated, Fail
  <2> QED BY <2>1, <2>2, <2>3 DEF RecreateLink
<1> QED BY <1>2, LinkTreatedKeeps

LEMMA ApplyConfigKeeps == ASSUME RInv, ApplyConfig PROVE RInv'
<1> DEFINE l == [link[cur] EXCEPT !.cfg = ifs[cur].cfg]
<1>1. /\ ifs[cur].cfg \in Cfgs /\ link[cur] \in Links /\ link = [link EXCEPT ![cur] = link[cur]]
      /\ link[cur] # NoLink /\ LivePeers(cur) = link[cur].peers /\ SeenPeers' = SeenPeers
      /\ SeenPeers = seen.peers
  BY DEF ApplyConfig, RInv, RTypes, Course, LivePeers, SeenPeers, LinkOnly
<1>2. l \in Links /\ l # NoLink /\ l.cfg = ifs[cur].cfg /\ l.peers = link[cur].peers
  BY <1>1, NoLinkAssumption DEF Links, Cfgs, Peers
<1>3. LivePeers(cur) \cap Keys \subseteq SeenPeers /\ (~edited => seen = link[cur])
  BY DEF ApplyConfig, RInv, LinkSeen, HalfWay
<1>4. link' = [link EXCEPT ![cur] = l] \/ link' = link
  BY <1>1 DEF ApplyConfig, RInv, RTypes
<1>5. \E m \in Links \cup {NoLink} : LinkTreated(m)
  <2>1. CASE link' = link /\ Fail
    BY <1>1, <2>1 DEF ApplyConfig, LinkTreated, Fail
  <2>2. CASE link' = [link EXCEPT ![cur] = l] /\ Fail
    <3> HIDE DEF l
    <3> QED BY <1>1, <1>2, <2>2 DEF ApplyConfig, LinkTreated, Fail
  <2>3. CASE link' = [link EXCEPT ![cur] = l] /\ LinkDone
    <3> HIDE DEF l
    <3>1. LinkTreated(l)
      BY <1>1, <1>2, <1>3, <2>3 DEF ApplyConfig, LinkTreated, LinkDone
    <3> QED BY <1>2, <3>1
  <2> QED BY <1>4, <2>1, <2>2, <2>3 DEF ApplyConfig
<1> QED BY <1>5, LinkTreatedKeeps

LEMMA KeepLinkKeeps == ASSUME RInv, KeepLink PROVE RInv'
<1>1. /\ link[cur] \in Links /\ link = [link EXCEPT ![cur] = link[cur]]
      /\ link[cur] # NoLink /\ LivePeers(cur) = link[cur].peers /\ SeenPeers' = SeenPeers
      /\ SeenPeers = seen.peers
  BY DEF KeepLink, RInv, RTypes, Course, LivePeers, SeenPeers, LinkOnly
<1>2. LivePeers(cur) \cap Keys \subseteq SeenPeers /\ (~edited => seen = link[cur])
  BY DEF KeepLink, RInv, LinkSeen, HalfWay
<1>3. LinkTreated(link[cur])
  BY <1>1, <1>2 DEF KeepLink, LinkTreated, LinkDone, Fail
<1> QED BY <1>1, <1>3, LinkTreatedKeeps

LEMMA SyncPeersKeeps == ASSUME RInv, SyncPeers PROVE RInv'
<1> DEFINE l == [link[cur] EXCEPT !.peers = desired[cur] \cup KeptUnknown,
                                  !.moved = @ \cap KeptUnknown]
<1>1. /\ link[cur] \in Links /\ link = [link EXCEPT ![cur] = link[cur]]
      /\ link[cur] # NoLink /\ LivePeers(cur) = link[cur].peers
      /\ desired[cur] \subseteq Keys /\ SeenPeers \subseteq Peers
  BY DEF SyncPeers, RInv, RTypes, Course, LivePeers, SeenPeers, Links, Peers
<1>2. LivePeers(cur) \cap Keys \subseteq SeenPeers /\ (~edited => link[cur].peers = SeenPeers)
  BY DEF SyncPeers, RInv, LinkSeen, HalfWay
<1>3. KeptUnknown \subseteq SeenPeers /\ KeptUnknown \cap (Stale \cup desired[cur]) = {}
  BY DEF KeptUnknown, Unknown
<1>4. l \in Links /\ l.cfg = link[cur].cfg /\ l.peers = desired[cur] \cup KeptUnknown
  BY <1>1, <1>3 DEF Links, Peers
<1>5. CASE ~Dirty
  <2>1. PeersSynced(link[cur])
    BY <1>1, <1>2, <1>5 DEF SyncPeers, PeersSynced, Dirty, Stale
  <2> QED BY <1>1, <2>1, PeersSyncedKeeps
<1>6. CASE Dirty /\ Fail
  <2>1. CASE link' = link
    <3>1. PeersSynced(link[cur])
      BY <1>1, <1>6, <2>1 DEF SyncPeers, PeersSynced, Fail
    <3> QED BY <1>1, <3>1, PeersSyncedKeeps
  <2> QED BY <1>6, <2>1 DEF SyncPeers, Fail
<1>7. CASE Dirty /\ pc' = "ack"
  <2>1. link' = [link EXCEPT ![cur] = l] /\ pc' = "ack" /\ UNCHANGED good
    BY <1>1, <1>7 DEF SyncPeers, RInv, RTypes, Fail
  <2>2. \A k \in (l.peers \cap Keys) \ desired[cur] : k \notin known /\ <<cur, k>> \notin ret
    BY <1>3, <1>4 DEF Stale
  <2> HIDE DEF l
  <2>3. PeersSynced(l)
    BY <1>3, <1>4, <2>1, <2>2 DEF SyncPeers, PeersSynced
  <2> QED BY <1>4, <2>3, PeersSyncedKeeps
<1> QED BY <1>5, <1>6, <1>7 DEF SyncPeers

LEMMA ForeignEditKeeps ==
  ASSUME RInv, NEW i \in Ifaces, NEW k \in Peers, ForeignEdit(i, k) PROVE RInv'
<1>1. link[i] \in Links /\ link[i].peers \subseteq Peers /\ link[i].moved \subseteq Peers
  BY DEF ForeignEdit, RInv, RTypes, Links
<1>2. \E l \in Links : Edited(i, l)
  <2>1. CASE k \in Foreign /\ link' = [link EXCEPT ![i].peers = @ \cup {k}]
    <3>1. [link[i] EXCEPT !.peers = @ \cup {k}] \in Links
      BY <1>1 DEF Links
    <3>2. [link[i] EXCEPT !.peers = @ \cup {k}].peers = link[i].peers \cup {k}
      BY <1>1 DEF Links
    <3>3. link' = [link EXCEPT ![i] = [link[i] EXCEPT !.peers = @ \cup {k}]]
      BY <2>1 DEF RInv, RTypes
    <3> QED BY <2>1, <3>1, <3>2, <3>3, KeysAssumption DEF ForeignEdit, Edited
  <2>2. CASE link' = [link EXCEPT ![i].peers = @ \ {k}, ![i].moved = @ \ {k}]
    <3> DEFINE l == [link[i] EXCEPT !.peers = @ \ {k}, !.moved = @ \ {k}]
    <3>1. l \in Links /\ l.peers = link[i].peers \ {k}
      BY <1>1 DEF Links
    <3>2. link' = [link EXCEPT ![i] = l]
      BY <2>2 DEF RInv, RTypes
    <3> HIDE DEF l
    <3> QED BY <3>1, <3>2 DEF ForeignEdit, Edited
  <2>3. CASE link' = [link EXCEPT ![i].moved = @ \cup {k}]
    <3> DEFINE l == [link[i] EXCEPT !.moved = @ \cup {k}]
    <3>1. l \in Links /\ l.peers = link[i].peers
      BY <1>1 DEF Links
    <3>2. link' = [link EXCEPT ![i] = l]
      BY <2>3 DEF RInv, RTypes
    <3> HIDE DEF l
    <3> QED BY <3>1, <3>2 DEF ForeignEdit, Edited
  <2> QED BY <2>1, <2>2, <2>3 DEF ForeignEdit
<1> QED BY <1>2, EditedKeeps

LEMMA RNext == ASSUME RInv, [Next]_vars PROVE RInv'
<1>1. CASE Mutate BY <1>1, MutateCommits, CommittedKeeps DEF RInv
<1>2. CASE PassStep
  BY <1>2, LoadInterfacesKeeps, LoadDesiredKeeps, LoadKnownKeeps, LoadRetiredKeeps, DumpKeeps,
     CreateLinkKeeps, RecreateLinkKeeps, ApplyConfigKeeps, KeepLinkKeeps, SyncPeersKeeps,
     RemoveInterfaceKeeps, AckRetiredKeysKeeps DEF PassStep
<1>3. CASE Environment
  BY <1>3, CrashKeeps, RebootKeeps, ForeignEditKeeps DEF Environment
<1>4. CASE UNCHANGED vars
  <2>1. \A i \in Ifaces, k \in Keys : Tracked(i, k)' <=> Tracked(i, k)
    BY <1>4 DEF vars, Tracked, KeysOf, OwnedBy, Existing
  <2> QED BY <1>4, <2>1
    DEF vars, RInv, RTypes, Course, DesiredOnFile, SeenOnFile, OnFile, TornNoted, LinkSeen,
        AckReady, FormerKeysTracked, LivePeers, SeenPeers, Treated, Applied, HalfWay
<1> QED BY <1>1, <1>2, <1>3, <1>4, StartPassKeeps, FinishPassKeeps DEF Next

-----------------------------------------------------------------------------
(* The theorems.                                                           *)

\* No peer the node configured stays on a link without a row or a retired key
\* naming it (retired_peer_keys, ackRetiredKeys), except the keys one pass has
\* read both as desired and as retired.
THEOREM KeysStayTracked == Spec => []FormerKeysTracked
<1>1. RInv => FormerKeysTracked BY DEF RInv
<1> QED BY RInitial, RNext, <1>1, PTL DEF Spec

\* A pass of Engine.Run that reports no error has left every link as it read the
\* database, whatever handlers committed meanwhile.
THEOREM GoodPassesApply == Spec => []GoodPassApplied
<1>1. RInv => GoodPassApplied
  BY DEF RInv, RTypes, Treated, GoodPassApplied
<1> QED BY RInitial, RNext, <1>1, PTL DEF Spec

\* Under report and adopt no pass takes a peer of others away from a link it need
\* not recreate.
THEOREM ForeignPeersAreKept == Spec => ForeignKept
<1>1. ASSUME RInv, [Next]_vars PROVE ForeignPeersStay \/ UNCHANGED vars
  <2> SUFFICES ASSUME NEW i \in Ifaces, Policy # "remove", ~edited, edited' = edited,
                      link[i] # NoLink, link'[i] # NoLink, link[i].cfg.kind = link'[i].cfg.kind,
                      NEW f \in LivePeers(i) \cap Foreign
               PROVE f \in link'[i].peers
    BY <1>1 DEF ForeignPeersStay, RInv, RTypes
  <2> USE <1>1
  <2>1. f \in link[i].peers /\ f \notin Keys /\ link[i] \in Links
    BY KeysAssumption DEF LivePeers, RInv, RTypes
  <2>2. CASE link' = link BY <2>1, <2>2
  <2> USE DEF RInv
  <2>3. CASE CreateLink
    BY <2>1, <2>3 DEF CreateLink, LinkOnly, RTypes, Course
  <2>4. CASE RecreateLink
    <3>1. i # cur => link'[i] = link[i]
      BY <2>4 DEF RecreateLink, RTypes
    <3>2. i = cur => link'[cur] = link[cur]
      <4>1. seen = link[cur] /\ cur \in Ifaces
        BY <2>4 DEF RecreateLink, HalfWay, RTypes
      <4>2. EmptyLink(ifs[cur].cfg).cfg = ifs[cur].cfg
        BY DEF EmptyLink
      <4> QED BY <2>4, <4>1, <4>2 DEF RecreateLink, RTypes
    <3> QED BY <2>1, <3>1, <3>2
  <2>5. CASE ApplyConfig
    <3>1. i # cur => link'[i] = link[i]
      BY <2>5 DEF ApplyConfig, RTypes
    <3>2. i = cur => link'[i].peers = link[i].peers
      BY <2>1, <2>5 DEF ApplyConfig, RTypes, Links
    <3> QED BY <2>1, <3>1, <3>2
  <2>6. CASE SyncPeers
    <3>1. i # cur => link'[i] = link[i]
      BY <2>6 DEF SyncPeers, RTypes
    <3>2. CASE i = cur /\ link' # link
      <4>1. link'[cur].peers = desired[cur] \cup KeptUnknown
        BY <2>1, <2>6, <3>2 DEF SyncPeers, RTypes, Links
      <4>2. link[cur].peers = SeenPeers
        BY <2>6 DEF SyncPeers, HalfWay
      <4>3. f \notin desired[cur] /\ f \notin known /\ <<cur, f>> \notin ret
        BY <2>1 DEF RTypes
      <4> QED BY <2>1, <3>2, <4>1, <4>2, <4>3 DEF KeptUnknown, Unknown, Stale
    <3> QED BY <2>1, <3>1, <3>2
  <2>7. CASE RemoveInterface
    BY <2>1, <2>7 DEF RemoveInterface, RTypes
  <2>8. CASE Reboot
    BY <2>8 DEF Reboot
  <2>9. ASSUME NEW j \in Ifaces, NEW k \in Peers, ForeignEdit(j, k) PROVE FALSE
    BY <2>9 DEF ForeignEdit
  <2>10. Mutate => link' = link
    BY DEF Mutate, CreateDevice, SetEligible, Regenerate, ReplaceUserCredentialsTx, Rekey,
           DeleteDevice, DeleteUserTx, Remove, SetInterfaceEnabled, UpdateInterface, MutatesDB
  <2>11. StartPass \/ FinishPass \/ Crash => link' = link
    BY DEF StartPass, FinishPass, Crash
  <2>12. /\ LoadInterfaces \/ LoadDesired \/ LoadKnown \/ LoadRetired => link' = link
         /\ KeepLink \/ AckRetiredKeys => link' = link
    BY DEF LoadInterfaces, LoadDesired, LoadKnown, LoadRetired, ReadsOnly, KeepLink, AckRetiredKeys
  <2>13. ASSUME NEW j \in Ifaces, NEW fails \in BOOLEAN, Dump(j, fails) PROVE link' = link
    BY <2>13 DEF Dump
  <2>14. UNCHANGED vars => link' = link
    BY DEF vars
  <2> QED
    BY <2>2, <2>3, <2>4, <2>5, <2>6, <2>7, <2>8, <2>9, <2>10, <2>11, <2>12, <2>13, <2>14
    DEF Next, PassStep, Environment
<1> QED BY RInitial, RNext, <1>1, PTL DEF Spec, ForeignKept

=============================================================================
