--------------------------- MODULE DataLeaseProofs ---------------------------
(***************************************************************************)
(* What the byte locks of the data directory protect, for any number of    *)
(* processes: an exclusive holder is alone, everybody works with the key   *)
(* of the key file, and a purged directory is in use by nobody.  Then the  *)
(* key itself: secrets stay readable through any number of rotations,      *)
(* crashes and power failures, for any set of rows.                        *)
(***************************************************************************)
EXTENDS DataLease, KeyRotation, TLAPS

LTypes ==
  /\ pair \in [Procs -> {"none", "shared", "excl"}]
  /\ lpc \in [Procs -> Places] /\ job \in [Procs -> Jobs]
  /\ keyId \in Nat /\ keys \in Nat /\ ring \in [Procs -> Nat]

\* An exclusive hold of byte 1 excludes every other hold.
OneExclusive == \A p, q \in Procs : p # q /\ pair[p] = "excl" => pair[q] = "none"

\* Whoever has the database open without holding byte 1 holds admission, and
\* so does every exclusive holder: no two of them meet.
Admitted(p) ==
  /\ pair[p] = "excl" => adm = p
  /\ lpc[p] \in {"lock1", "admit", "unlock", "upgrade", "relock"} => adm = p
  /\ lpc[p] = "failed" /\ pair[p] = "none" => adm = p
  /\ lpc[p] \in {"admit", "open", "migrate", "unlock", "load", "share", "session"} => pair[p] # "none"

\* Where an operation may be, and what it holds there.
OnCourse(p) ==
  /\ lpc[p] \in {"lock0", "lock1", "admit"} => job[p] \notin {"none", "inspect", "review"}
  /\ lpc[p] = "admit" => job[p] \notin Guards
  /\ InUse(p) \/ lpc[p] = "open" => job[p] \in Sessions
  /\ lpc[p] \in {"admit", "open", "migrate", "load", "share"} /\ Exclusive(job[p]) => pair[p] = "excl"
  /\ lpc[p] = "session" /\ job[p] = "rotate" => pair[p] = "excl"
  /\ lpc[p] \in {"unlock", "upgrade", "failed"} => ~Exclusive(job[p])
  /\ lpc[p] = "relock" => job[p] # "rotate"
  /\ lpc[p] \in {"lock3", "lock5"} /\ job[p] \in Guards => pair[p] = "excl"
  /\ lpc[p] = "lock5" /\ job[p] \in Guards => work = p
  /\ lpc[p] \in {"guard", "purging"} => pair[p] = "excl" /\ work = p /\ review = p
  /\ lpc[p] \in {"check", "working"} => work = p \/ review = p

\* A loaded key is the one of the file, and a caller that was let in with a
\* shared lock because there was a key file still finds it.
OneKey(p) ==
  /\ ring[p] # 0 => lpc[p] \in {"share", "relock", "session"} /\ ring[p] = keyId
  /\ InUse(p) /\ job[p] = "services" => "key" \in members

\* Members are removed only under the mark, and nobody is inside under it.
UnderMark ==
  /\ torn => marked /\ members # {}
  /\ \A p \in Procs : lpc[p] = "purging" => marked
  /\ marked => \A p \in Procs : ~InUse(p) /\ lpc[p] \notin {"open", "working"}

LInv ==
  /\ LTypes /\ OneExclusive /\ UnderMark
  /\ \A p \in Procs : Admitted(p) /\ OnCourse(p) /\ OneKey(p)

LEMMA LInitial == LInit => LInv
  BY DEF LInit, LInv, LTypes, OneExclusive, UnderMark, Admitted, OnCourse, OneKey, InUse, Jobs, Places

\* One lemma per action; under it one step per conjunct of the invariant.

LEMMA StartKeeps ==
  ASSUME LInv, NEW p \in Procs,
         NEW j \in Jobs \ {"none", "initialize"}, Start(p, j)
  PROVE LInv'
<1> USE NoProcAssumption DEF LInv, At, Goto, dataVars, Start
<1>1. LTypes'
  BY DEF LTypes, Places, Jobs, Sessions, Guards
<1>2. OneExclusive'
  BY DEF OneExclusive
<1>3. UnderMark'
  BY DEF LTypes, OneExclusive, UnderMark, Admitted, OnCourse, InUse
<1>4. ASSUME NEW q \in Procs PROVE Admitted(q)'
  BY <1>4 DEF LTypes, Admitted
<1>5. ASSUME NEW q \in Procs PROVE OnCourse(q)'
  BY <1>5 DEF LTypes, Admitted, OnCourse, InUse, Exclusive, Guards, Sessions, Jobs
<1>6. ASSUME NEW q \in Procs PROVE OneKey(q)'
  BY <1>6 DEF LTypes, OneExclusive, Admitted, OnCourse, OneKey, InUse, Exclusive, Sessions, Guards
<1> QED BY <1>1, <1>2, <1>3, <1>4, <1>5, <1>6

LEMMA LockAdmissionKeeps ==
  ASSUME LInv, NEW p \in Procs, LockAdmission(p) PROVE LInv'
<1> USE NoProcAssumption DEF LInv, At, Goto, dataVars, LockAdmission
<1>1. LTypes'
  BY DEF LTypes, Places, Jobs, Release
<1>2. OneExclusive'
  BY DEF LTypes, OneExclusive, Release
<1>3. UnderMark'
  BY DEF LTypes, OneExclusive, UnderMark, Admitted, OnCourse, InUse, Release
<1>4. ASSUME NEW q \in Procs PROVE Admitted(q)'
  BY <1>4 DEF LTypes, Admitted, Release
<1>5. ASSUME NEW q \in Procs PROVE OnCourse(q)'
  BY <1>5 DEF LTypes, Admitted, OnCourse, InUse, Exclusive, Guards, Sessions, Jobs, Release
<1>6. ASSUME NEW q \in Procs PROVE OneKey(q)'
  BY <1>6 DEF LTypes, OneExclusive, Admitted, OnCourse, OneKey, InUse, Exclusive, Sessions, Guards, Release
<1> QED BY <1>1, <1>2, <1>3, <1>4, <1>5, <1>6

LEMMA LockPairKeeps ==
  ASSUME LInv, NEW p \in Procs, LockPair(p) PROVE LInv'
<1> USE NoProcAssumption DEF LInv, At, Goto, dataVars, LockPair
<1>1. LTypes'
  BY DEF LTypes, Places, Jobs, Release
<1>2. OneExclusive'
  BY DEF LTypes, OneExclusive, Release, CanLock
<1>3. UnderMark'
  BY DEF LTypes, OneExclusive, UnderMark, Admitted, OnCourse, InUse, Release
<1>4. ASSUME NEW q \in Procs PROVE Admitted(q)'
  BY <1>4 DEF LTypes, Admitted, Release
<1>5. ASSUME NEW q \in Procs PROVE OnCourse(q)'
  BY <1>5 DEF LTypes, Admitted, OnCourse, InUse, Exclusive, Guards, Sessions, Jobs, Release
<1>6. ASSUME NEW q \in Procs PROVE OneKey(q)'
  BY <1>6 DEF LTypes, OneExclusive, Admitted, OnCourse, OneKey, InUse, Exclusive, Sessions, Guards, Release
<1> QED BY <1>1, <1>2, <1>3, <1>4, <1>5, <1>6

LEMMA AdmitKeeps ==
  ASSUME LInv, NEW p \in Procs, Admit(p) PROVE LInv'
<1> USE NoProcAssumption DEF LInv, At, Goto, dataVars, Admit
<1>1. LTypes'
  BY DEF LTypes, Places, Jobs, Release
<1>2. OneExclusive'
  BY DEF LTypes, OneExclusive, Release
<1>3. UnderMark'
  BY DEF LTypes, OneExclusive, UnderMark, Admitted, OnCourse, InUse, Release
<1>4. ASSUME NEW q \in Procs PROVE Admitted(q)'
  BY <1>4 DEF LTypes, Admitted, Release
<1>5. ASSUME NEW q \in Procs PROVE OnCourse(q)'
  BY <1>5 DEF LTypes, Admitted, OnCourse, InUse, Exclusive, Guards, Sessions, Jobs, Release
<1>6. ASSUME NEW q \in Procs PROVE OneKey(q)'
  BY <1>6 DEF LTypes, OneExclusive, Admitted, OnCourse, OneKey, InUse, Exclusive, Sessions, Guards, Release
<1> QED BY <1>1, <1>2, <1>3, <1>4, <1>5, <1>6

LEMMA OpenKeysKeeps ==
  ASSUME LInv, NEW p \in Procs, OpenKeys(p) PROVE LInv'
<1> USE NoProcAssumption DEF LInv, At, Goto, dataVars, OpenKeys
<1>1. LTypes'
  BY DEF LTypes, Places, Jobs, Sessions, Guards
<1>2. OneExclusive'
  BY DEF LTypes, OneExclusive
<1>3. UnderMark'
  BY DEF LTypes, OneExclusive, UnderMark, Admitted, OnCourse, InUse
<1>4. ASSUME NEW q \in Procs PROVE Admitted(q)'
  BY <1>4 DEF LTypes, Admitted
<1>5. ASSUME NEW q \in Procs PROVE OnCourse(q)'
  BY <1>5 DEF LTypes, Admitted, OnCourse, InUse, Exclusive, Guards, Sessions, Jobs
<1>6. ASSUME NEW q \in Procs PROVE OneKey(q)'
  BY <1>6 DEF LTypes, OneExclusive, Admitted, OnCourse, OneKey, InUse, Exclusive, Sessions, Guards
<1> QED BY <1>1, <1>2, <1>3, <1>4, <1>5, <1>6

LEMMA MigrateNodeKeeps ==
  ASSUME LInv, NEW p \in Procs, MigrateNode(p) PROVE LInv'
<1> USE NoProcAssumption DEF LInv, At, Goto, dataVars, MigrateNode
<1>1. LTypes'
  BY DEF LTypes, Places, Jobs, Release
<1>2. OneExclusive'
  BY DEF LTypes, OneExclusive, Release
<1>3. UnderMark'
  BY DEF LTypes, OneExclusive, UnderMark, Admitted, OnCourse, InUse, Release
<1>4. ASSUME NEW q \in Procs PROVE Admitted(q)'
  BY <1>4 DEF LTypes, Admitted, Release
<1>5. ASSUME NEW q \in Procs PROVE OnCourse(q)'
  BY <1>5 DEF LTypes, Admitted, OnCourse, InUse, Exclusive, Guards, Sessions, Jobs, Release
<1>6. ASSUME NEW q \in Procs PROVE OneKey(q)'
  BY <1>6 DEF LTypes, OneExclusive, Admitted, OnCourse, OneKey, InUse, Exclusive, Sessions, Guards, Release
<1> QED BY <1>1, <1>2, <1>3, <1>4, <1>5, <1>6

LEMMA RequireExclusiveUnlockKeeps ==
  ASSUME LInv, NEW p \in Procs, RequireExclusiveUnlock(p) PROVE LInv'
<1> USE NoProcAssumption DEF LInv, At, Goto, dataVars, RequireExclusiveUnlock
<1>1. LTypes'
  BY DEF LTypes, Places
<1>2. OneExclusive'
  BY DEF LTypes, OneExclusive
<1>3. UnderMark'
  BY DEF LTypes, OneExclusive, UnderMark, Admitted, OnCourse, InUse
<1>4. ASSUME NEW q \in Procs PROVE Admitted(q)'
  BY <1>4 DEF LTypes, Admitted
<1>5. ASSUME NEW q \in Procs PROVE OnCourse(q)'
  BY <1>5 DEF LTypes, Admitted, OnCourse, InUse, Exclusive, Guards, Sessions, Jobs
<1>6. ASSUME NEW q \in Procs PROVE OneKey(q)'
  BY <1>6 DEF LTypes, OneExclusive, Admitted, OnCourse, OneKey, InUse, Exclusive, Sessions, Guards
<1> QED BY <1>1, <1>2, <1>3, <1>4, <1>5, <1>6

LEMMA RequireExclusiveRelockKeeps ==
  ASSUME LInv, NEW p \in Procs, RequireExclusiveRelock(p) PROVE LInv'
<1> USE NoProcAssumption DEF LInv, At, Goto, dataVars, RequireExclusiveRelock
<1>1. LTypes'
  BY DEF LTypes, Places
<1>2. OneExclusive'
  BY DEF LTypes, OneExclusive, CanLock
<1>3. UnderMark'
  BY DEF LTypes, OneExclusive, UnderMark, Admitted, OnCourse, InUse
<1>4. ASSUME NEW q \in Procs PROVE Admitted(q)'
  BY <1>4 DEF LTypes, Admitted
<1>5. ASSUME NEW q \in Procs PROVE OnCourse(q)'
  BY <1>5 DEF LTypes, Admitted, OnCourse, InUse, Exclusive, Guards, Sessions, Jobs
<1>6. ASSUME NEW q \in Procs PROVE OneKey(q)'
  BY <1>6 DEF LTypes, OneExclusive, Admitted, OnCourse, OneKey, InUse, Exclusive, Sessions, Guards
<1> QED BY <1>1, <1>2, <1>3, <1>4, <1>5, <1>6

LEMMA LoadNodeKeyRingKeeps ==
  ASSUME LInv, NEW p \in Procs, LoadNodeKeyRing(p) PROVE LInv'
<1> USE NoProcAssumption DEF LInv, At, Goto, dataVars, LoadNodeKeyRing
<1>1. LTypes'
  BY DEF LTypes, Places
<1>2. OneExclusive'
  BY DEF OneExclusive
<1>3. UnderMark'
  BY DEF LTypes, OneExclusive, UnderMark, Admitted, OnCourse, InUse
<1>4. ASSUME NEW q \in Procs PROVE Admitted(q)'
  BY <1>4 DEF LTypes, Admitted
<1>5. ASSUME NEW q \in Procs PROVE OnCourse(q)'
  BY <1>5 DEF LTypes, Admitted, OnCourse, InUse, Exclusive, Guards, Sessions, Jobs
<1>6. ASSUME NEW q \in Procs PROVE OneKey(q)'
  BY <1>6 DEF LTypes, OneExclusive, Admitted, OnCourse, OneKey, InUse, Exclusive, Sessions, Guards
<1> QED BY <1>1, <1>2, <1>3, <1>4, <1>5, <1>6

LEMMA ShareUnlockKeeps ==
  ASSUME LInv, NEW p \in Procs, ShareUnlock(p) PROVE LInv'
<1> USE NoProcAssumption DEF LInv, At, Goto, dataVars, ShareUnlock
<1>1. LTypes'
  BY DEF LTypes, Places
<1>2. OneExclusive'
  BY DEF LTypes, OneExclusive
<1>3. UnderMark'
  BY DEF LTypes, OneExclusive, UnderMark, Admitted, OnCourse, InUse
<1>4. ASSUME NEW q \in Procs PROVE Admitted(q)'
  BY <1>4 DEF LTypes, Admitted, OnCourse
<1>5. ASSUME NEW q \in Procs PROVE OnCourse(q)'
  BY <1>5 DEF LTypes, Admitted, OnCourse, InUse, Exclusive, Guards, Sessions, Jobs
<1>6. ASSUME NEW q \in Procs PROVE OneKey(q)'
  BY <1>6 DEF LTypes, OneExclusive, Admitted, OnCourse, OneKey, InUse, Exclusive, Sessions, Guards
<1> QED BY <1>1, <1>2, <1>3, <1>4, <1>5, <1>6

LEMMA ShareRelockKeeps ==
  ASSUME LInv, NEW p \in Procs, ShareRelock(p) PROVE LInv'
<1> USE NoProcAssumption DEF LInv, At, Goto, dataVars, ShareRelock
<1>1. LTypes'
  BY DEF LTypes, Places, Jobs, Release
<1>2. OneExclusive'
  BY DEF LTypes, OneExclusive, Release, CanLock
<1>3. UnderMark'
  BY DEF LTypes, OneExclusive, UnderMark, Admitted, OnCourse, InUse, Release
<1>4. ASSUME NEW q \in Procs PROVE Admitted(q)'
  BY <1>4 DEF LTypes, Admitted, Release
<1>5. ASSUME NEW q \in Procs PROVE OnCourse(q)'
  BY <1>5 DEF LTypes, Admitted, OnCourse, InUse, Exclusive, Guards, Sessions, Jobs, Release
<1>6. ASSUME NEW q \in Procs PROVE OneKey(q)'
  BY <1>6 DEF LTypes, OneExclusive, Admitted, OnCourse, OneKey, InUse, Exclusive, Sessions, Guards, Release
<1> QED BY <1>1, <1>2, <1>3, <1>4, <1>5, <1>6

LEMMA RotateKeyKeeps ==
  ASSUME LInv, NEW p \in Procs, RotateKey(p) PROVE LInv'
<1> USE NoProcAssumption DEF LInv, At, Goto, dataVars, RotateKey
<1>1. LTypes'
  BY DEF LTypes, Places
<1>2. OneExclusive'
  BY DEF OneExclusive
<1>3. UnderMark'
  BY DEF LTypes, OneExclusive, UnderMark, Admitted, OnCourse, InUse
<1>4. ASSUME NEW q \in Procs PROVE Admitted(q)'
  BY <1>4 DEF LTypes, Admitted
<1>5. ASSUME NEW q \in Procs PROVE OnCourse(q)'
  BY <1>5 DEF LTypes, Admitted, OnCourse, InUse, Exclusive, Guards, Sessions, Jobs
<1>6. ASSUME NEW q \in Procs PROVE OneKey(q)'
  BY <1>6 DEF LTypes, OneExclusive, Admitted, OnCourse, OneKey, InUse, Exclusive, Sessions, Guards
<1> QED BY <1>1, <1>2, <1>3, <1>4, <1>5, <1>6

LEMMA LockWorkKeeps ==
  ASSUME LInv, NEW p \in Procs, LockWork(p) PROVE LInv'
<1> USE NoProcAssumption DEF LInv, At, Goto, dataVars, LockWork
<1>1. LTypes'
  BY DEF LTypes, Places, Jobs, Release
<1>2. OneExclusive'
  BY DEF LTypes, OneExclusive, Release
<1>3. UnderMark'
  BY DEF LTypes, OneExclusive, UnderMark, Admitted, OnCourse, InUse, Release
<1>4. ASSUME NEW q \in Procs PROVE Admitted(q)'
  BY <1>4 DEF LTypes, Admitted, Release
<1>5. ASSUME NEW q \in Procs PROVE OnCourse(q)'
  BY <1>5 DEF LTypes, Admitted, OnCourse, InUse, Exclusive, Guards, Sessions, Jobs, Release
<1>6. ASSUME NEW q \in Procs PROVE OneKey(q)'
  BY <1>6 DEF LTypes, OneExclusive, Admitted, OnCourse, OneKey, InUse, Exclusive, Sessions, Guards, Release
<1> QED BY <1>1, <1>2, <1>3, <1>4, <1>5, <1>6

LEMMA LockReviewKeeps ==
  ASSUME LInv, NEW p \in Procs, LockReview(p) PROVE LInv'
<1> USE NoProcAssumption DEF LInv, At, Goto, dataVars, LockReview
<1>1. LTypes'
  BY DEF LTypes, Places, Jobs, Release
<1>2. OneExclusive'
  BY DEF LTypes, OneExclusive, Release
<1>3. UnderMark'
  BY DEF LTypes, OneExclusive, UnderMark, Admitted, OnCourse, InUse, Release
<1>4. ASSUME NEW q \in Procs PROVE Admitted(q)'
  BY <1>4 DEF LTypes, Admitted, Release
<1>5. ASSUME NEW q \in Procs PROVE OnCourse(q)'
  BY <1>5 DEF LTypes, Admitted, OnCourse, InUse, Exclusive, Guards, Sessions, Jobs, Release
<1>6. ASSUME NEW q \in Procs PROVE OneKey(q)'
  BY <1>6 DEF LTypes, OneExclusive, Admitted, OnCourse, OneKey, InUse, Exclusive, Sessions, Guards, Release
<1> QED BY <1>1, <1>2, <1>3, <1>4, <1>5, <1>6

LEMMA CheckWorkKeeps ==
  ASSUME LInv, NEW p \in Procs, CheckWork(p) PROVE LInv'
<1> USE NoProcAssumption DEF LInv, At, Goto, dataVars, CheckWork
<1>1. LTypes'
  BY DEF LTypes, Places, Jobs, Release
<1>2. OneExclusive'
  BY DEF LTypes, OneExclusive, Release
<1>3. UnderMark'
  BY DEF LTypes, OneExclusive, UnderMark, Admitted, OnCourse, InUse, Release
<1>4. ASSUME NEW q \in Procs PROVE Admitted(q)'
  BY <1>4 DEF LTypes, Admitted, Release
<1>5. ASSUME NEW q \in Procs PROVE OnCourse(q)'
  BY <1>5 DEF LTypes, Admitted, OnCourse, InUse, Exclusive, Guards, Sessions, Jobs, Release
<1>6. ASSUME NEW q \in Procs PROVE OneKey(q)'
  BY <1>6 DEF LTypes, OneExclusive, Admitted, OnCourse, OneKey, InUse, Exclusive, Sessions, Guards, Release
<1> QED BY <1>1, <1>2, <1>3, <1>4, <1>5, <1>6

LEMMA MarkKeeps ==
  ASSUME LInv, NEW p \in Procs, Mark(p) PROVE LInv'
<1> USE NoProcAssumption DEF LInv, At, Goto, dataVars, Mark
<1>1. LTypes'
  BY DEF LTypes, Places
<1>2. OneExclusive'
  BY DEF OneExclusive
<1>3. UnderMark'
  BY DEF LTypes, OneExclusive, UnderMark, Admitted, OnCourse, InUse
<1>4. ASSUME NEW q \in Procs PROVE Admitted(q)'
  BY <1>4 DEF LTypes, Admitted
<1>5. ASSUME NEW q \in Procs PROVE OnCourse(q)'
  BY <1>5 DEF LTypes, Admitted, OnCourse, InUse, Exclusive, Guards, Sessions, Jobs
<1>6. ASSUME NEW q \in Procs PROVE OneKey(q)'
  BY <1>6 DEF LTypes, OneExclusive, Admitted, OnCourse, OneKey, InUse, Exclusive, Sessions, Guards
<1> QED BY <1>1, <1>2, <1>3, <1>4, <1>5, <1>6

LEMMA RemoveMemberKeeps ==
  ASSUME LInv, NEW p \in Procs, NEW m \in Members, RemoveMember(p, m) PROVE LInv'
<1> USE NoProcAssumption DEF LInv, At, Goto, dataVars, RemoveMember
<1>1. LTypes'
  BY DEF LTypes, Places
<1>2. OneExclusive'
  BY DEF OneExclusive
<1>3. UnderMark'
  BY DEF LTypes, OneExclusive, UnderMark, Admitted, OnCourse, InUse
<1>4. ASSUME NEW q \in Procs PROVE Admitted(q)'
  BY <1>4 DEF LTypes, Admitted
<1>5. ASSUME NEW q \in Procs PROVE OnCourse(q)'
  BY <1>5 DEF LTypes, Admitted, OnCourse, InUse, Exclusive, Guards, Sessions, Jobs
<1>6. ASSUME NEW q \in Procs PROVE OneKey(q)'
  BY <1>6 DEF LTypes, OneExclusive, Admitted, OnCourse, OneKey, InUse, Exclusive, Sessions, Guards
<1> QED BY <1>1, <1>2, <1>3, <1>4, <1>5, <1>6

LEMMA ResetPurgedDataDirKeeps ==
  ASSUME LInv, NEW p \in Procs, ResetPurgedDataDir(p) PROVE LInv'
<1> USE NoProcAssumption DEF LInv, At, Goto, dataVars, ResetPurgedDataDir
<1>1. LTypes'
  BY DEF LTypes, Places, Jobs, Release
<1>2. OneExclusive'
  BY DEF LTypes, OneExclusive, Release
<1>3. UnderMark'
  BY DEF LTypes, OneExclusive, UnderMark, Admitted, OnCourse, InUse, Release
<1>4. ASSUME NEW q \in Procs PROVE Admitted(q)'
  BY <1>4 DEF LTypes, Admitted, Release
<1>5. ASSUME NEW q \in Procs PROVE OnCourse(q)'
  BY <1>5 DEF LTypes, Admitted, OnCourse, InUse, Exclusive, Guards, Sessions, Jobs, Release
<1>6. ASSUME NEW q \in Procs PROVE OneKey(q)'
  BY <1>6 DEF LTypes, OneExclusive, Admitted, OnCourse, OneKey, InUse, Exclusive, Sessions, Guards, Release
<1> QED BY <1>1, <1>2, <1>3, <1>4, <1>5, <1>6

LEMMA CloseKeeps ==
  ASSUME LInv, NEW p \in Procs, Close(p) PROVE LInv'
<1> USE NoProcAssumption DEF LInv, At, Goto, dataVars, Close
<1>1. LTypes'
  BY DEF LTypes, Places, Jobs, Release
<1>2. OneExclusive'
  BY DEF LTypes, OneExclusive, Release
<1>3. UnderMark'
  BY DEF LTypes, OneExclusive, UnderMark, Admitted, OnCourse, InUse, Release
<1>4. ASSUME NEW q \in Procs PROVE Admitted(q)'
  BY <1>4 DEF LTypes, Admitted, Release
<1>5. ASSUME NEW q \in Procs PROVE OnCourse(q)'
  BY <1>5 DEF LTypes, Admitted, OnCourse, InUse, Exclusive, Guards, Sessions, Jobs, Release
<1>6. ASSUME NEW q \in Procs PROVE OneKey(q)'
  BY <1>6 DEF LTypes, OneExclusive, Admitted, OnCourse, OneKey, InUse, Exclusive, Sessions, Guards, Release
<1> QED BY <1>1, <1>2, <1>3, <1>4, <1>5, <1>6

LEMMA LStep == ASSUME LInv, [LNext]_lvars PROVE LInv'
<1>1. CASE UNCHANGED lvars
  BY <1>1 DEF lvars, LInv, LTypes, OneExclusive, UnderMark, Admitted, OnCourse, OneKey, InUse
<1>2. CASE LNext
  <2> PICK p \in Procs :
       \/ \E j \in Jobs \ {"none", "initialize"} : Start(p, j)
       \/ LockAdmission(p) \/ LockPair(p) \/ Admit(p) \/ OpenKeys(p) \/ MigrateNode(p)
       \/ RequireExclusiveUnlock(p) \/ RequireExclusiveRelock(p) \/ LoadNodeKeyRing(p)
       \/ ShareUnlock(p) \/ ShareRelock(p) \/ RotateKey(p)
       \/ LockWork(p) \/ LockReview(p) \/ CheckWork(p)
       \/ Mark(p) \/ (\E m \in Members : RemoveMember(p, m)) \/ ResetPurgedDataDir(p)
       \/ Close(p)
    BY <1>2 DEF LNext
  <2> QED
    BY StartKeeps, LockAdmissionKeeps, LockPairKeeps, AdmitKeeps, OpenKeysKeeps,
       MigrateNodeKeeps, RequireExclusiveUnlockKeeps, RequireExclusiveRelockKeeps,
       LoadNodeKeyRingKeeps, ShareUnlockKeeps,
       ShareRelockKeeps, RotateKeyKeeps, LockWorkKeeps, LockReviewKeeps, CheckWorkKeeps,
       MarkKeeps, RemoveMemberKeeps, ResetPurgedDataDirKeeps, CloseKeeps
<1> QED BY <1>1, <1>2

\* The invariant is enough: an exclusive holder has admission, and whoever has
\* the database open has byte 1 or admission.
LEMMA LImplies == LInv => AloneWhenExclusive /\ LeaseProtects
<1> SUFFICES ASSUME LInv PROVE AloneWhenExclusive /\ LeaseProtects
  OBVIOUS
<1>1. AloneWhenExclusive
  BY DEF LInv, OneExclusive, Admitted, AloneWhenExclusive, InUse
<1>2. KeysAgree
  BY DEF LInv, OneKey, KeysAgree
<1>3. PurgedIsUnused
  BY DEF LInv, UnderMark, PurgedIsUnused, At
<1> QED BY <1>1, <1>2, <1>3 DEF LeaseProtects

\* For any number of processes: while one holds the data exclusively to
\* migrate, create or rotate the key, restore or purge (data_lease.go lockData,
\* RequireExclusive, Share), no other has the database open, not even between
\* releasing byte 1 and taking it again.
THEOREM ExclusiveIsAlone == LSpec => []AloneWhenExclusive
<1> QED BY LInitial, LStep, LImplies, PTL DEF LSpec

\* For any number of processes: nobody works with a key other than the one of
\* the key file (secrets/keyring.go, nodestate sessions), and nobody uses a
\* directory that a purge has marked or half removed (work.go).
THEOREM LeaseIsSound == LSpec => []LeaseProtects
<1> QED BY LInitial, LStep, LImplies, PTL DEF LSpec

-----------------------------------------------------------------------------
(* KeyRotation.                                                             *)

\* Key numbers are positive, so 0 stands for "no file" only.
KPositive ==
  /\ cur \in Nat \ {0} /\ made \in Nat \ {0}
  /\ stored \in [Rows -> Nat \ {0}] /\ durable \in [Rows -> Nat \ {0}]

\* Where Rotate is tells what is already true of the files and the rows: the
\* predecessor is published before the key is replaced, all rows are under
\* the new key before the checkpoint, and durably so before the predecessor
\* goes.  A predecessor that may come back is not on disk.
KProgress ==
  /\ prevBack # 0 => prev = 0
  /\ kpc = "swap" => prev = cur
  /\ kpc \in {"checkpoint", "remove"} => \A r \in Rows : stored[r] = cur
  /\ kpc = "remove" => \A r \in Rows : durable[r] = cur

KInv == KPositive /\ KProgress /\ SecretsReadable

\* The key file starts as the only one.
LEMMA KInitial == KInit => KInv
  BY DEF KInit, KInv, KPositive, KProgress, SecretsReadable

\* Every step of a rotation, and a crash between any two of them, keeps it.
LEMMA KStep == KInv /\ [KNext]_kvars => KInv'
<1> SUFFICES ASSUME KInv, [KNext]_kvars PROVE KInv'
  OBVIOUS
<1> USE DEF KInv, KPositive, KProgress, SecretsReadable
<1>1. CASE \E r \in Rows : Store(r)
  BY <1>1 DEF Store
<1>2. CASE \E r \in Rows : RotateField(r)
  BY <1>2 DEF RotateField
<1>3. CASE AutoCheckpoint
  BY <1>3 DEF AutoCheckpoint
<1>4. CASE Rotate
  BY <1>4 DEF Rotate
<1>5. CASE SwapKey
  BY <1>5 DEF SwapKey
<1>6. CASE VerifyRows
  BY <1>6 DEF VerifyRows
<1>7. CASE Checkpoint
  BY <1>7 DEF Checkpoint
<1>8. CASE RemovePrevious
  BY <1>8 DEF RemovePrevious
<1>9. CASE SyncKeyDirectory
  BY <1>9 DEF SyncKeyDirectory
<1>10. CASE Abort
  BY <1>10 DEF Abort
<1>11. CASE PowerFailure
  <2>1. stored' \in [Rows -> Nat \ {0}] /\ \A r \in Rows : stored'[r] \in {stored[r], durable[r]}
    BY <1>11 DEF PowerFailure
  <2>2. prev' = prev \/ \A r \in Rows : stored[r] = cur /\ durable[r] = cur
    BY <1>11 DEF PowerFailure
  <2>3. durable' = stored' /\ cur' = cur /\ made' = made /\ kpc' = "idle" /\ prevBack' = 0
    BY <1>11 DEF PowerFailure
  <2>4. KPositive' /\ KProgress'
    BY <2>1, <2>3
  <2>5. SecretsReadable'
    BY <2>1, <2>2, <2>3
  <2> QED BY <2>4, <2>5
<1>12. CASE UNCHANGED kvars
  BY <1>12 DEF kvars
<1> QED BY <1>1, <1>2, <1>3, <1>4, <1>5, <1>6, <1>7, <1>8, <1>9, <1>10, <1>11, <1>12 DEF KNext

\* However often a rotation is started, killed or cut off by a power failure
\* between publishing the predecessor, replacing the key, re-encrypting rows,
\* the checkpoint and removing the predecessor (keyring.go Rotate), the key
\* files on disk open every stored row.
THEOREM SecretsStayReadable == KSpec => []SecretsReadable
<1>1. KInv => SecretsReadable
  BY DEF KInv
<1> QED BY KInitial, KStep, <1>1, PTL DEF KSpec
=============================================================================
