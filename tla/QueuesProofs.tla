---------------------------- MODULE QueuesProofs ----------------------------
(***************************************************************************)
(* Theorems about the two queues between the panel and the host helper,    *)
(* UpdateQueue and DomainQueue, in which the two processes interleave at   *)
(* every file operation and may die between any two of them; and about the *)
(* installation the helper and the host commands change, Deployment.       *)
(***************************************************************************)
EXTENDS UpdateQueue, DomainQueue, Deployment, TLAPS

(* ------------------------- the update queue ---------------------------- *)

\* The fields of the files and records, by name: the steps below first say
\* what an action does to these, and the invariant is about nothing else.
FReq == files["request"]
FRun == files["running"]
FSched == files["schedule"]
FClaim == files["claimed"]
PPc == panel.pc
PAt == panel.at
PId == panel.id
BPc == broker.pc
BReq == broker.req
BRun == broker.run
BRes == broker.result
SId == status.id
SState == status.state

\* The records keep their shape.
Shapes ==
  /\ files \in [FileNames -> Ids \cup {None}]
  /\ panel = [pc |-> PPc, op |-> panel.op, id |-> PId, at |-> PAt]
  /\ broker = [pc |-> BPc, req |-> BReq, run |-> BRun, result |-> BRes]
  /\ status = [id |-> SId, state |-> SState]

UTypes ==
  /\ {FReq, FRun, FSched, FClaim, PId, BReq, BRun, SId} \subseteq Ids \cup {None}
  /\ PAt \in 1..4 /\ used \in 0..MaxIds
  /\ runs \in [Ids -> Nat] /\ DOMAIN returned = Ids

Claimed == {"cstatus", "grace", "record", "recordw", "running", "outcome", "outcomew", "finish",
            "fstatus", "farchive", "fremove"}
Promoting == {"pstatus", "plink", "mstatus", "marchive", "punlink"}
PastScan == PPc \in {"status", "link"}
PastSchedule == PastScan \/ (PPc = "scan" /\ PAt = 4)

\* Identifiers are drawn once, and one that is about to be published is not
\* in use anywhere.
Fresh ==
  /\ FReq # None => FReq <= used
  /\ FRun # None => FRun <= used
  /\ FSched # None => FSched <= used
  /\ FClaim # None => FClaim <= used
  /\ BReq # None => BReq <= used
  /\ PId # None => PId <= used
  /\ PPc \in {"cread", "crename", "cstatus", "carchive"} => PId # None
  /\ PPc \in {"cread", "crename"} => PAt \in {1, 2}
  /\ \A i \in Ids : i > used => runs[i] = 0 /\ returned[i] # "canceled"
  /\ PPc = "link" =>
       /\ PId = used /\ used > 0 /\ runs[used] = 0 /\ returned[used] # "canceled"
       /\ FReq # used /\ FRun # used /\ FSched # used /\ FClaim # used /\ BReq # used

\* What the status file says of a running operation is true.
StatusShows ==
  /\ SState = "running" => SId = FRun /\ SId # None
  /\ BRes # "running"
  /\ BPc \in {"rarchive", "rremove", "cstatus", "farchive", "fremove"} => SState # "running"

\* What the helper's place in its run says of the files.
Holds ==
  /\ BPc \in Claimed => BReq # None /\ FRun = BReq
  /\ BPc \in {"recordw", "running", "outcome", "outcomew"} => BRun = BReq
  /\ FRun # None => FClaim = None
  /\ BPc \in {"pread", "pclaim", "claim"} => FClaim = None /\ FRun = None
  /\ BPc \in Promoting \cup {"precover", "pdrop", "prestore"} => FRun = None
  /\ BPc \in {"pstatus", "plink"} => FClaim # None
  /\ BPc \in Promoting \cup {"pclaim"} => BReq # None

\* An operation is in one file, but for a promotion's two.
Apart ==
  /\ FSched # None => FSched \notin {FReq, FClaim, FRun}
  /\ FRun # None => FRun # FReq
  /\ BPc \in {"pstatus", "plink", "prestore"} /\ FClaim # None => FClaim # FReq

\* Work that can still be claimed has not been started.
Unstarted ==
  /\ FReq # None => runs[FReq] = 0
  /\ FSched # None => runs[FSched] = 0
  /\ FClaim # None => runs[FClaim] = 0
  /\ BPc \in {"cstatus", "grace", "record", "recordw"} => runs[BReq] = 0
  /\ BPc \in {"pclaim", "pstatus", "plink"} => runs[BReq] = 0 /\ BReq # FReq
  /\ BPc \in {"pstatus", "plink"} => BReq # FSched

\* As long as no helper died the panel's scan and the promotion keep out of
\* each other's way, and what Cancel has found stays there or is gone.
Orderly == ~helperDied =>
  /\ FClaim # None => BPc \in Promoting
  /\ PastSchedule => FSched = None
  /\ PastScan => FClaim = None
  /\ BPc \in {"pstatus", "plink"} => FReq = None
  /\ BPc = "pclaim" /\ FReq # None => FSched = None /\ ~PastScan /\ (PPc = "scan" => PAt = 1)
  /\ BPc = "pclaim" => FSched \in {BReq, None} \/ BReq < used
  /\ BPc \in {"pstatus", "plink"} => FClaim = BReq \/ BReq < used
  /\ PPc = "crename" /\ PAt = 1 => FSched \in {PId, None}
  /\ PPc \in {"cread", "crename"} /\ PAt = 2 => FSched = None
  /\ PPc = "crename" /\ PAt = 2 =>
       /\ BPc \notin {"pstatus", "plink"}
       /\ \/ FReq = PId
          \/ FReq = None /\ FRun \in {PId, None}
          \/ runs[PId] = 0 /\ PId \notin {FReq, FSched, FRun}

\* The newest operation, once canceled, cannot be claimed any more.
Gone(i) ==
  /\ runs[i] = 0 /\ i \notin {FReq, FSched, FRun}
  /\ FClaim = i => BPc \in {"mstatus", "marchive", "punlink"}

CanceledGone == ~helperDied =>
  \A i \in Ids :
    /\ i = used
    /\ returned[i] = "canceled" \/ (PPc \in {"cstatus", "carchive"} /\ PId = i)
    => Gone(i)

FlatInv ==
  /\ UTypes /\ Fresh /\ StatusShows /\ Holds /\ Apart /\ Unstarted /\ AtMostOnce
  /\ Orderly /\ CanceledGone

UInv == Shapes /\ FlatInv

FilesSame == FReq' = FReq /\ FRun' = FRun /\ FSched' = FSched /\ FClaim' = FClaim
PanelSame == PPc' = PPc /\ PAt' = PAt /\ PId' = PId
BrokerSame == BPc' = BPc /\ BReq' = BReq /\ BRun' = BRun /\ BRes' = BRes
StatusSame == SId' = SId /\ SState' = SState
RestSame == used' = used /\ runs' = runs /\ returned' = returned /\ helperDied' = helperDied

\* The invariant holds before the first call.
LEMMA UInitial == Init => UInv
  BY QueueAssumption
  DEF Init, UInv, Shapes, FlatInv, UTypes, Fresh, StatusShows, Holds, Apart, Unstarted,
      AtMostOnce, Orderly, CanceledGone, Gone, Claimed, Promoting, PastSchedule, PastScan, Idle,
      Resting, FileNames, Ids, FReq, FRun, FSched, FClaim, PPc, PAt, PId, BPc, BReq, BRun, BRes,
      SId, SState

\* Every step keeps it.  Per action: the records keep their shape; what the
\* action does to the fields, one alternative per way it can go; and from
\* that alone the invariant.
LEMMA UStep == UInv /\ [Next]_vars => UInv'
<1> SUFFICES ASSUME UInv, [Next]_vars PROVE UInv'
  OBVIOUS
<1>s. Shapes
  BY DEF UInv
<1>i. FlatInv
  BY DEF UInv
<1>t. /\ PAt \in 1..4 /\ {PId, BReq} \subseteq Ids \cup {None}
      /\ PPc \in {"cread", "crename"} => PAt \in {1, 2} /\ PId # None
  BY <1>i DEF FlatInv, UTypes, Fresh
<1> USE QueueAssumption
    DEF Ids, FilesSame, PanelSame, BrokerSame, StatusSame, RestSame, Claimed, Promoting,
        PastSchedule, PastScan, Gone, Shapes, FileNames, Occupied, Show, Idle, Resting, ScanOrder,
        CancelOrder, Target, Kept, At, Leave, ArchiveAs, FReq, FRun, FSched, FClaim, PPc, PAt, PId,
        BPc, BReq, BRun, BRes, SId, SState
<1>1. ASSUME NEW op, Begin(op) PROVE UInv'
  <2>1. Shapes'
    BY <1>1, <1>s, <1>t DEF Begin
  <2>2. /\ PPc = "idle" /\ FilesSame /\ PPc' = "scan" /\ PAt' = 1 /\ PId' = None /\ BrokerSame
        /\ StatusSame /\ RestSame
    BY <1>1, <1>s, <1>t DEF Begin
  <2> HIDE DEF FReq, FRun, FSched, FClaim, PPc, PAt, PId, BPc, BReq, BRun, BRes, SId,
              SState
  <2>3. FlatInv'
    BY <2>2, <1>i DEF FlatInv, UTypes, Fresh, StatusShows, Holds, Apart, Unstarted,
        AtMostOnce, Orderly, CanceledGone
  <2> QED
    BY <2>1, <2>3 DEF UInv
<1>2. CASE ClearExpiredActive
  <2> DEFINE
       E1 == /\ PPc = "scan" /\ FilesSame /\ PPc' = "idle" /\ PAt' = 1 /\ PId' = None /\ BrokerSame
             /\ StatusSame /\ RestSame
       E2 == /\ PPc = "scan" /\ PAt < 4 /\ (PAt = 1 => FReq = None) /\ (PAt = 3 => FSched = None)
             /\ FilesSame /\ PPc' = PPc /\ PAt' = PAt + 1 /\ PId' = PId /\ BrokerSame /\ StatusSame
             /\ RestSame
       E3 == /\ PPc = "scan" /\ PAt = 4 /\ FClaim = None /\ FilesSame /\ PPc' = "status"
             /\ PAt' = PAt /\ PId' = PId /\ BrokerSame /\ StatusSame /\ RestSame
  <2>1. Shapes'
    BY <1>2, <1>s, <1>t DEF ClearExpiredActive
  <2>2. E1 \/ E2 \/ E3
    BY <1>2, <1>s, <1>t DEF ClearExpiredActive
  <2> HIDE DEF FReq, FRun, FSched, FClaim, PPc, PAt, PId, BPc, BReq, BRun, BRes, SId,
              SState
  <2>3. ASSUME E1 PROVE FlatInv'
    BY <2>3, <1>i DEF FlatInv, UTypes, Fresh, StatusShows, Holds, Apart, Unstarted,
        AtMostOnce, Orderly, CanceledGone
  <2>4. ASSUME E2 PROVE FlatInv'
    BY <2>4, <1>i DEF FlatInv, UTypes, Fresh, StatusShows, Holds, Apart, Unstarted,
        AtMostOnce, Orderly, CanceledGone
  <2>5. ASSUME E3 PROVE FlatInv'
    BY <2>5, <1>i DEF FlatInv, UTypes, Fresh, StatusShows, Holds, Apart, Unstarted,
        AtMostOnce, Orderly, CanceledGone
  <2> HIDE DEF E1, E2, E3
  <2> QED
    BY <2>1, <2>2, <2>3, <2>4, <2>5 DEF UInv
<1>3. CASE PublishStatus
  <2>1. Shapes'
    BY <1>3, <1>s, <1>t DEF PublishStatus
  <2>2. /\ PPc = "status" /\ used < MaxIds /\ SState' # "running" /\ FilesSame /\ PPc' = "link"
        /\ PAt' = PAt /\ PId' = used + 1 /\ BrokerSame /\ SId' = used + 1 /\ used' = used + 1
        /\ runs' = runs /\ returned' = returned /\ helperDied' = helperDied
    BY <1>3, <1>s, <1>t DEF PublishStatus
  <2> HIDE DEF FReq, FRun, FSched, FClaim, PPc, PAt, PId, BPc, BReq, BRun, BRes, SId,
              SState
  <2>3. FlatInv'
    BY <2>2, <1>i DEF FlatInv, UTypes, Fresh, StatusShows, Holds, Apart, Unstarted,
        AtMostOnce, Orderly, CanceledGone
  <2> QED
    BY <2>1, <2>3 DEF UInv
<1>4. CASE PublishRequest
  <2> DEFINE
       E1 == /\ PPc = "link" /\ FilesSame /\ PPc' = "idle" /\ PAt' = 1 /\ PId' = None /\ BrokerSame
             /\ StatusSame /\ RestSame
       E2 == /\ PPc = "link" /\ FReq = None /\ FReq' = PId /\ FRun' = FRun /\ FSched' = FSched
             /\ FClaim' = FClaim /\ PPc' = "idle" /\ PAt' = 1 /\ PId' = None /\ BrokerSame
             /\ StatusSame /\ used' = used /\ runs' = runs
             /\ returned' = [returned EXCEPT ![PId] = "accepted"] /\ helperDied' = helperDied
       E3 == /\ PPc = "link" /\ FSched = None /\ FReq' = FReq /\ FRun' = FRun /\ FSched' = PId
             /\ FClaim' = FClaim /\ PPc' = "idle" /\ PAt' = 1 /\ PId' = None /\ BrokerSame
             /\ StatusSame /\ used' = used /\ runs' = runs
             /\ returned' = [returned EXCEPT ![PId] = "accepted"] /\ helperDied' = helperDied
  <2>1. Shapes'
    <3>1. CASE panel.op = "enqueue"
      BY <3>1, <1>4, <1>s, <1>t DEF PublishRequest
    <3>2. CASE panel.op # "enqueue"
      BY <3>2, <1>4, <1>s, <1>t DEF PublishRequest
    <3> QED
      BY <3>1, <3>2, <1>4, <1>s DEF PublishRequest
  <2>2. E1 \/ E2 \/ E3
    BY <1>4, <1>s, <1>t DEF PublishRequest
  <2> HIDE DEF FReq, FRun, FSched, FClaim, PPc, PAt, PId, BPc, BReq, BRun, BRes, SId,
              SState
  <2>3. ASSUME E1 PROVE FlatInv'
    BY <2>3, <1>i DEF FlatInv, UTypes, Fresh, StatusShows, Holds, Apart, Unstarted,
        AtMostOnce, Orderly, CanceledGone
  <2>4. ASSUME E2 PROVE FlatInv'
    BY <2>4, <1>i DEF FlatInv, UTypes, Fresh, StatusShows, Holds, Apart, Unstarted,
        AtMostOnce, Orderly, CanceledGone
  <2>5. ASSUME E3 PROVE FlatInv'
    BY <2>5, <1>i DEF FlatInv, UTypes, Fresh, StatusShows, Holds, Apart, Unstarted,
        AtMostOnce, Orderly, CanceledGone
  <2> HIDE DEF E1, E2, E3
  <2> QED
    BY <2>1, <2>2, <2>3, <2>4, <2>5 DEF UInv
<1>5. ASSUME NEW i \in Ids, CancelBegin(i) PROVE UInv'
  <2>1. Shapes'
    BY <1>5, <1>s, <1>t DEF CancelBegin
  <2>2. /\ PPc = "idle" /\ i <= used /\ FilesSame /\ PPc' = "cread" /\ PAt' = 1 /\ PId' = i
        /\ BrokerSame /\ StatusSame /\ RestSame
    BY <1>5, <1>s, <1>t DEF CancelBegin
  <2> HIDE DEF FReq, FRun, FSched, FClaim, PPc, PAt, PId, BPc, BReq, BRun, BRes, SId,
              SState
  <2>3. FlatInv'
    BY <2>2, <1>i DEF FlatInv, UTypes, Fresh, StatusShows, Holds, Apart, Unstarted,
        AtMostOnce, Orderly, CanceledGone
  <2> QED
    BY <2>1, <2>3 DEF UInv
<1>6. CASE CancelRead
  <2> DEFINE
       E1 == /\ PPc = "cread" /\ FilesSame /\ PPc' = "idle" /\ PAt' = 1 /\ PId' = None /\ BrokerSame
             /\ StatusSame /\ RestSame
       E2 == /\ PPc = "cread" /\ PAt = 1 /\ FSched = PId /\ FilesSame /\ PPc' = "crename"
             /\ PAt' = PAt /\ PId' = PId /\ BrokerSame /\ StatusSame /\ RestSame
       E3 == /\ PPc = "cread" /\ PAt = 1 /\ FSched = None /\ FilesSame /\ PPc' = PPc /\ PAt' = 2
             /\ PId' = PId /\ BrokerSame /\ StatusSame /\ RestSame
       E4 == /\ PPc = "cread" /\ PAt = 2 /\ FReq = PId /\ FilesSame /\ PPc' = "crename"
             /\ PAt' = PAt /\ PId' = PId /\ BrokerSame /\ StatusSame /\ RestSame
  <2>1. Shapes'
    BY <1>6, <1>s, <1>t DEF CancelRead
  <2>2. E1 \/ E2 \/ E3 \/ E4
    BY <1>6, <1>s, <1>t DEF CancelRead
  <2> HIDE DEF FReq, FRun, FSched, FClaim, PPc, PAt, PId, BPc, BReq, BRun, BRes, SId,
              SState
  <2>3. ASSUME E1 PROVE FlatInv'
    BY <2>3, <1>i DEF FlatInv, UTypes, Fresh, StatusShows, Holds, Apart, Unstarted,
        AtMostOnce, Orderly, CanceledGone
  <2>4. ASSUME E2 PROVE FlatInv'
    BY <2>4, <1>i DEF FlatInv, UTypes, Fresh, StatusShows, Holds, Apart, Unstarted,
        AtMostOnce, Orderly, CanceledGone
  <2>5. ASSUME E3 PROVE FlatInv'
    BY <2>5, <1>i DEF FlatInv, UTypes, Fresh, StatusShows, Holds, Apart, Unstarted,
        AtMostOnce, Orderly, CanceledGone
  <2>6. ASSUME E4 PROVE FlatInv'
    BY <2>6, <1>i DEF FlatInv, UTypes, Fresh, StatusShows, Holds, Apart, Unstarted,
        AtMostOnce, Orderly, CanceledGone
  <2> HIDE DEF E1, E2, E3, E4
  <2> QED
    BY <2>1, <2>2, <2>3, <2>4, <2>5, <2>6 DEF UInv
<1>7. CASE CancelRename
  <2> DEFINE
       E1 == /\ PPc = "crename" /\ PAt = 1 /\ FSched # None /\ FReq' = FReq /\ FRun' = FRun
             /\ FSched' = None /\ FClaim' = FClaim /\ PPc' = "cstatus" /\ PAt' = PAt /\ PId' = PId
             /\ BrokerSame /\ StatusSame /\ RestSame
       E2 == /\ PPc = "crename" /\ PAt = 2 /\ FReq # None /\ FReq' = None /\ FRun' = FRun
             /\ FSched' = FSched /\ FClaim' = FClaim /\ PPc' = "cstatus" /\ PAt' = PAt /\ PId' = PId
             /\ BrokerSame /\ StatusSame /\ RestSame
       E3 == /\ PPc = "crename" /\ FilesSame /\ PPc' = "idle" /\ PAt' = 1 /\ PId' = None
             /\ BrokerSame /\ StatusSame /\ RestSame
  <2>1. Shapes'
    BY <1>7, <1>s, <1>t DEF CancelRename
  <2>2. E1 \/ E2 \/ E3
    BY <1>7, <1>s, <1>t DEF CancelRename
  <2> HIDE DEF FReq, FRun, FSched, FClaim, PPc, PAt, PId, BPc, BReq, BRun, BRes, SId,
              SState
  <2>3. ASSUME E1 PROVE FlatInv'
    BY <2>3, <1>i DEF FlatInv, UTypes, Fresh, StatusShows, Holds, Apart, Unstarted,
        AtMostOnce, Orderly, CanceledGone
  <2>4. ASSUME E2 PROVE FlatInv'
    BY <2>4, <1>i DEF FlatInv, UTypes, Fresh, StatusShows, Holds, Apart, Unstarted,
        AtMostOnce, Orderly, CanceledGone
  <2>5. ASSUME E3 PROVE FlatInv'
    BY <2>5, <1>i DEF FlatInv, UTypes, Fresh, StatusShows, Holds, Apart, Unstarted,
        AtMostOnce, Orderly, CanceledGone
  <2> HIDE DEF E1, E2, E3
  <2> QED
    BY <2>1, <2>2, <2>3, <2>4, <2>5 DEF UInv
<1>8. CASE CancelStatus
  <2>1. Shapes'
    BY <1>8, <1>s, <1>t DEF CancelStatus
  <2>2. /\ PPc = "cstatus" /\ FilesSame /\ PPc' = "carchive" /\ PAt' = PAt /\ PId' = PId
        /\ BrokerSame /\ SId' = PId /\ SState' = "canceled" /\ RestSame
    BY <1>8, <1>s, <1>t DEF CancelStatus
  <2> HIDE DEF FReq, FRun, FSched, FClaim, PPc, PAt, PId, BPc, BReq, BRun, BRes, SId,
              SState
  <2>3. FlatInv'
    BY <2>2, <1>i DEF FlatInv, UTypes, Fresh, StatusShows, Holds, Apart, Unstarted,
        AtMostOnce, Orderly, CanceledGone
  <2> QED
    BY <2>1, <2>3 DEF UInv
<1>9. CASE CancelArchive
  <2>1. Shapes'
    BY <1>9, <1>s, <1>t DEF CancelArchive
  <2>2. /\ PPc = "carchive" /\ FilesSame /\ PPc' = "idle" /\ PAt' = 1 /\ PId' = None
        /\ BrokerSame /\ StatusSame /\ used' = used /\ runs' = runs
        /\ returned' = [returned EXCEPT ![PId] = "canceled"] /\ helperDied' = helperDied
    BY <1>9, <1>s, <1>t DEF CancelArchive
  <2> HIDE DEF FReq, FRun, FSched, FClaim, PPc, PAt, PId, BPc, BReq, BRun, BRes, SId,
              SState
  <2>3. FlatInv'
    BY <2>2, <1>i DEF FlatInv, UTypes, Fresh, StatusShows, Holds, Apart, Unstarted,
        AtMostOnce, Orderly, CanceledGone
  <2> QED
    BY <2>1, <2>3 DEF UInv
<1>10. CASE LockMaintenanceRunner
  <2>1. Shapes'
    BY <1>10, <1>s, <1>t DEF LockMaintenanceRunner
  <2>2. /\ BPc = "idle" /\ FilesSame /\ PanelSame /\ BPc' = "reconcile" /\ BReq' = None
        /\ BRun' = None /\ BRes' = "none" /\ StatusSame /\ RestSame
    BY <1>10, <1>s, <1>t DEF LockMaintenanceRunner
  <2> HIDE DEF FReq, FRun, FSched, FClaim, PPc, PAt, PId, BPc, BReq, BRun, BRes, SId,
              SState
  <2>3. FlatInv'
    BY <2>2, <1>i DEF FlatInv, UTypes, Fresh, StatusShows, Holds, Apart, Unstarted,
        AtMostOnce, Orderly, CanceledGone
  <2> QED
    BY <2>1, <2>3 DEF UInv
<1>11. CASE ReconcileInterrupted
  <2> DEFINE
       E1 == /\ BPc = "reconcile" /\ FRun = None /\ FilesSame /\ PanelSame /\ BPc' = "precover"
             /\ BReq' = BReq /\ BRun' = BRun /\ BRes' = BRes /\ StatusSame /\ RestSame
       E2 == /\ BPc = "reconcile" /\ FilesSame /\ PanelSame /\ BPc' = "idle" /\ BReq' = None
             /\ BRun' = None /\ BRes' = "none" /\ StatusSame /\ RestSame
       E3 == /\ BPc = "reconcile" /\ FRun # None /\ SId = FRun /\ BRes' # "running" /\ FilesSame
             /\ PanelSame /\ BPc' = "rstatus" /\ BReq' = SId /\ BRun' = BRun /\ StatusSame
             /\ RestSame
       E4 == /\ BPc = "rstatus" /\ FilesSame /\ PanelSame /\ BPc' = "rarchive" /\ BReq' = BReq
             /\ BRun' = BRun /\ BRes' = BRes /\ SId' = BReq /\ SState' = BRes /\ RestSame
       E5 == /\ BPc = "rremove" /\ FReq' = FReq /\ FRun' = None /\ FSched' = FSched
             /\ FClaim' = FClaim /\ PanelSame /\ BPc' = "precover" /\ BReq' = BReq /\ BRun' = BRun
             /\ BRes' = BRes /\ StatusSame /\ RestSame
  <2>1. Shapes'
    BY <1>11, <1>s, <1>t, ZenonT(60) DEF ReconcileInterrupted
  <2>2. E1 \/ E2 \/ E3 \/ E4 \/ E5
    <3>1. CASE BPc = "reconcile" /\ FRun = None
      BY <3>1, <1>11, <1>s, <1>t DEF ReconcileInterrupted
    <3>2. CASE BPc = "reconcile" /\ FRun # None /\ SId # FRun
      BY <3>2, <1>11, <1>s, <1>t DEF ReconcileInterrupted
    <3>3. CASE BPc = "reconcile" /\ FRun # None /\ SId = FRun
      BY <3>3, <1>11, <1>s, <1>t DEF ReconcileInterrupted
    <3>4. CASE BPc = "rstatus"
      BY <3>4, <1>11, <1>s, <1>t DEF ReconcileInterrupted
    <3>5. CASE BPc = "rremove"
      BY <3>5, <1>11, <1>s, <1>t DEF ReconcileInterrupted
    <3> QED
      BY <3>1, <3>2, <3>3, <3>4, <3>5, <1>11, <1>s DEF ReconcileInterrupted
  <2> HIDE DEF FReq, FRun, FSched, FClaim, PPc, PAt, PId, BPc, BReq, BRun, BRes, SId,
              SState
  <2>3. ASSUME E1 PROVE FlatInv'
    BY <2>3, <1>i DEF FlatInv, UTypes, Fresh, StatusShows, Holds, Apart, Unstarted,
        AtMostOnce, Orderly, CanceledGone
  <2>4. ASSUME E2 PROVE FlatInv'
    BY <2>4, <1>i DEF FlatInv, UTypes, Fresh, StatusShows, Holds, Apart, Unstarted,
        AtMostOnce, Orderly, CanceledGone
  <2>5. ASSUME E3 PROVE FlatInv'
    BY <2>5, <1>i DEF FlatInv, UTypes, Fresh, StatusShows, Holds, Apart, Unstarted,
        AtMostOnce, Orderly, CanceledGone
  <2>6. ASSUME E4 PROVE FlatInv'
    BY <2>6, <1>i DEF FlatInv, UTypes, Fresh, StatusShows, Holds, Apart, Unstarted,
        AtMostOnce, Orderly, CanceledGone
  <2>7. ASSUME E5 PROVE FlatInv'
    BY <2>7, <1>i DEF FlatInv, UTypes, Fresh, StatusShows, Holds, Apart, Unstarted,
        AtMostOnce, Orderly, CanceledGone
  <2> HIDE DEF E1, E2, E3, E4, E5
  <2> QED
    BY <2>1, <2>2, <2>3, <2>4, <2>5, <2>6, <2>7 DEF UInv
<1>12. CASE Archive
  <2> DEFINE
       E1 == /\ BPc = "rarchive" /\ FilesSame /\ PanelSame /\ BPc' = "rremove" /\ BReq' = BReq
             /\ BRun' = BRun /\ BRes' = BRes /\ StatusSame /\ RestSame
       E2 == /\ BPc = "marchive" /\ FilesSame /\ PanelSame /\ BPc' = "punlink" /\ BReq' = BReq
             /\ BRun' = BRun /\ BRes' = BRes /\ StatusSame /\ RestSame
       E3 == /\ BPc = "farchive" /\ FilesSame /\ PanelSame /\ BPc' = "fremove" /\ BReq' = BReq
             /\ BRun' = BRun /\ BRes' = BRes /\ StatusSame /\ RestSame
  <2>1. Shapes'
    BY <1>12, <1>s, <1>t DEF Archive
  <2>2. E1 \/ E2 \/ E3
    BY <1>12, <1>s, <1>t DEF Archive
  <2> HIDE DEF FReq, FRun, FSched, FClaim, PPc, PAt, PId, BPc, BReq, BRun, BRes, SId,
              SState
  <2>3. ASSUME E1 PROVE FlatInv'
    BY <2>3, <1>i DEF FlatInv, UTypes, Fresh, StatusShows, Holds, Apart, Unstarted,
        AtMostOnce, Orderly, CanceledGone
  <2>4. ASSUME E2 PROVE FlatInv'
    BY <2>4, <1>i DEF FlatInv, UTypes, Fresh, StatusShows, Holds, Apart, Unstarted,
        AtMostOnce, Orderly, CanceledGone
  <2>5. ASSUME E3 PROVE FlatInv'
    BY <2>5, <1>i DEF FlatInv, UTypes, Fresh, StatusShows, Holds, Apart, Unstarted,
        AtMostOnce, Orderly, CanceledGone
  <2> HIDE DEF E1, E2, E3
  <2> QED
    BY <2>1, <2>2, <2>3, <2>4, <2>5 DEF UInv
<1>13. CASE RecoverPromotion
  <2> DEFINE
       E1 == /\ BPc = "precover" /\ FClaim = None /\ FilesSame /\ PanelSame /\ BPc' = "pread"
             /\ BReq' = BReq /\ BRun' = BRun /\ BRes' = BRes /\ StatusSame /\ RestSame
       E2 == /\ BPc = "precover" /\ FClaim # None /\ FilesSame /\ PanelSame /\ BPc' = "pdrop"
             /\ BReq' = BReq /\ BRun' = BRun /\ BRes' = BRes /\ StatusSame /\ RestSame
       E3 == /\ BPc = "precover" /\ FReq = None /\ FilesSame /\ PanelSame /\ BPc' = "prestore"
             /\ BReq' = BReq /\ BRun' = BRun /\ BRes' = BRes /\ StatusSame /\ RestSame
       E4 == /\ BPc = "pdrop" /\ FReq' = FReq /\ FRun' = FRun /\ FSched' = FSched /\ FClaim' = None
             /\ PanelSame /\ BPc' = "pread" /\ BReq' = BReq /\ BRun' = BRun /\ BRes' = BRes
             /\ StatusSame /\ RestSame
       E5 == /\ BPc = "prestore" /\ FReq' = FReq /\ FRun' = FRun /\ FSched' = FClaim
             /\ FClaim' = None /\ PanelSame /\ BPc' = "pread" /\ BReq' = BReq /\ BRun' = BRun
             /\ BRes' = BRes /\ StatusSame /\ RestSame
  <2>1. Shapes'
    BY <1>13, <1>s, <1>t DEF RecoverPromotion
  <2>2. E1 \/ E2 \/ E3 \/ E4 \/ E5
    BY <1>13, <1>s, <1>t DEF RecoverPromotion
  <2> HIDE DEF FReq, FRun, FSched, FClaim, PPc, PAt, PId, BPc, BReq, BRun, BRes, SId,
              SState
  <2>3. ASSUME E1 PROVE FlatInv'
    BY <2>3, <1>i DEF FlatInv, UTypes, Fresh, StatusShows, Holds, Apart, Unstarted,
        AtMostOnce, Orderly, CanceledGone
  <2>4. ASSUME E2 PROVE FlatInv'
    BY <2>4, <1>i DEF FlatInv, UTypes, Fresh, StatusShows, Holds, Apart, Unstarted,
        AtMostOnce, Orderly, CanceledGone
  <2>5. ASSUME E3 PROVE FlatInv'
    BY <2>5, <1>i DEF FlatInv, UTypes, Fresh, StatusShows, Holds, Apart, Unstarted,
        AtMostOnce, Orderly, CanceledGone
  <2>6. ASSUME E4 PROVE FlatInv'
    BY <2>6, <1>i DEF FlatInv, UTypes, Fresh, StatusShows, Holds, Apart, Unstarted,
        AtMostOnce, Orderly, CanceledGone
  <2>7. ASSUME E5 PROVE FlatInv'
    BY <2>7, <1>i DEF FlatInv, UTypes, Fresh, StatusShows, Holds, Apart, Unstarted,
        AtMostOnce, Orderly, CanceledGone
  <2> HIDE DEF E1, E2, E3, E4, E5
  <2> QED
    BY <2>1, <2>2, <2>3, <2>4, <2>5, <2>6, <2>7 DEF UInv
<1>14. CASE ReadSchedule
  <2> DEFINE
       E1 == /\ BPc = "pread" /\ FSched # None /\ FReq = None /\ FilesSame /\ PanelSame
             /\ BPc' = "pclaim" /\ BReq' = FSched /\ BRun' = BRun /\ BRes' = BRes /\ StatusSame
             /\ RestSame
       E2 == /\ BPc = "pread" /\ FilesSame /\ PanelSame /\ BPc' = "claim" /\ BReq' = BReq
             /\ BRun' = BRun /\ BRes' = BRes /\ StatusSame /\ RestSame
  <2>1. Shapes'
    BY <1>14, <1>s, <1>t DEF ReadSchedule
  <2>2. E1 \/ E2
    BY <1>14, <1>s, <1>t DEF ReadSchedule
  <2> HIDE DEF FReq, FRun, FSched, FClaim, PPc, PAt, PId, BPc, BReq, BRun, BRes, SId,
              SState
  <2>3. ASSUME E1 PROVE FlatInv'
    BY <2>3, <1>i DEF FlatInv, UTypes, Fresh, StatusShows, Holds, Apart, Unstarted,
        AtMostOnce, Orderly, CanceledGone
  <2>4. ASSUME E2 PROVE FlatInv'
    BY <2>4, <1>i DEF FlatInv, UTypes, Fresh, StatusShows, Holds, Apart, Unstarted,
        AtMostOnce, Orderly, CanceledGone
  <2> HIDE DEF E1, E2
  <2> QED
    BY <2>1, <2>2, <2>3, <2>4 DEF UInv
<1>15. CASE ClaimSchedule
  <2> DEFINE
       E1 == /\ BPc = "pclaim" /\ FSched # None /\ BPc' \in {"pstatus", "mstatus"} /\ FReq' = FReq
             /\ FRun' = FRun /\ FSched' = None /\ FClaim' = FSched /\ PanelSame /\ BReq' = BReq
             /\ BRun' = BRun /\ BRes' = BRes /\ StatusSame /\ RestSame
       E2 == /\ BPc = "pclaim" /\ FilesSame /\ PanelSame /\ BPc' = "idle" /\ BReq' = None
             /\ BRun' = None /\ BRes' = "none" /\ StatusSame /\ RestSame
  <2>1. Shapes'
    BY <1>15, <1>s, <1>t DEF ClaimSchedule
  <2>2. E1 \/ E2
    BY <1>15, <1>s, <1>t DEF ClaimSchedule
  <2> HIDE DEF FReq, FRun, FSched, FClaim, PPc, PAt, PId, BPc, BReq, BRun, BRes, SId,
              SState
  <2>3. ASSUME E1 PROVE FlatInv'
    BY <2>3, <1>i DEF FlatInv, UTypes, Fresh, StatusShows, Holds, Apart, Unstarted,
        AtMostOnce, Orderly, CanceledGone
  <2>4. ASSUME E2 PROVE FlatInv'
    BY <2>4, <1>i DEF FlatInv, UTypes, Fresh, StatusShows, Holds, Apart, Unstarted,
        AtMostOnce, Orderly, CanceledGone
  <2> HIDE DEF E1, E2
  <2> QED
    BY <2>1, <2>2, <2>3, <2>4 DEF UInv
<1>16. CASE PromoteDue
  <2> DEFINE
       E1 == /\ BPc = "mstatus" /\ FilesSame /\ PanelSame /\ BPc' = "marchive" /\ BReq' = BReq
             /\ BRun' = BRun /\ BRes' = BRes /\ SId' = BReq /\ SState' = "canceled" /\ RestSame
       E2 == /\ BPc = "pstatus" /\ FilesSame /\ PanelSame /\ BPc' = "plink" /\ BReq' = BReq
             /\ BRun' = BRun /\ BRes' = BRes /\ SId' = BReq /\ SState' = "queued" /\ RestSame
       E3 == /\ BPc = "plink" /\ FReq = None /\ FReq' = BReq /\ FRun' = FRun /\ FSched' = FSched
             /\ FClaim' = FClaim /\ PanelSame /\ BPc' = "punlink" /\ BReq' = BReq /\ BRun' = BRun
             /\ BRes' = BRes /\ StatusSame /\ RestSame
       E4 == /\ BPc = "plink" /\ FReq # None /\ FReq' = FReq /\ FRun' = FRun /\ FSched' = FClaim
             /\ FClaim' = None /\ PanelSame /\ BPc' = "claim" /\ BReq' = BReq /\ BRun' = BRun
             /\ BRes' = BRes /\ StatusSame /\ RestSame
       E5 == /\ BPc = "punlink" /\ FReq' = FReq /\ FRun' = FRun /\ FSched' = FSched
             /\ FClaim' = None /\ PanelSame /\ BPc' = "claim" /\ BReq' = BReq /\ BRun' = BRun
             /\ BRes' = BRes /\ StatusSame /\ RestSame
  <2>1. Shapes'
    <3>1. CASE BPc = "mstatus"
      BY <3>1, <1>16, <1>s, <1>t DEF PromoteDue
    <3>2. CASE BPc = "pstatus"
      BY <3>2, <1>16, <1>s, <1>t DEF PromoteDue
    <3>3. CASE BPc = "plink"
      BY <3>3, <1>16, <1>s, <1>t DEF PromoteDue
    <3>4. CASE BPc = "punlink"
      BY <3>4, <1>16, <1>s, <1>t DEF PromoteDue
    <3> QED
      BY <3>1, <3>2, <3>3, <3>4, <1>16, <1>s DEF PromoteDue
  <2>2. E1 \/ E2 \/ E3 \/ E4 \/ E5
    BY <1>16, <1>s, <1>t DEF PromoteDue
  <2> HIDE DEF FReq, FRun, FSched, FClaim, PPc, PAt, PId, BPc, BReq, BRun, BRes, SId,
              SState
  <2>3. ASSUME E1 PROVE FlatInv'
    BY <2>3, <1>i DEF FlatInv, UTypes, Fresh, StatusShows, Holds, Apart, Unstarted,
        AtMostOnce, Orderly, CanceledGone
  <2>4. ASSUME E2 PROVE FlatInv'
    BY <2>4, <1>i DEF FlatInv, UTypes, Fresh, StatusShows, Holds, Apart, Unstarted,
        AtMostOnce, Orderly, CanceledGone
  <2>5. ASSUME E3 PROVE FlatInv'
    BY <2>5, <1>i DEF FlatInv, UTypes, Fresh, StatusShows, Holds, Apart, Unstarted,
        AtMostOnce, Orderly, CanceledGone
  <2>6. ASSUME E4 PROVE FlatInv'
    BY <2>6, <1>i DEF FlatInv, UTypes, Fresh, StatusShows, Holds, Apart, Unstarted,
        AtMostOnce, Orderly, CanceledGone
  <2>7. ASSUME E5 PROVE FlatInv'
    BY <2>7, <1>i DEF FlatInv, UTypes, Fresh, StatusShows, Holds, Apart, Unstarted,
        AtMostOnce, Orderly, CanceledGone
  <2> HIDE DEF E1, E2, E3, E4, E5
  <2> QED
    BY <2>1, <2>2, <2>3, <2>4, <2>5, <2>6, <2>7 DEF UInv
<1>17. CASE Claim
  <2> DEFINE
       E1 == /\ BPc = "claim" /\ FReq # None /\ FReq' = None /\ FRun' = FReq /\ FSched' = FSched
             /\ FClaim' = FClaim /\ PanelSame /\ BPc' = "cstatus" /\ BReq' = FReq /\ BRun' = BRun
             /\ BRes' = BRes /\ StatusSame /\ RestSame
       E2 == /\ BPc = "claim" /\ FilesSame /\ PanelSame /\ BPc' = "idle" /\ BReq' = None
             /\ BRun' = None /\ BRes' = "none" /\ StatusSame /\ RestSame
       E3 == /\ BPc = "cstatus" /\ FilesSame /\ PanelSame /\ BPc' = "grace" /\ BReq' = BReq
             /\ BRun' = BRun /\ BRes' = BRes /\ SId' = BReq /\ SState' = "running" /\ RestSame
  <2>1. Shapes'
    BY <1>17, <1>s, <1>t, ZenonT(60) DEF Claim
  <2>2. E1 \/ E2 \/ E3
    <3>1. CASE BPc = "claim" /\ FReq # None /\ FRun = None
      BY <3>1, <1>17, <1>s, <1>t DEF Claim
    <3>2. CASE BPc = "claim" /\ ~(FReq # None /\ FRun = None)
      BY <3>2, <1>17, <1>s, <1>t DEF Claim
    <3>3. CASE BPc = "cstatus"
      BY <3>3, <1>17, <1>s, <1>t DEF Claim
    <3> QED
      BY <3>1, <3>2, <3>3, <1>17, <1>s DEF Claim
  <2> HIDE DEF FReq, FRun, FSched, FClaim, PPc, PAt, PId, BPc, BReq, BRun, BRes, SId,
              SState
  <2>3. ASSUME E1 PROVE FlatInv'
    BY <2>3, <1>i DEF FlatInv, UTypes, Fresh, StatusShows, Holds, Apart, Unstarted,
        AtMostOnce, Orderly, CanceledGone
  <2>4. ASSUME E2 PROVE FlatInv'
    BY <2>4, <1>i DEF FlatInv, UTypes, Fresh, StatusShows, Holds, Apart, Unstarted,
        AtMostOnce, Orderly, CanceledGone
  <2>5. ASSUME E3 PROVE FlatInv'
    BY <2>5, <1>i DEF FlatInv, UTypes, Fresh, StatusShows, Holds, Apart, Unstarted,
        AtMostOnce, Orderly, CanceledGone
  <2> HIDE DEF E1, E2, E3
  <2> QED
    BY <2>1, <2>2, <2>3, <2>4, <2>5 DEF UInv
<1>18. CASE Execute
  <2> DEFINE
       E1 == /\ BPc = "grace" /\ FilesSame /\ PanelSame /\ BPc' = "record" /\ BReq' = BReq
             /\ BRun' = SId /\ BRes' = BRes /\ StatusSame /\ RestSame
       E2 == /\ BPc = "grace" /\ FilesSame /\ PanelSame /\ BPc' = "finish" /\ BReq' = BReq
             /\ BRun' = BRun /\ BRes' = "failed" /\ StatusSame /\ RestSame
  <2>1. Shapes'
    BY <1>18, <1>s, <1>t DEF Execute
  <2>2. E1 \/ E2
    BY <1>18, <1>s, <1>t DEF Execute
  <2> HIDE DEF FReq, FRun, FSched, FClaim, PPc, PAt, PId, BPc, BReq, BRun, BRes, SId,
              SState
  <2>3. ASSUME E1 PROVE FlatInv'
    BY <2>3, <1>i DEF FlatInv, UTypes, Fresh, StatusShows, Holds, Apart, Unstarted,
        AtMostOnce, Orderly, CanceledGone
  <2>4. ASSUME E2 PROVE FlatInv'
    BY <2>4, <1>i DEF FlatInv, UTypes, Fresh, StatusShows, Holds, Apart, Unstarted,
        AtMostOnce, Orderly, CanceledGone
  <2> HIDE DEF E1, E2
  <2> QED
    BY <2>1, <2>2, <2>3, <2>4 DEF UInv
<1>19. CASE Record
  <2> DEFINE
       E1 == /\ BPc = "record" /\ SId = BRun /\ SState = "running" /\ FilesSame /\ PanelSame
             /\ BPc' = "recordw" /\ BReq' = BReq /\ BRun' = BRun /\ BRes' = BRes /\ StatusSame
             /\ RestSame
       E2 == /\ BPc = "outcome" /\ FilesSame /\ PanelSame /\ BPc' = "outcomew" /\ BReq' = BReq
             /\ BRun' = BRun /\ BRes' = BRes /\ StatusSame /\ RestSame
       E3 == /\ BPc \in {"record", "outcome"} /\ FilesSame /\ PanelSame /\ BPc' = "finish"
             /\ BReq' = BReq /\ BRun' = BRun /\ BRes' = "failed" /\ StatusSame /\ RestSame
       E4 == /\ BPc = "recordw" /\ FilesSame /\ PanelSame /\ BPc' = "running" /\ BReq' = BReq
             /\ BRun' = BRun /\ BRes' = BRes /\ SId' = BRun /\ SState' = "running" /\ used' = used
             /\ runs' = [runs EXCEPT ![BRun] = @ + 1] /\ returned' = returned
             /\ helperDied' = helperDied
       E5 == /\ BPc = "outcomew" /\ FilesSame /\ PanelSame /\ BPc' = "finish" /\ BReq' = BReq
             /\ BRun' = BRun /\ BRes' = BRes /\ SId' = BRun /\ SState' = "running" /\ RestSame
  <2>1. Shapes'
    BY <1>19, <1>s, <1>t DEF Record
  <2>2. E1 \/ E2 \/ E3 \/ E4 \/ E5
    <3>1. CASE BPc = "record"
      BY <3>1, <1>19, <1>s, <1>t DEF Record
    <3>2. CASE BPc = "outcome"
      BY <3>2, <1>19, <1>s, <1>t DEF Record
    <3>3. CASE BPc = "recordw"
      BY <3>3, <1>19, <1>s, <1>t DEF Record
    <3>4. CASE BPc = "outcomew"
      BY <3>4, <1>19, <1>s, <1>t DEF Record
    <3> QED
      BY <3>1, <3>2, <3>3, <3>4, <1>19, <1>s DEF Record
  <2> HIDE DEF FReq, FRun, FSched, FClaim, PPc, PAt, PId, BPc, BReq, BRun, BRes, SId,
              SState
  <2>3. ASSUME E1 PROVE FlatInv'
    BY <2>3, <1>i DEF FlatInv, UTypes, Fresh, StatusShows, Holds, Apart, Unstarted,
        AtMostOnce, Orderly, CanceledGone
  <2>4. ASSUME E2 PROVE FlatInv'
    BY <2>4, <1>i DEF FlatInv, UTypes, Fresh, StatusShows, Holds, Apart, Unstarted,
        AtMostOnce, Orderly, CanceledGone
  <2>5. ASSUME E3 PROVE FlatInv'
    BY <2>5, <1>i, SMTT(40) DEF FlatInv, UTypes, Fresh, StatusShows, Holds, Apart, Unstarted,
        AtMostOnce, Orderly, CanceledGone
  <2>6. ASSUME E4 PROVE FlatInv'
    BY <2>6, <1>i DEF FlatInv, UTypes, Fresh, StatusShows, Holds, Apart, Unstarted,
        AtMostOnce, Orderly, CanceledGone
  <2>7. ASSUME E5 PROVE FlatInv'
    BY <2>7, <1>i DEF FlatInv, UTypes, Fresh, StatusShows, Holds, Apart, Unstarted,
        AtMostOnce, Orderly, CanceledGone
  <2> HIDE DEF E1, E2, E3, E4, E5
  <2> QED
    BY <2>1, <2>2, <2>3, <2>4, <2>5, <2>6, <2>7 DEF UInv
<1>20. CASE ExecuteMaintenance
  <2>1. Shapes'
    BY <1>20, <1>s, <1>t DEF ExecuteMaintenance
  <2>2. /\ BPc = "running" /\ BRes' # "running" /\ FilesSame /\ PanelSame /\ BPc' = "outcome"
        /\ BReq' = BReq /\ BRun' = BRun /\ StatusSame /\ RestSame
    BY <1>20, <1>s, <1>t DEF ExecuteMaintenance
  <2> HIDE DEF FReq, FRun, FSched, FClaim, PPc, PAt, PId, BPc, BReq, BRun, BRes, SId,
              SState
  <2>3. FlatInv'
    BY <2>2, <1>i DEF FlatInv, UTypes, Fresh, StatusShows, Holds, Apart, Unstarted,
        AtMostOnce, Orderly, CanceledGone
  <2> QED
    BY <2>1, <2>3 DEF UInv
<1>21. CASE Finish
  <2> DEFINE
       E1 == /\ BPc = "finish" /\ FilesSame /\ PanelSame /\ BPc' = "fstatus" /\ BReq' = BReq
             /\ BRun' = BRun /\ BRes' = BRes /\ StatusSame /\ RestSame
       E2 == /\ BPc = "finish" /\ FilesSame /\ PanelSame /\ BPc' = "idle" /\ BReq' = None
             /\ BRun' = None /\ BRes' = "none" /\ StatusSame /\ RestSame
       E3 == /\ BPc = "fstatus" /\ FilesSame /\ PanelSame /\ BPc' = "farchive" /\ BReq' = BReq
             /\ BRun' = BRun /\ BRes' = BRes /\ SId' = BReq /\ SState' = BRes /\ RestSame
       E4 == /\ BPc = "fremove" /\ FReq' = FReq /\ FRun' = None /\ FSched' = FSched
             /\ FClaim' = FClaim /\ PanelSame /\ BPc' = "idle" /\ BReq' = None /\ BRun' = None
             /\ BRes' = "none" /\ StatusSame /\ RestSame
  <2>1. Shapes'
    BY <1>21, <1>s, <1>t DEF Finish
  <2>2. E1 \/ E2 \/ E3 \/ E4
    BY <1>21, <1>s, <1>t DEF Finish
  <2> HIDE DEF FReq, FRun, FSched, FClaim, PPc, PAt, PId, BPc, BReq, BRun, BRes, SId,
              SState
  <2>3. ASSUME E1 PROVE FlatInv'
    BY <2>3, <1>i DEF FlatInv, UTypes, Fresh, StatusShows, Holds, Apart, Unstarted,
        AtMostOnce, Orderly, CanceledGone
  <2>4. ASSUME E2 PROVE FlatInv'
    BY <2>4, <1>i DEF FlatInv, UTypes, Fresh, StatusShows, Holds, Apart, Unstarted,
        AtMostOnce, Orderly, CanceledGone
  <2>5. ASSUME E3 PROVE FlatInv'
    BY <2>5, <1>i DEF FlatInv, UTypes, Fresh, StatusShows, Holds, Apart, Unstarted,
        AtMostOnce, Orderly, CanceledGone
  <2>6. ASSUME E4 PROVE FlatInv'
    BY <2>6, <1>i DEF FlatInv, UTypes, Fresh, StatusShows, Holds, Apart, Unstarted,
        AtMostOnce, Orderly, CanceledGone
  <2> HIDE DEF E1, E2, E3, E4
  <2> QED
    BY <2>1, <2>2, <2>3, <2>4, <2>5, <2>6 DEF UInv
<1>22. ASSUME NEW i \in Ids, Tick(i) PROVE UInv'
  <2>1. Shapes'
    BY <1>22, <1>s, <1>t DEF Tick
  <2>2. /\ FilesSame /\ PanelSame /\ BrokerSame /\ StatusSame /\ RestSame
    BY <1>22, <1>s, <1>t DEF Tick
  <2> HIDE DEF FReq, FRun, FSched, FClaim, PPc, PAt, PId, BPc, BReq, BRun, BRes, SId,
              SState
  <2>3. FlatInv'
    BY <2>2, <1>i DEF FlatInv, UTypes, Fresh, StatusShows, Holds, Apart, Unstarted,
        AtMostOnce, Orderly, CanceledGone
  <2> QED
    BY <2>1, <2>3 DEF UInv
<1>23. CASE PanelCrash
  <2>1. Shapes'
    BY <1>23, <1>s, <1>t DEF PanelCrash
  <2>2. /\ FilesSame /\ PPc' = "dead" /\ PAt' = PAt /\ PId' = PId /\ BrokerSame /\ StatusSame
        /\ RestSame
    BY <1>23, <1>s, <1>t DEF PanelCrash
  <2> HIDE DEF FReq, FRun, FSched, FClaim, PPc, PAt, PId, BPc, BReq, BRun, BRes, SId,
              SState
  <2>3. FlatInv'
    BY <2>2, <1>i DEF FlatInv, UTypes, Fresh, StatusShows, Holds, Apart, Unstarted,
        AtMostOnce, Orderly, CanceledGone
  <2> QED
    BY <2>1, <2>3 DEF UInv
<1>28. CASE PanelRestart
  <2>1. Shapes'
    BY <1>28, <1>s, <1>t DEF PanelRestart
  <2>2. /\ FilesSame /\ PPc' = "idle" /\ PAt' = 1 /\ PId' = None /\ BrokerSame /\ StatusSame
        /\ RestSame
    BY <1>28, <1>s, <1>t DEF PanelRestart
  <2> HIDE DEF FReq, FRun, FSched, FClaim, PPc, PAt, PId, BPc, BReq, BRun, BRes, SId,
              SState
  <2>3. FlatInv'
    BY <2>2, <1>i DEF FlatInv, UTypes, Fresh, StatusShows, Holds, Apart, Unstarted,
        AtMostOnce, Orderly, CanceledGone
  <2> QED
    BY <2>1, <2>3 DEF UInv
<1>24. CASE OtherHelper
  <2>1. Shapes'
    BY <1>24, <1>s, <1>t DEF OtherHelper
  <2>2. /\ FilesSame /\ PanelSame /\ BrokerSame /\ StatusSame /\ RestSame
    BY <1>24, <1>s, <1>t DEF OtherHelper
  <2> HIDE DEF FReq, FRun, FSched, FClaim, PPc, PAt, PId, BPc, BReq, BRun, BRes, SId,
              SState
  <2>3. FlatInv'
    BY <2>2, <1>i DEF FlatInv, UTypes, Fresh, StatusShows, Holds, Apart, Unstarted,
        AtMostOnce, Orderly, CanceledGone
  <2> QED
    BY <2>1, <2>3 DEF UInv
<1>25. CASE HelperCrash
  <2>1. Shapes'
    BY <1>25, <1>s, <1>t DEF HelperCrash
  <2>2. /\ FilesSame /\ PanelSame /\ BPc' = "idle" /\ BReq' = None /\ BRun' = None
        /\ BRes' = "none" /\ StatusSame /\ used' = used /\ runs' = runs /\ returned' = returned
        /\ helperDied' = TRUE
    BY <1>25, <1>s, <1>t DEF HelperCrash
  <2> HIDE DEF FReq, FRun, FSched, FClaim, PPc, PAt, PId, BPc, BReq, BRun, BRes, SId,
              SState
  <2>3. FlatInv'
    BY <2>2, <1>i DEF FlatInv, UTypes, Fresh, StatusShows, Holds, Apart, Unstarted,
        AtMostOnce, Orderly, CanceledGone
  <2> QED
    BY <2>1, <2>3 DEF UInv
<1>26. CASE ClaimFails
  <2>1. Shapes'
    BY <1>26, <1>s, <1>t DEF ClaimFails
  <2>2. /\ BPc = "cstatus" /\ FReq' = FRun /\ FRun' = None /\ FSched' = FSched
        /\ FClaim' = FClaim /\ PanelSame /\ BPc' = "idle" /\ BReq' = None /\ BRun' = None
        /\ BRes' = "none" /\ StatusSame /\ RestSame
    BY <1>26, <1>s, <1>t DEF ClaimFails
  <2> HIDE DEF FReq, FRun, FSched, FClaim, PPc, PAt, PId, BPc, BReq, BRun, BRes, SId,
              SState
  <2>3. FlatInv'
    BY <2>2, <1>i DEF FlatInv, UTypes, Fresh, StatusShows, Holds, Apart, Unstarted,
        AtMostOnce, Orderly, CanceledGone
  <2> QED
    BY <2>1, <2>3 DEF UInv
<1>27. CASE UNCHANGED vars
  <2>1. Shapes'
    BY <1>27, <1>s, <1>t DEF vars
  <2>2. /\ FilesSame /\ PanelSame /\ BrokerSame /\ StatusSame /\ RestSame
    BY <1>27, <1>s, <1>t DEF vars
  <2> HIDE DEF FReq, FRun, FSched, FClaim, PPc, PAt, PId, BPc, BReq, BRun, BRes, SId,
              SState
  <2>3. FlatInv'
    BY <2>2, <1>i DEF FlatInv, UTypes, Fresh, StatusShows, Holds, Apart, Unstarted,
        AtMostOnce, Orderly, CanceledGone
  <2> QED
    BY <2>1, <2>3 DEF UInv
<1> QED
  BY <1>1, <1>2, <1>3, <1>4, <1>5, <1>6, <1>7, <1>8, <1>9, <1>10, <1>11, <1>12, <1>13, <1>14,
     <1>15, <1>16, <1>17, <1>18, <1>19, <1>20, <1>21, <1>22, <1>23, <1>24, <1>25, <1>26,
     <1>27, <1>28
  DEF Next, EnqueueFor, ScheduleFor, PanelSteps, CancelSteps, BrokerSteps

\* The work of an operation is started at most once, it is the claimed
\* operation's, and a canceled operation starts only after the events that
\* CancelHolds names: for any number of operations and crashes.
THEOREM QueueWorkIsSound == Spec => []WorkIsSound
<1>1. UInv => WorkIsSound
  <2> SUFFICES ASSUME UInv PROVE WorkIsSound
    OBVIOUS
  <2>1. AtMostOnce
    BY DEF UInv, FlatInv
  <2>2. RunsTheClaimed
    BY DEF UInv, FlatInv, Holds, Claimed, RunsTheClaimed, BPc, BRun, BReq, FRun
  <2>3. CancelHolds
    BY QueueAssumption
    DEF UInv, FlatInv, UTypes, Fresh, CanceledGone, Gone, CancelHolds, Ids
  <2> QED
    BY <2>1, <2>2, <2>3 DEF WorkIsSound
<1> QED
  BY UInitial, UStep, <1>1, PTL DEF Spec

(* ------------------------- the domain queue ---------------------------- *)

PanelPlaces == {"idle", "sweep", "srun", "sdrop", "enqueue", "link", "unstage"}
HelperPlaces == {"idle", "recover", "rremove", "look", "claim", "unlink", "record", "work",
                 "finish", "fremove", "unstage", "renew"}

DTypes ==
  /\ dreq \in Requests \cup {NoRequest} /\ drun \in Requests \cup {NoRequest}
  /\ dused \in 0..MaxRequests
  /\ imports \in [Requests -> Ages] /\ dworked \in [Requests -> Nat]
  /\ dhelper \in [pc : HelperPlaces, id : Requests \cup {NoRequest}]

DCall ==
  /\ dpanel = [pc |-> dpanel.pc, id |-> dpanel.id, look |-> dpanel.look,
               item |-> dpanel.item, kept |-> dpanel.kept]
  /\ dpanel.pc \in PanelPlaces /\ dpanel.look \subseteq Requests
  /\ dpanel.id \in Requests \cup {NoRequest} /\ dpanel.item \in Requests \cup {NoRequest}

\* The request a handler of the panel is about to publish is the newest and
\* has not been seen by the helper.
DFresh ==
  /\ dreq # NoRequest => dreq <= dused
  /\ drun # NoRequest => drun <= dused
  /\ dhelper.id # NoRequest => dhelper.id <= dused
  /\ \A r \in Requests : r > dused => dworked[r] = 0
  /\ dpanel.pc # "idle" =>
       /\ dpanel.id = dused /\ dused > 0 /\ dworked[dused] = 0
       /\ dreq # dused /\ drun # dused /\ dhelper.id # dused

\* A request the helper can still claim has not been worked on.
DUnworked ==
  /\ dreq # NoRequest => dworked[dreq] = 0
  /\ dhelper.pc = "claim" => dreq # NoRequest
  /\ dhelper.pc \in {"unlink", "record"} => dhelper.id # NoRequest /\ dworked[dhelper.id] = 0
  /\ dhelper.pc = "unlink" => dreq = dhelper.id
  /\ dhelper.pc \in {"record", "work", "finish", "fremove", "unstage"} =>
       dhelper.id # NoRequest /\ dreq # dhelper.id

\* What the sweep has looked up stays true until it removes the directory:
\* request.json is read first, and a request leaves it only for running.json.
DSwept ==
  /\ dpanel.pc \in {"srun", "sdrop"} => dpanel.item # NoRequest /\ dreq # dpanel.item
  /\ dpanel.pc = "sdrop" => drun # dpanel.item

DInv == DTypes /\ DCall /\ DFresh /\ DUnworked /\ DSwept /\ WorkedOnce

\* ImportKept of one step.
KeptHere ==
  \A r \in Requests : (/\ r \in {dreq, drun} /\ imports[r] # "absent"
                       /\ ~(dhelper.pc = "unstage" /\ dhelper.id = r)) => imports'[r] # "absent"

\* The invariant holds initially.
LEMMA DInitial == DInit => DInv
<1>1. DInit => DTypes /\ DCall
  BY RequestsAssumption
  DEF DInit, DTypes, DCall, NoCall, NoRun, Requests, Ages, PanelPlaces, HelperPlaces
<1>2. DInit => DFresh
  BY RequestsAssumption
  DEF DInit, DFresh, NoCall, NoRun, Requests
<1>3. DInit => DUnworked /\ DSwept
  BY RequestsAssumption
  DEF DInit, DUnworked, DSwept, NoCall, NoRun, Requests
<1>4. DInit => WorkedOnce
  BY DEF DInit, WorkedOnce
<1> QED
  BY <1>1, <1>2, <1>3, <1>4 DEF DInv

\* Every step of the panel, the helper and the clock keeps it, and removes no
\* directory that a queued or running request names.
LEMMA DStep == DInv /\ [DNext]_dvars => DInv' /\ KeptHere
<1> SUFFICES ASSUME DInv, [DNext]_dvars PROVE DInv' /\ KeptHere
  OBVIOUS
<1>t. DTypes
  BY DEF DInv
<1>c. DCall
  BY DEF DInv
<1>f. DFresh
  BY DEF DInv
<1>u. DUnworked
  BY DEF DInv
<1>w. DSwept /\ WorkedOnce
  BY DEF DInv
<1> USE RequestsAssumption DEF NoCall, NoRun, Requests, HelperSide, PanelSide, Step, Exit
<1>1. ASSUME NEW u \in BOOLEAN, HandleDomainsRequest(u) PROVE DInv' /\ KeptHere
  <2>1. DTypes'
    BY <1>1, <1>t, <1>c, <1>f, <1>u DEF HandleDomainsRequest, Present, DTypes, DCall, DFresh,
        DUnworked, Ages, HelperPlaces
  <2>2. DCall'
    <3>1. \/ dpanel' = [pc |-> "sweep", id |-> dused + 1, look |-> Present,
                         item |-> NoRequest, kept |-> 0]
          \/ dpanel' = [pc |-> "enqueue", id |-> dused + 1, look |-> {},
                         item |-> NoRequest, kept |-> 0]
      BY <1>1 DEF HandleDomainsRequest
    <3>2. dused + 1 \in Requests /\ Present \subseteq Requests
      BY <1>1, <1>t DEF HandleDomainsRequest, DTypes, Present
    <3> HIDE DEF Requests
    <3> QED
      BY <3>1, <3>2 DEF DCall, PanelPlaces
  <2>3. DFresh'
    BY <1>1, <1>t, <1>c, <1>f, <1>u DEF HandleDomainsRequest, Present, DTypes, DCall, DFresh,
        DUnworked
  <2>4. DUnworked'
    BY <1>1, <1>t, <1>c, <1>f, <1>u DEF HandleDomainsRequest, Present, DTypes, DCall, DFresh,
        DUnworked
  <2>5. DSwept' /\ WorkedOnce'
    BY <1>1, <1>t, <1>c, <1>u, <1>w DEF HandleDomainsRequest, Present, DTypes, DCall, DUnworked,
        DSwept, WorkedOnce
  <2>6. KeptHere
    BY <1>1, <1>t, <1>c, <1>f, <1>u, <1>w DEF HandleDomainsRequest, Present, DTypes, DCall,
        DFresh, DUnworked, DSwept, KeptHere
  <2> QED
    BY <2>1, <2>2, <2>3, <2>4, <2>5, <2>6 DEF DInv
<1>2. CASE SweepRequest
  <2>1. DTypes'
    BY <1>2, <1>t, <1>c, <1>f, <1>u DEF SweepRequest, DTypes, DCall, DFresh, DUnworked, Ages,
        HelperPlaces
  <2>2. DCall'
    <3>1. PICK r \in dpanel.look :
             \/ dpanel' = [dpanel EXCEPT !.look = @ \ {r}, !.kept = @ + 1]
             \/ dpanel' = [dpanel EXCEPT !.look = @ \ {r}, !.item = r, !.pc = "srun"]
      BY <1>2 DEF SweepRequest
    <3>2. r \in Requests
      BY <3>1, <1>c DEF DCall
    <3> QED
      BY <3>1, <3>2, <1>c DEF DCall, PanelPlaces
  <2>3. DFresh'
    BY <1>2, <1>t, <1>c, <1>f, <1>u DEF SweepRequest, DTypes, DCall, DFresh, DUnworked
  <2>4. DUnworked'
    BY <1>2, <1>t, <1>c, <1>f, <1>u DEF SweepRequest, DTypes, DCall, DFresh, DUnworked
  <2>5. DSwept' /\ WorkedOnce'
    BY <1>2, <1>t, <1>c, <1>u, <1>w DEF SweepRequest, DTypes, DCall, DUnworked, DSwept,
        WorkedOnce
  <2>6. KeptHere
    BY <1>2, <1>t, <1>c, <1>f, <1>u, <1>w DEF SweepRequest, DTypes, DCall, DFresh, DUnworked,
        DSwept, KeptHere
  <2> QED
    BY <2>1, <2>2, <2>3, <2>4, <2>5, <2>6 DEF DInv
<1>3. CASE SweepRunning
  <2>1. DTypes'
    BY <1>3, <1>t, <1>c, <1>f, <1>u DEF SweepRunning, DTypes, DCall, DFresh, DUnworked, Ages,
        HelperPlaces
  <2>2. DCall'
    BY <1>3, <1>t, <1>c DEF SweepRunning, DTypes, DCall, PanelPlaces
  <2>3. DFresh'
    BY <1>3, <1>t, <1>c, <1>f, <1>u DEF SweepRunning, DTypes, DCall, DFresh, DUnworked
  <2>4. DUnworked'
    BY <1>3, <1>t, <1>c, <1>f, <1>u DEF SweepRunning, DTypes, DCall, DFresh, DUnworked
  <2>5. DSwept' /\ WorkedOnce'
    BY <1>3, <1>t, <1>c, <1>u, <1>w DEF SweepRunning, DTypes, DCall, DUnworked, DSwept,
        WorkedOnce
  <2>6. KeptHere
    BY <1>3, <1>t, <1>c, <1>f, <1>u, <1>w DEF SweepRunning, DTypes, DCall, DFresh, DUnworked,
        DSwept, KeptHere
  <2> QED
    BY <2>1, <2>2, <2>3, <2>4, <2>5, <2>6 DEF DInv
<1>4. CASE SweepRemove
  BY <1>4, <1>t, <1>c, <1>f, <1>u, <1>w DEF SweepRemove, DInv, DTypes, DCall, DFresh, DUnworked,
      DSwept, WorkedOnce, KeptHere, Ages, PanelPlaces, HelperPlaces
<1>5. CASE StageCreate
  <2>1. DTypes'
    BY <1>5, <1>t, <1>c, <1>f, <1>u DEF StageCreate, DTypes, DCall, DFresh, DUnworked, Ages,
        HelperPlaces
  <2>2. DCall'
    BY <1>5, <1>t, <1>c DEF StageCreate, DTypes, DCall, PanelPlaces
  <2>3. DFresh'
    BY <1>5, <1>t, <1>c, <1>f, <1>u DEF StageCreate, DTypes, DCall, DFresh, DUnworked
  <2>4. DUnworked'
    BY <1>5, <1>t, <1>c, <1>f, <1>u DEF StageCreate, DTypes, DCall, DFresh, DUnworked
  <2>5. DSwept' /\ WorkedOnce'
    BY <1>5, <1>t, <1>c, <1>u, <1>w DEF StageCreate, DTypes, DCall, DUnworked, DSwept,
        WorkedOnce
  <2>6. KeptHere
    BY <1>5, <1>t, <1>c, <1>f, <1>u, <1>w DEF StageCreate, DTypes, DCall, DFresh, DUnworked,
        DSwept, KeptHere
  <2> QED
    BY <2>1, <2>2, <2>3, <2>4, <2>5, <2>6 DEF DInv
<1>6. CASE Enqueue
  <2>1. DTypes'
    BY <1>6, <1>t, <1>c, <1>f, <1>u DEF Enqueue, DTypes, DCall, DFresh, DUnworked, Ages,
        HelperPlaces
  <2>2. DCall'
    <3>1. CASE dpanel.pc = "enqueue"
      BY <3>1, <1>6, <1>t, <1>c DEF Enqueue, DTypes, DCall, PanelPlaces
    <3>2. CASE dpanel.pc = "link"
      BY <3>2, <1>6, <1>t, <1>c DEF Enqueue, DTypes, DCall, PanelPlaces
    <3>3. CASE dpanel.pc = "unstage"
      BY <3>3, <1>6, <1>t, <1>c DEF Enqueue, DTypes, DCall, PanelPlaces
    <3> QED
      BY <3>1, <3>2, <3>3, <1>6 DEF Enqueue
  <2>3. DFresh'
    BY <1>6, <1>t, <1>c, <1>f, <1>u DEF Enqueue, DTypes, DCall, DFresh, DUnworked
  <2>4. DUnworked'
    BY <1>6, <1>t, <1>c, <1>f, <1>u DEF Enqueue, DTypes, DCall, DFresh, DUnworked
  <2>5. DSwept' /\ WorkedOnce'
    BY <1>6, <1>t, <1>c, <1>u, <1>w DEF Enqueue, DTypes, DCall, DUnworked, DSwept, WorkedOnce
  <2>6. KeptHere
    BY <1>6, <1>t, <1>c, <1>f, <1>u, <1>w DEF Enqueue, DTypes, DCall, DFresh, DUnworked, DSwept,
        KeptHere
  <2> QED
    BY <2>1, <2>2, <2>3, <2>4, <2>5, <2>6 DEF DInv
<1>7. CASE StartRun
  BY <1>7, <1>t, <1>c, <1>f, <1>u, <1>w DEF StartRun, DInv, DTypes, DCall, DFresh, DUnworked,
      DSwept, WorkedOnce, KeptHere, Ages, PanelPlaces, HelperPlaces
<1>8. CASE RecoverInterrupted
  <2>1. DTypes'
    BY <1>8, <1>t, <1>c, <1>f, <1>u DEF RecoverInterrupted, DTypes, DCall, DFresh, DUnworked,
        Ages, HelperPlaces
  <2>2. DCall'
    BY <1>8, <1>t, <1>c DEF RecoverInterrupted, DTypes, DCall, PanelPlaces
  <2>3. DFresh'
    BY <1>8, <1>t, <1>c, <1>f, <1>u DEF RecoverInterrupted, DTypes, DCall, DFresh, DUnworked
  <2>4. DUnworked'
    BY <1>8, <1>t, <1>c, <1>f, <1>u DEF RecoverInterrupted, DTypes, DCall, DFresh, DUnworked
  <2>5. DSwept' /\ WorkedOnce'
    BY <1>8, <1>t, <1>c, <1>u, <1>w DEF RecoverInterrupted, DTypes, DCall, DUnworked, DSwept,
        WorkedOnce
  <2>6. KeptHere
    BY <1>8, <1>t, <1>c, <1>f, <1>u, <1>w DEF RecoverInterrupted, DTypes, DCall, DFresh,
        DUnworked, DSwept, KeptHere
  <2> QED
    BY <2>1, <2>2, <2>3, <2>4, <2>5, <2>6 DEF DInv
<1>9. CASE LookForRequest
  <2>1. DTypes'
    BY <1>9, <1>t, <1>c, <1>f, <1>u DEF LookForRequest, DTypes, DCall, DFresh, DUnworked, Ages,
        HelperPlaces
  <2>2. DCall'
    BY <1>9, <1>t, <1>c DEF LookForRequest, DTypes, DCall, PanelPlaces
  <2>3. DFresh'
    BY <1>9, <1>t, <1>c, <1>f, <1>u, SMTT(40) DEF LookForRequest, DTypes, DCall, DFresh, DUnworked
  <2>4. DUnworked'
    BY <1>9, <1>t, <1>c, <1>f, <1>u DEF LookForRequest, DTypes, DCall, DFresh, DUnworked
  <2>5. DSwept' /\ WorkedOnce'
    BY <1>9, <1>t, <1>c, <1>u, <1>w DEF LookForRequest, DTypes, DCall, DUnworked, DSwept,
        WorkedOnce
  <2>6. KeptHere
    BY <1>9, <1>t, <1>c, <1>f, <1>u, <1>w DEF LookForRequest, DTypes, DCall, DFresh, DUnworked,
        DSwept, KeptHere
  <2> QED
    BY <2>1, <2>2, <2>3, <2>4, <2>5, <2>6 DEF DInv
<1>10. CASE ClaimRequest
  BY <1>10, <1>t, <1>c, <1>f, <1>u, <1>w DEF ClaimRequest, DInv, DTypes, DCall, DFresh,
      DUnworked, DSwept, WorkedOnce, KeptHere, Ages, PanelPlaces, HelperPlaces
<1>11. CASE ExecuteDomainRequest
  <2>1. DTypes'
    BY <1>11, <1>t, <1>c, <1>f, <1>u DEF ExecuteDomainRequest, DTypes, DCall, DFresh, DUnworked,
        Ages, HelperPlaces
  <2>2. DCall'
    BY <1>11, <1>t, <1>c DEF ExecuteDomainRequest, DTypes, DCall, PanelPlaces
  <2>3. DFresh'
    BY <1>11, <1>t, <1>c, <1>f, <1>u DEF ExecuteDomainRequest, DTypes, DCall, DFresh, DUnworked
  <2>4. DUnworked'
    BY <1>11, <1>t, <1>c, <1>f, <1>u DEF ExecuteDomainRequest, DTypes, DCall, DFresh, DUnworked
  <2>5. DSwept' /\ WorkedOnce'
    <3>1. DSwept'
      BY <1>11, <1>w DEF ExecuteDomainRequest, DSwept
    <3>2. \/ dworked' = dworked
          \/ dhelper.pc = "record" /\ dworked' = [dworked EXCEPT ![dhelper.id] = @ + 1]
      BY <1>11 DEF ExecuteDomainRequest
    <3>3. dhelper.pc = "record" => dhelper.id \in Requests /\ dworked[dhelper.id] = 0
      BY <1>t, <1>u DEF DTypes, DUnworked
    <3> HIDE DEF Requests
    <3> QED
      BY <3>1, <3>2, <3>3, <1>t, <1>w DEF DTypes, WorkedOnce
  <2>6. KeptHere
    BY <1>11, <1>t, <1>c, <1>f, <1>u, <1>w DEF ExecuteDomainRequest, DTypes, DCall, DFresh,
        DUnworked, DSwept, KeptHere
  <2> QED
    BY <2>1, <2>2, <2>3, <2>4, <2>5, <2>6 DEF DInv
<1>12. CASE FinishRequest
  <2>1. DTypes'
    BY <1>12, <1>t, <1>c, <1>f, <1>u, SMTT(40) DEF FinishRequest, DTypes, DCall, DFresh, DUnworked, Ages,
        HelperPlaces
  <2>2. DCall'
    BY <1>12, <1>t, <1>c DEF FinishRequest, DTypes, DCall, PanelPlaces
  <2>3. DFresh'
    BY <1>12, <1>t, <1>c, <1>f, <1>u DEF FinishRequest, DTypes, DCall, DFresh, DUnworked
  <2>4. DUnworked'
    BY <1>12, <1>t, <1>c, <1>f, <1>u DEF FinishRequest, DTypes, DCall, DFresh, DUnworked
  <2>5. DSwept' /\ WorkedOnce'
    BY <1>12, <1>t, <1>c, <1>u, <1>w DEF FinishRequest, DTypes, DCall, DUnworked, DSwept,
        WorkedOnce
  <2>6. KeptHere
    BY <1>12, <1>t, <1>c, <1>f, <1>u, <1>w DEF FinishRequest, DTypes, DCall, DFresh, DUnworked,
        DSwept, KeptHere
  <2> QED
    BY <2>1, <2>2, <2>3, <2>4, <2>5, <2>6 DEF DInv
<1>13. ASSUME NEW r \in Requests, AgeImport(r) PROVE DInv' /\ KeptHere
  BY <1>13, <1>t, <1>c, <1>f, <1>u, <1>w DEF AgeImport, DInv, DTypes, DCall, DFresh, DUnworked,
      DSwept, WorkedOnce, KeptHere, Ages, PanelPlaces, HelperPlaces
<1>14. ASSUME NEW r \in Requests, AgeRequest(r) PROVE DInv' /\ KeptHere
  BY <1>14, <1>t, <1>c, <1>f, <1>u, <1>w DEF AgeRequest, DInv, DTypes, DCall, DFresh, DUnworked,
      DSwept, WorkedOnce, KeptHere, Ages, PanelPlaces, HelperPlaces
<1>15. CASE Crash
  <2>1. DTypes'
    BY <1>15, <1>t, <1>c, <1>f, <1>u DEF Crash, DTypes, DCall, DFresh, DUnworked, Ages,
        HelperPlaces
  <2>2. DCall'
    BY <1>15, <1>t, <1>c DEF Crash, DTypes, DCall, PanelPlaces
  <2>3. DFresh'
    BY <1>15, <1>t, <1>c, <1>f, <1>u DEF Crash, DTypes, DCall, DFresh, DUnworked
  <2>4. DUnworked'
    BY <1>15, <1>t, <1>c, <1>f, <1>u DEF Crash, DTypes, DCall, DFresh, DUnworked
  <2>5. DSwept' /\ WorkedOnce'
    BY <1>15, <1>t, <1>c, <1>u, <1>w DEF Crash, DTypes, DCall, DUnworked, DSwept, WorkedOnce
  <2>6. KeptHere
    BY <1>15, <1>t, <1>c, <1>f, <1>u, <1>w DEF Crash, DTypes, DCall, DFresh, DUnworked, DSwept,
        KeptHere
  <2> QED
    BY <2>1, <2>2, <2>3, <2>4, <2>5, <2>6 DEF DInv
<1>18. CASE FinishFails
  BY <1>18, <1>t, <1>c, <1>f, <1>u, <1>w DEF FinishFails, DInv, DTypes, DCall, DFresh,
      DUnworked, DSwept, WorkedOnce, KeptHere, Ages, PanelPlaces, HelperPlaces
<1>16. CASE UpdateHelper
  BY <1>16, <1>t, <1>c, <1>f, <1>u, <1>w DEF UpdateHelper, DInv, DTypes, DCall, DFresh,
      DUnworked, DSwept, WorkedOnce, KeptHere, Ages, PanelPlaces, HelperPlaces
<1>17. CASE UNCHANGED dvars
  BY <1>17, <1>t, <1>c, <1>f, <1>u, <1>w DEF dvars, DInv, DTypes, DCall, DFresh, DUnworked,
      DSwept, WorkedOnce, KeptHere, Ages, PanelPlaces, HelperPlaces
<1> QED
  BY <1>1, <1>2, <1>3, <1>4, <1>5, <1>6, <1>7, <1>8, <1>9, <1>10, <1>11, <1>12, <1>13,
     <1>14, <1>15, <1>16, <1>17, <1>18
  DEF DNext, PanelStep, Stage, HelperStep

\* A domain request is worked on at most once, and the certificate it names
\* stays in its import directory until the helper has read it.
THEOREM DomainWorkIsSound == DSpec => DomainWorkSound
<1>1. DInv => WorkedOnce
  BY DEF DInv
<1>2. DInv /\ [DNext]_dvars =>
        [\A r \in Requests :
           (/\ r \in {dreq, drun} /\ imports[r] # "absent"
            /\ ~(dhelper.pc = "unstage" /\ dhelper.id = r)) => imports'[r] # "absent"]_dvars
  BY DStep DEF KeptHere
<1> QED
  BY DInitial, DStep, <1>1, <1>2, PTL DEF DSpec, DomainWorkSound, ImportKept

(* --------------------------- the installation --------------------------- *)

\* The artifacts a state record names are on disk, and older than the next ID.
Has(st) == {st.cur, st.prev} \ {Absent} \subseteq artifacts
Aged(st) == st.cur[1] <= ids /\ (st.prev # Absent => st.prev[1] <= ids)
Deployed(a) == bin = a[2] /\ compose = a[2]
Accessed(r) == access.policy \in {r, Removed} /\ access.boot = r
Fits(v) == older \/ Contract(v) >= data

\* The installation is as the state record says.
Whole(st) ==
  /\ st \in States /\ Has(st) /\ Aged(st)
  /\ service = st.cur[2] /\ Deployed(st.cur) /\ Accessed(st.access)
  /\ access.unit \in {st.access, st.cur[4]}

\* An update or rollback whose journal is j.
Swapping(j) ==
  /\ j.prev \in Artifacts /\ j.cand \in Artifacts /\ j.before \in States /\ j.after \in States
  /\ Aged(j.before) /\ Has(j.before) /\ Aged(j.after) /\ {j.prev, j.cand} \subseteq artifacts
  /\ j.after.cur = j.cand /\ j.after.prev = j.prev /\ j.after.access = j.before.access
  /\ j.before.cur[2] = j.prev[2] /\ Accessed(j.before.access)
  /\ j.prev[4] \in {j.before.access, j.before.cur[4]}
  /\ Fits(j.cand[2]) /\ (older \/ Contract(j.cand[2]) >= Contract(j.prev[2]))
  /\ Compatible(j.prev, j.cand) => Fits(j.prev[2]) /\ ~j.need
  /\ ~Compatible(j.prev, j.cand) => archive \in {1, 2} /\ (older \/ archive <= Contract(j.prev[2]))
  /\ j.stage \in {"new", "prepared"} => ~j.need /\ state = j.before /\ Whole(state)
  /\ j.stage \notin {"new", "prepared"} => j.changed

\* A change of access or domains.
Changing(j) ==
  /\ j.before \in States /\ j.after \in States /\ Aged(j.before) /\ Has(j.before)
  /\ j.after.cur = j.before.cur /\ j.after.prev = j.before.prev
  /\ Deployed(j.before.cur) /\ Fits(j.before.cur[2])
  /\ snapshot # Absent =>
       /\ snapshot.policy \in {j.before.access, Removed} /\ snapshot.boot = j.before.access
       /\ snapshot.unit \in {j.before.access, j.before.cur[4]}
  /\ j.stage = "prepared" /\ j.op = "exposure" => state = j.before /\ Whole(state)

\* A restart.
Restarting ==
  /\ state \in States /\ Has(state) /\ Aged(state)
  /\ Deployed(state.cur) /\ Accessed(state.access) /\ Fits(state.cur[2])
  /\ access.unit \in {state.access, state.cur[4]}

\* An installation.
Installing(j) ==
  j.cand \in Artifacts /\ j.cand[1] <= ids /\ j.after = Installed(j.cand) /\ Fits(j.cand[2])

\* Whatever a process is doing or where one died, this is true of the files.
Settled == Closed(journal) /\ state # Absent => Whole(state)
BuildsKept == state # Absent /\ journal.op # "uninstall" => Has(state) \/ state.recovery = "install-incomplete"
Aging == state # Absent => Aged(state)
Swaps(j) == j.op \in {"update", "rollback"}
Changes(j) == j.op \in {"exposure", "domains"}
Interrupted ==
  /\ journal.stage # "new" /\ (journal.need => Swaps(journal))
  /\ ~Closed(journal) =>
       /\ Swaps(journal) => Swapping(journal)
       /\ Changes(journal) => Changing(journal)
       /\ journal.op = "restart" => Restarting
       /\ journal.op = "install" => Installing(journal)
OnDisk == Settled /\ BuildsKept /\ Aging /\ NeverOldOnNew /\ Interrupted

\* The process has written its journal.
Linked ==
  /\ run.j.op = journal.op /\ run.j.stage = journal.stage
  /\ run.j.before = journal.before /\ run.j.after = journal.after
  /\ run.j.prev = journal.prev /\ run.j.cand = journal.cand

SwapPlaces == {"u-mark", "u-swap", "u-stop", "u-bin", "u-compose", "u-started", "u-start", "u-health",
  "u-state", "u-brokers", "u-complete",
  "r-begin", "r-abort", "r-stop", "r-data", "r-needs", "r-restore", "r-bin", "r-compose", "r-start",
  "r-health", "r-state", "r-brokers", "r-done", "r-fail-after", "r-fail-before", "r-fail",
  "q-stop", "q-swap", "q-apply", "q-bin", "q-compose", "q-started", "q-start", "q-health", "q-state",
  "q-done", "q-halt", "q-fail"}
\* Where an update, a rollback, their recovery or a restore stands.
SwapBase(p) ==
  /\ p \in {"u-prepared", "u-discard"} =>
       /\ Closed(journal) /\ Swaps(run.j) /\ run.j.stage = "new" /\ Swapping(run.j)
       /\ run.j.prev \notin {state.cur, state.prev} \ {Absent}
       /\ run.j.op = "update" => run.j.cand \notin {state.cur, state.prev} \ {Absent}
  /\ p \in SwapPlaces => Linked /\ ~Closed(journal) /\ Swaps(run.j) /\ Swapping(run.j) /\ run.j.stage # "new"
  /\ p \in {"u-mark", "u-swap", "r-abort"} => run.j.stage = "prepared"
  /\ p \in SwapPlaces \ {"u-mark", "u-swap", "r-abort", "r-begin"} => run.j.stage # "prepared"
  /\ p = "u-swap" => run.j.changed
  /\ p = "u-prune" => /\ Linked /\ Closed(journal) /\ Swaps(journal)
                      /\ state.cur = run.j.cand /\ state.prev = run.j.prev

\* What it has done by then.
SwapDone(p) ==
  /\ p \in {"u-bin", "u-compose", "u-started", "u-start", "r-data", "r-needs", "r-restore", "r-bin", "r-compose",
            "r-start", "q-swap", "q-apply", "q-bin", "q-compose", "q-started", "q-start"} => service = Absent
  /\ p \in {"u-compose", "u-started", "u-start", "u-health", "u-state", "u-brokers", "u-complete"} =>
       bin = run.j.cand[2]
  /\ p \in {"u-started", "u-start", "u-health", "u-state", "u-brokers", "u-complete"} =>
       compose = run.j.cand[2] /\ access.unit = run.j.cand[4]
  /\ p \in {"u-health", "u-state", "u-brokers", "u-complete"} => service = run.j.cand[2]
  /\ p \in {"u-brokers", "u-complete"} => state = run.j.after
  /\ p \in {"r-bin", "r-compose", "r-start", "r-health", "r-state", "r-brokers", "r-done"} =>
       Compatible(run.j.prev, run.j.cand)
  /\ p \in {"r-needs", "r-restore", "q-stop", "q-swap", "q-apply", "q-bin", "q-compose", "q-started", "q-start",
            "q-health", "q-state", "q-done", "q-halt", "q-fail"} => ~Compatible(run.j.prev, run.j.cand)
  /\ p \in {"q-bin", "q-compose", "q-started", "q-start"} => Fits(run.j.prev[2])
  /\ p \in {"r-compose", "r-start", "r-health", "r-state", "r-brokers", "r-done",
            "q-compose", "q-started", "q-start", "q-health", "q-state", "q-done"} => bin = run.j.prev[2]
  /\ p \in {"r-start", "r-health", "r-state", "r-brokers", "r-done",
            "q-started", "q-start", "q-health", "q-state", "q-done"} =>
       compose = run.j.prev[2] /\ access.unit = run.j.prev[4]
  /\ p \in {"r-health", "r-state", "r-brokers", "r-done", "q-health", "q-state", "q-done"} =>
       service = run.j.prev[2]
  /\ p \in {"r-brokers", "r-done"} => state = run.j.before
  /\ p = "q-done" => state = [run.j.before EXCEPT !.recovery = "none"]
AtSwap(p) == SwapBase(p) /\ SwapDone(p)

AtRestart(p) ==
  /\ p = "t-prepared" =>
       /\ run.j.op = "restart" /\ run.j.stage = "new" /\ ~run.j.need
       /\ state # Absent /\ (Closed(journal) \/ journal.op = "restart")
  /\ p \in {"t-stop", "t-started", "t-start", "t-health", "t-done", "t-fail"} =>
       Linked /\ ~Closed(journal) /\ run.j.op = "restart" /\ run.j.stage # "new" /\ ~run.j.need
  /\ p \in {"t-health", "t-done"} => service = compose

ChangePlaces == {"e-snapshot", "e-ready", "e-cancel", "e-prepare", "e-swap", "e-abort", "e-stop", "e-policy", "e-boot",
  "e-started", "e-start", "e-health", "e-state", "e-complete", "x-stop", "x-policy", "x-boot", "x-start", "x-health",
  "x-state", "x-done", "x-fail", "x-mark", "y-forget", "y-done"}
\* Where a change of access or domains stands.
ChangeBase(p) ==
  /\ p = "e-prepared" =>
       /\ Closed(journal) /\ Changes(run.j) /\ run.j.stage = "new" /\ ~run.j.need
       /\ state = run.j.before /\ Whole(state) /\ run.j.after \in States
       /\ run.j.after.cur = state.cur /\ run.j.after.prev = state.prev
  /\ p \in ChangePlaces => Linked /\ ~Closed(journal) /\ Changes(run.j) /\ run.j.stage # "new" /\ ~run.j.need
  /\ p \in {"e-snapshot", "e-ready", "e-cancel"} => state = run.j.before /\ Whole(state)
  /\ p \in {"e-prepare", "e-swap", "e-abort"} /\ run.j.op = "domains" => state = run.j.before /\ Whole(state)
  /\ p = "e-abort" => run.j.op = "domains"
  /\ p \in {"e-prepare", "e-swap", "e-abort", "e-stop", "e-policy", "e-boot", "e-started", "e-start", "e-health",
            "e-state", "e-complete"} => run.j.stage # "prepared"
  /\ p \in {"x-stop", "x-policy", "x-boot", "x-start", "x-health", "x-state", "x-done", "x-fail", "x-mark"} =>
       run.j.stage # "prepared" \/ run.j.op = "domains"
  /\ p \in {"y-forget", "y-done"} => run.j.stage = "prepared" /\ run.j.op = "exposure"

\* What it has done by then.
ChangeDone(p) ==
  /\ p \in {"e-boot", "e-started", "e-start", "e-health", "e-state", "e-complete"} =>
       access.policy = run.j.after.access
  /\ p \in {"e-started", "e-start", "e-health", "e-state", "e-complete"} =>
       access.boot = run.j.after.access /\ access.unit = run.j.after.access
  /\ p \in {"e-health", "e-state", "e-complete", "x-health", "x-state", "x-done"} => service = compose
  /\ p = "e-complete" => state = run.j.after
  /\ p = "x-boot" => snapshot # Absent
  /\ p \in {"x-boot", "x-start", "x-health", "x-state", "x-done"} => access.policy \in {run.j.before.access, Removed}
  /\ p \in {"x-start", "x-health", "x-state", "x-done"} =>
       access.boot = run.j.before.access /\ access.unit \in {run.j.before.access, run.j.before.cur[4]}
  /\ p = "x-done" => state = [run.j.before EXCEPT !.recovery = "none"]
AtChange(p) == ChangeBase(p) /\ ChangeDone(p)

InstallPlaces == {"i-needs", "i-clear", "i-abort", "i-again", "i-stage", "i-swap", "i-mark", "i-started", "i-bin",
  "i-start", "i-health", "i-state", "i-cert", "i-complete", "i-pending", "i-stop", "i-fail", "i-mark-fail"}
AtInstall(p) ==
  /\ p = "i-prepared" =>
       Closed(journal) /\ run.j.op = "install" /\ run.j.stage = "new" /\ ~run.j.need /\ Installing(run.j)
  /\ p \in InstallPlaces => Linked /\ ~Closed(journal) /\ run.j.op = "install" /\ ~run.j.need /\ run.j.stage # "new"
  /\ p \in {"i-prepared", "i-needs", "i-clear", "i-abort", "i-again"} => state = Absent
  /\ p \in {"i-swap", "i-mark", "i-started", "i-bin", "i-start", "i-health", "i-state", "i-cert", "i-complete",
            "i-pending"} =>
       run.j.cand \in artifacts /\ compose = run.j.cand[2] /\ Accessed(0) /\ access.unit = 0
  /\ p \in {"i-start", "i-health", "i-state", "i-cert", "i-complete", "i-pending"} => bin = run.j.cand[2]
  /\ p \in {"i-health", "i-state", "i-cert", "i-complete", "i-pending"} => service = run.j.cand[2]
  /\ p \in {"i-cert", "i-complete", "i-pending"} => state = run.j.after
  /\ p = "i-cleanup" => Closed(journal)

AtRemoval(p) ==
  /\ p \in {"n-prepared", "n-stop", "n-swap", "n-remove", "n-state", "n-done"} => run.j.op = "uninstall" /\ ~run.j.need
  /\ p \in {"n-stop", "n-swap", "n-remove", "n-state", "n-done"} =>
       Linked /\ ~Closed(journal) /\ run.j.stage # "new"
  /\ p = "n-prepared" => run.j.stage = "new"
  /\ p = "n-done" => state = Absent

Here(p) == AtSwap(p) /\ AtRestart(p) /\ AtChange(p) /\ AtInstall(p) /\ AtRemoval(p)
IInv == ITypeOK /\ OnDisk /\ Here(run.at)

(* What the steps do to the files and to the process. *)

\* The process goes to p, with the journal it has.
Goes(p) == run'.at = p /\ (p # "idle" => run'.j = run.j)
\* Nothing else changes.
Still == UNCHANGED <<journal, state, artifacts, bin, compose, access, snapshot, archive, data, service, ids, older>>
\* The journal is written with the stage s.
Writes(s) ==
  /\ journal'.stage = s /\ journal'.op = run.j.op
  /\ journal'.before = run.j.before /\ journal'.after = run.j.after
  /\ journal'.prev = run.j.prev /\ journal'.cand = run.j.cand
  /\ journal'.changed = run.j.changed /\ journal'.need = run.j.need

\* The process has a place and a journal.
Shaped == run' = [at |-> run'.at, j |-> run'.j] /\ run'.j \in Journals

Stuck(p) == Goes(p) /\ Still
Saved(s, p) ==
  /\ Writes(s) /\ run'.at = p /\ (p # "idle" => run'.j = journal')
  /\ UNCHANGED <<state, artifacts, bin, compose, access, snapshot, archive, data, service, ids, older>>
StateSaved(st, p) ==
  /\ state' = st /\ Goes(p)
  /\ UNCHANGED <<journal, artifacts, bin, compose, access, snapshot, archive, data, service, ids, older>>
Stopped(p) ==
  /\ service' = Absent /\ Goes(p)
  /\ UNCHANGED <<journal, state, artifacts, bin, compose, access, snapshot, archive, data, ids, older>>
Started(p) ==
  /\ service' = compose /\ Goes(p)
  /\ data' = (IF Contract(compose) > data THEN Contract(compose) ELSE data)
  /\ UNCHANGED <<journal, state, artifacts, bin, compose, access, snapshot, archive, ids, older>>
BinaryIs(v, p) ==
  /\ bin' = v /\ Goes(p)
  /\ UNCHANGED <<journal, state, artifacts, compose, access, snapshot, archive, data, service, ids, older>>
ComposeIs(a, p) ==
  /\ compose' = a[2] /\ Goes(p)
  /\ access'.policy = access.policy /\ access'.boot = access.boot /\ access'.unit = a[4]
  /\ UNCHANGED <<journal, state, artifacts, bin, snapshot, archive, data, service, ids, older>>
AccessIs(written, p) ==
  /\ access' = written /\ Goes(p)
  /\ UNCHANGED <<journal, state, artifacts, bin, compose, snapshot, archive, data, service, ids, older>>

\* The journal of a host where nothing was ever done is a journal.
LEMMA NoJournalIsOne == NoJournal \in Journals
  BY DEF NoJournal, Journals, Ops, Stages

\* A process that goes elsewhere takes its journal along, or ends.
LEMMA GoDoes ==
  ASSUME ITypeOK, NEW p, Go(p)
  PROVE  Goes(p) /\ Shaped
<1>1. run = [at |-> run.at, j |-> run.j] /\ run.j \in Journals
  BY DEF ITypeOK, Shaped
<1>2. CASE p = "idle"
  BY <1>1, <1>2, NoJournalIsOne DEF Go, Goes, NoProcess, Shaped
<1>3. CASE p # "idle"
  BY <1>1, <1>3 DEF Go, Goes, Shaped
<1> QED BY <1>2, <1>3

\* A step that fails changes no file.
LEMMA FailsDoes ==
  ASSUME ITypeOK, NEW p, Fails(p)
  PROVE  Goes(p) /\ Still /\ ITypeOK'
<1>1. Goes(p) /\ Shaped
  BY GoDoes DEF Fails
<1>2. Still /\ ops' = ops /\ faults' = faults + 1
  BY DEF Fails, Fault, Still, disk
<1> QED BY <1>1, <1>2 DEF ITypeOK, Shaped, Still

\* Journal.save: the stage is on disk and in memory, or in neither.
LEMMA SaveDoes ==
  ASSUME ITypeOK, NEW from, NEW s \in Stages, NEW ok, NEW bad,
         Save(from, s, ok, bad)
  PROVE  run.at = from /\ ITypeOK' /\ (Saved(s, ok) \/ Stuck(bad))
<1>1. CASE Fails(bad)
  BY <1>1, FailsDoes DEF Stuck, Save, Doing
<1>2. CASE ~Fails(bad)
  <2>1. /\ journal' = [run.j EXCEPT !.stage = s] /\ run.j \in Journals
        /\ run' = IF ok = "idle" THEN NoProcess ELSE [at |-> ok, j |-> [run.j EXCEPT !.stage = s]]
    BY <1>2 DEF Save, ITypeOK, Shaped
  <2>2. journal' \in Journals /\ Writes(s)
    BY <2>1 DEF Journals, Writes
  <2>3. Shaped /\ run'.at = ok /\ (ok # "idle" => run'.j = journal')
    BY <2>1, <2>2, NoJournalIsOne DEF NoProcess, Shaped
  <2>4. UNCHANGED <<state, artifacts, bin, compose, access, snapshot, archive, data, service, ids, ops, faults, older>>
    BY <1>2 DEF Save, Same
  <2>5. ITypeOK'
    BY <2>2, <2>3, <2>4 DEF ITypeOK, Shaped
  <2> QED BY <2>2, <2>3, <2>4, <2>5 DEF Save, Doing, Saved, Stuck
<1> QED BY <1>1, <1>2

\* The state file is replaced, or stays.
LEMMA SaveStateDoes ==
  ASSUME ITypeOK, NEW from, NEW st \in States \cup {Absent}, NEW ok, NEW bad,
         SaveState(from, st, ok, bad)
  PROVE  run.at = from /\ ITypeOK' /\ (StateSaved(st, ok) \/ Stuck(bad))
<1>1. CASE Fails(bad)
  BY <1>1, FailsDoes DEF Stuck, SaveState, Doing
<1>2. CASE ~Fails(bad)
  <2>1. Goes(ok) /\ Shaped
    BY <1>2, GoDoes DEF SaveState
  <2> QED BY <1>2, <2>1 DEF SaveState, Doing, Same, ITypeOK, Shaped, StateSaved, Stuck
<1> QED BY <1>1, <1>2

\* stopService: the service is gone, or as it was.
LEMMA StopDoes ==
  ASSUME ITypeOK, NEW from, NEW ok, NEW bad, Stop(from, ok, bad)
  PROVE  run.at = from /\ ITypeOK' /\ (Stopped(ok) \/ Stuck(bad))
<1>1. CASE Fails(bad)
  BY <1>1, FailsDoes DEF Stuck, Stop, Doing
<1>2. CASE ~Fails(bad)
  <2>1. Goes(ok) /\ Shaped
    BY <1>2, GoDoes DEF Stop
  <2> QED BY <1>2, <2>1 DEF Stop, Doing, Same, disk, ITypeOK, Shaped, Stopped, Stuck
<1> QED BY <1>1, <1>2

\* Waiting for health changes nothing.
LEMMA HealthDoes ==
  ASSUME ITypeOK, NEW from, NEW ok, NEW bad, Health(from, ok, bad)
  PROVE  run.at = from /\ ITypeOK' /\ (Stuck(ok) \/ Stuck(bad))
<1>1. CASE Fails(bad)
  BY <1>1, FailsDoes DEF Stuck, Health, Doing
<1>2. CASE ~Fails(bad)
  <2>1. Goes(ok) /\ Shaped
    BY <1>2, GoDoes DEF Health
  <2> QED BY <1>2, <2>1 DEF Health, Doing, Same, disk, ITypeOK, Shaped, Still, Stuck
<1> QED BY <1>1, <1>2

\* A start that finds data its build can read leaves the build on the data.
LEMMA StartDoes ==
  ASSUME ITypeOK, NEW from, NEW ok, NEW bad, Start(from, ok, bad)
  PROVE  run.at = from /\ ITypeOK' /\ (Started(ok) \/ Started(bad) \/ Stuck(bad))
<1>1. CASE Fails(bad)
  BY <1>1, FailsDoes DEF Stuck, Start, Doing
<1>2. CASE ~Fails(bad)
  <2>1. (Goes(ok) \/ Goes(bad)) /\ Shaped
    BY <1>2, GoDoes DEF Start
  <2>2. faults' \in Nat
    BY <1>2 DEF Start, Fault, ITypeOK, Shaped
  <2>3. /\ service' = compose /\ data' = (IF Contract(compose) > data THEN Contract(compose) ELSE data)
        /\ UNCHANGED <<journal, state, artifacts, bin, compose, access, snapshot, archive, ids, ops, older>>
    BY <1>2 DEF Start, Same
  <2>4. data' \in {1, 2}
    BY <2>3 DEF ITypeOK, Shaped, Contract
  <2> QED BY <2>1, <2>2, <2>3, <2>4 DEF Start, Doing, ITypeOK, Shaped, Started, Stuck
<1> QED BY <1>1, <1>2

\* deployArtifact, first half: the binary of a whole artifact, or nothing.
LEMMA DeployBinaryDoes ==
  ASSUME ITypeOK, NEW from, NEW a \in Artifacts, NEW ok, NEW bad,
         DeployBinary(from, a, ok, bad)
  PROVE  run.at = from /\ ITypeOK' /\ (BinaryIs(a[2], ok) \/ Stuck(bad))
<1>1. CASE Fails(bad)
  BY <1>1, FailsDoes DEF Stuck, DeployBinary, Doing
<1>2. CASE ~Fails(bad) /\ a \in artifacts /\ bin' = a[2] /\ Go(ok)
  <2>1. Goes(ok) /\ Shaped
    BY <1>2, GoDoes
  <2>2. UNCHANGED <<journal, state, artifacts, compose, access, snapshot, archive, data, service, ids, ops, faults, older>>
    BY <1>2 DEF DeployBinary, Same
  <2>3. a[2] \in Versions
    BY DEF Artifacts
  <2> QED BY <1>2, <2>1, <2>2, <2>3 DEF DeployBinary, Doing, ITypeOK, Shaped, BinaryIs, Stuck
<1>3. CASE ~Fails(bad) /\ a \notin artifacts
  <2>1. Goes(bad) /\ Shaped
    BY <1>3, GoDoes DEF DeployBinary
  <2> QED BY <1>3, <2>1 DEF DeployBinary, Doing, Same, disk, ITypeOK, Shaped, Still, BinaryIs, Stuck
<1> QED BY <1>1, <1>2, <1>3 DEF DeployBinary, BinaryIs, Stuck

\* deployArtifact, second half: Compose names the artifact, or nothing happened.
LEMMA DeployComposeDoes ==
  ASSUME ITypeOK, NEW from, NEW a \in Artifacts, NEW ok, NEW bad,
         DeployCompose(from, a, ok, bad)
  PROVE  run.at = from /\ ITypeOK' /\ (ComposeIs(a, ok) \/ Stuck(bad))
<1>1. CASE Fails(bad)
  BY <1>1, FailsDoes DEF Stuck, DeployCompose, Doing
<1>2. CASE ~Fails(bad)
  <2>1. Goes(ok) /\ Shaped
    BY <1>2, GoDoes DEF DeployCompose
  <2>2. a[2] \in Versions /\ a[4] \in Nat
    BY DEF Artifacts
  <2>3. access \in AccessFiles /\ access' = [access EXCEPT !.unit = a[4]] /\ compose' = a[2]
    BY <1>2 DEF DeployCompose, ITypeOK
  <2>4. access' \in AccessFiles /\ access'.policy = access.policy /\ access'.boot = access.boot /\ access'.unit = a[4]
    BY <2>2, <2>3 DEF AccessFiles
  <2>5. UNCHANGED <<journal, state, artifacts, bin, snapshot, archive, data, service, ids, ops, faults, older>>
    BY <1>2 DEF DeployCompose, Same
  <2>6. ITypeOK'
    BY <2>1, <2>2, <2>3, <2>4, <2>5 DEF ITypeOK, Shaped
  <2> QED BY <2>1, <2>3, <2>4, <2>5, <2>6 DEF DeployCompose, Doing, ComposeIs, Stuck
<1> QED BY <1>1, <1>2

\* The access files are written, or not.
LEMMA WriteAccessDoes ==
  ASSUME ITypeOK, NEW from, NEW written \in AccessFiles, NEW ok, NEW bad,
         WriteAccess(from, written, ok, bad)
  PROVE  run.at = from /\ ITypeOK' /\ (AccessIs(written, ok) \/ Stuck(bad))
<1>1. CASE Fails(bad)
  BY <1>1, FailsDoes DEF Stuck, WriteAccess, Doing
<1>2. CASE ~Fails(bad)
  <2>1. Goes(ok) /\ Shaped
    BY <1>2, GoDoes DEF WriteAccess
  <2>2. access' = written
    BY <1>2 DEF WriteAccess
  <2>3. UNCHANGED <<journal, state, artifacts, bin, compose, snapshot, archive, data, service, ids, ops, faults, older>>
    BY <1>2 DEF WriteAccess, Same
  <2>4. ITypeOK'
    BY <2>1, <2>2, <2>3 DEF ITypeOK, Shaped
  <2> QED BY <2>1, <2>2, <2>3, <2>4 DEF WriteAccess, Doing, AccessIs, Stuck
<1> QED BY <1>1, <1>2

\* What the two ways of writing them leave.
LEMMA AccessParts ==
  ASSUME access \in AccessFiles, NEW rev \in Nat \cup {Removed}
  PROVE  /\ WithPolicy(rev) \in AccessFiles /\ WithPolicy(rev).policy = rev
         /\ WithPolicy(rev).boot = access.boot /\ WithPolicy(rev).unit = access.unit
         /\ rev \in Nat => /\ WithBoot(rev) \in AccessFiles /\ WithBoot(rev).policy = access.policy
                           /\ WithBoot(rev).boot = rev /\ WithBoot(rev).unit = rev
  BY DEF WithPolicy, WithBoot, AccessFiles

(* Where the process is matters to one operation only. *)

SwapAll == SwapPlaces \cup {"u-prepared", "u-discard", "u-prune", "idle"}
\* At a place of an update, a rollback or a restore nothing is asked of the
\* other operations.
LEMMA SwapAlone ==
  ASSUME NEW p \in SwapAll
  PROVE  /\ AtRestart(p) /\ AtChange(p) /\ AtInstall(p) /\ AtRemoval(p)
         /\ AtRestart(p)' /\ AtChange(p)' /\ AtInstall(p)' /\ AtRemoval(p)'
<1>1. AtRestart(p) /\ AtRestart(p)'
  BY DEF SwapAll, SwapPlaces, AtRestart
<1>2. AtChange(p) /\ AtChange(p)'
  BY DEF SwapAll, SwapPlaces, AtChange, ChangeBase, ChangeDone, ChangePlaces
<1>3. AtInstall(p) /\ AtInstall(p)'
  BY DEF SwapAll, SwapPlaces, AtInstall, InstallPlaces
<1>4. AtRemoval(p) /\ AtRemoval(p)'
  BY DEF SwapAll, SwapPlaces, AtRemoval
<1> QED BY <1>1, <1>2, <1>3, <1>4

\* The files keep their invariant when no file changes.
LEMMA DiskStays == ASSUME OnDisk, Still PROVE OnDisk'
<1> USE DEF Still
<1>1. Settled' /\ BuildsKept' /\ Aging' /\ NeverOldOnNew'
  BY DEF OnDisk, Settled, BuildsKept, Aging, NeverOldOnNew, Whole, Has, Aged, Deployed, Accessed
<1>2. Swapping(journal)' = Swapping(journal)
  BY DEF Swapping, Whole, Has, Aged, Deployed, Accessed, Fits
<1>3. Changing(journal)' = Changing(journal)
  BY DEF Changing, Whole, Has, Aged, Deployed, Accessed, Fits
<1>4. Restarting' = Restarting /\ Installing(journal)' = Installing(journal)
  BY DEF Restarting, Installing, Has, Aged, Deployed, Accessed, Fits
<1>5. Interrupted'
  BY <1>2, <1>3, <1>4 DEF OnDisk, Interrupted
<1> QED BY <1>1, <1>5 DEF OnDisk

\* A process that only goes elsewhere.
LEMMA Moves ==
  ASSUME IInv, ITypeOK', NEW p, Stuck(p), Here(p)
  PROVE  IInv'
<1>a. Still /\ Goes(p)
  BY DEF Stuck
<1>1. OnDisk'
  BY <1>a, DiskStays DEF IInv
<1>2. CASE p = "idle"
  <2>1. run'.at = "idle" /\ "idle" \in SwapAll
    BY <1>a, <1>2 DEF Goes, SwapAll
  <2>2. AtSwap("idle")'
    BY DEF AtSwap, SwapBase, SwapDone, SwapPlaces
  <2> QED BY <1>1, <2>1, <2>2, SwapAlone DEF IInv, Here
<1>3. CASE p # "idle"
  <2>1. run'.at = p /\ run'.j = run.j
    BY <1>a, <1>3 DEF Goes
  <2>2. Swapping(run.j)' = Swapping(run.j) /\ Linked' = Linked /\ Closed(journal)' = Closed(journal)
    BY <1>a, <2>1 DEF Still, Swapping, Linked, Closed, Whole, Has, Aged, Deployed, Accessed, Fits
  <2>3. AtSwap(p)'
    BY <1>a, <2>1, <2>2 DEF Here, AtSwap, SwapBase, SwapDone, Still, Swaps, Fits
  <2>4. AtRestart(p)' /\ AtRemoval(p)'
    BY <1>a, <2>1, <2>2 DEF Here, AtRestart, AtRemoval, Still
  <2>5. AtChange(p)'
    BY <1>a, <2>1, <2>2 DEF Here, AtChange, ChangeBase, ChangeDone, Still, Changes, Whole, Has, Aged, Deployed, Accessed
  <2>6. AtInstall(p)'
    BY <1>a, <2>1, <2>2 DEF Here, AtInstall, Still, Installing, Fits, Accessed
  <2> QED BY <1>1, <2>1, <2>3, <2>4, <2>5, <2>6 DEF IInv, Here
<1> QED BY <1>2, <1>3

(* ---- updates, rollbacks, their recovery and the restore of a backup ---- *)

\* The process goes to another place of the operation.
LEMMA SwapMoves ==
  ASSUME IInv, ITypeOK', NEW p \in SwapAll, Stuck(p), SwapBase(p), SwapDone(p) PROVE IInv'
  BY Moves, SwapAlone DEF Here, AtSwap

Late == SwapPlaces \ {"u-mark", "u-swap", "r-abort", "r-begin"}

\* The journal is written with a further stage.
LEMMA SwapSaves ==
  ASSUME IInv, ITypeOK', run.at \in SwapPlaces, run.j.stage # "prepared" \/ run.j.changed,
         NEW s \in {"swap-pending", "started", "recovery-required", "restore-required"},
         NEW p \in Late \cup {"idle"}, Saved(s, p), SwapDone(p)
  PROVE  IInv'
<1>0. OnDisk /\ SwapBase(run.at) /\ p \in SwapAll /\ ITypeOK
  BY DEF IInv, Here, AtSwap, Late, SwapAll
<1>1. Linked /\ ~Closed(journal) /\ Swaps(run.j) /\ Swapping(run.j) /\ run.j.stage # "new"
  BY <1>0 DEF SwapBase
<1>2. /\ Writes(s) /\ run'.at = p /\ (p # "idle" => run'.j = journal')
      /\ UNCHANGED <<state, artifacts, bin, compose, access, snapshot, archive, data, service, ids, older>>
  BY DEF Saved
<1>3. Swapping(journal)' /\ ~Closed(journal)' /\ Swaps(journal)' /\ ~(journal'.stage \in {"new", "prepared"})
  BY <1>1, <1>2 DEF Swapping, Closed, Swaps, Has, Aged, Accessed, Fits, Writes
<1>4. OnDisk'
  BY <1>0, <1>1, <1>2, <1>3
     DEF OnDisk, Settled, BuildsKept, Aging, NeverOldOnNew, Interrupted, Has, Aged, Swaps, Changes, Linked, Writes
<1>5. SwapBase(p)'
  BY <1>2, <1>3 DEF SwapBase, Linked, Late, SwapPlaces
<1>6. SwapDone(p)'
  BY <1>2 DEF SwapDone, Writes, Fits, SwapPlaces, Late
<1> QED BY <1>0, <1>2, <1>4, <1>5, <1>6, SwapAlone DEF IInv, Here, AtSwap

\* The journal is closed on an installation in one piece.
LEMMA SwapCloses ==
  ASSUME IInv, ITypeOK', run.at \in SwapPlaces, Whole(state),
         NEW s \in {"complete", "rolled-back", "aborted"}, NEW p \in {"idle", "u-prune"}, Saved(s, p),
         p = "u-prune" => state.cur = run.j.cand /\ state.prev = run.j.prev
  PROVE  IInv'
<1>0. OnDisk /\ SwapBase(run.at) /\ p \in SwapAll /\ ITypeOK
  BY DEF IInv, Here, AtSwap, SwapAll
<1>1. Linked /\ Swaps(run.j)
  BY <1>0 DEF SwapBase
<1>2. /\ Writes(s) /\ run'.at = p /\ (p # "idle" => run'.j = journal')
      /\ UNCHANGED <<state, artifacts, bin, compose, access, snapshot, archive, data, service, ids, older>>
  BY DEF Saved
<1>3. Closed(journal)' /\ Swaps(journal)' /\ Whole(state)'
  BY <1>1, <1>2 DEF Closed, Swaps, Writes, Whole, Has, Aged, Accessed, Deployed
<1>4. OnDisk'
  BY <1>0, <1>2, <1>3 DEF OnDisk, Settled, BuildsKept, Aging, NeverOldOnNew, Interrupted, Whole, Writes, Closed
<1>5. SwapBase(p)' /\ SwapDone(p)'
  BY <1>2, <1>3 DEF SwapBase, SwapDone, Linked, SwapPlaces, Writes
<1> QED BY <1>0, <1>2, <1>4, <1>5, SwapAlone DEF IInv, Here, AtSwap

\* Something else is changed: the state file, the service, a build, the data.
LEMMA SwapWorks ==
  ASSUME IInv, ITypeOK', run.at \in Late, NEW p \in Late \cup {"r-begin"}, run'.at = p, run'.j = run.j,
         UNCHANGED <<journal, artifacts, archive, ids, older>>,
         access'.policy = access.policy, access'.boot = access.boot,
         state' = state \/ (Has(state') /\ Aged(state')),
         NeverOldOnNew', Fits(run.j.cand[2])', Compatible(run.j.prev, run.j.cand) => Fits(run.j.prev[2])',
         SwapDone(p)'
  PROVE  IInv'
<1>0. OnDisk /\ SwapBase(run.at) /\ p \in SwapAll /\ ITypeOK /\ p \in SwapPlaces
  BY DEF IInv, Here, AtSwap, SwapAll, Late, SwapPlaces
<1>1. Linked /\ ~Closed(journal) /\ Swaps(run.j) /\ Swapping(run.j) /\ run.j.stage \notin {"new", "prepared"}
  BY <1>0 DEF SwapBase, Late
<1>2. Swapping(run.j)' /\ Linked'
  BY <1>1 DEF Swapping, Has, Aged, Accessed, Linked
<1>3. Swapping(journal)'
  BY <1>0, <1>1, <1>2 DEF OnDisk, Interrupted, Swapping, Linked, Has, Aged, Accessed, Swaps
<1>4. BuildsKept' /\ Aging'
  BY <1>0 DEF OnDisk, BuildsKept, Aging, Has, Aged
<1>5. OnDisk'
  BY <1>0, <1>1, <1>3, <1>4 DEF OnDisk, Settled, Interrupted, Swaps, Changes, Linked, Closed
<1>6. SwapBase(p)'
  BY <1>0, <1>1, <1>2 DEF SwapBase, Closed, Swaps, Linked, Late, SwapPlaces
<1> QED BY <1>0, <1>5, <1>6, SwapAlone DEF IInv, Here, AtSwap

\* The update proper.
LEMMA UpdateKeeps == ASSUME IInv, Update PROVE IInv'
<1>t. ITypeOK /\ OnDisk /\ SwapBase(run.at) /\ SwapDone(run.at)
  BY DEF IInv, Here, AtSwap
<1>s. {"prepared", "swap-pending", "started", "recovery-required", "restore-required", "complete", "rolled-back",
       "aborted"} \subseteq Stages
  BY DEF Stages
<1>v. Versions \subseteq Int /\ FirstNew \in Int
  BY VersionsAssumption
<1>1. CASE Save("u-prepared", "prepared", "u-mark", "u-discard")
  <2>1. run.at = "u-prepared" /\ ITypeOK' /\ (Saved("prepared", "u-mark") \/ Stuck("u-discard"))
    BY <1>t, <1>1, <1>s, SaveDoes
  <2>2. ASSUME Stuck("u-discard") PROVE IInv'
    <3>1. SwapBase("u-discard") /\ SwapDone("u-discard")
      BY <1>t, <2>1 DEF SwapBase, SwapDone, SwapPlaces
    <3> QED BY <2>1, <2>2, <3>1, SwapMoves DEF SwapAll
  <2>3. ASSUME Saved("prepared", "u-mark") PROVE IInv'
    <3>1. Closed(journal) /\ Swaps(run.j) /\ run.j.stage = "new" /\ Swapping(run.j)
      BY <1>t, <2>1 DEF SwapBase
    <3>2. /\ Writes("prepared") /\ run'.at = "u-mark" /\ run'.j = journal'
          /\ UNCHANGED <<state, artifacts, bin, compose, access, snapshot, archive, data, service, ids, older>>
      BY <2>3 DEF Saved
    <3>3. Swapping(journal)' /\ ~Closed(journal)' /\ Swaps(journal)'
      BY <3>1, <3>2 DEF Swapping, Closed, Swaps, Writes, Whole, Has, Aged, Deployed, Accessed, Fits
    <3>4. Has(state) /\ Aged(state)
      BY <3>1 DEF Swapping, Whole
    <3>5. OnDisk'
      BY <1>t, <3>2, <3>3, <3>4
         DEF OnDisk, Settled, BuildsKept, Aging, NeverOldOnNew, Interrupted, Has, Aged, Swaps, Changes, Writes
    <3>6. SwapBase("u-mark")' /\ SwapDone("u-mark")'
      BY <3>2, <3>3 DEF SwapBase, SwapDone, SwapPlaces, Linked, Writes
    <3> QED BY <2>1, <3>2, <3>5, <3>6, SwapAlone DEF IInv, Here, AtSwap, SwapAll, SwapPlaces
  <2> QED BY <2>1, <2>2, <2>3
<1>2. CASE Save("u-mark", "aborted", "idle", "idle")
  <2>1. run.at = "u-mark" /\ ITypeOK' /\ (Saved("aborted", "idle") \/ Stuck("idle"))
    BY <1>t, <1>2, <1>s, SaveDoes
  <2>2. SwapBase("idle") /\ SwapDone("idle")
    BY <1>t, <2>1 DEF SwapBase, SwapDone, SwapPlaces
  <2>3. Whole(state)
    BY <1>t, <2>1 DEF SwapBase, SwapDone, SwapPlaces, Swapping, Whole, Has, Aged, Deployed, Accessed, States, Recoveries
  <2> QED BY <2>1, <2>2, <2>3, SwapCloses, SwapMoves DEF SwapAll, SwapPlaces
<1>3. CASE Save("u-swap", "swap-pending", "u-stop", "idle")
  <2>1. run.at = "u-swap" /\ ITypeOK' /\ (Saved("swap-pending", "u-stop") \/ Stuck("idle"))
    BY <1>t, <1>3, <1>s, SaveDoes
  <2>2. run.j.stage # "prepared" \/ run.j.changed
    BY <1>t, <2>1 DEF SwapBase, SwapPlaces
  <2>3. SwapDone("u-stop") /\ SwapBase("idle") /\ SwapDone("idle")
    BY <1>t, <2>1 DEF SwapBase, SwapDone, SwapPlaces
  <2> QED BY <2>1, <2>2, <2>3, SwapSaves, SwapMoves DEF SwapAll, Late, SwapPlaces
<1>4. CASE Stop("u-stop", "u-bin", "r-begin")
  <2>1. run.at = "u-stop" /\ ITypeOK' /\ (Stopped("u-bin") \/ Stuck("r-begin"))
    BY <1>t, <1>4, StopDoes
  <2>2. ASSUME Stuck("r-begin") PROVE IInv'
    <3>1. SwapBase("r-begin") /\ SwapDone("r-begin")
      BY <1>t, <2>1 DEF SwapBase, SwapDone, SwapPlaces
    <3> QED BY <2>1, <2>2, <3>1, SwapMoves DEF SwapAll, SwapPlaces
  <2>3. ASSUME Stopped("u-bin") PROVE IInv'
    <3>1. run'.at = "u-bin" /\ run'.j = run.j
      BY <2>3 DEF Stopped, Goes
    <3>2. Swapping(run.j)
      BY <1>t, <2>1 DEF SwapBase, SwapPlaces
    <3>3. NeverOldOnNew' /\ Fits(run.j.cand[2])' /\ (Compatible(run.j.prev, run.j.cand) => Fits(run.j.prev[2])')
      BY <1>t, <1>v, <2>1, <2>3, <3>1, <3>2 DEF Stopped, ITypeOK, OnDisk, NeverOldOnNew, Fits, Swapping, SwapDone, Contract, Compatible, Artifacts
    <3>4. SwapDone("u-bin")'
      BY <1>t, <2>1, <2>3, <3>1, <3>2 DEF Stopped, SwapDone, Fits, Swapping
    <3> QED BY <2>1, <2>3, <3>1, <3>3, <3>4, SwapWorks DEF Stopped, Late, SwapPlaces
  <2> QED BY <2>1, <2>2, <2>3
<1>5. CASE DeployBinary("u-bin", run.j.cand, "u-compose", "r-begin")
  <2>0. run.j.cand \in Artifacts
    BY <1>t, <1>5 DEF SwapBase, Swapping, SwapPlaces, DeployBinary, Doing
  <2>1. run.at = "u-bin" /\ ITypeOK' /\ (BinaryIs(run.j.cand[2], "u-compose") \/ Stuck("r-begin"))
    BY <1>t, <1>5, <2>0, DeployBinaryDoes
  <2>2. ASSUME Stuck("r-begin") PROVE IInv'
    <3>1. SwapBase("r-begin") /\ SwapDone("r-begin")
      BY <1>t, <2>1 DEF SwapBase, SwapDone, SwapPlaces
    <3> QED BY <2>1, <2>2, <3>1, SwapMoves DEF SwapAll, SwapPlaces
  <2>3. ASSUME BinaryIs(run.j.cand[2], "u-compose") PROVE IInv'
    <3>1. run'.at = "u-compose" /\ run'.j = run.j
      BY <2>3 DEF BinaryIs, Goes
    <3>2. Swapping(run.j)
      BY <1>t, <2>1 DEF SwapBase, SwapPlaces
    <3>3. NeverOldOnNew' /\ Fits(run.j.cand[2])' /\ (Compatible(run.j.prev, run.j.cand) => Fits(run.j.prev[2])')
      BY <1>t, <1>v, <2>1, <2>3, <3>1, <3>2 DEF BinaryIs, ITypeOK, OnDisk, NeverOldOnNew, Fits, Swapping, SwapDone, Contract, Compatible, Artifacts
    <3>4. SwapDone("u-compose")'
      BY <1>t, <2>1, <2>3, <3>1, <3>2 DEF BinaryIs, SwapDone, Fits, Swapping
    <3> QED BY <2>1, <2>3, <3>1, <3>3, <3>4, SwapWorks DEF BinaryIs, Late, SwapPlaces
  <2> QED BY <2>1, <2>2, <2>3
<1>6. CASE DeployCompose("u-compose", run.j.cand, "u-started", "r-begin")
  <2>0. run.j.cand \in Artifacts
    BY <1>t, <1>6 DEF SwapBase, Swapping, SwapPlaces, DeployCompose, Doing
  <2>1. run.at = "u-compose" /\ ITypeOK' /\ (ComposeIs(run.j.cand, "u-started") \/ Stuck("r-begin"))
    BY <1>t, <1>6, <2>0, DeployComposeDoes
  <2>2. ASSUME Stuck("r-begin") PROVE IInv'
    <3>1. SwapBase("r-begin") /\ SwapDone("r-begin")
      BY <1>t, <2>1 DEF SwapBase, SwapDone, SwapPlaces
    <3> QED BY <2>1, <2>2, <3>1, SwapMoves DEF SwapAll, SwapPlaces
  <2>3. ASSUME ComposeIs(run.j.cand, "u-started") PROVE IInv'
    <3>1. run'.at = "u-started" /\ run'.j = run.j
      BY <2>3 DEF ComposeIs, Goes
    <3>2. Swapping(run.j)
      BY <1>t, <2>1 DEF SwapBase, SwapPlaces
    <3>3. NeverOldOnNew' /\ Fits(run.j.cand[2])' /\ (Compatible(run.j.prev, run.j.cand) => Fits(run.j.prev[2])')
      BY <1>t, <1>v, <2>1, <2>3, <3>1, <3>2 DEF ComposeIs, ITypeOK, OnDisk, NeverOldOnNew, Fits, Swapping, SwapDone, Contract, Compatible, Artifacts
    <3>4. SwapDone("u-started")'
      BY <1>t, <2>1, <2>3, <3>1, <3>2 DEF ComposeIs, SwapDone, Fits, Swapping
    <3> QED BY <2>1, <2>3, <3>1, <3>3, <3>4, SwapWorks DEF ComposeIs, Late, SwapPlaces
  <2> QED BY <2>1, <2>2, <2>3
<1>7. CASE Save("u-started", "started", "u-start", "r-begin")
  <2>1. run.at = "u-started" /\ ITypeOK' /\ (Saved("started", "u-start") \/ Stuck("r-begin"))
    BY <1>t, <1>7, <1>s, SaveDoes
  <2>2. run.j.stage # "prepared" \/ run.j.changed
    BY <1>t, <2>1 DEF SwapBase, SwapPlaces
  <2>3. SwapDone("u-start") /\ SwapBase("r-begin") /\ SwapDone("r-begin")
    BY <1>t, <2>1 DEF SwapBase, SwapDone, SwapPlaces
  <2> QED BY <2>1, <2>2, <2>3, SwapSaves, SwapMoves DEF SwapAll, Late, SwapPlaces
<1>8. CASE Start("u-start", "u-health", "r-begin")
  <2>1. run.at = "u-start" /\ ITypeOK' /\ (Started("u-health") \/ Started("r-begin") \/ Stuck("r-begin"))
    BY <1>t, <1>8, StartDoes
  <2>2. ASSUME Stuck("r-begin") PROVE IInv'
    <3>1. SwapBase("r-begin") /\ SwapDone("r-begin")
      BY <1>t, <2>1 DEF SwapBase, SwapDone, SwapPlaces
    <3> QED BY <2>1, <2>2, <3>1, SwapMoves DEF SwapAll, SwapPlaces
  <2>3. ASSUME NEW p \in {"u-health", "r-begin"}, Started(p) PROVE IInv'
    <3>1. run'.at = p /\ run'.j = run.j
      BY <2>3 DEF Started, Goes
    <3>2. Swapping(run.j)
      BY <1>t, <2>1 DEF SwapBase, SwapPlaces
    <3>3. NeverOldOnNew' /\ Fits(run.j.cand[2])' /\ (Compatible(run.j.prev, run.j.cand) => Fits(run.j.prev[2])')
      BY <1>t, <1>v, <2>1, <2>3, <3>1, <3>2 DEF Started, ITypeOK, OnDisk, NeverOldOnNew, Fits, Swapping, SwapDone, Contract, Compatible, Artifacts
    <3>4. SwapDone(p)'
      BY <1>t, <2>1, <2>3, <3>1, <3>2 DEF Started, SwapDone, Fits, Swapping
    <3> QED BY <2>1, <2>3, <3>1, <3>3, <3>4, SwapWorks DEF Started, Late, SwapPlaces
  <2> QED BY <2>1, <2>2, <2>3
<1>9. CASE Health("u-health", "u-state", "r-begin")
  <2>1. run.at = "u-health" /\ ITypeOK' /\ (Stuck("u-state") \/ Stuck("r-begin"))
    BY <1>t, <1>9, HealthDoes
  <2>2. SwapBase("u-state") /\ SwapDone("u-state") /\ SwapBase("r-begin") /\ SwapDone("r-begin")
    BY <1>t, <2>1 DEF SwapBase, SwapDone, SwapPlaces
  <2> QED BY <2>1, <2>2, SwapMoves DEF SwapAll, SwapPlaces
<1>10. CASE SaveState("u-state", run.j.after, "u-brokers", "r-begin")
  <2>0. run.j.after \in States \cup {Absent}
    BY <1>t, <1>10 DEF SwapBase, Swapping, SwapPlaces, SaveState, Doing, States, Recoveries
  <2>1. run.at = "u-state" /\ ITypeOK' /\ (StateSaved(run.j.after, "u-brokers") \/ Stuck("r-begin"))
    BY <1>t, <1>10, <2>0, SaveStateDoes
  <2>2. ASSUME Stuck("r-begin") PROVE IInv'
    <3>1. SwapBase("r-begin") /\ SwapDone("r-begin")
      BY <1>t, <2>1 DEF SwapBase, SwapDone, SwapPlaces
    <3> QED BY <2>1, <2>2, <3>1, SwapMoves DEF SwapAll, SwapPlaces
  <2>3. ASSUME StateSaved(run.j.after, "u-brokers") PROVE IInv'
    <3>1. run'.at = "u-brokers" /\ run'.j = run.j
      BY <2>3 DEF StateSaved, Goes
    <3>2. Swapping(run.j)
      BY <1>t, <2>1 DEF SwapBase, SwapPlaces
    <3>3. NeverOldOnNew' /\ Fits(run.j.cand[2])' /\ (Compatible(run.j.prev, run.j.cand) => Fits(run.j.prev[2])')
      BY <1>t, <1>v, <2>1, <2>3, <3>1, <3>2 DEF StateSaved, ITypeOK, OnDisk, NeverOldOnNew, Fits, Swapping, SwapDone, Contract, Compatible, Artifacts
    <3>4. SwapDone("u-brokers")'
      BY <1>t, <2>1, <2>3, <3>1, <3>2 DEF StateSaved, SwapDone, Fits, Swapping
    <3>5. Has(state') /\ Aged(state')
      BY <2>3, <3>2 DEF StateSaved, Swapping, Has, Aged, States
    <3> QED BY <2>1, <2>3, <3>1, <3>3, <3>4, <3>5, SwapWorks DEF StateSaved, Late, SwapPlaces
  <2> QED BY <2>1, <2>2, <2>3
<1>11. CASE Health("u-brokers", "u-complete", "r-begin")
  <2>1. run.at = "u-brokers" /\ ITypeOK' /\ (Stuck("u-complete") \/ Stuck("r-begin"))
    BY <1>t, <1>11, HealthDoes
  <2>2. SwapBase("u-complete") /\ SwapDone("u-complete") /\ SwapBase("r-begin") /\ SwapDone("r-begin")
    BY <1>t, <2>1 DEF SwapBase, SwapDone, SwapPlaces
  <2> QED BY <2>1, <2>2, SwapMoves DEF SwapAll, SwapPlaces
<1>12. CASE Save("u-complete", "complete", "u-prune", "r-begin")
  <2>1. run.at = "u-complete" /\ ITypeOK' /\ (Saved("complete", "u-prune") \/ Stuck("r-begin"))
    BY <1>t, <1>12, <1>s, SaveDoes
  <2>2. SwapBase("r-begin") /\ SwapDone("r-begin")
    BY <1>t, <2>1 DEF SwapBase, SwapDone, SwapPlaces
  <2>3. Whole(state) /\ state.cur = run.j.cand /\ state.prev = run.j.prev
    BY <1>t, <2>1 DEF SwapBase, SwapDone, SwapPlaces, Swapping, Whole, Has, Aged, Deployed, Accessed, States, Recoveries
  <2> QED BY <2>1, <2>2, <2>3, SwapCloses, SwapMoves DEF SwapAll, SwapPlaces
<1>13. CASE DiscardArtifacts
  <2>1. /\ run.at = "u-discard" /\ artifacts' \subseteq artifacts /\ run'.at = "idle"
        /\ \A a \in artifacts : a \in artifacts' \/ a = run.j.prev \/ (run.j.op = "update" /\ a = run.j.cand)
        /\ UNCHANGED <<journal, state, bin, compose, access, snapshot, archive, data, service, ids, ops, faults, older>>
    BY <1>13 DEF DiscardArtifacts, Doing, Go, NoProcess, Same
  <2>2. ITypeOK'
    BY <1>t, <1>13, <2>1, GoDoes DEF DiscardArtifacts, ITypeOK, Shaped
  <2>3. Closed(journal) /\ Whole(state)
    BY <1>t, <2>1 DEF SwapBase, Swapping
  <2>4. Has(state)'
    BY <1>t, <2>1, <2>3 DEF Whole, Has, SwapBase
  <2>5. Whole(state)'
    BY <2>1, <2>3, <2>4 DEF Whole, Aged, Deployed, Accessed
  <2>6. OnDisk'
    BY <1>t, <2>1, <2>3, <2>4, <2>5 DEF OnDisk, Settled, BuildsKept, Aging, NeverOldOnNew, Interrupted, Closed, Whole
  <2>7. SwapBase("idle")' /\ SwapDone("idle")'
    BY DEF SwapBase, SwapDone, SwapPlaces
  <2> QED BY <2>1, <2>2, <2>6, <2>7, SwapAlone DEF IInv, Here, AtSwap, SwapAll
<1>14. CASE MarkChanged
  <2>1. /\ run.at = "u-mark" /\ run' = [at |-> "u-swap", j |-> [run.j EXCEPT !.changed = TRUE]]
        /\ Still /\ UNCHANGED <<ops, faults>> /\ run.j \in Journals
    BY <1>t, <1>14 DEF MarkChanged, Doing, Still, disk, ITypeOK
  <2>2. /\ run'.at = "u-swap" /\ run'.j \in Journals /\ run'.j.changed
        /\ run'.j.op = run.j.op /\ run'.j.stage = run.j.stage /\ run'.j.before = run.j.before
        /\ run'.j.after = run.j.after /\ run'.j.prev = run.j.prev /\ run'.j.cand = run.j.cand
        /\ run'.j.need = run.j.need
    BY <2>1 DEF Journals
  <2>3. ITypeOK' /\ OnDisk'
    BY <1>t, <2>1, <2>2, DiskStays DEF ITypeOK, Still
  <2>4. SwapBase("u-swap")'
    <3>1. Linked /\ ~Closed(journal) /\ Swaps(run.j) /\ Swapping(run.j) /\ run.j.stage = "prepared"
      BY <1>t, <2>1 DEF SwapBase, SwapPlaces
    <3>2. Whole(state)'
      BY <2>1, <3>1 DEF Swapping, Still, Whole, Has, Aged, Deployed, Accessed
    <3>s. Still
      BY <2>1
    <3>3. Swapping(run.j)'
      BY <2>2, <3>1, <3>2, <3>s DEF Swapping, Still, Has, Aged, Accessed, Fits
    <3> QED BY <2>1, <2>2, <3>1, <3>3 DEF SwapBase, SwapPlaces, Linked, Closed, Swaps, Still
  <2>5. SwapDone("u-swap")'
    BY DEF SwapDone
  <2> QED BY <2>2, <2>3, <2>4, <2>5, SwapAlone DEF IInv, Here, AtSwap, SwapAll, SwapPlaces
<1>15. CASE Prune
  <2>1. /\ run.at = "u-prune" /\ artifacts' \subseteq artifacts /\ run'.at = "idle"
        /\ \A a \in artifacts : a \in {run.j.prev, run.j.cand} => a \in artifacts'
        /\ UNCHANGED <<journal, state, bin, compose, access, snapshot, archive, data, service, ids, ops, faults, older>>
    BY <1>15 DEF Prune, Doing, Go, NoProcess, Same
  <2>2. ITypeOK'
    BY <1>t, <1>15, <2>1, GoDoes DEF Prune, ITypeOK, Shaped
  <2>3. Closed(journal) /\ state.cur = run.j.cand /\ state.prev = run.j.prev /\ (state # Absent => Whole(state))
    BY <1>t, <2>1 DEF SwapBase, OnDisk, Settled
  <2>4. state # Absent => Has(state)'
    BY <2>1, <2>3 DEF Whole, Has
  <2>5. state # Absent => Whole(state)'
    BY <2>1, <2>3, <2>4 DEF Whole, Aged, Deployed, Accessed
  <2>6. OnDisk'
    BY <1>t, <2>1, <2>3, <2>4, <2>5 DEF OnDisk, Settled, BuildsKept, Aging, NeverOldOnNew, Interrupted, Closed, Whole
  <2>7. SwapBase("idle")' /\ SwapDone("idle")'
    BY DEF SwapBase, SwapDone, SwapPlaces
  <2> QED BY <2>1, <2>2, <2>6, <2>7, SwapAlone DEF IInv, Here, AtSwap, SwapAll
<1> QED BY <1>1, <1>2, <1>3, <1>4, <1>5, <1>6, <1>7, <1>8, <1>9, <1>10, <1>11, <1>12, <1>13, <1>14, <1>15 DEF Update

\* Its recovery.
LEMMA RecoverTransactionKeeps == ASSUME IInv, RecoverTransaction PROVE IInv'
<1>t. ITypeOK /\ OnDisk /\ SwapBase(run.at) /\ SwapDone(run.at)
  BY DEF IInv, Here, AtSwap
<1>s. {"prepared", "swap-pending", "started", "recovery-required", "restore-required", "complete", "rolled-back",
       "aborted"} \subseteq Stages
  BY DEF Stages
<1>v. Versions \subseteq Int /\ FirstNew \in Int
  BY VersionsAssumption
<1>1. CASE RecoverBegins
  <2>1. PICK p \in {"r-abort", "r-stop"} : Go(p) /\ (p = "r-abort" <=> run.j.stage = "prepared")
    BY <1>1 DEF RecoverBegins
  <2>2. run.at = "r-begin" /\ Stuck(p) /\ ITypeOK'
    BY <1>t, <1>1, <2>1, GoDoes DEF RecoverBegins, Doing, Stuck, Still, Same, disk, ITypeOK, Shaped
  <2>3. SwapBase(p) /\ SwapDone(p)
    BY <1>t, <2>1, <2>2 DEF SwapBase, SwapDone, SwapPlaces
  <2> QED BY <2>2, <2>3, SwapMoves DEF SwapAll, SwapPlaces
<1>2. CASE RecoverDecides
  <2>0. run.at = "r-data" /\ Still /\ UNCHANGED <<ops, faults>>
    BY <1>2 DEF RecoverDecides, Doing, Still, disk, Same
  <2>1. /\ Linked /\ ~Closed(journal) /\ Swaps(run.j) /\ Swapping(run.j)
        /\ run.j.stage \notin {"new", "prepared"} /\ run.j.changed /\ service = Absent
    BY <1>t, <2>0 DEF SwapBase, SwapDone, SwapPlaces, Swapping
  <2>2. CASE ~NeedsRestore
    <3>1. Stuck("r-bin") /\ ITypeOK'
      BY <1>t, <1>2, <2>0, <2>2, GoDoes DEF RecoverDecides, Stuck, Still, ITypeOK, Shaped
    <3>2. SwapBase("r-bin") /\ SwapDone("r-bin")
      BY <1>t, <2>0, <2>1, <2>2 DEF NeedsRestore, SwapBase, SwapDone, SwapPlaces
    <3> QED BY <3>1, <3>2, SwapMoves DEF SwapAll, SwapPlaces
  <2>3. CASE NeedsRestore
    <3>1. run' = [at |-> "r-needs", j |-> [run.j EXCEPT !.need = TRUE]] /\ run.j \in Journals
      BY <1>t, <1>2, <2>3 DEF RecoverDecides, ITypeOK
    <3>2. /\ run'.at = "r-needs" /\ run'.j \in Journals /\ run'.j.need
          /\ run'.j.op = run.j.op /\ run'.j.stage = run.j.stage /\ run'.j.before = run.j.before
          /\ run'.j.after = run.j.after /\ run'.j.prev = run.j.prev /\ run'.j.cand = run.j.cand
          /\ run'.j.changed = run.j.changed
      BY <3>1 DEF Journals
    <3>3. run' = [at |-> run'.at, j |-> run'.j]
      BY <3>1
    <3>4. ITypeOK' /\ OnDisk'
      BY <1>t, <2>0, <3>2, <3>3, DiskStays DEF ITypeOK, Still
    <3>5. ~Compatible(run.j.prev, run.j.cand)
      BY <2>3 DEF NeedsRestore
    <3>6. Swapping(run.j)'
      BY <2>0, <2>1, <3>2, <3>5 DEF Swapping, Still, Has, Aged, Accessed, Fits
    <3>7. SwapBase("r-needs")' /\ SwapDone("r-needs")'
      BY <2>0, <2>1, <3>2, <3>5, <3>6 DEF SwapBase, SwapDone, SwapPlaces, Linked, Closed, Swaps, Still
    <3> QED BY <3>2, <3>4, <3>7, SwapAlone DEF IInv, Here, AtSwap, SwapAll, SwapPlaces
  <2> QED BY <2>2, <2>3
<1>3. CASE Save("r-abort", "aborted", "idle", "idle")
  <2>1. run.at = "r-abort" /\ ITypeOK' /\ (Saved("aborted", "idle") \/ Stuck("idle"))
    BY <1>t, <1>3, <1>s, SaveDoes
  <2>2. SwapBase("idle") /\ SwapDone("idle")
    BY <1>t, <2>1 DEF SwapBase, SwapDone, SwapPlaces
  <2>3. Whole(state)
    BY <1>t, <2>1 DEF SwapBase, SwapDone, SwapPlaces, Swapping, Whole, Has, Aged, Deployed, Accessed, States, Recoveries
  <2> QED BY <2>1, <2>2, <2>3, SwapCloses, SwapMoves DEF SwapAll, SwapPlaces
<1>4. CASE Stop("r-stop", "r-data", "r-fail-after")
  <2>1. run.at = "r-stop" /\ ITypeOK' /\ (Stopped("r-data") \/ Stuck("r-fail-after"))
    BY <1>t, <1>4, StopDoes
  <2>2. ASSUME Stuck("r-fail-after") PROVE IInv'
    <3>1. SwapBase("r-fail-after") /\ SwapDone("r-fail-after")
      BY <1>t, <2>1 DEF SwapBase, SwapDone, SwapPlaces
    <3> QED BY <2>1, <2>2, <3>1, SwapMoves DEF SwapAll, SwapPlaces
  <2>3. ASSUME Stopped("r-data") PROVE IInv'
    <3>1. run'.at = "r-data" /\ run'.j = run.j
      BY <2>3 DEF Stopped, Goes
    <3>2. Swapping(run.j)
      BY <1>t, <2>1 DEF SwapBase, SwapPlaces
    <3>3. NeverOldOnNew' /\ Fits(run.j.cand[2])' /\ (Compatible(run.j.prev, run.j.cand) => Fits(run.j.prev[2])')
      BY <1>t, <1>v, <2>1, <2>3, <3>1, <3>2 DEF Stopped, ITypeOK, OnDisk, NeverOldOnNew, Fits, Swapping, SwapDone, Contract, Compatible, Artifacts
    <3>4. SwapDone("r-data")'
      BY <1>t, <2>1, <2>3, <3>1, <3>2 DEF Stopped, SwapDone, Fits, Swapping
    <3> QED BY <2>1, <2>3, <3>1, <3>3, <3>4, SwapWorks DEF Stopped, Late, SwapPlaces
  <2> QED BY <2>1, <2>2, <2>3
<1>5. CASE SaveState("r-needs", [run.j.before EXCEPT !.recovery = "restore-required"], "r-restore", "r-fail-after")
  <2>0. [run.j.before EXCEPT !.recovery = "restore-required"] \in States \cup {Absent}
    BY <1>t, <1>5 DEF SwapBase, Swapping, SwapPlaces, SaveState, Doing, States, Recoveries
  <2>1. run.at = "r-needs" /\ ITypeOK' /\ (StateSaved([run.j.before EXCEPT !.recovery = "restore-required"], "r-restore") \/ Stuck("r-fail-after"))
    BY <1>t, <1>5, <2>0, SaveStateDoes
  <2>2. ASSUME Stuck("r-fail-after") PROVE IInv'
    <3>1. SwapBase("r-fail-after") /\ SwapDone("r-fail-after")
      BY <1>t, <2>1 DEF SwapBase, SwapDone, SwapPlaces
    <3> QED BY <2>1, <2>2, <3>1, SwapMoves DEF SwapAll, SwapPlaces
  <2>3. ASSUME StateSaved([run.j.before EXCEPT !.recovery = "restore-required"], "r-restore") PROVE IInv'
    <3>1. run'.at = "r-restore" /\ run'.j = run.j
      BY <2>3 DEF StateSaved, Goes
    <3>2. Swapping(run.j)
      BY <1>t, <2>1 DEF SwapBase, SwapPlaces
    <3>3. NeverOldOnNew' /\ Fits(run.j.cand[2])' /\ (Compatible(run.j.prev, run.j.cand) => Fits(run.j.prev[2])')
      BY <1>t, <1>v, <2>1, <2>3, <3>1, <3>2 DEF StateSaved, ITypeOK, OnDisk, NeverOldOnNew, Fits, Swapping, SwapDone, Contract, Compatible, Artifacts
    <3>4. SwapDone("r-restore")'
      BY <1>t, <2>1, <2>3, <3>1, <3>2 DEF StateSaved, SwapDone, Fits, Swapping
    <3>5. Has(state') /\ Aged(state')
      BY <2>3, <3>2 DEF StateSaved, Swapping, Has, Aged, States
    <3> QED BY <2>1, <2>3, <3>1, <3>3, <3>4, <3>5, SwapWorks DEF StateSaved, Late, SwapPlaces
  <2> QED BY <2>1, <2>2, <2>3
<1>6. CASE Save("r-restore", "restore-required", "idle", "idle")
  <2>1. run.at = "r-restore" /\ ITypeOK' /\ (Saved("restore-required", "idle") \/ Stuck("idle"))
    BY <1>t, <1>6, <1>s, SaveDoes
  <2>2. run.j.stage # "prepared" \/ run.j.changed
    BY <1>t, <2>1 DEF SwapBase, SwapPlaces
  <2>3. SwapDone("idle") /\ SwapBase("idle")
    BY <1>t, <2>1 DEF SwapBase, SwapDone, SwapPlaces
  <2> QED BY <2>1, <2>2, <2>3, SwapSaves, SwapMoves DEF SwapAll, Late, SwapPlaces
<1>7. CASE DeployBinary("r-bin", run.j.prev, "r-compose", "r-fail-after")
  <2>0. run.j.prev \in Artifacts
    BY <1>t, <1>7 DEF SwapBase, Swapping, SwapPlaces, DeployBinary, Doing
  <2>1. run.at = "r-bin" /\ ITypeOK' /\ (BinaryIs(run.j.prev[2], "r-compose") \/ Stuck("r-fail-after"))
    BY <1>t, <1>7, <2>0, DeployBinaryDoes
  <2>2. ASSUME Stuck("r-fail-after") PROVE IInv'
    <3>1. SwapBase("r-fail-after") /\ SwapDone("r-fail-after")
      BY <1>t, <2>1 DEF SwapBase, SwapDone, SwapPlaces
    <3> QED BY <2>1, <2>2, <3>1, SwapMoves DEF SwapAll, SwapPlaces
  <2>3. ASSUME BinaryIs(run.j.prev[2], "r-compose") PROVE IInv'
    <3>1. run'.at = "r-compose" /\ run'.j = run.j
      BY <2>3 DEF BinaryIs, Goes
    <3>2. Swapping(run.j)
      BY <1>t, <2>1 DEF SwapBase, SwapPlaces
    <3>3. NeverOldOnNew' /\ Fits(run.j.cand[2])' /\ (Compatible(run.j.prev, run.j.cand) => Fits(run.j.prev[2])')
      BY <1>t, <1>v, <2>1, <2>3, <3>1, <3>2 DEF BinaryIs, ITypeOK, OnDisk, NeverOldOnNew, Fits, Swapping, SwapDone, Contract, Compatible, Artifacts
    <3>4. SwapDone("r-compose")'
      BY <1>t, <2>1, <2>3, <3>1, <3>2 DEF BinaryIs, SwapDone, Fits, Swapping
    <3> QED BY <2>1, <2>3, <3>1, <3>3, <3>4, SwapWorks DEF BinaryIs, Late, SwapPlaces
  <2> QED BY <2>1, <2>2, <2>3
<1>8. CASE DeployCompose("r-compose", run.j.prev, "r-start", "r-fail-after")
  <2>0. run.j.prev \in Artifacts
    BY <1>t, <1>8 DEF SwapBase, Swapping, SwapPlaces, DeployCompose, Doing
  <2>1. run.at = "r-compose" /\ ITypeOK' /\ (ComposeIs(run.j.prev, "r-start") \/ Stuck("r-fail-after"))
    BY <1>t, <1>8, <2>0, DeployComposeDoes
  <2>2. ASSUME Stuck("r-fail-after") PROVE IInv'
    <3>1. SwapBase("r-fail-after") /\ SwapDone("r-fail-after")
      BY <1>t, <2>1 DEF SwapBase, SwapDone, SwapPlaces
    <3> QED BY <2>1, <2>2, <3>1, SwapMoves DEF SwapAll, SwapPlaces
  <2>3. ASSUME ComposeIs(run.j.prev, "r-start") PROVE IInv'
    <3>1. run'.at = "r-start" /\ run'.j = run.j
      BY <2>3 DEF ComposeIs, Goes
    <3>2. Swapping(run.j)
      BY <1>t, <2>1 DEF SwapBase, SwapPlaces
    <3>3. NeverOldOnNew' /\ Fits(run.j.cand[2])' /\ (Compatible(run.j.prev, run.j.cand) => Fits(run.j.prev[2])')
      BY <1>t, <1>v, <2>1, <2>3, <3>1, <3>2 DEF ComposeIs, ITypeOK, OnDisk, NeverOldOnNew, Fits, Swapping, SwapDone, Contract, Compatible, Artifacts
    <3>4. SwapDone("r-start")'
      BY <1>t, <2>1, <2>3, <3>1, <3>2 DEF ComposeIs, SwapDone, Fits, Swapping
    <3> QED BY <2>1, <2>3, <3>1, <3>3, <3>4, SwapWorks DEF ComposeIs, Late, SwapPlaces
  <2> QED BY <2>1, <2>2, <2>3
<1>9. CASE Start("r-start", "r-health", "r-fail-before")
  <2>1. run.at = "r-start" /\ ITypeOK' /\ (Started("r-health") \/ Started("r-fail-before") \/ Stuck("r-fail-before"))
    BY <1>t, <1>9, StartDoes
  <2>2. ASSUME Stuck("r-fail-before") PROVE IInv'
    <3>1. SwapBase("r-fail-before") /\ SwapDone("r-fail-before")
      BY <1>t, <2>1 DEF SwapBase, SwapDone, SwapPlaces
    <3> QED BY <2>1, <2>2, <3>1, SwapMoves DEF SwapAll, SwapPlaces
  <2>3. ASSUME NEW p \in {"r-health", "r-fail-before"}, Started(p) PROVE IInv'
    <3>1. run'.at = p /\ run'.j = run.j
      BY <2>3 DEF Started, Goes
    <3>2. Swapping(run.j)
      BY <1>t, <2>1 DEF SwapBase, SwapPlaces
    <3>3. NeverOldOnNew' /\ Fits(run.j.cand[2])' /\ (Compatible(run.j.prev, run.j.cand) => Fits(run.j.prev[2])')
      BY <1>t, <1>v, <2>1, <2>3, <3>1, <3>2 DEF Started, ITypeOK, OnDisk, NeverOldOnNew, Fits, Swapping, SwapDone, Contract, Compatible, Artifacts
    <3>4. SwapDone(p)'
      BY <1>t, <2>1, <2>3, <3>1, <3>2 DEF Started, SwapDone, Fits, Swapping
    <3> QED BY <2>1, <2>3, <3>1, <3>3, <3>4, SwapWorks DEF Started, Late, SwapPlaces
  <2> QED BY <2>1, <2>2, <2>3
<1>10. CASE Health("r-health", "r-state", "r-fail-before")
  <2>1. run.at = "r-health" /\ ITypeOK' /\ (Stuck("r-state") \/ Stuck("r-fail-before"))
    BY <1>t, <1>10, HealthDoes
  <2>2. SwapBase("r-state") /\ SwapDone("r-state") /\ SwapBase("r-fail-before") /\ SwapDone("r-fail-before")
    BY <1>t, <2>1 DEF SwapBase, SwapDone, SwapPlaces
  <2> QED BY <2>1, <2>2, SwapMoves DEF SwapAll, SwapPlaces
<1>11. CASE SaveState("r-state", run.j.before, "r-brokers", "r-fail-before")
  <2>0. run.j.before \in States \cup {Absent}
    BY <1>t, <1>11 DEF SwapBase, Swapping, SwapPlaces, SaveState, Doing, States, Recoveries
  <2>1. run.at = "r-state" /\ ITypeOK' /\ (StateSaved(run.j.before, "r-brokers") \/ Stuck("r-fail-before"))
    BY <1>t, <1>11, <2>0, SaveStateDoes
  <2>2. ASSUME Stuck("r-fail-before") PROVE IInv'
    <3>1. SwapBase("r-fail-before") /\ SwapDone("r-fail-before")
      BY <1>t, <2>1 DEF SwapBase, SwapDone, SwapPlaces
    <3> QED BY <2>1, <2>2, <3>1, SwapMoves DEF SwapAll, SwapPlaces
  <2>3. ASSUME StateSaved(run.j.before, "r-brokers") PROVE IInv'
    <3>1. run'.at = "r-brokers" /\ run'.j = run.j
      BY <2>3 DEF StateSaved, Goes
    <3>2. Swapping(run.j)
      BY <1>t, <2>1 DEF SwapBase, SwapPlaces
    <3>3. NeverOldOnNew' /\ Fits(run.j.cand[2])' /\ (Compatible(run.j.prev, run.j.cand) => Fits(run.j.prev[2])')
      BY <1>t, <1>v, <2>1, <2>3, <3>1, <3>2 DEF StateSaved, ITypeOK, OnDisk, NeverOldOnNew, Fits, Swapping, SwapDone, Contract, Compatible, Artifacts
    <3>4. SwapDone("r-brokers")'
      BY <1>t, <2>1, <2>3, <3>1, <3>2 DEF StateSaved, SwapDone, Fits, Swapping
    <3>5. Has(state') /\ Aged(state')
      BY <2>3, <3>2 DEF StateSaved, Swapping, Has, Aged, States
    <3> QED BY <2>1, <2>3, <3>1, <3>3, <3>4, <3>5, SwapWorks DEF StateSaved, Late, SwapPlaces
  <2> QED BY <2>1, <2>2, <2>3
<1>12. CASE Health("r-brokers", "r-done", "r-fail-before")
  <2>1. run.at = "r-brokers" /\ ITypeOK' /\ (Stuck("r-done") \/ Stuck("r-fail-before"))
    BY <1>t, <1>12, HealthDoes
  <2>2. SwapBase("r-done") /\ SwapDone("r-done") /\ SwapBase("r-fail-before") /\ SwapDone("r-fail-before")
    BY <1>t, <2>1 DEF SwapBase, SwapDone, SwapPlaces
  <2> QED BY <2>1, <2>2, SwapMoves DEF SwapAll, SwapPlaces
<1>13. CASE Save("r-done", "rolled-back", "idle", "r-fail-before")
  <2>1. run.at = "r-done" /\ ITypeOK' /\ (Saved("rolled-back", "idle") \/ Stuck("r-fail-before"))
    BY <1>t, <1>13, <1>s, SaveDoes
  <2>2. SwapBase("r-fail-before") /\ SwapDone("r-fail-before")
    BY <1>t, <2>1 DEF SwapBase, SwapDone, SwapPlaces
  <2>3. Whole(state)
    BY <1>t, <2>1 DEF SwapBase, SwapDone, SwapPlaces, Swapping, Whole, Has, Aged, Deployed, Accessed, States, Recoveries
  <2> QED BY <2>1, <2>2, <2>3, SwapCloses, SwapMoves DEF SwapAll, SwapPlaces
<1>14. CASE SaveState("r-fail-after", [run.j.after EXCEPT !.recovery = "recovery-required"], "r-fail", "r-fail")
  <2>0. [run.j.after EXCEPT !.recovery = "recovery-required"] \in States \cup {Absent}
    BY <1>t, <1>14 DEF SwapBase, Swapping, SwapPlaces, SaveState, Doing, States, Recoveries
  <2>1. run.at = "r-fail-after" /\ ITypeOK' /\ (StateSaved([run.j.after EXCEPT !.recovery = "recovery-required"], "r-fail") \/ Stuck("r-fail"))
    BY <1>t, <1>14, <2>0, SaveStateDoes
  <2>2. ASSUME Stuck("r-fail") PROVE IInv'
    <3>1. SwapBase("r-fail") /\ SwapDone("r-fail")
      BY <1>t, <2>1 DEF SwapBase, SwapDone, SwapPlaces
    <3> QED BY <2>1, <2>2, <3>1, SwapMoves DEF SwapAll, SwapPlaces
  <2>3. ASSUME StateSaved([run.j.after EXCEPT !.recovery = "recovery-required"], "r-fail") PROVE IInv'
    <3>1. run'.at = "r-fail" /\ run'.j = run.j
      BY <2>3 DEF StateSaved, Goes
    <3>2. Swapping(run.j)
      BY <1>t, <2>1 DEF SwapBase, SwapPlaces
    <3>3. NeverOldOnNew' /\ Fits(run.j.cand[2])' /\ (Compatible(run.j.prev, run.j.cand) => Fits(run.j.prev[2])')
      BY <1>t, <1>v, <2>1, <2>3, <3>1, <3>2 DEF StateSaved, ITypeOK, OnDisk, NeverOldOnNew, Fits, Swapping, SwapDone, Contract, Compatible, Artifacts
    <3>4. SwapDone("r-fail")'
      BY <1>t, <2>1, <2>3, <3>1, <3>2 DEF StateSaved, SwapDone, Fits, Swapping
    <3>5. Has(state') /\ Aged(state')
      BY <2>3, <3>2 DEF StateSaved, Swapping, Has, Aged, States
    <3> QED BY <2>1, <2>3, <3>1, <3>3, <3>4, <3>5, SwapWorks DEF StateSaved, Late, SwapPlaces
  <2> QED BY <2>1, <2>2, <2>3
<1>15. CASE SaveState("r-fail-before", [run.j.before EXCEPT !.recovery = "recovery-required"], "r-fail", "r-fail")
  <2>0. [run.j.before EXCEPT !.recovery = "recovery-required"] \in States \cup {Absent}
    BY <1>t, <1>15 DEF SwapBase, Swapping, SwapPlaces, SaveState, Doing, States, Recoveries
  <2>1. run.at = "r-fail-before" /\ ITypeOK' /\ (StateSaved([run.j.before EXCEPT !.recovery = "recovery-required"], "r-fail") \/ Stuck("r-fail"))
    BY <1>t, <1>15, <2>0, SaveStateDoes
  <2>2. ASSUME Stuck("r-fail") PROVE IInv'
    <3>1. SwapBase("r-fail") /\ SwapDone("r-fail")
      BY <1>t, <2>1 DEF SwapBase, SwapDone, SwapPlaces
    <3> QED BY <2>1, <2>2, <3>1, SwapMoves DEF SwapAll, SwapPlaces
  <2>3. ASSUME StateSaved([run.j.before EXCEPT !.recovery = "recovery-required"], "r-fail") PROVE IInv'
    <3>1. run'.at = "r-fail" /\ run'.j = run.j
      BY <2>3 DEF StateSaved, Goes
    <3>2. Swapping(run.j)
      BY <1>t, <2>1 DEF SwapBase, SwapPlaces
    <3>3. NeverOldOnNew' /\ Fits(run.j.cand[2])' /\ (Compatible(run.j.prev, run.j.cand) => Fits(run.j.prev[2])')
      BY <1>t, <1>v, <2>1, <2>3, <3>1, <3>2 DEF StateSaved, ITypeOK, OnDisk, NeverOldOnNew, Fits, Swapping, SwapDone, Contract, Compatible, Artifacts
    <3>4. SwapDone("r-fail")'
      BY <1>t, <2>1, <2>3, <3>1, <3>2 DEF StateSaved, SwapDone, Fits, Swapping
    <3>5. Has(state') /\ Aged(state')
      BY <2>3, <3>2 DEF StateSaved, Swapping, Has, Aged, States
    <3> QED BY <2>1, <2>3, <3>1, <3>3, <3>4, <3>5, SwapWorks DEF StateSaved, Late, SwapPlaces
  <2> QED BY <2>1, <2>2, <2>3
<1>16. CASE Save("r-fail", "recovery-required", "idle", "idle")
  <2>1. run.at = "r-fail" /\ ITypeOK' /\ (Saved("recovery-required", "idle") \/ Stuck("idle"))
    BY <1>t, <1>16, <1>s, SaveDoes
  <2>2. run.j.stage # "prepared" \/ run.j.changed
    BY <1>t, <2>1 DEF SwapBase, SwapPlaces
  <2>3. SwapDone("idle") /\ SwapBase("idle")
    BY <1>t, <2>1 DEF SwapBase, SwapDone, SwapPlaces
  <2> QED BY <2>1, <2>2, <2>3, SwapSaves, SwapMoves DEF SwapAll, Late, SwapPlaces
<1> QED BY <1>1, <1>2, <1>3, <1>4, <1>5, <1>6, <1>7, <1>8, <1>9, <1>10, <1>11, <1>12, <1>13, <1>14, <1>15, <1>16
     DEF RecoverTransaction

\* The restore of the backup.
LEMMA RestoreRecoverKeeps == ASSUME IInv, RestoreRecover PROVE IInv'
<1>t. ITypeOK /\ OnDisk /\ SwapBase(run.at) /\ SwapDone(run.at)
  BY DEF IInv, Here, AtSwap
<1>s. {"prepared", "swap-pending", "started", "recovery-required", "restore-required", "complete", "rolled-back",
       "aborted"} \subseteq Stages
  BY DEF Stages
<1>v. Versions \subseteq Int /\ FirstNew \in Int
  BY VersionsAssumption
<1>1. CASE Stop("q-stop", "q-swap", "q-fail")
  <2>1. run.at = "q-stop" /\ ITypeOK' /\ (Stopped("q-swap") \/ Stuck("q-fail"))
    BY <1>t, <1>1, StopDoes
  <2>2. ASSUME Stuck("q-fail") PROVE IInv'
    <3>1. SwapBase("q-fail") /\ SwapDone("q-fail")
      BY <1>t, <2>1 DEF SwapBase, SwapDone, SwapPlaces
    <3> QED BY <2>1, <2>2, <3>1, SwapMoves DEF SwapAll, SwapPlaces
  <2>3. ASSUME Stopped("q-swap") PROVE IInv'
    <3>1. run'.at = "q-swap" /\ run'.j = run.j
      BY <2>3 DEF Stopped, Goes
    <3>2. Swapping(run.j)
      BY <1>t, <2>1 DEF SwapBase, SwapPlaces
    <3>3. NeverOldOnNew' /\ Fits(run.j.cand[2])' /\ (Compatible(run.j.prev, run.j.cand) => Fits(run.j.prev[2])')
      BY <1>t, <1>v, <2>1, <2>3, <3>1, <3>2 DEF Stopped, ITypeOK, OnDisk, NeverOldOnNew, Fits, Swapping, SwapDone, Contract, Compatible, Artifacts
    <3>4. SwapDone("q-swap")'
      BY <1>t, <2>1, <2>3, <3>1, <3>2 DEF Stopped, SwapDone, Fits, Swapping
    <3> QED BY <2>1, <2>3, <3>1, <3>3, <3>4, SwapWorks DEF Stopped, Late, SwapPlaces
  <2> QED BY <2>1, <2>2, <2>3
<1>2. CASE Save("q-swap", "swap-pending", "q-apply", "q-fail")
  <2>1. run.at = "q-swap" /\ ITypeOK' /\ (Saved("swap-pending", "q-apply") \/ Stuck("q-fail"))
    BY <1>t, <1>2, <1>s, SaveDoes
  <2>2. run.j.stage # "prepared" \/ run.j.changed
    BY <1>t, <2>1 DEF SwapBase, SwapPlaces
  <2>3. SwapDone("q-apply") /\ SwapBase("q-fail") /\ SwapDone("q-fail")
    BY <1>t, <2>1 DEF SwapBase, SwapDone, SwapPlaces
  <2> QED BY <2>1, <2>2, <2>3, SwapSaves, SwapMoves DEF SwapAll, Late, SwapPlaces
<1>3. CASE ApplyBackup
  <2>1. run.at = "q-apply"
    BY <1>3 DEF ApplyBackup, Doing
  <2>2. /\ Swapping(run.j) /\ run.j.stage \notin {"new", "prepared"} /\ run.j.changed
        /\ ~Compatible(run.j.prev, run.j.cand) /\ service = Absent
    BY <1>t, <2>1 DEF SwapBase, SwapDone, SwapPlaces, Swapping
  <2>3. CASE Fails("q-fail")
    <3>1. Stuck("q-fail") /\ ITypeOK'
      BY <1>t, <2>3, FailsDoes DEF Stuck
    <3>2. SwapBase("q-fail") /\ SwapDone("q-fail")
      BY <1>t, <2>1 DEF SwapBase, SwapDone, SwapPlaces
    <3> QED BY <3>1, <3>2, SwapMoves DEF SwapAll, SwapPlaces
  <2>4. CASE ~Fails("q-fail")
    <3>1. /\ data' = archive /\ run' = [at |-> "q-bin", j |-> [run.j EXCEPT !.changed = TRUE]]
          /\ UNCHANGED <<journal, state, artifacts, bin, compose, access, snapshot, archive, service, faults, ids, ops, older>>
      BY <1>3, <2>4 DEF ApplyBackup, Same
    <3>2. run.j \in Journals /\ run'.j = run.j /\ run'.at = "q-bin" /\ run' = [at |-> run'.at, j |-> run'.j]
      BY <1>t, <2>2, <3>1 DEF ITypeOK, Journals
    <3>3. archive \in {1, 2} /\ (older \/ archive <= Contract(run.j.prev[2]))
      BY <2>2 DEF Swapping
    <3>4. ITypeOK'
      BY <1>t, <3>1, <3>2, <3>3 DEF ITypeOK
    <3>5. NeverOldOnNew' /\ Fits(run.j.prev[2])'
      BY <2>2, <3>1, <3>2, <3>3 DEF NeverOldOnNew, Fits, Contract
    <3>6. Fits(run.j.cand[2])'
      <4>1. older \/ Contract(run.j.cand[2]) >= Contract(run.j.prev[2])
        BY <2>2 DEF Swapping
      <4>2. older \/ Contract(run.j.cand[2]) >= archive
        BY <3>3, <4>1 DEF Contract
      <4> QED BY <3>1, <3>2, <4>2 DEF Fits
    <3>7. SwapDone("q-bin")'
      BY <2>2, <3>1, <3>2, <3>5 DEF SwapDone
    <3> QED BY <2>1, <3>1, <3>2, <3>4, <3>5, <3>6, <3>7, SwapWorks DEF Late, SwapPlaces
  <2> QED BY <2>3, <2>4
<1>4. CASE DeployBinary("q-bin", run.j.prev, "q-compose", "q-fail")
  <2>0. run.j.prev \in Artifacts
    BY <1>t, <1>4 DEF SwapBase, Swapping, SwapPlaces, DeployBinary, Doing
  <2>1. run.at = "q-bin" /\ ITypeOK' /\ (BinaryIs(run.j.prev[2], "q-compose") \/ Stuck("q-fail"))
    BY <1>t, <1>4, <2>0, DeployBinaryDoes
  <2>2. ASSUME Stuck("q-fail") PROVE IInv'
    <3>1. SwapBase("q-fail") /\ SwapDone("q-fail")
      BY <1>t, <2>1 DEF SwapBase, SwapDone, SwapPlaces
    <3> QED BY <2>1, <2>2, <3>1, SwapMoves DEF SwapAll, SwapPlaces
  <2>3. ASSUME BinaryIs(run.j.prev[2], "q-compose") PROVE IInv'
    <3>1. run'.at = "q-compose" /\ run'.j = run.j
      BY <2>3 DEF BinaryIs, Goes
    <3>2. Swapping(run.j)
      BY <1>t, <2>1 DEF SwapBase, SwapPlaces
    <3>3. NeverOldOnNew' /\ Fits(run.j.cand[2])' /\ (Compatible(run.j.prev, run.j.cand) => Fits(run.j.prev[2])')
      BY <1>t, <1>v, <2>1, <2>3, <3>1, <3>2 DEF BinaryIs, ITypeOK, OnDisk, NeverOldOnNew, Fits, Swapping, SwapDone, Contract, Compatible, Artifacts
    <3>4. SwapDone("q-compose")'
      BY <1>t, <2>1, <2>3, <3>1, <3>2 DEF BinaryIs, SwapDone, Fits, Swapping
    <3> QED BY <2>1, <2>3, <3>1, <3>3, <3>4, SwapWorks DEF BinaryIs, Late, SwapPlaces
  <2> QED BY <2>1, <2>2, <2>3
<1>5. CASE DeployCompose("q-compose", run.j.prev, "q-started", "q-fail")
  <2>0. run.j.prev \in Artifacts
    BY <1>t, <1>5 DEF SwapBase, Swapping, SwapPlaces, DeployCompose, Doing
  <2>1. run.at = "q-compose" /\ ITypeOK' /\ (ComposeIs(run.j.prev, "q-started") \/ Stuck("q-fail"))
    BY <1>t, <1>5, <2>0, DeployComposeDoes
  <2>2. ASSUME Stuck("q-fail") PROVE IInv'
    <3>1. SwapBase("q-fail") /\ SwapDone("q-fail")
      BY <1>t, <2>1 DEF SwapBase, SwapDone, SwapPlaces
    <3> QED BY <2>1, <2>2, <3>1, SwapMoves DEF SwapAll, SwapPlaces
  <2>3. ASSUME ComposeIs(run.j.prev, "q-started") PROVE IInv'
    <3>1. run'.at = "q-started" /\ run'.j = run.j
      BY <2>3 DEF ComposeIs, Goes
    <3>2. Swapping(run.j)
      BY <1>t, <2>1 DEF SwapBase, SwapPlaces
    <3>3. NeverOldOnNew' /\ Fits(run.j.cand[2])' /\ (Compatible(run.j.prev, run.j.cand) => Fits(run.j.prev[2])')
      BY <1>t, <1>v, <2>1, <2>3, <3>1, <3>2 DEF ComposeIs, ITypeOK, OnDisk, NeverOldOnNew, Fits, Swapping, SwapDone, Contract, Compatible, Artifacts
    <3>4. SwapDone("q-started")'
      BY <1>t, <2>1, <2>3, <3>1, <3>2 DEF ComposeIs, SwapDone, Fits, Swapping
    <3> QED BY <2>1, <2>3, <3>1, <3>3, <3>4, SwapWorks DEF ComposeIs, Late, SwapPlaces
  <2> QED BY <2>1, <2>2, <2>3
<1>6. CASE Save("q-started", "started", "q-start", "q-fail")
  <2>1. run.at = "q-started" /\ ITypeOK' /\ (Saved("started", "q-start") \/ Stuck("q-fail"))
    BY <1>t, <1>6, <1>s, SaveDoes
  <2>2. run.j.stage # "prepared" \/ run.j.changed
    BY <1>t, <2>1 DEF SwapBase, SwapPlaces
  <2>3. SwapDone("q-start") /\ SwapBase("q-fail") /\ SwapDone("q-fail")
    BY <1>t, <2>1 DEF SwapBase, SwapDone, SwapPlaces
  <2> QED BY <2>1, <2>2, <2>3, SwapSaves, SwapMoves DEF SwapAll, Late, SwapPlaces
<1>7. CASE Start("q-start", "q-health", "q-halt")
  <2>1. run.at = "q-start" /\ ITypeOK' /\ (Started("q-health") \/ Started("q-halt") \/ Stuck("q-halt"))
    BY <1>t, <1>7, StartDoes
  <2>2. ASSUME Stuck("q-halt") PROVE IInv'
    <3>1. SwapBase("q-halt") /\ SwapDone("q-halt")
      BY <1>t, <2>1 DEF SwapBase, SwapDone, SwapPlaces
    <3> QED BY <2>1, <2>2, <3>1, SwapMoves DEF SwapAll, SwapPlaces
  <2>3. ASSUME NEW p \in {"q-health", "q-halt"}, Started(p) PROVE IInv'
    <3>1. run'.at = p /\ run'.j = run.j
      BY <2>3 DEF Started, Goes
    <3>2. Swapping(run.j)
      BY <1>t, <2>1 DEF SwapBase, SwapPlaces
    <3>3. NeverOldOnNew' /\ Fits(run.j.cand[2])' /\ (Compatible(run.j.prev, run.j.cand) => Fits(run.j.prev[2])')
      BY <1>t, <1>v, <2>1, <2>3, <3>1, <3>2 DEF Started, ITypeOK, OnDisk, NeverOldOnNew, Fits, Swapping, SwapDone, Contract, Compatible, Artifacts
    <3>4. SwapDone(p)'
      BY <1>t, <2>1, <2>3, <3>1, <3>2 DEF Started, SwapDone, Fits, Swapping
    <3> QED BY <2>1, <2>3, <3>1, <3>3, <3>4, SwapWorks DEF Started, Late, SwapPlaces
  <2> QED BY <2>1, <2>2, <2>3
<1>8. CASE Health("q-health", "q-state", "q-halt")
  <2>1. run.at = "q-health" /\ ITypeOK' /\ (Stuck("q-state") \/ Stuck("q-halt"))
    BY <1>t, <1>8, HealthDoes
  <2>2. SwapBase("q-state") /\ SwapDone("q-state") /\ SwapBase("q-halt") /\ SwapDone("q-halt")
    BY <1>t, <2>1 DEF SwapBase, SwapDone, SwapPlaces
  <2> QED BY <2>1, <2>2, SwapMoves DEF SwapAll, SwapPlaces
<1>9. CASE SaveState("q-state", [run.j.before EXCEPT !.recovery = "none"], "q-done", "q-halt")
  <2>0. [run.j.before EXCEPT !.recovery = "none"] \in States \cup {Absent}
    BY <1>t, <1>9 DEF SwapBase, Swapping, SwapPlaces, SaveState, Doing, States, Recoveries
  <2>1. run.at = "q-state" /\ ITypeOK' /\ (StateSaved([run.j.before EXCEPT !.recovery = "none"], "q-done") \/ Stuck("q-halt"))
    BY <1>t, <1>9, <2>0, SaveStateDoes
  <2>2. ASSUME Stuck("q-halt") PROVE IInv'
    <3>1. SwapBase("q-halt") /\ SwapDone("q-halt")
      BY <1>t, <2>1 DEF SwapBase, SwapDone, SwapPlaces
    <3> QED BY <2>1, <2>2, <3>1, SwapMoves DEF SwapAll, SwapPlaces
  <2>3. ASSUME StateSaved([run.j.before EXCEPT !.recovery = "none"], "q-done") PROVE IInv'
    <3>1. run'.at = "q-done" /\ run'.j = run.j
      BY <2>3 DEF StateSaved, Goes
    <3>2. Swapping(run.j)
      BY <1>t, <2>1 DEF SwapBase, SwapPlaces
    <3>3. NeverOldOnNew' /\ Fits(run.j.cand[2])' /\ (Compatible(run.j.prev, run.j.cand) => Fits(run.j.prev[2])')
      BY <1>t, <1>v, <2>1, <2>3, <3>1, <3>2 DEF StateSaved, ITypeOK, OnDisk, NeverOldOnNew, Fits, Swapping, SwapDone, Contract, Compatible, Artifacts
    <3>4. SwapDone("q-done")'
      BY <1>t, <2>1, <2>3, <3>1, <3>2 DEF StateSaved, SwapDone, Fits, Swapping
    <3>5. Has(state') /\ Aged(state')
      BY <2>3, <3>2 DEF StateSaved, Swapping, Has, Aged, States
    <3> QED BY <2>1, <2>3, <3>1, <3>3, <3>4, <3>5, SwapWorks DEF StateSaved, Late, SwapPlaces
  <2> QED BY <2>1, <2>2, <2>3
<1>10. CASE Save("q-done", "rolled-back", "idle", "q-halt")
  <2>1. run.at = "q-done" /\ ITypeOK' /\ (Saved("rolled-back", "idle") \/ Stuck("q-halt"))
    BY <1>t, <1>10, <1>s, SaveDoes
  <2>2. SwapBase("q-halt") /\ SwapDone("q-halt")
    BY <1>t, <2>1 DEF SwapBase, SwapDone, SwapPlaces
  <2>3. Whole(state)
    BY <1>t, <2>1 DEF SwapBase, SwapDone, SwapPlaces, Swapping, Whole, Has, Aged, Deployed, Accessed, States, Recoveries
  <2> QED BY <2>1, <2>2, <2>3, SwapCloses, SwapMoves DEF SwapAll, SwapPlaces
<1>11. CASE Stop("q-halt", "q-fail", "q-fail")
  <2>1. run.at = "q-halt" /\ ITypeOK' /\ (Stopped("q-fail") \/ Stuck("q-fail"))
    BY <1>t, <1>11, StopDoes
  <2>2. ASSUME Stuck("q-fail") PROVE IInv'
    <3>1. SwapBase("q-fail") /\ SwapDone("q-fail")
      BY <1>t, <2>1 DEF SwapBase, SwapDone, SwapPlaces
    <3> QED BY <2>1, <2>2, <3>1, SwapMoves DEF SwapAll, SwapPlaces
  <2>3. ASSUME Stopped("q-fail") PROVE IInv'
    <3>1. run'.at = "q-fail" /\ run'.j = run.j
      BY <2>3 DEF Stopped, Goes
    <3>2. Swapping(run.j)
      BY <1>t, <2>1 DEF SwapBase, SwapPlaces
    <3>3. NeverOldOnNew' /\ Fits(run.j.cand[2])' /\ (Compatible(run.j.prev, run.j.cand) => Fits(run.j.prev[2])')
      BY <1>t, <1>v, <2>1, <2>3, <3>1, <3>2 DEF Stopped, ITypeOK, OnDisk, NeverOldOnNew, Fits, Swapping, SwapDone, Contract, Compatible, Artifacts
    <3>4. SwapDone("q-fail")'
      BY <1>t, <2>1, <2>3, <3>1, <3>2 DEF Stopped, SwapDone, Fits, Swapping
    <3> QED BY <2>1, <2>3, <3>1, <3>3, <3>4, SwapWorks DEF Stopped, Late, SwapPlaces
  <2> QED BY <2>1, <2>2, <2>3
<1>12. CASE Save("q-fail", "recovery-required", "idle", "idle")
  <2>1. run.at = "q-fail" /\ ITypeOK' /\ (Saved("recovery-required", "idle") \/ Stuck("idle"))
    BY <1>t, <1>12, <1>s, SaveDoes
  <2>2. run.j.stage # "prepared" \/ run.j.changed
    BY <1>t, <2>1 DEF SwapBase, SwapPlaces
  <2>3. SwapDone("idle") /\ SwapBase("idle")
    BY <1>t, <2>1 DEF SwapBase, SwapDone, SwapPlaces
  <2> QED BY <2>1, <2>2, <2>3, SwapSaves, SwapMoves DEF SwapAll, Late, SwapPlaces
<1> QED BY <1>1, <1>2, <1>3, <1>4, <1>5, <1>6, <1>7, <1>8, <1>9, <1>10, <1>11, <1>12 DEF RestoreRecover

(* ----------------- changes of access and domains ----------------------- *)

ChangeAll == ChangePlaces \cup {"e-prepared", "e-forget", "x-forget", "idle"}
\* At a place of an access change nothing is asked of the other operations.
LEMMA ChangeAlone ==
  ASSUME NEW p \in ChangeAll
  PROVE  /\ AtSwap(p) /\ AtRestart(p) /\ AtInstall(p) /\ AtRemoval(p)
         /\ AtSwap(p)' /\ AtRestart(p)' /\ AtInstall(p)' /\ AtRemoval(p)'
<1>1. AtSwap(p) /\ AtSwap(p)'
  BY DEF ChangeAll, ChangePlaces, AtSwap, SwapBase, SwapDone, SwapPlaces
<1>2. AtRestart(p) /\ AtRestart(p)'
  BY DEF ChangeAll, ChangePlaces, AtRestart
<1>3. AtInstall(p) /\ AtInstall(p)'
  BY DEF ChangeAll, ChangePlaces, AtInstall, InstallPlaces
<1>4. AtRemoval(p) /\ AtRemoval(p)'
  BY DEF ChangeAll, ChangePlaces, AtRemoval
<1> QED BY <1>1, <1>2, <1>3, <1>4

\* The process goes to another place of the change.
LEMMA ChangeMoves ==
  ASSUME IInv, ITypeOK', NEW p \in ChangeAll, Stuck(p), ChangeBase(p), ChangeDone(p) PROVE IInv'
  BY Moves, ChangeAlone DEF Here, AtChange

\* A journal of such a change on disk and in the process.
LEMMA ChangeKnown ==
  ASSUME IInv, run.at \in ChangePlaces
  PROVE  /\ Linked /\ ~Closed(journal) /\ Changes(run.j) /\ run.j.stage # "new" /\ ~run.j.need
         /\ Changing(run.j) /\ Changing(journal)
<1>1. Linked /\ ~Closed(journal) /\ Changes(run.j) /\ run.j.stage # "new" /\ ~run.j.need
  BY DEF IInv, Here, AtChange, ChangeBase
<1>2. Changing(journal)
  BY <1>1 DEF IInv, OnDisk, Interrupted, Linked, Changes
<1>3. Changing(run.j)
  BY <1>1, <1>2 DEF Changing, Linked
<1> QED BY <1>1, <1>2, <1>3

\* The journal of the change is written with a further stage.
LEMMA ChangeSaves ==
  ASSUME IInv, ITypeOK', run.at \in ChangePlaces,
         NEW s \in {"snapshot-ready", "swap-pending", "started", "recovery-required"},
         NEW p \in {"e-prepare", "e-stop", "e-start", "idle"}, Saved(s, p), ChangeDone(p),
         p = "e-prepare" => state = run.j.before /\ Whole(state)
  PROVE  IInv'
<1>0. OnDisk /\ p \in ChangeAll
  BY DEF IInv, ChangeAll, ChangePlaces
<1>1. Linked /\ ~Closed(journal) /\ Changes(run.j) /\ ~run.j.need /\ Changing(run.j)
  BY ChangeKnown
<1>2. /\ Writes(s) /\ run'.at = p /\ (p # "idle" => run'.j = journal')
      /\ UNCHANGED <<state, artifacts, bin, compose, access, snapshot, archive, data, service, ids, older>>
  BY DEF Saved
<1>3. Changing(journal)' /\ ~Closed(journal)' /\ Changes(journal)' /\ ~journal'.need
      /\ journal'.stage \notin {"new", "prepared"}
  BY <1>1, <1>2 DEF Changing, Closed, Changes, Has, Aged, Deployed, Fits, Writes
<1>4. OnDisk'
  BY <1>0, <1>1, <1>2, <1>3
     DEF OnDisk, Settled, BuildsKept, Aging, NeverOldOnNew, Interrupted, Has, Aged, Swaps, Changes, Linked, Writes
<1>5. p = "e-prepare" => state' = run'.j.before /\ Whole(state)'
  BY <1>2 DEF Whole, Has, Aged, Deployed, Accessed, Writes
<1>6. ChangeBase(p)'
  BY <1>2, <1>3, <1>5 DEF ChangeBase, Linked, ChangePlaces
<1>7. ChangeDone(p)'
  BY <1>2 DEF ChangeDone, Writes
<1> QED BY <1>0, <1>2, <1>4, <1>6, <1>7, ChangeAlone DEF IInv, Here, AtChange

\* The journal of the change is closed on an installation in one piece.
LEMMA ChangeCloses ==
  ASSUME IInv, ITypeOK', run.at \in ChangePlaces, Whole(state),
         NEW s \in {"complete", "rolled-back", "aborted"}, NEW p \in {"idle", "e-forget", "x-forget"}, Saved(s, p)
  PROVE  IInv'
<1>0. OnDisk /\ p \in ChangeAll
  BY DEF IInv, ChangeAll
<1>1. Linked /\ Changes(run.j) /\ ~run.j.need
  BY ChangeKnown
<1>2. /\ Writes(s) /\ run'.at = p
      /\ UNCHANGED <<state, artifacts, bin, compose, access, snapshot, archive, data, service, ids, older>>
  BY DEF Saved
<1>3. Closed(journal)' /\ ~journal'.need /\ Whole(state)'
  BY <1>1, <1>2 DEF Closed, Writes, Whole, Has, Aged, Accessed, Deployed
<1>4. OnDisk'
  BY <1>0, <1>2, <1>3 DEF OnDisk, Settled, BuildsKept, Aging, NeverOldOnNew, Interrupted, Whole, Writes, Closed
<1>5. ChangeBase(p)' /\ ChangeDone(p)'
  BY DEF ChangeBase, ChangeDone, ChangePlaces
<1> QED BY <1>0, <1>2, <1>4, <1>5, ChangeAlone DEF IInv, Here, AtChange

WorkPlaces == {"e-policy", "e-boot", "e-started", "e-health", "e-complete"}
UndoPlaces == {"x-stop", "x-policy", "x-boot", "x-start", "x-health", "x-state", "x-done", "x-fail", "x-mark"}
\* Something else is changed: the state file, the service, an access file.
LEMMA ChangeWorks ==
  ASSUME IInv, ITypeOK', run.at \in ChangePlaces, run.j.stage # "prepared" \/ run.j.op = "domains",
         NEW p \in {"e-swap"} \cup WorkPlaces \cup UndoPlaces, run'.at = p, run'.j = run.j,
         UNCHANGED <<journal, artifacts, bin, compose, snapshot, ids, older>>, (older \/ Contract(run.j.before.cur[2]) >= data'),
         state' = state \/ (Has(state') /\ Aged(state')), NeverOldOnNew',
         p = "e-swap" => run.j.op = "exposure",
         p \in WorkPlaces => run.j.stage # "prepared",
         ChangeDone(p)'
  PROVE  IInv'
<1>0. OnDisk /\ p \in ChangeAll /\ p \in ChangePlaces
  BY DEF IInv, ChangeAll, ChangePlaces, WorkPlaces, UndoPlaces
<1>1. /\ Linked /\ ~Closed(journal) /\ Changes(run.j) /\ run.j.stage # "new" /\ ~run.j.need
      /\ Changing(journal)
  BY ChangeKnown
<1>2. Linked' /\ ~Closed(journal)' /\ Changes(run.j)'
  BY <1>1 DEF Linked, Closed, Changes
<1>3. Changing(journal)'
  BY <1>1 DEF Changing, Has, Aged, Deployed, Fits, Linked, Contract
<1>4. BuildsKept' /\ Aging'
  BY <1>0 DEF OnDisk, BuildsKept, Aging, Has, Aged
<1>5. OnDisk'
  BY <1>0, <1>1, <1>3, <1>4 DEF OnDisk, Settled, Interrupted, Swaps, Changes, Linked, Closed
<1>6. ChangeBase(p)'
  BY <1>0, <1>1, <1>2 DEF ChangeBase, ChangePlaces, WorkPlaces, UndoPlaces
<1> QED BY <1>0, <1>5, <1>6, ChangeAlone DEF IInv, Here, AtChange

\* The snapshot goes.
LEMMA DropKeeps ==
  ASSUME IInv, NEW from \in {"e-forget", "x-forget", "y-forget"}, NEW p \in {"idle", "y-done"},
         DropSnapshot(from, p), p = "y-done" => from = "y-forget"
  PROVE  IInv'
<1>t. ITypeOK /\ OnDisk /\ ChangeBase(run.at)
  BY DEF IInv, Here, AtChange
<1>1. /\ run.at = from /\ snapshot' = Absent /\ Goes(p) /\ Shaped
      /\ UNCHANGED <<journal, state, artifacts, bin, compose, access, archive, data, service, ids, ops, faults, older>>
  BY <1>t, GoDoes DEF DropSnapshot, Doing, Same
<1>2. ITypeOK'
  BY <1>t, <1>1 DEF ITypeOK, Shaped
<1>3. Swapping(journal)' = Swapping(journal) /\ Restarting' = Restarting /\ Installing(journal)' = Installing(journal)
  BY <1>1 DEF Swapping, Restarting, Installing, Whole, Has, Aged, Deployed, Accessed, Fits
<1>4. Changing(journal) => Changing(journal)'
  BY <1>1 DEF Changing, Whole, Has, Aged, Deployed, Accessed, Fits
<1>5. OnDisk'
  <2>1. Settled' /\ BuildsKept' /\ Aging' /\ NeverOldOnNew'
    BY <1>t, <1>1 DEF OnDisk, Settled, BuildsKept, Aging, NeverOldOnNew, Whole, Has, Aged, Deployed, Accessed
  <2> QED BY <1>t, <1>1, <1>3, <1>4, <2>1 DEF OnDisk, Interrupted
<1>6. ChangeBase(p)' /\ ChangeDone(p)'
  <2>1. p = "y-done" => run'.j = run.j
    BY <1>1 DEF Goes
  <2> QED BY <1>t, <1>1, <2>1 DEF ChangeBase, ChangeDone, ChangePlaces, Linked, Closed, Changes
<1>7. p \in ChangeAll /\ run'.at = p
  BY <1>1 DEF ChangeAll, ChangePlaces, Goes
<1> QED BY <1>2, <1>5, <1>6, <1>7, ChangeAlone DEF IInv, Here, AtChange

\* Reconfigure: the change proper.
LEMMA ReconfigureKeeps == ASSUME IInv, Reconfigure PROVE IInv'
<1>t. ITypeOK /\ OnDisk /\ ChangeBase(run.at) /\ ChangeDone(run.at)
  BY DEF IInv, Here, AtChange
<1>s. {"prepared", "snapshot-ready", "swap-pending", "started", "recovery-required", "complete", "rolled-back",
       "aborted"} \subseteq Stages
  BY DEF Stages
<1>v. Versions \subseteq Int /\ FirstNew \in Int /\ Absent \notin Versions
  BY VersionsAssumption
<1>1. CASE SavePrepared
  <2>1. run.at = "e-prepared"
    BY <1>1 DEF SavePrepared, Doing
  <2>2. /\ Closed(journal) /\ Changes(run.j) /\ run.j.stage = "new" /\ ~run.j.need
        /\ state = run.j.before /\ Whole(state) /\ run.j.after \in States
        /\ run.j.after.cur = state.cur /\ run.j.after.prev = state.prev
    BY <1>t, <2>1 DEF ChangeBase
  <2>3. CASE Fails("idle")
    <3>1. Stuck("idle") /\ ITypeOK'
      BY <1>t, <2>3, FailsDoes DEF Stuck
    <3>2. ChangeBase("idle") /\ ChangeDone("idle")
      BY DEF ChangeBase, ChangeDone, ChangePlaces
    <3> QED BY <3>1, <3>2, ChangeMoves DEF ChangeAll
  <2>4. CASE ~Fails("idle")
    <3>1. /\ journal' = [run.j EXCEPT !.stage = "prepared"] /\ snapshot' = Absent
          /\ run' = [at |-> "e-snapshot", j |-> [run.j EXCEPT !.stage = "prepared"]] /\ run.j \in Journals
          /\ UNCHANGED <<state, artifacts, bin, compose, access, archive, data, service, ids, ops, faults, older>>
      BY <1>t, <1>1, <2>4 DEF SavePrepared, Same, ITypeOK
    <3>2. journal' \in Journals /\ Writes("prepared")
      BY <3>1, <1>s DEF Journals, Writes
    <3>3. run'.at = "e-snapshot" /\ run'.j = journal' /\ run' = [at |-> run'.at, j |-> run'.j]
      BY <3>1
    <3>4. UNCHANGED <<state, artifacts, bin, compose, access, archive, data, service, ids, ops, faults, older>> /\ snapshot' = Absent
      BY <3>1
    <3>5. ITypeOK'
      BY <1>t, <3>2, <3>3, <3>4 DEF ITypeOK
    <3>6. Whole(state)' /\ Fits(state.cur[2])
      BY <1>t, <1>v, <2>2, <3>4 DEF Whole, Has, Aged, Deployed, Accessed, OnDisk, NeverOldOnNew, Fits, ITypeOK, Contract, States, Artifacts
    <3>7. Changing(journal)' /\ ~Closed(journal)' /\ Changes(journal)' /\ ~journal'.need
      BY <2>2, <3>2, <3>4, <3>6 DEF Changing, Closed, Changes, Whole, Has, Aged, Deployed, Fits, Writes
    <3>8. OnDisk'
      BY <1>t, <2>2, <3>2, <3>4, <3>7
         DEF OnDisk, Settled, BuildsKept, Aging, NeverOldOnNew, Interrupted, Whole, Has, Aged, Swaps, Changes, Writes
    <3>9. ChangeBase("e-snapshot")' /\ ChangeDone("e-snapshot")'
      BY <2>2, <3>2, <3>3, <3>4, <3>6, <3>7 DEF ChangeBase, ChangeDone, ChangePlaces, Linked, Writes
    <3> QED BY <3>3, <3>5, <3>8, <3>9, ChangeAlone DEF IInv, Here, AtChange, ChangeAll, ChangePlaces
  <2> QED BY <2>3, <2>4
<1>2. CASE TakeSnapshot
  <2>1. run.at = "e-snapshot"
    BY <1>2 DEF TakeSnapshot, Doing
  <2>2. /\ state = run.j.before /\ Whole(state) /\ Changing(journal) /\ Linked /\ ~Closed(journal)
        /\ Changes(run.j) /\ run.j.stage # "new" /\ ~run.j.need
    BY <1>t, <2>1, ChangeKnown DEF ChangeBase, ChangePlaces
  <2>3. CASE Fails("e-cancel")
    <3>1. Stuck("e-cancel") /\ ITypeOK'
      BY <1>t, <2>3, FailsDoes DEF Stuck
    <3>2. ChangeBase("e-cancel") /\ ChangeDone("e-cancel")
      BY <1>t, <2>1 DEF ChangeBase, ChangeDone, ChangePlaces
    <3> QED BY <3>1, <3>2, ChangeMoves DEF ChangeAll, ChangePlaces
  <2>4. CASE ~Fails("e-cancel")
    <3>1. /\ snapshot' = access /\ Goes("e-ready") /\ Shaped
          /\ UNCHANGED <<journal, state, artifacts, bin, compose, access, archive, data, service, ids, ops, faults, older>>
      BY <1>t, <1>2, <2>4, GoDoes DEF TakeSnapshot, Same
    <3>2. ITypeOK' /\ run'.at = "e-ready" /\ run'.j = run.j
      BY <1>t, <3>1 DEF ITypeOK, Shaped, Goes
    <3>3. Whole(state)'
      BY <2>2, <3>1 DEF Whole, Has, Aged, Deployed, Accessed
    <3>4. Changing(journal)'
      BY <2>2, <3>1, <3>3 DEF Changing, Has, Aged, Deployed, Fits, Whole, Accessed, Linked
    <3>5. OnDisk'
      BY <1>t, <2>2, <3>1, <3>4
         DEF OnDisk, Settled, BuildsKept, Aging, NeverOldOnNew, Interrupted, Has, Aged, Swaps, Changes, Linked, Closed
    <3>6. ChangeBase("e-ready")' /\ ChangeDone("e-ready")'
      BY <2>2, <3>1, <3>2, <3>3 DEF ChangeBase, ChangeDone, ChangePlaces, Linked, Closed, Changes
    <3> QED BY <3>2, <3>5, <3>6, ChangeAlone DEF IInv, Here, AtChange, ChangeAll, ChangePlaces
  <2> QED BY <2>3, <2>4
<1>3. CASE Save("e-cancel", IF run.j.op = "domains" THEN "aborted" ELSE "rolled-back", "idle", "idle")
  <2>1. PICK s \in {"aborted", "rolled-back"} : s = IF run.j.op = "domains" THEN "aborted" ELSE "rolled-back"
    OBVIOUS
  <2>2. Save("e-cancel", s, "idle", "idle") /\ s \in Stages
    BY <1>3, <1>s, <2>1
  <2>3. run.at = "e-cancel" /\ ITypeOK' /\ (Saved(s, "idle") \/ Stuck("idle"))
    BY <1>t, <2>2, SaveDoes
  <2>4. Whole(state) /\ ChangeBase("idle") /\ ChangeDone("idle")
    BY <1>t, <2>3 DEF ChangeBase, ChangeDone, ChangePlaces
  <2> QED BY <2>3, <2>4, ChangeCloses, ChangeMoves DEF ChangeAll, ChangePlaces
<1>4. CASE Save("e-ready", "snapshot-ready", "e-prepare", IF run.j.op = "domains" THEN "idle" ELSE "e-forget")
  <2>1. PICK p \in {"idle", "e-forget"} : p = IF run.j.op = "domains" THEN "idle" ELSE "e-forget"
    OBVIOUS
  <2>2. Save("e-ready", "snapshot-ready", "e-prepare", p)
    BY <1>4, <2>1
  <2>3. run.at = "e-ready" /\ ITypeOK' /\ (Saved("snapshot-ready", "e-prepare") \/ Stuck(p))
    BY <1>t, <1>s, <2>2, SaveDoes
  <2>4. /\ state = run.j.before /\ Whole(state)
        /\ ChangeDone("e-prepare") /\ ChangeBase(p) /\ ChangeDone(p)
    BY <1>t, <2>3 DEF ChangeBase, ChangeDone, ChangePlaces
  <2> QED BY <2>3, <2>4, ChangeSaves, ChangeMoves DEF ChangeAll, ChangePlaces
<1>5. CASE DropSnapshot("e-forget", "idle")
  BY <1>5, DropKeeps
<1>6. CASE run.j.op = "exposure" /\ WriteAccess("e-prepare", WithPolicy(run.j.after.access), "e-swap", "x-stop")
  <2>0. run.j.after.access \in Nat
    <3>1. run.at \in ChangePlaces
      BY <1>6 DEF WriteAccess, Doing, ChangePlaces
    <3>2. Changing(run.j)
      BY <3>1, ChangeKnown
    <3> QED BY <1>t, <1>6, <3>2 DEF Changing, States, ITypeOK, AccessFiles
  <2>a. /\ WithPolicy(run.j.after.access) \in AccessFiles /\ WithPolicy(run.j.after.access).policy = run.j.after.access
        /\ WithPolicy(run.j.after.access).boot = access.boot /\ WithPolicy(run.j.after.access).unit = access.unit
    BY <1>t, <2>0, AccessParts DEF ITypeOK
  <2>1. run.at = "e-prepare" /\ ITypeOK' /\ (AccessIs(WithPolicy(run.j.after.access), "e-swap") \/ Stuck("x-stop"))
    BY <1>t, <1>6, <2>a, WriteAccessDoes
  <2>2. ASSUME Stuck("x-stop") PROVE IInv'
    <3>1. ChangeBase("x-stop") /\ ChangeDone("x-stop")
      BY <1>t, <2>1 DEF ChangeBase, ChangeDone, ChangePlaces
    <3> QED BY <2>1, <2>2, <3>1, ChangeMoves DEF ChangeAll, ChangePlaces
  <2>3. ASSUME AccessIs(WithPolicy(run.j.after.access), "e-swap") PROVE IInv'
    <3>1. run'.at = "e-swap" /\ run'.j = run.j
      BY <2>3 DEF AccessIs, Goes
    <3>2. Changing(run.j)
      BY <2>1, ChangeKnown DEF ChangePlaces
    <3>3. NeverOldOnNew' /\ (older \/ Contract(run.j.before.cur[2]) >= data')
      BY <1>t, <1>v, <2>1, <2>3, <3>2 DEF AccessIs, ITypeOK, OnDisk, NeverOldOnNew, Changing, Fits, Deployed, Contract
    <3>4. ChangeDone("e-swap")'
      BY <1>t, <2>a, <2>1, <2>3, <3>1, <3>2 DEF AccessIs, ChangeDone, Changing
    <3>5. (run.j.stage # "prepared")
      BY <1>t, <2>1 DEF ChangeBase
    <3> QED BY <2>1, <2>3, <3>1, <3>3, <3>4, <3>5, <1>6, ChangeWorks
            DEF AccessIs, ChangePlaces, WorkPlaces, UndoPlaces
  <2> QED BY <2>1, <2>2, <2>3
<1>7. CASE run.j.op = "domains" /\ Health("e-prepare", "e-swap", Unactivated)
  <2>1. run.at = "e-prepare" /\ ITypeOK' /\ (Stuck("e-swap") \/ Stuck("e-abort"))
    BY <1>t, <1>7, HealthDoes DEF Unactivated
  <2>2. ChangeBase("e-swap") /\ ChangeDone("e-swap") /\ ChangeBase("e-abort") /\ ChangeDone("e-abort")
    BY <1>t, <1>7, <2>1 DEF ChangeBase, ChangeDone, ChangePlaces
  <2> QED BY <2>1, <2>2, ChangeMoves DEF ChangeAll, ChangePlaces
<1>8. CASE Save("e-swap", "swap-pending", "e-stop", Unactivated)
  <2>1. PICK p \in {"e-abort", "x-stop"} : p = Unactivated
    BY DEF Unactivated
  <2>2. Save("e-swap", "swap-pending", "e-stop", p)
    BY <1>8, <2>1
  <2>3. run.at = "e-swap" /\ ITypeOK' /\ (Saved("swap-pending", "e-stop") \/ Stuck(p))
    BY <1>t, <1>s, <2>2, SaveDoes
  <2>4. ChangeDone("e-stop") /\ ChangeBase(p) /\ ChangeDone(p)
    BY <1>t, <2>1, <2>3 DEF ChangeBase, ChangeDone, ChangePlaces, Unactivated
  <2> QED BY <2>3, <2>4, ChangeSaves, ChangeMoves DEF ChangeAll, ChangePlaces
<1>9. CASE Save("e-abort", "aborted", "e-forget", "e-forget")
  <2>1. run.at = "e-abort" /\ ITypeOK' /\ (Saved("aborted", "e-forget") \/ Stuck("e-forget"))
    BY <1>t, <1>9, <1>s, SaveDoes
  <2>2. ChangeBase("e-forget") /\ ChangeDone("e-forget")
    BY <1>t, <2>1 DEF ChangeBase, ChangeDone, ChangePlaces
  <2>3. Whole(state)
    <3>1. Changing(run.j)
      BY <2>1, ChangeKnown DEF ChangePlaces
    <3> QED BY <1>t, <2>1, <3>1
            DEF ChangeBase, ChangeDone, ChangePlaces, Changing, Whole, Has, Aged, Deployed, Accessed, States, Recoveries
  <2> QED BY <2>1, <2>2, <2>3, ChangeCloses, ChangeMoves DEF ChangeAll, ChangePlaces
<1>10. CASE Stop("e-stop", "e-policy", "x-stop")
  <2>1. run.at = "e-stop" /\ ITypeOK' /\ (Stopped("e-policy") \/ Stuck("x-stop"))
    BY <1>t, <1>10, StopDoes
  <2>2. ASSUME Stuck("x-stop") PROVE IInv'
    <3>1. ChangeBase("x-stop") /\ ChangeDone("x-stop")
      BY <1>t, <2>1 DEF ChangeBase, ChangeDone, ChangePlaces
    <3> QED BY <2>1, <2>2, <3>1, ChangeMoves DEF ChangeAll, ChangePlaces
  <2>3. ASSUME Stopped("e-policy") PROVE IInv'
    <3>1. run'.at = "e-policy" /\ run'.j = run.j
      BY <2>3 DEF Stopped, Goes
    <3>2. Changing(run.j)
      BY <2>1, ChangeKnown DEF ChangePlaces
    <3>3. NeverOldOnNew' /\ (older \/ Contract(run.j.before.cur[2]) >= data')
      BY <1>t, <1>v, <2>1, <2>3, <3>2 DEF Stopped, ITypeOK, OnDisk, NeverOldOnNew, Changing, Fits, Deployed, Contract
    <3>4. ChangeDone("e-policy")'
      BY <1>t, <2>1, <2>3, <3>1, <3>2 DEF Stopped, ChangeDone, Changing
    <3>5. (run.j.stage # "prepared")
      BY <1>t, <2>1 DEF ChangeBase
    <3> QED BY <2>1, <2>3, <3>1, <3>3, <3>4, <3>5, ChangeWorks
            DEF Stopped, ChangePlaces, WorkPlaces, UndoPlaces
  <2> QED BY <2>1, <2>2, <2>3
<1>11. CASE WriteAccess("e-policy", WithPolicy(run.j.after.access), "e-boot", "x-stop")
  <2>0. run.j.after.access \in Nat
    <3>1. run.at \in ChangePlaces
      BY <1>11 DEF WriteAccess, Doing, ChangePlaces
    <3>2. Changing(run.j)
      BY <3>1, ChangeKnown
    <3> QED BY <1>t, <1>11, <3>2 DEF Changing, States, ITypeOK, AccessFiles
  <2>a. /\ WithPolicy(run.j.after.access) \in AccessFiles /\ WithPolicy(run.j.after.access).policy = run.j.after.access
        /\ WithPolicy(run.j.after.access).boot = access.boot /\ WithPolicy(run.j.after.access).unit = access.unit
    BY <1>t, <2>0, AccessParts DEF ITypeOK
  <2>1. run.at = "e-policy" /\ ITypeOK' /\ (AccessIs(WithPolicy(run.j.after.access), "e-boot") \/ Stuck("x-stop"))
    BY <1>t, <1>11, <2>a, WriteAccessDoes
  <2>2. ASSUME Stuck("x-stop") PROVE IInv'
    <3>1. ChangeBase("x-stop") /\ ChangeDone("x-stop")
      BY <1>t, <2>1 DEF ChangeBase, ChangeDone, ChangePlaces
    <3> QED BY <2>1, <2>2, <3>1, ChangeMoves DEF ChangeAll, ChangePlaces
  <2>3. ASSUME AccessIs(WithPolicy(run.j.after.access), "e-boot") PROVE IInv'
    <3>1. run'.at = "e-boot" /\ run'.j = run.j
      BY <2>3 DEF AccessIs, Goes
    <3>2. Changing(run.j)
      BY <2>1, ChangeKnown DEF ChangePlaces
    <3>3. NeverOldOnNew' /\ (older \/ Contract(run.j.before.cur[2]) >= data')
      BY <1>t, <1>v, <2>1, <2>3, <3>2 DEF AccessIs, ITypeOK, OnDisk, NeverOldOnNew, Changing, Fits, Deployed, Contract
    <3>4. ChangeDone("e-boot")'
      BY <1>t, <2>a, <2>1, <2>3, <3>1, <3>2 DEF AccessIs, ChangeDone, Changing
    <3>5. (run.j.stage # "prepared")
      BY <1>t, <2>1 DEF ChangeBase
    <3> QED BY <2>1, <2>3, <3>1, <3>3, <3>4, <3>5, ChangeWorks
            DEF AccessIs, ChangePlaces, WorkPlaces, UndoPlaces
  <2> QED BY <2>1, <2>2, <2>3
<1>12. CASE WriteAccess("e-boot", WithBoot(run.j.after.access), "e-started", "x-stop")
  <2>0. run.j.after.access \in Nat
    <3>1. run.at \in ChangePlaces
      BY <1>12 DEF WriteAccess, Doing, ChangePlaces
    <3>2. Changing(run.j)
      BY <3>1, ChangeKnown
    <3> QED BY <1>t, <1>12, <3>2 DEF Changing, States, ITypeOK, AccessFiles
  <2>a. /\ WithBoot(run.j.after.access) \in AccessFiles /\ WithBoot(run.j.after.access).policy = access.policy
        /\ WithBoot(run.j.after.access).boot = run.j.after.access /\ WithBoot(run.j.after.access).unit = run.j.after.access
    BY <1>t, <2>0, AccessParts DEF ITypeOK
  <2>1. run.at = "e-boot" /\ ITypeOK' /\ (AccessIs(WithBoot(run.j.after.access), "e-started") \/ Stuck("x-stop"))
    BY <1>t, <1>12, <2>a, WriteAccessDoes
  <2>2. ASSUME Stuck("x-stop") PROVE IInv'
    <3>1. ChangeBase("x-stop") /\ ChangeDone("x-stop")
      BY <1>t, <2>1 DEF ChangeBase, ChangeDone, ChangePlaces
    <3> QED BY <2>1, <2>2, <3>1, ChangeMoves DEF ChangeAll, ChangePlaces
  <2>3. ASSUME AccessIs(WithBoot(run.j.after.access), "e-started") PROVE IInv'
    <3>1. run'.at = "e-started" /\ run'.j = run.j
      BY <2>3 DEF AccessIs, Goes
    <3>2. Changing(run.j)
      BY <2>1, ChangeKnown DEF ChangePlaces
    <3>3. NeverOldOnNew' /\ (older \/ Contract(run.j.before.cur[2]) >= data')
      BY <1>t, <1>v, <2>1, <2>3, <3>2 DEF AccessIs, ITypeOK, OnDisk, NeverOldOnNew, Changing, Fits, Deployed, Contract
    <3>4. ChangeDone("e-started")'
      BY <1>t, <2>a, <2>1, <2>3, <3>1, <3>2 DEF AccessIs, ChangeDone, Changing
    <3>5. (run.j.stage # "prepared")
      BY <1>t, <2>1 DEF ChangeBase
    <3> QED BY <2>1, <2>3, <3>1, <3>3, <3>4, <3>5, ChangeWorks
            DEF AccessIs, ChangePlaces, WorkPlaces, UndoPlaces
  <2> QED BY <2>1, <2>2, <2>3
<1>13. CASE Save("e-started", "started", "e-start", "x-stop")
  <2>1. run.at = "e-started" /\ ITypeOK' /\ (Saved("started", "e-start") \/ Stuck("x-stop"))
    BY <1>t, <1>13, <1>s, SaveDoes
  <2>2. ChangeDone("e-start") /\ ChangeBase("x-stop") /\ ChangeDone("x-stop")
    BY <1>t, <2>1 DEF ChangeBase, ChangeDone, ChangePlaces
  <2> QED BY <2>1, <2>2, ChangeSaves, ChangeMoves DEF ChangeAll, ChangePlaces
<1>14. CASE Start("e-start", "e-health", "x-stop")
  <2>1. run.at = "e-start" /\ ITypeOK' /\ (Started("e-health") \/ Started("x-stop") \/ Stuck("x-stop"))
    BY <1>t, <1>14, StartDoes
  <2>2. ASSUME Stuck("x-stop") PROVE IInv'
    <3>1. ChangeBase("x-stop") /\ ChangeDone("x-stop")
      BY <1>t, <2>1 DEF ChangeBase, ChangeDone, ChangePlaces
    <3> QED BY <2>1, <2>2, <3>1, ChangeMoves DEF ChangeAll, ChangePlaces
  <2>3. ASSUME NEW p \in {"e-health", "x-stop"}, Started(p) PROVE IInv'
    <3>1. run'.at = p /\ run'.j = run.j
      BY <2>3 DEF Started, Goes
    <3>2. Changing(run.j)
      BY <2>1, ChangeKnown DEF ChangePlaces
    <3>3. NeverOldOnNew' /\ (older \/ Contract(run.j.before.cur[2]) >= data')
      BY <1>t, <1>v, <2>1, <2>3, <3>2 DEF Started, ITypeOK, OnDisk, NeverOldOnNew, Changing, Fits, Deployed, Contract
    <3>4. ChangeDone(p)'
      BY <1>t, <2>1, <2>3, <3>1, <3>2 DEF Started, ChangeDone, Changing
    <3>5. (run.j.stage # "prepared")
      BY <1>t, <2>1 DEF ChangeBase
    <3> QED BY <2>1, <2>3, <3>1, <3>3, <3>4, <3>5, ChangeWorks
            DEF Started, ChangePlaces, WorkPlaces, UndoPlaces
  <2> QED BY <2>1, <2>2, <2>3
<1>15. CASE Health("e-health", "e-state", "x-stop")
  <2>1. run.at = "e-health" /\ ITypeOK' /\ (Stuck("e-state") \/ Stuck("x-stop"))
    BY <1>t, <1>15, HealthDoes
  <2>2. ChangeBase("e-state") /\ ChangeDone("e-state") /\ ChangeBase("x-stop") /\ ChangeDone("x-stop")
    BY <1>t, <2>1 DEF ChangeBase, ChangeDone, ChangePlaces
  <2> QED BY <2>1, <2>2, ChangeMoves DEF ChangeAll, ChangePlaces
<1>16. CASE SaveState("e-state", run.j.after, "e-complete", "x-stop")
  <2>0. run.j.after \in States \cup {Absent}
    <3>1. run.at \in ChangePlaces
      BY <1>16 DEF SaveState, Doing, ChangePlaces
    <3>2. Changing(run.j)
      BY <3>1, ChangeKnown
    <3> QED BY <3>2 DEF Changing, States, Recoveries
  <2>1. run.at = "e-state" /\ ITypeOK' /\ (StateSaved(run.j.after, "e-complete") \/ Stuck("x-stop"))
    BY <1>t, <1>16, <2>0, SaveStateDoes
  <2>2. ASSUME Stuck("x-stop") PROVE IInv'
    <3>1. ChangeBase("x-stop") /\ ChangeDone("x-stop")
      BY <1>t, <2>1 DEF ChangeBase, ChangeDone, ChangePlaces
    <3> QED BY <2>1, <2>2, <3>1, ChangeMoves DEF ChangeAll, ChangePlaces
  <2>3. ASSUME StateSaved(run.j.after, "e-complete") PROVE IInv'
    <3>1. run'.at = "e-complete" /\ run'.j = run.j
      BY <2>3 DEF StateSaved, Goes
    <3>2. Changing(run.j)
      BY <2>1, ChangeKnown DEF ChangePlaces
    <3>3. NeverOldOnNew' /\ (older \/ Contract(run.j.before.cur[2]) >= data')
      BY <1>t, <1>v, <2>1, <2>3, <3>2 DEF StateSaved, ITypeOK, OnDisk, NeverOldOnNew, Changing, Fits, Deployed, Contract
    <3>4. ChangeDone("e-complete")'
      BY <1>t, <2>1, <2>3, <3>1, <3>2 DEF StateSaved, ChangeDone, Changing
    <3>5. (run.j.stage # "prepared")
      BY <1>t, <2>1 DEF ChangeBase
    <3>6. Has(state') /\ Aged(state')
      BY <2>3, <3>2 DEF StateSaved, Changing, Has, Aged, States
    <3> QED BY <2>1, <2>3, <3>1, <3>3, <3>4, <3>5, <3>6, ChangeWorks
            DEF StateSaved, ChangePlaces, WorkPlaces, UndoPlaces
  <2> QED BY <2>1, <2>2, <2>3
<1>17. CASE Save("e-complete", "complete", "e-forget", "x-stop")
  <2>1. run.at = "e-complete" /\ ITypeOK' /\ (Saved("complete", "e-forget") \/ Stuck("x-stop"))
    BY <1>t, <1>17, <1>s, SaveDoes
  <2>2. ChangeBase("x-stop") /\ ChangeDone("x-stop")
    BY <1>t, <2>1 DEF ChangeBase, ChangeDone, ChangePlaces
  <2>3. Whole(state)
    <3>1. Changing(run.j)
      BY <2>1, ChangeKnown DEF ChangePlaces
    <3> QED BY <1>t, <2>1, <3>1
            DEF ChangeBase, ChangeDone, ChangePlaces, Changing, Whole, Has, Aged, Deployed, Accessed, States, Recoveries
  <2> QED BY <2>1, <2>2, <2>3, ChangeCloses, ChangeMoves DEF ChangeAll, ChangePlaces
<1> QED BY <1>1, <1>2, <1>3, <1>4, <1>5, <1>6, <1>7, <1>8, <1>9, <1>10, <1>11, <1>12, <1>13, <1>14, <1>15, <1>16, <1>17
     DEF Reconfigure

\* RollbackExposure: its rollback.
LEMMA RollbackExposureKeeps == ASSUME IInv, RollbackExposure PROVE IInv'
<1>t. ITypeOK /\ OnDisk /\ ChangeBase(run.at) /\ ChangeDone(run.at)
  BY DEF IInv, Here, AtChange
<1>s. {"prepared", "snapshot-ready", "swap-pending", "started", "recovery-required", "complete", "rolled-back",
       "aborted"} \subseteq Stages
  BY DEF Stages
<1>v. Versions \subseteq Int /\ FirstNew \in Int /\ Absent \notin Versions
  BY VersionsAssumption
<1>1. CASE Stop("x-stop", "x-policy", "x-policy")
  <2>1. run.at = "x-stop" /\ ITypeOK' /\ (Stopped("x-policy") \/ Stuck("x-policy"))
    BY <1>t, <1>1, StopDoes
  <2>2. ASSUME Stuck("x-policy") PROVE IInv'
    <3>1. ChangeBase("x-policy") /\ ChangeDone("x-policy")
      BY <1>t, <2>1 DEF ChangeBase, ChangeDone, ChangePlaces
    <3> QED BY <2>1, <2>2, <3>1, ChangeMoves DEF ChangeAll, ChangePlaces
  <2>3. ASSUME Stopped("x-policy") PROVE IInv'
    <3>1. run'.at = "x-policy" /\ run'.j = run.j
      BY <2>3 DEF Stopped, Goes
    <3>2. Changing(run.j)
      BY <2>1, ChangeKnown DEF ChangePlaces
    <3>3. NeverOldOnNew' /\ (older \/ Contract(run.j.before.cur[2]) >= data')
      BY <1>t, <1>v, <2>1, <2>3, <3>2 DEF Stopped, ITypeOK, OnDisk, NeverOldOnNew, Changing, Fits, Deployed, Contract
    <3>4. ChangeDone("x-policy")'
      BY <1>t, <2>1, <2>3, <3>1, <3>2 DEF Stopped, ChangeDone, Changing
    <3>5. (run.j.stage # "prepared" \/ run.j.op = "domains")
      BY <1>t, <2>1 DEF ChangeBase
    <3> QED BY <2>1, <2>3, <3>1, <3>3, <3>4, <3>5, ChangeWorks
            DEF Stopped, ChangePlaces, WorkPlaces, UndoPlaces
  <2> QED BY <2>1, <2>2, <2>3
<1>2. CASE snapshot # Absent /\ WriteAccess("x-policy", WithPolicy(snapshot.policy), "x-boot", "x-fail")
  <2>0. snapshot.policy \in Nat \cup {Removed}
    <3>1. run.at \in ChangePlaces
      BY <1>2 DEF WriteAccess, Doing, ChangePlaces
    <3>2. Changing(run.j)
      BY <3>1, ChangeKnown
    <3> QED BY <1>t, <1>2 DEF ITypeOK, AccessFiles
  <2>a. /\ WithPolicy(snapshot.policy) \in AccessFiles /\ WithPolicy(snapshot.policy).policy = snapshot.policy
        /\ WithPolicy(snapshot.policy).boot = access.boot /\ WithPolicy(snapshot.policy).unit = access.unit
    BY <1>t, <2>0, AccessParts DEF ITypeOK
  <2>1. run.at = "x-policy" /\ ITypeOK' /\ (AccessIs(WithPolicy(snapshot.policy), "x-boot") \/ Stuck("x-fail"))
    BY <1>t, <1>2, <2>a, WriteAccessDoes
  <2>2. ASSUME Stuck("x-fail") PROVE IInv'
    <3>1. ChangeBase("x-fail") /\ ChangeDone("x-fail")
      BY <1>t, <2>1 DEF ChangeBase, ChangeDone, ChangePlaces
    <3> QED BY <2>1, <2>2, <3>1, ChangeMoves DEF ChangeAll, ChangePlaces
  <2>3. ASSUME AccessIs(WithPolicy(snapshot.policy), "x-boot") PROVE IInv'
    <3>1. run'.at = "x-boot" /\ run'.j = run.j
      BY <2>3 DEF AccessIs, Goes
    <3>2. Changing(run.j)
      BY <2>1, ChangeKnown DEF ChangePlaces
    <3>3. NeverOldOnNew' /\ (older \/ Contract(run.j.before.cur[2]) >= data')
      BY <1>t, <1>v, <2>1, <2>3, <3>2 DEF AccessIs, ITypeOK, OnDisk, NeverOldOnNew, Changing, Fits, Deployed, Contract
    <3>4. ChangeDone("x-boot")'
      BY <1>t, <2>a, <1>2, <2>1, <2>3, <3>1, <3>2 DEF AccessIs, ChangeDone, Changing
    <3>5. (run.j.stage # "prepared" \/ run.j.op = "domains")
      BY <1>t, <2>1 DEF ChangeBase
    <3> QED BY <2>1, <2>3, <3>1, <3>3, <3>4, <3>5, ChangeWorks
            DEF AccessIs, ChangePlaces, WorkPlaces, UndoPlaces
  <2> QED BY <2>1, <2>2, <2>3
<1>3. CASE snapshot = Absent /\ Doing("x-policy") /\ Go("x-fail") /\ UNCHANGED <<disk, service, faults>> /\ Same
  <2>1. run.at = "x-policy" /\ Stuck("x-fail") /\ ITypeOK'
    BY <1>t, <1>3, GoDoes DEF Doing, Stuck, Still, Same, disk, ITypeOK, Shaped
  <2>2. ChangeBase("x-fail") /\ ChangeDone("x-fail")
    BY <1>t, <2>1 DEF ChangeBase, ChangeDone, ChangePlaces
  <2> QED BY <2>1, <2>2, ChangeMoves DEF ChangeAll, ChangePlaces
<1>4. CASE WriteAccess("x-boot", [snapshot EXCEPT !.policy = access.policy], "x-start", "x-fail")
  <2>0. snapshot \in AccessFiles
    <3>1. run.at \in ChangePlaces
      BY <1>4 DEF WriteAccess, Doing, ChangePlaces
    <3>2. Changing(run.j)
      BY <3>1, ChangeKnown
    <3> QED BY <1>t, <1>4, <3>2 DEF ITypeOK, ChangeDone, WriteAccess, Doing
  <2>a. LET given == [snapshot EXCEPT !.policy = access.policy]
        IN /\ given \in AccessFiles /\ given.policy = access.policy
           /\ given.boot = snapshot.boot /\ given.unit = snapshot.unit
    BY <1>t, <2>0 DEF ITypeOK, AccessFiles
  <2>1. run.at = "x-boot" /\ ITypeOK' /\ (AccessIs([snapshot EXCEPT !.policy = access.policy], "x-start") \/ Stuck("x-fail"))
    BY <1>t, <1>4, <2>a, WriteAccessDoes
  <2>2. ASSUME Stuck("x-fail") PROVE IInv'
    <3>1. ChangeBase("x-fail") /\ ChangeDone("x-fail")
      BY <1>t, <2>1 DEF ChangeBase, ChangeDone, ChangePlaces
    <3> QED BY <2>1, <2>2, <3>1, ChangeMoves DEF ChangeAll, ChangePlaces
  <2>3. ASSUME AccessIs([snapshot EXCEPT !.policy = access.policy], "x-start") PROVE IInv'
    <3>1. run'.at = "x-start" /\ run'.j = run.j
      BY <2>3 DEF AccessIs, Goes
    <3>2. Changing(run.j)
      BY <2>1, ChangeKnown DEF ChangePlaces
    <3>3. NeverOldOnNew' /\ (older \/ Contract(run.j.before.cur[2]) >= data')
      BY <1>t, <1>v, <2>1, <2>3, <3>2 DEF AccessIs, ITypeOK, OnDisk, NeverOldOnNew, Changing, Fits, Deployed, Contract
    <3>4. ChangeDone("x-start")'
      BY <1>t, <2>a, <2>1, <2>3, <3>1, <3>2 DEF AccessIs, ChangeDone, Changing
    <3>5. (run.j.stage # "prepared" \/ run.j.op = "domains")
      BY <1>t, <2>1 DEF ChangeBase
    <3> QED BY <2>1, <2>3, <3>1, <3>3, <3>4, <3>5, ChangeWorks
            DEF AccessIs, ChangePlaces, WorkPlaces, UndoPlaces
  <2> QED BY <2>1, <2>2, <2>3
<1>5. CASE Start("x-start", "x-health", "x-fail")
  <2>1. run.at = "x-start" /\ ITypeOK' /\ (Started("x-health") \/ Started("x-fail") \/ Stuck("x-fail"))
    BY <1>t, <1>5, StartDoes
  <2>2. ASSUME Stuck("x-fail") PROVE IInv'
    <3>1. ChangeBase("x-fail") /\ ChangeDone("x-fail")
      BY <1>t, <2>1 DEF ChangeBase, ChangeDone, ChangePlaces
    <3> QED BY <2>1, <2>2, <3>1, ChangeMoves DEF ChangeAll, ChangePlaces
  <2>3. ASSUME NEW p \in {"x-health", "x-fail"}, Started(p) PROVE IInv'
    <3>1. run'.at = p /\ run'.j = run.j
      BY <2>3 DEF Started, Goes
    <3>2. Changing(run.j)
      BY <2>1, ChangeKnown DEF ChangePlaces
    <3>3. NeverOldOnNew' /\ (older \/ Contract(run.j.before.cur[2]) >= data')
      BY <1>t, <1>v, <2>1, <2>3, <3>2 DEF Started, ITypeOK, OnDisk, NeverOldOnNew, Changing, Fits, Deployed, Contract
    <3>4. ChangeDone(p)'
      BY <1>t, <2>1, <2>3, <3>1, <3>2 DEF Started, ChangeDone, Changing
    <3>5. (run.j.stage # "prepared" \/ run.j.op = "domains")
      BY <1>t, <2>1 DEF ChangeBase
    <3> QED BY <2>1, <2>3, <3>1, <3>3, <3>4, <3>5, ChangeWorks
            DEF Started, ChangePlaces, WorkPlaces, UndoPlaces
  <2> QED BY <2>1, <2>2, <2>3
<1>6. CASE Health("x-health", "x-state", "x-fail")
  <2>1. run.at = "x-health" /\ ITypeOK' /\ (Stuck("x-state") \/ Stuck("x-fail"))
    BY <1>t, <1>6, HealthDoes
  <2>2. ChangeBase("x-state") /\ ChangeDone("x-state") /\ ChangeBase("x-fail") /\ ChangeDone("x-fail")
    BY <1>t, <2>1 DEF ChangeBase, ChangeDone, ChangePlaces
  <2> QED BY <2>1, <2>2, ChangeMoves DEF ChangeAll, ChangePlaces
<1>7. CASE SaveState("x-state", [run.j.before EXCEPT !.recovery = "none"], "x-done", "x-mark")
  <2>0. [run.j.before EXCEPT !.recovery = "none"] \in States \cup {Absent}
    <3>1. run.at \in ChangePlaces
      BY <1>7 DEF SaveState, Doing, ChangePlaces
    <3>2. Changing(run.j)
      BY <3>1, ChangeKnown
    <3> QED BY <3>2 DEF Changing, States, Recoveries
  <2>1. run.at = "x-state" /\ ITypeOK' /\ (StateSaved([run.j.before EXCEPT !.recovery = "none"], "x-done") \/ Stuck("x-mark"))
    BY <1>t, <1>7, <2>0, SaveStateDoes
  <2>2. ASSUME Stuck("x-mark") PROVE IInv'
    <3>1. ChangeBase("x-mark") /\ ChangeDone("x-mark")
      BY <1>t, <2>1 DEF ChangeBase, ChangeDone, ChangePlaces
    <3> QED BY <2>1, <2>2, <3>1, ChangeMoves DEF ChangeAll, ChangePlaces
  <2>3. ASSUME StateSaved([run.j.before EXCEPT !.recovery = "none"], "x-done") PROVE IInv'
    <3>1. run'.at = "x-done" /\ run'.j = run.j
      BY <2>3 DEF StateSaved, Goes
    <3>2. Changing(run.j)
      BY <2>1, ChangeKnown DEF ChangePlaces
    <3>3. NeverOldOnNew' /\ (older \/ Contract(run.j.before.cur[2]) >= data')
      BY <1>t, <1>v, <2>1, <2>3, <3>2 DEF StateSaved, ITypeOK, OnDisk, NeverOldOnNew, Changing, Fits, Deployed, Contract
    <3>4. ChangeDone("x-done")'
      BY <1>t, <2>1, <2>3, <3>1, <3>2 DEF StateSaved, ChangeDone, Changing
    <3>5. (run.j.stage # "prepared" \/ run.j.op = "domains")
      BY <1>t, <2>1 DEF ChangeBase
    <3>6. Has(state') /\ Aged(state')
      BY <2>3, <3>2 DEF StateSaved, Changing, Has, Aged, States
    <3> QED BY <2>1, <2>3, <3>1, <3>3, <3>4, <3>5, <3>6, ChangeWorks
            DEF StateSaved, ChangePlaces, WorkPlaces, UndoPlaces
  <2> QED BY <2>1, <2>2, <2>3
<1>8. CASE Save("x-done", "rolled-back", "x-forget", "idle")
  <2>1. run.at = "x-done" /\ ITypeOK' /\ (Saved("rolled-back", "x-forget") \/ Stuck("idle"))
    BY <1>t, <1>8, <1>s, SaveDoes
  <2>2. ChangeBase("idle") /\ ChangeDone("idle")
    BY <1>t, <2>1 DEF ChangeBase, ChangeDone, ChangePlaces
  <2>3. Whole(state)
    <3>1. Changing(run.j)
      BY <2>1, ChangeKnown DEF ChangePlaces
    <3> QED BY <1>t, <2>1, <3>1
            DEF ChangeBase, ChangeDone, ChangePlaces, Changing, Whole, Has, Aged, Deployed, Accessed, States, Recoveries
  <2> QED BY <2>1, <2>2, <2>3, ChangeCloses, ChangeMoves DEF ChangeAll, ChangePlaces
<1>9. CASE DropSnapshot("x-forget", "idle")
  BY <1>9, DropKeeps
<1>10. CASE SaveState("x-fail", [run.j.before EXCEPT !.recovery = "exposure-recovery-required"], "x-mark", "x-mark")
  <2>0. [run.j.before EXCEPT !.recovery = "exposure-recovery-required"] \in States \cup {Absent}
    <3>1. run.at \in ChangePlaces
      BY <1>10 DEF SaveState, Doing, ChangePlaces
    <3>2. Changing(run.j)
      BY <3>1, ChangeKnown
    <3> QED BY <3>2 DEF Changing, States, Recoveries
  <2>1. run.at = "x-fail" /\ ITypeOK' /\ (StateSaved([run.j.before EXCEPT !.recovery = "exposure-recovery-required"], "x-mark") \/ Stuck("x-mark"))
    BY <1>t, <1>10, <2>0, SaveStateDoes
  <2>2. ASSUME Stuck("x-mark") PROVE IInv'
    <3>1. ChangeBase("x-mark") /\ ChangeDone("x-mark")
      BY <1>t, <2>1 DEF ChangeBase, ChangeDone, ChangePlaces
    <3> QED BY <2>1, <2>2, <3>1, ChangeMoves DEF ChangeAll, ChangePlaces
  <2>3. ASSUME StateSaved([run.j.before EXCEPT !.recovery = "exposure-recovery-required"], "x-mark") PROVE IInv'
    <3>1. run'.at = "x-mark" /\ run'.j = run.j
      BY <2>3 DEF StateSaved, Goes
    <3>2. Changing(run.j)
      BY <2>1, ChangeKnown DEF ChangePlaces
    <3>3. NeverOldOnNew' /\ (older \/ Contract(run.j.before.cur[2]) >= data')
      BY <1>t, <1>v, <2>1, <2>3, <3>2 DEF StateSaved, ITypeOK, OnDisk, NeverOldOnNew, Changing, Fits, Deployed, Contract
    <3>4. ChangeDone("x-mark")'
      BY <1>t, <2>1, <2>3, <3>1, <3>2 DEF StateSaved, ChangeDone, Changing
    <3>5. (run.j.stage # "prepared" \/ run.j.op = "domains")
      BY <1>t, <2>1 DEF ChangeBase
    <3>6. Has(state') /\ Aged(state')
      BY <2>3, <3>2 DEF StateSaved, Changing, Has, Aged, States
    <3> QED BY <2>1, <2>3, <3>1, <3>3, <3>4, <3>5, <3>6, ChangeWorks
            DEF StateSaved, ChangePlaces, WorkPlaces, UndoPlaces
  <2> QED BY <2>1, <2>2, <2>3
<1>11. CASE Save("x-mark", "recovery-required", "idle", "idle")
  <2>1. run.at = "x-mark" /\ ITypeOK' /\ (Saved("recovery-required", "idle") \/ Stuck("idle"))
    BY <1>t, <1>11, <1>s, SaveDoes
  <2>2. ChangeDone("idle") /\ ChangeBase("idle")
    BY <1>t, <2>1 DEF ChangeBase, ChangeDone, ChangePlaces
  <2> QED BY <2>1, <2>2, ChangeSaves, ChangeMoves DEF ChangeAll, ChangePlaces
<1> QED BY <1>1, <1>2, <1>3, <1>4, <1>5, <1>6, <1>7, <1>8, <1>9, <1>10, <1>11 DEF RollbackExposure

\* ClosePrepared: a change that was only prepared.
LEMMA ClosePreparedKeeps == ASSUME IInv, ClosePrepared PROVE IInv'
<1>t. ITypeOK /\ OnDisk /\ ChangeBase(run.at) /\ ChangeDone(run.at)
  BY DEF IInv, Here, AtChange
<1>s. {"prepared", "snapshot-ready", "swap-pending", "started", "recovery-required", "complete", "rolled-back",
       "aborted"} \subseteq Stages
  BY DEF Stages
<1>v. Versions \subseteq Int /\ FirstNew \in Int /\ Absent \notin Versions
  BY VersionsAssumption
<1>1. CASE DropSnapshot("y-forget", "y-done")
  BY <1>1, DropKeeps
<1>2. CASE Save("y-done", "rolled-back", "idle", "idle")
  <2>1. run.at = "y-done" /\ ITypeOK' /\ (Saved("rolled-back", "idle") \/ Stuck("idle"))
    BY <1>t, <1>2, <1>s, SaveDoes
  <2>2. ChangeBase("idle") /\ ChangeDone("idle")
    BY <1>t, <2>1 DEF ChangeBase, ChangeDone, ChangePlaces
  <2>3. Whole(state)
    <3>1. Changing(run.j)
      BY <2>1, ChangeKnown DEF ChangePlaces
    <3> QED BY <1>t, <2>1, <3>1
            DEF ChangeBase, ChangeDone, ChangePlaces, Changing, Whole, Has, Aged, Deployed, Accessed, States, Recoveries
  <2> QED BY <2>1, <2>2, <2>3, ChangeCloses, ChangeMoves DEF ChangeAll, ChangePlaces
<1> QED BY <1>1, <1>2 DEF ClosePrepared

(* -------------------------------- restart ------------------------------- *)

RestartPlaces == {"t-stop", "t-started", "t-start", "t-health", "t-done", "t-fail"}
RestartAll == RestartPlaces \cup {"t-prepared", "idle"}
\* At a place of a restart nothing is asked of the other operations.
LEMMA RestartAlone ==
  ASSUME NEW p \in RestartAll
  PROVE  /\ AtSwap(p) /\ AtChange(p) /\ AtInstall(p) /\ AtRemoval(p)
         /\ AtSwap(p)' /\ AtChange(p)' /\ AtInstall(p)' /\ AtRemoval(p)'
<1>1. AtSwap(p) /\ AtSwap(p)'
  BY DEF RestartAll, RestartPlaces, AtSwap, SwapBase, SwapDone, SwapPlaces
<1>2. AtChange(p) /\ AtChange(p)'
  BY DEF RestartAll, RestartPlaces, AtChange, ChangeBase, ChangeDone, ChangePlaces
<1>3. AtInstall(p) /\ AtInstall(p)'
  BY DEF RestartAll, RestartPlaces, AtInstall, InstallPlaces
<1>4. AtRemoval(p) /\ AtRemoval(p)'
  BY DEF RestartAll, RestartPlaces, AtRemoval
<1> QED BY <1>1, <1>2, <1>3, <1>4

\* The process goes to another place of the restart.
LEMMA RestartMoves ==
  ASSUME IInv, ITypeOK', NEW p \in RestartAll, Stuck(p), AtRestart(p) PROVE IInv'
  BY Moves, RestartAlone DEF Here

\* A restart has found an installation that a start makes whole.
LEMMA RestartKnown ==
  ASSUME IInv, run.at \in RestartPlaces \cup {"t-prepared"}
  PROVE  Restarting /\ run.j.op = "restart" /\ ~run.j.need
<1>1. /\ run.j.op = "restart" /\ ~run.j.need
      /\ \/ Closed(journal) /\ state # Absent
         \/ ~Closed(journal) /\ journal.op = "restart"
  <2>1. CASE run.at = "t-prepared"
    BY <2>1 DEF IInv, Here, AtRestart
  <2>2. CASE run.at \in RestartPlaces
    BY <2>2 DEF IInv, Here, AtRestart, RestartPlaces, Linked
  <2> QED BY <2>1, <2>2
<1>2. CASE Closed(journal)
  <2>1. Whole(state) /\ NeverOldOnNew /\ ITypeOK
    BY <1>1, <1>2 DEF IInv, OnDisk, Settled
  <2>2. state.cur[2] \in Versions
    BY <2>1 DEF Whole, States, Artifacts
  <2> QED BY <1>1, <2>1, <2>2, VersionsAssumption DEF Whole, Restarting, NeverOldOnNew, Fits
<1>3. CASE ~Closed(journal) /\ journal.op = "restart"
  BY <1>1, <1>3 DEF IInv, OnDisk, Interrupted
<1> QED BY <1>1, <1>2, <1>3

\* The journal of the restart is written with a further stage.
LEMMA RestartSaves ==
  ASSUME IInv, ITypeOK', run.at \in RestartPlaces \cup {"t-prepared"},
         NEW s \in {"prepared", "started", "recovery-required"},
         NEW p \in {"t-stop", "t-start", "idle"}, Saved(s, p)
  PROVE  IInv'
<1>0. OnDisk /\ p \in RestartAll
  BY DEF IInv, RestartAll, RestartPlaces
<1>1. Restarting /\ run.j.op = "restart" /\ ~run.j.need
  BY RestartKnown
<1>2. /\ Writes(s) /\ run'.at = p /\ (p # "idle" => run'.j = journal')
      /\ UNCHANGED <<state, artifacts, bin, compose, access, snapshot, archive, data, service, ids, older>>
  BY DEF Saved
<1>3. Restarting' /\ ~Closed(journal)' /\ journal'.op = "restart" /\ ~journal'.need /\ journal'.stage # "new"
  BY <1>1, <1>2 DEF Restarting, Closed, Has, Aged, Deployed, Accessed, Fits, Writes
<1>4. OnDisk'
  BY <1>0, <1>2, <1>3
     DEF OnDisk, Settled, BuildsKept, Aging, NeverOldOnNew, Interrupted, Restarting, Swaps, Changes
<1>5. AtRestart(p)'
  BY <1>2, <1>3 DEF AtRestart, Linked
<1> QED BY <1>0, <1>2, <1>4, <1>5, RestartAlone DEF IInv, Here

\* The journal of the restart is closed: what was found runs again.
LEMMA RestartCloses ==
  ASSUME IInv, ITypeOK', run.at = "t-done", Saved("complete", "idle")
  PROVE  IInv'
<1>0. OnDisk /\ AtRestart("t-done")
  BY DEF IInv, Here
<1>1. Restarting /\ run.j.op = "restart" /\ ~run.j.need /\ service = compose
  BY <1>0, RestartKnown DEF AtRestart, RestartPlaces
<1>2. /\ Writes("complete") /\ run'.at = "idle"
      /\ UNCHANGED <<state, artifacts, bin, compose, access, snapshot, archive, data, service, ids, older>>
  BY DEF Saved
<1>3. Closed(journal)' /\ ~journal'.need /\ Whole(state)'
  BY <1>1, <1>2 DEF Closed, Writes, Restarting, Whole, Has, Aged, Accessed, Deployed
<1>4. OnDisk'
  BY <1>0, <1>2, <1>3 DEF OnDisk, Settled, BuildsKept, Aging, NeverOldOnNew, Interrupted, Whole, Writes, Closed
<1>5. AtRestart("idle")'
  BY DEF AtRestart
<1> QED BY <1>2, <1>4, <1>5, RestartAlone DEF IInv, Here, RestartAll

\* The service is stopped or started.
LEMMA RestartWorks ==
  ASSUME IInv, ITypeOK', run.at \in RestartPlaces, NEW p \in RestartPlaces, run'.at = p, run'.j = run.j,
         UNCHANGED <<journal, state, artifacts, bin, compose, access, ids, older>>,
         NeverOldOnNew', (older \/ Contract(compose) >= data'), AtRestart(p)'
  PROVE  IInv'
<1>0. OnDisk /\ p \in RestartAll /\ AtRestart(run.at)
  BY DEF IInv, RestartAll, Here
<1>1. Restarting /\ run.j.op = "restart" /\ ~run.j.need
  BY RestartKnown
<1>2. Linked /\ ~Closed(journal)
  BY <1>0 DEF AtRestart, RestartPlaces
<1>3. Restarting'
  BY <1>1 DEF Restarting, Has, Aged, Deployed, Accessed, Fits, Contract
<1>4. BuildsKept' /\ Aging'
  BY <1>0 DEF OnDisk, BuildsKept, Aging, Has, Aged
<1>5. OnDisk'
  BY <1>0, <1>1, <1>2, <1>3, <1>4 DEF OnDisk, Settled, Interrupted, Swaps, Changes, Linked, Closed
<1> QED BY <1>0, <1>5, RestartAlone DEF IInv, Here

\* The restart.
LEMMA RestartKeeps == ASSUME IInv, Restart PROVE IInv'
<1>t. ITypeOK /\ OnDisk /\ AtRestart(run.at)
  BY DEF IInv, Here
<1>s. {"prepared", "swap-pending", "started", "recovery-required", "complete", "aborted"} \subseteq Stages
  BY DEF Stages
<1>v. Versions \subseteq Int /\ FirstNew \in Int /\ Absent \notin Versions
  BY VersionsAssumption
<1>1. CASE Save("t-prepared", "prepared", "t-stop", "idle")
  <2>1. run.at = "t-prepared" /\ ITypeOK' /\ (Saved("prepared", "t-stop") \/ Stuck("idle"))
    BY <1>t, <1>1, <1>s, SaveDoes
  <2>2. AtRestart("idle")
    BY <1>t, <2>1 DEF AtRestart
  <2> QED BY <2>1, <2>2, RestartSaves, RestartMoves DEF RestartAll, RestartPlaces
<1>2. CASE Stop("t-stop", "t-started", "t-fail")
  <2>1. run.at = "t-stop" /\ ITypeOK' /\ (Stopped("t-started") \/ Stuck("t-fail"))
    BY <1>t, <1>2, StopDoes
  <2>2. ASSUME Stuck("t-fail") PROVE IInv'
    <3>1. AtRestart("t-fail")
      BY <1>t, <2>1 DEF AtRestart
    <3> QED BY <2>1, <2>2, <3>1, RestartMoves DEF RestartAll, RestartPlaces
  <2>3. ASSUME Stopped("t-started") PROVE IInv'
    <3>1. run'.at = "t-started" /\ run'.j = run.j
      BY <2>3 DEF Stopped, Goes
    <3>2. Restarting
      BY <2>1, RestartKnown DEF RestartPlaces
    <3>3. NeverOldOnNew' /\ (older \/ Contract(compose) >= data')
      BY <1>t, <1>v, <2>3, <3>2 DEF Stopped, ITypeOK, OnDisk, NeverOldOnNew, Restarting, Fits, Deployed, Contract
    <3>4. AtRestart("t-started")'
      BY <1>t, <2>1, <2>3, <3>1 DEF Stopped, AtRestart, Linked, Closed
    <3> QED BY <2>1, <2>3, <3>1, <3>3, <3>4, RestartWorks DEF Stopped, RestartPlaces
  <2> QED BY <2>1, <2>2, <2>3
<1>3. CASE Save("t-started", "started", "t-start", "t-fail")
  <2>1. run.at = "t-started" /\ ITypeOK' /\ (Saved("started", "t-start") \/ Stuck("t-fail"))
    BY <1>t, <1>3, <1>s, SaveDoes
  <2>2. AtRestart("t-fail")
    BY <1>t, <2>1 DEF AtRestart
  <2> QED BY <2>1, <2>2, RestartSaves, RestartMoves DEF RestartAll, RestartPlaces
<1>4. CASE Start("t-start", "t-health", "t-fail")
  <2>1. run.at = "t-start" /\ ITypeOK' /\ (Started("t-health") \/ Started("t-fail") \/ Stuck("t-fail"))
    BY <1>t, <1>4, StartDoes
  <2>2. ASSUME Stuck("t-fail") PROVE IInv'
    <3>1. AtRestart("t-fail")
      BY <1>t, <2>1 DEF AtRestart
    <3> QED BY <2>1, <2>2, <3>1, RestartMoves DEF RestartAll, RestartPlaces
  <2>3. ASSUME NEW p \in {"t-health", "t-fail"}, Started(p) PROVE IInv'
    <3>1. run'.at = p /\ run'.j = run.j
      BY <2>3 DEF Started, Goes
    <3>2. Restarting
      BY <2>1, RestartKnown DEF RestartPlaces
    <3>3. NeverOldOnNew' /\ (older \/ Contract(compose) >= data')
      BY <1>t, <1>v, <2>3, <3>2 DEF Started, ITypeOK, OnDisk, NeverOldOnNew, Restarting, Fits, Deployed, Contract
    <3>4. AtRestart(p)'
      BY <1>t, <2>1, <2>3, <3>1 DEF Started, AtRestart, Linked, Closed
    <3> QED BY <2>1, <2>3, <3>1, <3>3, <3>4, RestartWorks DEF Started, RestartPlaces
  <2> QED BY <2>1, <2>2, <2>3
<1>5. CASE Health("t-health", "t-done", "t-fail")
  <2>1. run.at = "t-health" /\ ITypeOK' /\ (Stuck("t-done") \/ Stuck("t-fail"))
    BY <1>t, <1>5, HealthDoes
  <2>2. AtRestart("t-done") /\ AtRestart("t-fail")
    BY <1>t, <2>1 DEF AtRestart
  <2> QED BY <2>1, <2>2, RestartMoves DEF RestartAll, RestartPlaces
<1>6. CASE Save("t-done", "complete", "idle", "t-fail")
  <2>1. run.at = "t-done" /\ ITypeOK' /\ (Saved("complete", "idle") \/ Stuck("t-fail"))
    BY <1>t, <1>6, <1>s, SaveDoes
  <2>2. AtRestart("t-fail")
    BY <1>t, <2>1 DEF AtRestart
  <2> QED BY <2>1, <2>2, RestartCloses, RestartMoves DEF RestartAll, RestartPlaces
<1>7. CASE Save("t-fail", "recovery-required", "idle", "idle")
  <2>1. run.at = "t-fail" /\ ITypeOK' /\ (Saved("recovery-required", "idle") \/ Stuck("idle"))
    BY <1>t, <1>7, <1>s, SaveDoes
  <2>2. AtRestart("idle")
    BY <1>t, <2>1 DEF AtRestart
  <2> QED BY <2>1, <2>2, RestartSaves, RestartMoves DEF RestartAll, RestartPlaces
<1> QED BY <1>1, <1>2, <1>3, <1>4, <1>5, <1>6, <1>7 DEF Restart

(* ------------------------------- uninstall ------------------------------ *)

RemovalPlaces == {"n-stop", "n-swap", "n-remove", "n-state", "n-done"}
RemovalAll == RemovalPlaces \cup {"n-prepared", "idle"}
\* At a place of a removal nothing is asked of the other operations.
LEMMA RemovalAlone ==
  ASSUME NEW p \in RemovalAll
  PROVE  /\ AtSwap(p) /\ AtRestart(p) /\ AtChange(p) /\ AtInstall(p)
         /\ AtSwap(p)' /\ AtRestart(p)' /\ AtChange(p)' /\ AtInstall(p)'
<1>1. AtSwap(p) /\ AtSwap(p)'
  BY DEF RemovalAll, RemovalPlaces, AtSwap, SwapBase, SwapDone, SwapPlaces
<1>2. AtRestart(p) /\ AtRestart(p)'
  BY DEF RemovalAll, RemovalPlaces, AtRestart
<1>3. AtChange(p) /\ AtChange(p)'
  BY DEF RemovalAll, RemovalPlaces, AtChange, ChangeBase, ChangeDone, ChangePlaces
<1>4. AtInstall(p) /\ AtInstall(p)'
  BY DEF RemovalAll, RemovalPlaces, AtInstall, InstallPlaces
<1> QED BY <1>1, <1>2, <1>3, <1>4

\* The process goes to another place of the removal.
LEMMA RemovalMoves ==
  ASSUME IInv, ITypeOK', NEW p \in RemovalAll, Stuck(p), AtRemoval(p) PROVE IInv'
  BY Moves, RemovalAlone DEF Here

\* While an installation is removed, little is asked of it.
LEMMA RemovalWorks ==
  ASSUME IInv, ITypeOK', NEW p \in RemovalAll, run'.at = p, AtRemoval(p)',
         journal'.op = "uninstall", ~journal'.need, journal'.stage # "new", ~Closed(journal)' \/ state' = Absent,
         state' \in {state, Absent}, ids' = ids, older' = older, data' = data, service' \in {service, Absent}
  PROVE  IInv'
<1>1. Aging' /\ NeverOldOnNew'
  BY DEF IInv, OnDisk, Aging, NeverOldOnNew, Aged
<1>2. OnDisk'
  BY <1>1 DEF OnDisk, Settled, BuildsKept, Interrupted, Swaps, Changes
<1> QED BY <1>2, RemovalAlone DEF IInv, Here

\* The removal.
LEMMA UninstallKeeps == ASSUME IInv, Uninstall PROVE IInv'
<1>t. ITypeOK /\ OnDisk /\ AtRemoval(run.at)
  BY DEF IInv, Here
<1>s. {"prepared", "swap-pending", "started", "recovery-required", "complete", "aborted"} \subseteq Stages
  BY DEF Stages
<1>v. Versions \subseteq Int /\ FirstNew \in Int /\ Absent \notin Versions
  BY VersionsAssumption
<1>1. CASE Save("n-prepared", "prepared", "n-stop", "idle")
  <2>1. run.at = "n-prepared" /\ ITypeOK' /\ (Saved("prepared", "n-stop") \/ Stuck("idle"))
    BY <1>t, <1>1, <1>s, SaveDoes
  <2>2. run.j.op = "uninstall" /\ ~run.j.need /\ AtRemoval("idle")
    BY <1>t, <2>1 DEF AtRemoval
  <2>3. ASSUME Saved("prepared", "n-stop") PROVE IInv'
    <3>1. /\ journal'.op = "uninstall" /\ ~journal'.need /\ journal'.stage = "prepared" /\ run'.at = "n-stop"
          /\ ("n-stop" # "idle" => run'.j = journal') /\ UNCHANGED <<state, ids, older, data, service>>
      BY <2>2, <2>3 DEF Saved, Writes
    <3>2. AtRemoval("n-stop")'
      BY <3>1 DEF AtRemoval, Linked, Closed
    <3> QED BY <2>1, <2>2, <3>1, <3>2, RemovalWorks DEF RemovalAll, RemovalPlaces, Closed
  <2> QED BY <2>1, <2>2, <2>3, RemovalMoves DEF RemovalAll
<1>2. CASE Stop("n-stop", "n-swap", "idle")
  <2>1. run.at = "n-stop" /\ ITypeOK' /\ (Stopped("n-swap") \/ Stuck("idle"))
    BY <1>t, <1>2, StopDoes
  <2>2. AtRemoval("idle") /\ Linked /\ ~Closed(journal) /\ run.j.op = "uninstall" /\ ~run.j.need /\ run.j.stage # "new"
    BY <1>t, <2>1 DEF AtRemoval
  <2>n. ~journal.need /\ journal.stage # "new"
    BY <1>t, <2>2 DEF OnDisk, Interrupted, Swaps, Linked
  <2>3. ASSUME Stopped("n-swap") PROVE IInv'
    <3>1. run'.at = "n-swap" /\ run'.j = run.j
      BY <2>3 DEF Stopped, Goes
    <3>2. AtRemoval("n-swap")'
      BY <2>2, <2>3, <3>1 DEF Stopped, AtRemoval, Linked, Closed
    <3> QED BY <2>1, <2>2, <2>n, <2>3, <3>1, <3>2, RemovalWorks DEF Stopped, RemovalAll, RemovalPlaces, Linked, Closed
  <2> QED BY <2>1, <2>2, <2>3, RemovalMoves DEF RemovalAll
<1>3. CASE Save("n-swap", "swap-pending", "n-remove", "idle")
  <2>1. run.at = "n-swap" /\ ITypeOK' /\ (Saved("swap-pending", "n-remove") \/ Stuck("idle"))
    BY <1>t, <1>3, <1>s, SaveDoes
  <2>2. run.j.op = "uninstall" /\ ~run.j.need /\ AtRemoval("idle")
    BY <1>t, <2>1 DEF AtRemoval
  <2>3. ASSUME Saved("swap-pending", "n-remove") PROVE IInv'
    <3>1. /\ journal'.op = "uninstall" /\ ~journal'.need /\ journal'.stage = "swap-pending" /\ run'.at = "n-remove"
          /\ ("n-remove" # "idle" => run'.j = journal') /\ UNCHANGED <<state, ids, older, data, service>>
      BY <2>2, <2>3 DEF Saved, Writes
    <3>2. AtRemoval("n-remove")'
      BY <3>1 DEF AtRemoval, Linked, Closed
    <3> QED BY <2>1, <2>2, <3>1, <3>2, RemovalWorks DEF RemovalAll, RemovalPlaces, Closed
  <2> QED BY <2>1, <2>2, <2>3, RemovalMoves DEF RemovalAll
<1>4. CASE RemoveArtifacts
  <2>1. run.at = "n-remove"
    BY <1>4 DEF RemoveArtifacts, Doing
  <2>2. AtRemoval("idle") /\ Linked /\ ~Closed(journal) /\ run.j.op = "uninstall" /\ ~run.j.need /\ run.j.stage # "new"
    BY <1>t, <2>1 DEF AtRemoval
  <2>n. ~journal.need /\ journal.stage # "new"
    BY <1>t, <2>2 DEF OnDisk, Interrupted, Swaps, Linked
  <2>3. CASE Fails("idle")
    <3>1. Stuck("idle") /\ ITypeOK'
      BY <1>t, <2>3, FailsDoes DEF Stuck
    <3> QED BY <2>2, <3>1, RemovalMoves DEF RemovalAll
  <2>4. CASE ~Fails("idle")
    <3>1. /\ artifacts' \subseteq artifacts /\ bin' = Absent /\ compose' = Absent /\ Goes("n-state") /\ Shaped
          /\ UNCHANGED <<journal, state, access, snapshot, archive, data, service, faults, ids, ops, older>>
      BY <1>t, <1>4, <2>4, GoDoes DEF RemoveArtifacts, Same
    <3>2. ITypeOK' /\ run'.at = "n-state" /\ run'.j = run.j
      BY <1>t, <3>1 DEF ITypeOK, Shaped, Goes
    <3>3. AtRemoval("n-state")'
      BY <2>2, <3>1, <3>2 DEF AtRemoval, Linked, Closed
    <3> QED BY <2>2, <2>n, <3>1, <3>2, <3>3, RemovalWorks DEF RemovalAll, RemovalPlaces, Linked, Closed
  <2> QED BY <2>3, <2>4
<1>5. CASE SaveState("n-state", Absent, "n-done", "idle")
  <2>1. run.at = "n-state" /\ ITypeOK' /\ (StateSaved(Absent, "n-done") \/ Stuck("idle"))
    BY <1>t, <1>5, SaveStateDoes
  <2>2. AtRemoval("idle") /\ Linked /\ ~Closed(journal) /\ run.j.op = "uninstall" /\ ~run.j.need /\ run.j.stage # "new"
    BY <1>t, <2>1 DEF AtRemoval
  <2>n. ~journal.need /\ journal.stage # "new"
    BY <1>t, <2>2 DEF OnDisk, Interrupted, Swaps, Linked
  <2>3. ASSUME StateSaved(Absent, "n-done") PROVE IInv'
    <3>1. run'.at = "n-done" /\ run'.j = run.j
      BY <2>3 DEF StateSaved, Goes
    <3>2. AtRemoval("n-done")'
      BY <2>2, <2>3, <3>1 DEF StateSaved, AtRemoval, Linked, Closed
    <3> QED BY <2>1, <2>2, <2>n, <2>3, <3>1, <3>2, RemovalWorks DEF StateSaved, RemovalAll, RemovalPlaces, Linked, Closed
  <2> QED BY <2>1, <2>2, <2>3, RemovalMoves DEF RemovalAll
<1>6. CASE Save("n-done", "complete", "idle", "idle")
  <2>1. run.at = "n-done" /\ ITypeOK' /\ (Saved("complete", "idle") \/ Stuck("idle"))
    BY <1>t, <1>6, <1>s, SaveDoes
  <2>2. run.j.op = "uninstall" /\ ~run.j.need /\ AtRemoval("idle") /\ state = Absent
    BY <1>t, <2>1 DEF AtRemoval
  <2>3. ASSUME Saved("complete", "idle") PROVE IInv'
    <3>1. /\ journal'.op = "uninstall" /\ ~journal'.need /\ journal'.stage = "complete" /\ run'.at = "idle"
          /\ ("idle" # "idle" => run'.j = journal') /\ UNCHANGED <<state, ids, older, data, service>>
      BY <2>2, <2>3 DEF Saved, Writes
    <3>2. AtRemoval("idle")'
      BY <3>1 DEF AtRemoval, Linked, Closed
    <3> QED BY <2>1, <2>2, <3>1, <3>2, RemovalWorks DEF RemovalAll, RemovalPlaces, Closed
  <2> QED BY <2>1, <2>2, <2>3, RemovalMoves DEF RemovalAll
<1> QED BY <1>1, <1>2, <1>3, <1>4, <1>5, <1>6 DEF Uninstall

(* -------------------------------- install ------------------------------- *)

InstallAll == InstallPlaces \cup {"i-prepared", "i-cleanup", "idle"}
\* At a place of an installation nothing is asked of the other operations.
LEMMA InstallAlone ==
  ASSUME NEW p \in InstallAll
  PROVE  /\ AtSwap(p) /\ AtRestart(p) /\ AtChange(p) /\ AtRemoval(p)
         /\ AtSwap(p)' /\ AtRestart(p)' /\ AtChange(p)' /\ AtRemoval(p)'
<1>1. AtSwap(p) /\ AtSwap(p)'
  BY DEF InstallAll, InstallPlaces, AtSwap, SwapBase, SwapDone, SwapPlaces
<1>2. AtRestart(p) /\ AtRestart(p)'
  BY DEF InstallAll, InstallPlaces, AtRestart
<1>3. AtChange(p) /\ AtChange(p)'
  BY DEF InstallAll, InstallPlaces, AtChange, ChangeBase, ChangeDone, ChangePlaces
<1>4. AtRemoval(p) /\ AtRemoval(p)'
  BY DEF InstallAll, InstallPlaces, AtRemoval
<1> QED BY <1>1, <1>2, <1>3, <1>4

\* The process goes to another place of the installation.
LEMMA InstallMoves ==
  ASSUME IInv, ITypeOK', NEW p \in InstallAll, Stuck(p), AtInstall(p) PROVE IInv'
  BY Moves, InstallAlone DEF Here

\* The journal of an installation names what it installs.
LEMMA InstallKnown ==
  ASSUME IInv, run.at \in InstallPlaces \cup {"i-prepared"}
  PROVE  /\ run.j.op = "install" /\ ~run.j.need /\ Installing(run.j)
         /\ run.at \in InstallPlaces => Linked /\ ~Closed(journal) /\ Installing(journal) /\ run.j.stage # "new"
<1>1. CASE run.at = "i-prepared"
  BY <1>1 DEF IInv, Here, AtInstall, InstallPlaces
<1>2. CASE run.at \in InstallPlaces
  <2>1. Linked /\ ~Closed(journal) /\ run.j.op = "install" /\ ~run.j.need /\ run.j.stage # "new"
    BY <1>2 DEF IInv, Here, AtInstall
  <2>2. Installing(journal)
    BY <2>1 DEF IInv, OnDisk, Interrupted, Linked
  <2> QED BY <2>1, <2>2 DEF Linked, Installing
<1> QED BY <1>1, <1>2

\* A journal with a further stage, or closed when there is no installation.
LEMMA InstallSaves ==
  ASSUME IInv, ITypeOK', run.at \in InstallPlaces \cup {"i-prepared"},
         NEW s \in {"prepared", "swap-pending", "started", "recovery-required", "aborted", "complete"},
         s \in {"aborted", "complete"} => state = Absent \/ Whole(state),
         NEW p \in {"i-needs", "i-stage", "i-mark", "i-bin", "i-cleanup", "idle"}, Saved(s, p),
         p \notin {"idle", "i-cleanup"} => s \notin {"aborted", "complete"}, p = "i-cleanup" => s = "complete",
         p \in {"i-needs", "i-again"} => state = Absent,
         p \in {"i-mark", "i-bin"} => run.j.cand \in artifacts /\ compose = run.j.cand[2] /\ Accessed(0) /\ access.unit = 0
  PROVE  IInv'
<1>0. OnDisk /\ p \in InstallAll
  BY DEF IInv, InstallAll, InstallPlaces
<1>1. /\ run.j.op = "install" /\ ~run.j.need /\ Installing(run.j)
      /\ run.at \in InstallPlaces => journal.op = "install"
      /\ run.at = "i-prepared" => state = Absent
  BY InstallKnown DEF Linked, IInv, Here, AtInstall
<1>2. /\ Writes(s) /\ run'.at = p /\ (p # "idle" => run'.j = journal')
      /\ UNCHANGED <<state, artifacts, bin, compose, access, snapshot, archive, data, service, ids, older>>
  BY DEF Saved
<1>3. /\ journal'.op = "install" /\ ~journal'.need /\ journal'.stage # "new" /\ Installing(journal)'
      /\ Closed(journal)' => s \in {"aborted", "complete"}
  BY <1>1, <1>2 DEF Installing, Writes, Fits, Closed
<1>4. Settled'
  BY <1>2, <1>3 DEF Settled, Whole, Has, Aged, Deployed, Accessed
<1>5. BuildsKept' /\ Aging' /\ NeverOldOnNew'
  BY <1>0, <1>1, <1>2, <1>3 DEF OnDisk, BuildsKept, Aging, NeverOldOnNew, Has, Aged
<1>6. OnDisk'
  BY <1>3, <1>4, <1>5 DEF OnDisk, Interrupted, Swaps, Changes
<1>7. AtInstall(p)'
  BY <1>2, <1>3 DEF AtInstall, Linked, InstallPlaces, Closed, Accessed, Writes
<1> QED BY <1>0, <1>2, <1>6, <1>7, InstallAlone DEF IInv, Here

\* Something else is changed: the files, the service, the state file.
LEMMA InstallWorks ==
  ASSUME IInv, ITypeOK', run.at \in InstallPlaces, NEW p \in InstallPlaces, run'.at = p,
         run'.j.op = run.j.op, run'.j.stage = run.j.stage, run'.j.before = run.j.before,
         run'.j.after = run.j.after, run'.j.prev = run.j.prev, run'.j.cand = run.j.cand, run'.j.need = run.j.need,
         UNCHANGED <<journal, ids, older>>, artifacts \subseteq artifacts',
         \/ state' \in {state, Absent}
         \/ Aged(state') /\ (run.j.cand \in artifacts \/ state'.recovery = "install-incomplete")
            /\ state'.cur = run.j.cand /\ state'.prev = Absent,
         NeverOldOnNew', (older \/ Contract(run.j.cand[2]) >= data'), AtInstall(p)'
  PROVE  IInv'
<1>0. OnDisk /\ p \in InstallAll
  BY DEF IInv, InstallAll
<1>1. /\ run.j.op = "install" /\ ~run.j.need /\ Linked /\ ~Closed(journal) /\ Installing(journal)
      /\ run.j.stage # "new"
  BY InstallKnown
<1>2. ~Closed(journal)' /\ journal'.op = "install" /\ Installing(journal)'
  BY <1>1 DEF Linked, Closed, Installing, Fits, Contract
<1>3. BuildsKept' /\ Aging'
  <2>1. CASE state' \in {state, Absent}
    BY <1>0, <2>1 DEF OnDisk, BuildsKept, Aging, Has, Aged
  <2>2. CASE Aged(state') /\ (run.j.cand \in artifacts \/ state'.recovery = "install-incomplete")
             /\ state'.cur = run.j.cand /\ state'.prev = Absent
    BY <2>2 DEF BuildsKept, Aging, Has, Aged
  <2> QED BY <2>1, <2>2
<1>4. OnDisk'
  BY <1>0, <1>1, <1>2, <1>3 DEF OnDisk, Settled, Interrupted, Swaps, Changes
<1> QED BY <1>0, <1>4, InstallAlone DEF IInv, Here

\* The installation.
LEMMA InstallKeeps == ASSUME IInv, Install PROVE IInv'
<1>t. ITypeOK /\ OnDisk /\ AtInstall(run.at)
  BY DEF IInv, Here
<1>s. {"prepared", "swap-pending", "started", "recovery-required", "complete", "aborted"} \subseteq Stages
  BY DEF Stages
<1>v. Versions \subseteq Int /\ FirstNew \in Int /\ Absent \notin Versions
  BY VersionsAssumption
<1>1. CASE Save("i-prepared", "prepared", "i-needs", "idle")
  <2>1. run.at = "i-prepared" /\ ITypeOK' /\ (Saved("prepared", "i-needs") \/ Stuck("idle"))
    BY <1>t, <1>1, <1>s, SaveDoes
  <2>2. AtInstall("idle")
    BY <1>t, <2>1 DEF AtInstall, InstallPlaces
  <2>3. state = Absent
    <3>1. Installing(run.j)
      BY <2>1, InstallKnown DEF InstallPlaces
    <3> QED BY <1>t, <2>1, <3>1 DEF AtInstall, InstallPlaces, Installing, Installed, Whole, Has, Aged, Deployed, Accessed,
                                    States, Artifacts, Recoveries
  <2> QED BY <2>1, <2>2, <2>3, InstallSaves, InstallMoves DEF InstallAll, InstallPlaces
<1>2. CASE Health("i-needs", "i-again", "i-clear")
  <2>1. run.at = "i-needs" /\ ITypeOK' /\ (Stuck("i-again") \/ Stuck("i-clear"))
    BY <1>t, <1>2, HealthDoes
  <2>2. AtInstall("i-again") /\ AtInstall("i-clear")
    BY <1>t, <2>1 DEF AtInstall, InstallPlaces
  <2> QED BY <2>1, <2>2, InstallMoves DEF InstallAll, InstallPlaces
<1>3. CASE SaveState("i-clear", Absent, "i-abort", "i-abort")
  <2>1. run.at = "i-clear" /\ ITypeOK' /\ (StateSaved(Absent, "i-abort") \/ Stuck("i-abort"))
    BY <1>t, <1>3, SaveStateDoes
  <2>2. ASSUME Stuck("i-abort") PROVE IInv'
    <3>1. AtInstall("i-abort")
      BY <1>t, <2>1 DEF AtInstall, InstallPlaces
    <3> QED BY <2>1, <2>2, <3>1, InstallMoves DEF InstallAll, InstallPlaces
  <2>3. ASSUME StateSaved(Absent, "i-abort") PROVE IInv'
    <3>1. run'.at = "i-abort" /\ run'.j = run.j
      BY <2>3 DEF StateSaved, Goes
    <3>2. Installing(run.j) /\ Linked /\ ~Closed(journal) /\ AtInstall("i-clear")
      BY <1>t, <2>1, InstallKnown DEF InstallPlaces
    <3>3. NeverOldOnNew' /\ (older \/ Contract(run.j.cand[2]) >= data')
      BY <1>t, <1>v, <2>3, <3>2 DEF StateSaved, ITypeOK, OnDisk, NeverOldOnNew, Installing, Fits, Contract, AtInstall
    <3>4. AtInstall("i-abort")'
      BY <2>3, <3>1, <3>2 DEF StateSaved, AtInstall, InstallPlaces, Linked, Closed, Accessed
    <3> QED BY <2>1, <2>3, <3>1, <3>3, <3>4, InstallWorks DEF StateSaved, InstallPlaces
  <2> QED BY <2>1, <2>2, <2>3
<1>4. CASE Save("i-abort", "aborted", "idle", "idle")
  <2>1. run.at = "i-abort" /\ ITypeOK' /\ (Saved("aborted", "idle") \/ Stuck("idle"))
    BY <1>t, <1>4, <1>s, SaveDoes
  <2>2. AtInstall("idle")
    BY <1>t, <2>1 DEF AtInstall, InstallPlaces
  <2>3. state = Absent
    <3>1. Installing(run.j)
      BY <2>1, InstallKnown DEF InstallPlaces
    <3> QED BY <1>t, <2>1, <3>1 DEF AtInstall, InstallPlaces, Installing, Installed, Whole, Has, Aged, Deployed, Accessed,
                                    States, Artifacts, Recoveries
  <2> QED BY <2>1, <2>2, <2>3, InstallSaves, InstallMoves DEF InstallAll, InstallPlaces
<1>5. CASE Save("i-again", "prepared", "i-stage", "i-fail")
  <2>1. run.at = "i-again" /\ ITypeOK' /\ (Saved("prepared", "i-stage") \/ Stuck("i-fail"))
    BY <1>t, <1>5, <1>s, SaveDoes
  <2>2. AtInstall("i-fail")
    BY <1>t, <2>1 DEF AtInstall, InstallPlaces
  <2>3. run.j.op = "install"
    <3>1. Installing(run.j)
      BY <2>1, InstallKnown DEF InstallPlaces
    <3> QED BY <1>t, <2>1, <3>1 DEF AtInstall, InstallPlaces, Installing, Installed, Whole, Has, Aged, Deployed, Accessed,
                                    States, Artifacts, Recoveries
  <2> QED BY <2>1, <2>2, <2>3, InstallSaves, InstallMoves DEF InstallAll, InstallPlaces
<1>6. CASE StageInstall
  <2>1. run.at = "i-stage"
    BY <1>6 DEF StageInstall, Doing
  <2>2. Installing(run.j) /\ Linked /\ ~Closed(journal) /\ run.j.op = "install" /\ ~run.j.need /\ run.j.stage # "new"
    BY <2>1, InstallKnown DEF InstallPlaces
  <2>3. CASE Fails("i-fail")
    <3>1. Stuck("i-fail") /\ ITypeOK'
      BY <1>t, <2>3, FailsDoes DEF Stuck
    <3>2. AtInstall("i-fail")
      BY <1>t, <2>1 DEF AtInstall, InstallPlaces
    <3> QED BY <3>1, <3>2, InstallMoves DEF InstallAll, InstallPlaces
  <2>4. CASE ~Fails("i-fail")
    <3>1. /\ artifacts' = artifacts \cup {run.j.cand} /\ compose' = run.j.cand[2]
          /\ access' = [policy |-> 0, boot |-> 0, unit |-> 0] /\ run' = [at |-> "i-swap", j |-> run.j]
          /\ UNCHANGED <<journal, state, bin, snapshot, archive, data, service, faults, ids, ops, older>>
      BY <1>6, <2>4 DEF StageInstall, Same
    <3>2. /\ run'.at = "i-swap" /\ run'.j = run.j /\ run' = [at |-> run'.at, j |-> run'.j]
          /\ access' \in AccessFiles /\ access'.policy = 0 /\ access'.boot = 0 /\ access'.unit = 0
      BY <3>1 DEF AccessFiles
    <3>3. /\ artifacts' = artifacts \cup {run.j.cand} /\ compose' = run.j.cand[2]
          /\ UNCHANGED <<journal, state, bin, snapshot, archive, data, service, faults, ids, ops, older>>
      BY <3>1
    <3>4. run.j.cand \in Artifacts /\ run.j.cand[2] \in Versions
      BY <2>2 DEF Installing, Artifacts
    <3>5. ITypeOK'
      BY <1>t, <3>2, <3>3, <3>4 DEF ITypeOK
    <3>6. AtInstall("i-swap")'
      BY <2>2, <3>2, <3>3 DEF AtInstall, InstallPlaces, Linked, Closed, Accessed
    <3>7. NeverOldOnNew' /\ (older \/ Contract(run.j.cand[2]) >= data')
      BY <1>t, <2>2, <3>3 DEF OnDisk, NeverOldOnNew, Installing, Fits, Contract
    <3> QED BY <2>1, <3>2, <3>3, <3>5, <3>6, <3>7, InstallWorks DEF InstallPlaces
  <2> QED BY <2>3, <2>4
<1>7. CASE Save("i-swap", "swap-pending", "i-mark", "i-fail")
  <2>1. run.at = "i-swap" /\ ITypeOK' /\ (Saved("swap-pending", "i-mark") \/ Stuck("i-fail"))
    BY <1>t, <1>7, <1>s, SaveDoes
  <2>2. AtInstall("i-fail")
    BY <1>t, <2>1 DEF AtInstall, InstallPlaces
  <2>3. run.j.cand \in artifacts /\ compose = run.j.cand[2] /\ Accessed(0) /\ access.unit = 0
    <3>1. Installing(run.j)
      BY <2>1, InstallKnown DEF InstallPlaces
    <3> QED BY <1>t, <2>1, <3>1 DEF AtInstall, InstallPlaces, Installing, Installed, Whole, Has, Aged, Deployed, Accessed,
                                    States, Artifacts, Recoveries
  <2> QED BY <2>1, <2>2, <2>3, InstallSaves, InstallMoves DEF InstallAll, InstallPlaces
<1>8. CASE MarkInstall
  <2>1. run.at = "i-mark"
    BY <1>8 DEF MarkInstall, Doing
  <2>2. /\ Installing(run.j) /\ Linked /\ ~Closed(journal) /\ run.j.op = "install" /\ ~run.j.need
        /\ run.j.stage # "new" /\ AtInstall("i-mark")
    BY <1>t, <2>1, InstallKnown DEF InstallPlaces
  <2>3. /\ run.j \in Journals /\ run' = [at |-> "i-started", j |-> [run.j EXCEPT !.changed = TRUE]]
        /\ UNCHANGED <<journal, state, artifacts, bin, compose, access, snapshot, archive, data, service, faults, ids, ops, older>>
    BY <1>t, <1>8 DEF MarkInstall, ITypeOK, disk
  <2>4. /\ run'.at = "i-started" /\ run'.j \in Journals /\ run' = [at |-> run'.at, j |-> run'.j]
        /\ run'.j.op = run.j.op /\ run'.j.stage = run.j.stage /\ run'.j.before = run.j.before
        /\ run'.j.after = run.j.after /\ run'.j.prev = run.j.prev /\ run'.j.cand = run.j.cand
        /\ run'.j.need = run.j.need
    BY <2>3 DEF Journals
  <2>5. UNCHANGED <<journal, state, artifacts, bin, compose, access, snapshot, archive, data, service, faults, ids, ops, older>>
    BY <2>3
  <2>6. ITypeOK'
    BY <1>t, <2>4, <2>5 DEF ITypeOK
  <2>7. AtInstall("i-started")'
    BY <2>2, <2>4, <2>5 DEF AtInstall, InstallPlaces, Linked, Closed, Accessed
  <2>8. NeverOldOnNew' /\ (older \/ Contract(run.j.cand[2]) >= data')
    BY <1>t, <2>2, <2>5 DEF OnDisk, NeverOldOnNew, Installing, Fits, Contract
  <2> QED BY <2>1, <2>4, <2>5, <2>6, <2>7, <2>8, InstallWorks DEF InstallPlaces
<1>9. CASE Save("i-started", "started", "i-bin", "i-stop")
  <2>1. run.at = "i-started" /\ ITypeOK' /\ (Saved("started", "i-bin") \/ Stuck("i-stop"))
    BY <1>t, <1>9, <1>s, SaveDoes
  <2>2. AtInstall("i-stop")
    BY <1>t, <2>1 DEF AtInstall, InstallPlaces
  <2>3. run.j.cand \in artifacts /\ compose = run.j.cand[2] /\ Accessed(0) /\ access.unit = 0
    <3>1. Installing(run.j)
      BY <2>1, InstallKnown DEF InstallPlaces
    <3> QED BY <1>t, <2>1, <3>1 DEF AtInstall, InstallPlaces, Installing, Installed, Whole, Has, Aged, Deployed, Accessed,
                                    States, Artifacts, Recoveries
  <2> QED BY <2>1, <2>2, <2>3, InstallSaves, InstallMoves DEF InstallAll, InstallPlaces
<1>10. CASE DeployBinary("i-bin", run.j.cand, "i-start", "i-stop")
  <2>0. run.j.cand \in Artifacts
    <3>1. run.at \in InstallPlaces
      BY <1>10 DEF DeployBinary, Doing, InstallPlaces
    <3> QED BY <3>1, InstallKnown DEF Installing
  <2>1. run.at = "i-bin" /\ ITypeOK' /\ (BinaryIs(run.j.cand[2], "i-start") \/ Stuck("i-stop"))
    BY <1>t, <1>10, <2>0, DeployBinaryDoes
  <2>2. ASSUME Stuck("i-stop") PROVE IInv'
    <3>1. AtInstall("i-stop")
      BY <1>t, <2>1 DEF AtInstall, InstallPlaces
    <3> QED BY <2>1, <2>2, <3>1, InstallMoves DEF InstallAll, InstallPlaces
  <2>3. ASSUME BinaryIs(run.j.cand[2], "i-start") PROVE IInv'
    <3>1. run'.at = "i-start" /\ run'.j = run.j
      BY <2>3 DEF BinaryIs, Goes
    <3>2. Installing(run.j) /\ Linked /\ ~Closed(journal) /\ AtInstall("i-bin")
      BY <1>t, <2>1, InstallKnown DEF InstallPlaces
    <3>3. NeverOldOnNew' /\ (older \/ Contract(run.j.cand[2]) >= data')
      BY <1>t, <1>v, <2>3, <3>2 DEF BinaryIs, ITypeOK, OnDisk, NeverOldOnNew, Installing, Fits, Contract, AtInstall
    <3>4. AtInstall("i-start")'
      BY <2>3, <3>1, <3>2 DEF BinaryIs, AtInstall, InstallPlaces, Linked, Closed, Accessed
    <3> QED BY <2>1, <2>3, <3>1, <3>3, <3>4, InstallWorks DEF BinaryIs, InstallPlaces
  <2> QED BY <2>1, <2>2, <2>3
<1>11. CASE Start("i-start", "i-health", "i-stop")
  <2>1. run.at = "i-start" /\ ITypeOK' /\ (Started("i-health") \/ Started("i-stop") \/ Stuck("i-stop"))
    BY <1>t, <1>11, StartDoes
  <2>2. ASSUME Stuck("i-stop") PROVE IInv'
    <3>1. AtInstall("i-stop")
      BY <1>t, <2>1 DEF AtInstall, InstallPlaces
    <3> QED BY <2>1, <2>2, <3>1, InstallMoves DEF InstallAll, InstallPlaces
  <2>3. ASSUME NEW p \in {"i-health", "i-stop"}, Started(p) PROVE IInv'
    <3>1. run'.at = p /\ run'.j = run.j
      BY <2>3 DEF Started, Goes
    <3>2. Installing(run.j) /\ Linked /\ ~Closed(journal) /\ AtInstall("i-start")
      BY <1>t, <2>1, InstallKnown DEF InstallPlaces
    <3>3. NeverOldOnNew' /\ (older \/ Contract(run.j.cand[2]) >= data')
      BY <1>t, <1>v, <2>3, <3>2 DEF Started, ITypeOK, OnDisk, NeverOldOnNew, Installing, Fits, Contract, AtInstall
    <3>4. AtInstall(p)'
      BY <2>3, <3>1, <3>2 DEF Started, AtInstall, InstallPlaces, Linked, Closed, Accessed
    <3> QED BY <2>1, <2>3, <3>1, <3>3, <3>4, InstallWorks DEF Started, InstallPlaces
  <2> QED BY <2>1, <2>2, <2>3
<1>12. CASE Health("i-health", "i-state", "i-stop")
  <2>1. run.at = "i-health" /\ ITypeOK' /\ (Stuck("i-state") \/ Stuck("i-stop"))
    BY <1>t, <1>12, HealthDoes
  <2>2. AtInstall("i-state") /\ AtInstall("i-stop")
    BY <1>t, <2>1 DEF AtInstall, InstallPlaces
  <2> QED BY <2>1, <2>2, InstallMoves DEF InstallAll, InstallPlaces
<1>13. CASE SaveState("i-state", run.j.after, "i-cert", "i-stop")
  <2>0. run.j.after \in States \cup {Absent}
    <3>1. run.at \in InstallPlaces
      BY <1>13 DEF SaveState, Doing, InstallPlaces
    <3>2. Installing(run.j)
      BY <3>1, InstallKnown
    <3> QED BY <3>2 DEF Installing, Installed, States, Recoveries
  <2>1. run.at = "i-state" /\ ITypeOK' /\ (StateSaved(run.j.after, "i-cert") \/ Stuck("i-stop"))
    BY <1>t, <1>13, <2>0, SaveStateDoes
  <2>2. ASSUME Stuck("i-stop") PROVE IInv'
    <3>1. AtInstall("i-stop")
      BY <1>t, <2>1 DEF AtInstall, InstallPlaces
    <3> QED BY <2>1, <2>2, <3>1, InstallMoves DEF InstallAll, InstallPlaces
  <2>3. ASSUME StateSaved(run.j.after, "i-cert") PROVE IInv'
    <3>1. run'.at = "i-cert" /\ run'.j = run.j
      BY <2>3 DEF StateSaved, Goes
    <3>2. Installing(run.j) /\ Linked /\ ~Closed(journal) /\ AtInstall("i-state")
      BY <1>t, <2>1, InstallKnown DEF InstallPlaces
    <3>3. NeverOldOnNew' /\ (older \/ Contract(run.j.cand[2]) >= data')
      BY <1>t, <1>v, <2>3, <3>2 DEF StateSaved, ITypeOK, OnDisk, NeverOldOnNew, Installing, Fits, Contract, AtInstall
    <3>4. AtInstall("i-cert")'
      BY <2>3, <3>1, <3>2 DEF StateSaved, AtInstall, InstallPlaces, Linked, Closed, Accessed
    <3>5. Aged(state') /\ state'.cur = run.j.cand /\ state'.prev = Absent /\ run.j.cand \in artifacts
      BY <2>3, <3>2 DEF StateSaved, Installing, Installed, Aged, AtInstall
    <3> QED BY <2>1, <2>3, <3>1, <3>3, <3>4, <3>5, InstallWorks DEF StateSaved, InstallPlaces
  <2> QED BY <2>1, <2>2, <2>3
<1>18. CASE Health("i-cert", "i-complete", "i-pending")
  <2>1. run.at = "i-cert" /\ ITypeOK' /\ (Stuck("i-complete") \/ Stuck("i-pending"))
    BY <1>t, <1>18, HealthDoes
  <2>2. AtInstall("i-complete") /\ AtInstall("i-pending")
    BY <1>t, <2>1 DEF AtInstall, InstallPlaces
  <2> QED BY <2>1, <2>2, InstallMoves DEF InstallAll, InstallPlaces
<1>14. CASE Save("i-complete", "complete", "idle", "i-stop")
  <2>1. run.at = "i-complete" /\ ITypeOK' /\ (Saved("complete", "idle") \/ Stuck("i-stop"))
    BY <1>t, <1>14, <1>s, SaveDoes
  <2>2. AtInstall("i-stop")
    BY <1>t, <2>1 DEF AtInstall, InstallPlaces
  <2>3. Whole(state)
    <3>1. Installing(run.j)
      BY <2>1, InstallKnown DEF InstallPlaces
    <3> QED BY <1>t, <2>1, <3>1 DEF AtInstall, InstallPlaces, Installing, Installed, Whole, Has, Aged, Deployed, Accessed,
                                    States, Artifacts, Recoveries
  <2> QED BY <2>1, <2>2, <2>3, InstallSaves, InstallMoves DEF InstallAll, InstallPlaces
<1>19. CASE Save("i-pending", "complete", "i-cleanup", "i-stop")
  <2>1. run.at = "i-pending" /\ ITypeOK' /\ (Saved("complete", "i-cleanup") \/ Stuck("i-stop"))
    BY <1>t, <1>19, <1>s, SaveDoes
  <2>2. AtInstall("i-stop")
    BY <1>t, <2>1 DEF AtInstall, InstallPlaces
  <2>3. Whole(state)
    <3>1. Installing(run.j)
      BY <2>1, InstallKnown DEF InstallPlaces
    <3> QED BY <1>t, <2>1, <3>1 DEF AtInstall, InstallPlaces, Installing, Installed, Whole, Has, Aged, Deployed, Accessed,
                                    States, Artifacts, Recoveries
  <2> QED BY <2>1, <2>2, <2>3, InstallSaves, InstallMoves DEF InstallAll, InstallPlaces
<1>20. CASE WriteAccess("i-cleanup", WithPolicy(Removed), "idle", "idle")
  <2>1. /\ WithPolicy(Removed) \in AccessFiles /\ WithPolicy(Removed).policy = Removed
        /\ WithPolicy(Removed).boot = access.boot /\ WithPolicy(Removed).unit = access.unit
    BY <1>t, AccessParts DEF ITypeOK
  <2>2. run.at = "i-cleanup" /\ ITypeOK' /\ (AccessIs(WithPolicy(Removed), "idle") \/ Stuck("idle"))
    BY <1>t, <1>20, <2>1, WriteAccessDoes
  <2>3. AtInstall("idle") /\ AtInstall("idle")' /\ Closed(journal)
    BY <1>t, <2>2 DEF AtInstall, InstallPlaces
  <2>4. ASSUME AccessIs(WithPolicy(Removed), "idle") PROVE IInv'
    <3>1. /\ access'.policy = Removed /\ access'.boot = access.boot /\ access'.unit = access.unit /\ run'.at = "idle"
          /\ UNCHANGED <<journal, state, artifacts, bin, compose, data, service, ids, older>>
      BY <2>1, <2>4 DEF AccessIs, Goes
    <3>2. Settled' /\ BuildsKept' /\ Aging' /\ NeverOldOnNew'
      BY <1>t, <3>1 DEF OnDisk, Settled, BuildsKept, Aging, NeverOldOnNew, Whole, Has, Aged, Deployed, Accessed
    <3>3. OnDisk'
      BY <1>t, <2>3, <3>1, <3>2 DEF OnDisk, Interrupted
    <3> QED BY <2>2, <2>3, <3>1, <3>3, InstallAlone DEF IInv, Here, InstallAll
  <2> QED BY <2>2, <2>3, <2>4, InstallMoves DEF InstallAll
<1>15. CASE Stop("i-stop", "i-fail", "i-fail")
  <2>1. run.at = "i-stop" /\ ITypeOK' /\ (Stopped("i-fail") \/ Stuck("i-fail"))
    BY <1>t, <1>15, StopDoes
  <2>2. ASSUME Stuck("i-fail") PROVE IInv'
    <3>1. AtInstall("i-fail")
      BY <1>t, <2>1 DEF AtInstall, InstallPlaces
    <3> QED BY <2>1, <2>2, <3>1, InstallMoves DEF InstallAll, InstallPlaces
  <2>3. ASSUME Stopped("i-fail") PROVE IInv'
    <3>1. run'.at = "i-fail" /\ run'.j = run.j
      BY <2>3 DEF Stopped, Goes
    <3>2. Installing(run.j) /\ Linked /\ ~Closed(journal) /\ AtInstall("i-stop")
      BY <1>t, <2>1, InstallKnown DEF InstallPlaces
    <3>3. NeverOldOnNew' /\ (older \/ Contract(run.j.cand[2]) >= data')
      BY <1>t, <1>v, <2>3, <3>2 DEF Stopped, ITypeOK, OnDisk, NeverOldOnNew, Installing, Fits, Contract, AtInstall
    <3>4. AtInstall("i-fail")'
      BY <2>3, <3>1, <3>2 DEF Stopped, AtInstall, InstallPlaces, Linked, Closed, Accessed
    <3> QED BY <2>1, <2>3, <3>1, <3>3, <3>4, InstallWorks DEF Stopped, InstallPlaces
  <2> QED BY <2>1, <2>2, <2>3
<1>16. CASE SaveState("i-fail", [run.j.after EXCEPT !.recovery = "install-incomplete"], "i-mark-fail", "i-mark-fail")
  <2>0. [run.j.after EXCEPT !.recovery = "install-incomplete"] \in States \cup {Absent}
    <3>1. run.at \in InstallPlaces
      BY <1>16 DEF SaveState, Doing, InstallPlaces
    <3>2. Installing(run.j)
      BY <3>1, InstallKnown
    <3> QED BY <3>2 DEF Installing, Installed, States, Recoveries
  <2>1. run.at = "i-fail" /\ ITypeOK' /\ (StateSaved([run.j.after EXCEPT !.recovery = "install-incomplete"], "i-mark-fail") \/ Stuck("i-mark-fail"))
    BY <1>t, <1>16, <2>0, SaveStateDoes
  <2>2. ASSUME Stuck("i-mark-fail") PROVE IInv'
    <3>1. AtInstall("i-mark-fail")
      BY <1>t, <2>1 DEF AtInstall, InstallPlaces
    <3> QED BY <2>1, <2>2, <3>1, InstallMoves DEF InstallAll, InstallPlaces
  <2>3. ASSUME StateSaved([run.j.after EXCEPT !.recovery = "install-incomplete"], "i-mark-fail") PROVE IInv'
    <3>1. run'.at = "i-mark-fail" /\ run'.j = run.j
      BY <2>3 DEF StateSaved, Goes
    <3>2. Installing(run.j) /\ Linked /\ ~Closed(journal) /\ AtInstall("i-fail")
      BY <1>t, <2>1, InstallKnown DEF InstallPlaces
    <3>3. NeverOldOnNew' /\ (older \/ Contract(run.j.cand[2]) >= data')
      BY <1>t, <1>v, <2>3, <3>2 DEF StateSaved, ITypeOK, OnDisk, NeverOldOnNew, Installing, Fits, Contract, AtInstall
    <3>4. AtInstall("i-mark-fail")'
      BY <2>3, <3>1, <3>2 DEF StateSaved, AtInstall, InstallPlaces, Linked, Closed, Accessed
    <3>5. Aged(state') /\ state'.cur = run.j.cand /\ state'.prev = Absent /\ state'.recovery = "install-incomplete"
      BY <2>3, <3>2 DEF StateSaved, Installing, Installed, Aged, AtInstall
    <3> QED BY <2>1, <2>3, <3>1, <3>3, <3>4, <3>5, InstallWorks DEF StateSaved, InstallPlaces
  <2> QED BY <2>1, <2>2, <2>3
<1>17. CASE Save("i-mark-fail", "recovery-required", "idle", "idle")
  <2>1. run.at = "i-mark-fail" /\ ITypeOK' /\ (Saved("recovery-required", "idle") \/ Stuck("idle"))
    BY <1>t, <1>17, <1>s, SaveDoes
  <2>2. AtInstall("idle")
    BY <1>t, <2>1 DEF AtInstall, InstallPlaces
  <2>3. run.j.op = "install"
    <3>1. Installing(run.j)
      BY <2>1, InstallKnown DEF InstallPlaces
    <3> QED BY <1>t, <2>1, <3>1 DEF AtInstall, InstallPlaces, Installing, Installed, Whole, Has, Aged, Deployed, Accessed,
                                    States, Artifacts, Recoveries
  <2> QED BY <2>1, <2>2, <2>3, InstallSaves, InstallMoves DEF InstallAll, InstallPlaces
<1> QED BY <1>1, <1>2, <1>3, <1>4, <1>5, <1>6, <1>7, <1>8, <1>9, <1>10, <1>11, <1>12, <1>13, <1>14, <1>15, <1>16, <1>17,
    <1>18, <1>19, <1>20 DEF Install

(* -------------------------- the commands begin -------------------------- *)

\* Artifact IDs only grow.
LEMMA DiskAges ==
  ASSUME ITypeOK, ITypeOK', OnDisk, ids <= ids',
         UNCHANGED <<journal, state, artifacts, bin, compose, access, snapshot, archive, data, service, older>>
  PROVE  OnDisk'
<1>1. ids \in Nat /\ ids' \in Nat
  BY DEF ITypeOK
<1>a. ASSUME NEW st \in States, Aged(st) PROVE Aged(st)'
  BY <1>1, <1>a DEF Aged, States, Artifacts
<1>b. state # Absent => state \in States
  BY DEF ITypeOK
<1>c. state # Absent /\ Aged(state) => Aged(state)'
  BY <1>a, <1>b DEF Aged
<1>w. Whole(state) => Whole(state)'
  BY <1>1, <1>a DEF Whole, Has, Deployed, Accessed, Aged
<1>2. Settled' /\ BuildsKept' /\ Aging' /\ NeverOldOnNew'
  <2>1. Settled'
    BY <1>w DEF OnDisk, Settled
  <2>2. Aging'
    BY <1>c DEF OnDisk, Aging
  <2> QED BY <2>1, <2>2 DEF OnDisk, BuildsKept, NeverOldOnNew, Has
<1>3. Swapping(journal) => Swapping(journal)'
  <2>1. ASSUME Swapping(journal) PROVE Aged(journal.before)' /\ Aged(journal.after)'
    BY <1>a, <2>1 DEF Swapping, Aged
  <2> QED BY <1>w, <2>1 DEF Swapping, Has, Accessed, Fits
<1>4. Changing(journal) => Changing(journal)'
  <2>1. ASSUME Changing(journal) PROVE Aged(journal.before)'
    BY <1>a, <2>1 DEF Changing, Aged
  <2> QED BY <1>w, <2>1 DEF Changing, Has, Deployed, Fits
<1>5. Restarting => Restarting'
  BY <1>a DEF Restarting, Has, Deployed, Accessed, Fits, Aged
<1>6. Installing(journal) => Installing(journal)'
  BY <1>1 DEF Installing, Fits, Artifacts
<1> QED BY <1>2, <1>3, <1>4, <1>5, <1>6 DEF OnDisk, Interrupted

\* Artifacts are added while no operation is pending.
LEMMA DiskGrows ==
  ASSUME ITypeOK, ITypeOK', OnDisk, Closed(journal), state # Absent, ids <= ids', artifacts \subseteq artifacts',
         older => older', UNCHANGED <<journal, state, bin, compose, access, data, service>>
  PROVE  OnDisk' /\ Whole(state)'
<1>1. ids \in Nat /\ ids' \in Nat /\ Whole(state) /\ state \in States
  BY DEF ITypeOK, OnDisk, Settled, Whole
<1>2. Aged(state)' /\ Has(state)'
  BY <1>1 DEF Whole, Aged, Has, States, Artifacts
<1>3. Whole(state)'
  BY <1>1, <1>2 DEF Whole, Deployed, Accessed
<1> QED BY <1>2, <1>3 DEF OnDisk, Settled, BuildsKept, Aging, NeverOldOnNew, Interrupted, Closed

\* What an operation finds when nothing is pending.
LEMMA WholeRuns ==
  ASSUME IInv, Closed(journal), state # Absent
  PROVE  /\ Whole(state) /\ bin \in Versions /\ state.cur \in Artifacts /\ state.cur[2] = bin /\ service = bin
         /\ (older \/ Contract(bin) >= data) /\ data \in {1, 2}
         /\ access.unit \in {state.access, state.cur[4]} /\ access.unit \in Nat
<1>1. Whole(state) /\ NeverOldOnNew /\ data \in {1, 2} /\ access \in AccessFiles
  BY DEF IInv, OnDisk, Settled, ITypeOK
<1>2. state.cur \in Artifacts /\ state.cur[2] \in Versions
  BY <1>1 DEF Whole, States, Artifacts
<1> QED BY <1>1, <1>2, VersionsAssumption DEF Whole, Deployed, NeverOldOnNew, AccessFiles

\* BeginUpdate: both artifacts are new, so none that the state names can go
\* with them; the backup is of data the running build wrote or can read.
LEMMA BeginUpdateKeeps == ASSUME IInv, NEW v \in Versions, NEW known \in BOOLEAN, BeginUpdate(v, known) PROVE IInv'
<1> DEFINE prev == <<ids + 1, bin, IF known THEN Contract(bin) ELSE 0, access.unit>>
           cand == <<ids + 2, v, Contract(v), state.access>>
           next == [state EXCEPT !.cur = cand, !.prev = prev, !.recovery = "none"]
           j == [op |-> "update", stage |-> "new", before |-> state, after |-> next,
                 prev |-> prev, cand |-> cand, changed |-> FALSE, need |-> FALSE]
<1>t. ITypeOK /\ OnDisk
  BY DEF IInv
<1>1. /\ Closed(journal) /\ state # Absent /\ ops' = ops + 1
      /\ older' = (older \/ Contract(v) < Contract(bin) \/ Contract(v) < data)
      /\ run' = [at |-> "u-prepared", j |-> j]
      /\ artifacts' = artifacts \cup {prev, cand} /\ ids' = ids + 2
      /\ archive' = IF Compatible(prev, cand) THEN archive ELSE data
      /\ UNCHANGED <<journal, state, bin, compose, access, snapshot, data, service, faults>>
  BY DEF BeginUpdate, BeginOp, Enter
<1>2. /\ Whole(state) /\ bin \in Versions /\ state.cur \in Artifacts /\ state.cur[2] = bin /\ service = bin
      /\ (older \/ Contract(bin) >= data) /\ data \in {1, 2}
      /\ access.unit \in {state.access, state.cur[4]} /\ access.unit \in Nat
  BY <1>1, WholeRuns
<1>3. /\ prev \in Artifacts /\ cand \in Artifacts /\ state \in States /\ ids \in Nat
      /\ prev[1] = ids + 1 /\ prev[2] = bin /\ cand[1] = ids + 2 /\ cand[2] = v
      /\ prev[4] = access.unit /\ prev[3] \in {0, Contract(bin)} /\ cand[3] = Contract(v)
  <2>1. state \in States /\ state.access \in Nat /\ ids \in Nat
    BY <1>t, <1>2 DEF ITypeOK, Whole, States
  <2>2. Contract(bin) \in {1, 2} /\ Contract(v) \in {1, 2}
    BY DEF Contract
  <2> QED BY <1>2, <2>1, <2>2 DEF Artifacts
<1>4. next \in States /\ next.cur = cand /\ next.prev = prev /\ next.access = state.access
  BY <1>3 DEF States, Recoveries
<1>k. cand \notin {state.cur, state.prev} \ {Absent} /\ prev \notin {state.cur, state.prev} \ {Absent}
  <2>1. state.cur[1] \in Nat /\ state.cur[1] <= ids /\ (state.prev # Absent => state.prev[1] \in Nat /\ state.prev[1] <= ids)
    BY <1>2, <1>3 DEF Whole, Aged, States, Artifacts
  <2>2. prev # state.cur /\ cand # state.cur
    BY <1>3, <2>1
  <2>3. state.prev # Absent => prev # state.prev /\ cand # state.prev
    BY <1>3, <2>1
  <2> QED BY <2>2, <2>3
<1> HIDE DEF next
<1>5. /\ run'.at = "u-prepared" /\ run'.j = j /\ run' = [at |-> run'.at, j |-> run'.j]
      /\ j \in Journals /\ j.op = "update" /\ j.stage = "new" /\ j.before = state /\ j.after = next
      /\ j.prev = prev /\ j.cand = cand /\ ~j.changed /\ ~j.need
  BY <1>1, <1>3, <1>4 DEF Journals, Ops, Stages
<1> HIDE DEF j, prev, cand
<1>6. UNCHANGED <<journal, state, bin, compose, access, snapshot, data, service, faults>> /\ ops' = ops + 1
      /\ older' = (older \/ Contract(v) < Contract(bin) \/ Contract(v) < data) /\ older \in BOOLEAN
      /\ artifacts' = artifacts \cup {prev, cand} /\ ids' = ids + 2
      /\ archive' = (IF Compatible(prev, cand) THEN archive ELSE data)
  BY <1>t, <1>1 DEF ITypeOK
<1>7. ITypeOK'
  BY <1>t, <1>3, <1>5, <1>6 DEF ITypeOK
<1>8. OnDisk' /\ Whole(state)'
  BY <1>t, <1>1, <1>3, <1>6, <1>7, DiskGrows
<1>9. Swapping(run.j)'
  <2>1. Aged(run.j.after)'
    BY <1>3, <1>4, <1>5, <1>6 DEF Aged
  <2>2. Aged(state)' /\ Has(state)' /\ Accessed(state.access)'
    BY <1>8 DEF Whole
  <2>3. /\ Contract(v) \in {1, 2} /\ Contract(bin) \in {1, 2} /\ data' = data /\ data \in {1, 2}
        /\ ~Compatible(prev, cand) => archive' = data
    BY <1>2, <1>6 DEF Contract
  <2>4. CASE older'
    <3>1. ~Compatible(prev, cand) => archive' \in {1, 2}
      BY <2>3
    <3> QED BY <1>1, <1>2, <1>3, <1>4, <1>5, <1>6, <1>8, <2>1, <2>2, <2>4, <3>1
            DEF Swapping, Fits, Compatible, Aged, Has, Accessed
  <2>5. CASE ~older'
    <3>0. ~older /\ ~(Contract(v) < Contract(bin)) /\ ~(Contract(v) < data)
      BY <1>6, <2>5, Zenon
    <3>1. ~older /\ Contract(v) >= Contract(bin) /\ Contract(v) >= data
      BY <2>3, <3>0
    <3>2. Contract(bin) >= data
      BY <1>2, <3>1
    <3>3. ~Compatible(prev, cand) => archive' \in {1, 2} /\ archive' <= Contract(bin)
      BY <2>3, <3>2
    <3> QED BY <1>1, <1>2, <1>3, <1>4, <1>5, <1>6, <1>8, <2>1, <2>2, <2>3, <3>1, <3>2, <3>3
            DEF Swapping, Fits, Compatible, Aged, Has, Accessed
  <2> QED BY <2>4, <2>5
<1>10. SwapBase("u-prepared")' /\ SwapDone("u-prepared")'
  BY <1>1, <1>5, <1>6, <1>9, <1>k DEF SwapBase, SwapDone, SwapPlaces, Closed, Swaps
<1> QED BY <1>5, <1>7, <1>8, <1>10, SwapAlone DEF IInv, Here, AtSwap, SwapAll

\* BeginRollback: the artifact it returns to is there, with the contract of
\* the running build.
LEMMA BeginRollbackKeeps == ASSUME IInv, BeginRollback PROVE IInv'
<1> DEFINE prev == <<ids + 1, bin, Contract(bin), access.unit>>
           next == [state EXCEPT !.cur = state.prev, !.prev = prev, !.recovery = "none"]
           j == [op |-> "rollback", stage |-> "new", before |-> state, after |-> next,
                 prev |-> prev, cand |-> state.prev, changed |-> FALSE, need |-> FALSE]
<1>t. ITypeOK /\ OnDisk
  BY DEF IInv
<1>1. /\ Closed(journal) /\ state # Absent /\ state.prev # Absent /\ Compatible(prev, state.prev) /\ ops' = ops + 1
      /\ run' = [at |-> "u-prepared", j |-> j]
      /\ artifacts' = artifacts \cup {prev} /\ ids' = ids + 1
      /\ UNCHANGED <<journal, state, bin, compose, access, snapshot, archive, data, service, faults, older>>
  BY DEF BeginRollback, BeginOp, Enter
<1>2. /\ Whole(state) /\ bin \in Versions /\ state.cur \in Artifacts /\ state.cur[2] = bin /\ service = bin
      /\ (older \/ Contract(bin) >= data) /\ data \in {1, 2}
      /\ access.unit \in {state.access, state.cur[4]} /\ access.unit \in Nat
  BY <1>1, WholeRuns
<1>3. /\ prev \in Artifacts /\ state.prev \in Artifacts /\ state \in States /\ ids \in Nat
      /\ prev[1] = ids + 1 /\ prev[2] = bin /\ prev[3] = Contract(bin) /\ prev[4] = access.unit
  <2>1. state \in States /\ state.prev \in Artifacts /\ ids \in Nat
    BY <1>t, <1>1, <1>2 DEF ITypeOK, Whole, States
  <2>2. Contract(bin) \in {1, 2}
    BY DEF Contract
  <2> QED BY <1>2, <2>1, <2>2 DEF Artifacts
<1>c. Contract(state.prev[2]) = Contract(bin)
  <2>1. state.prev[3] \in {0, Contract(state.prev[2])}
    BY <1>3 DEF Artifacts
  <2> QED BY <1>1, <1>3, <2>1 DEF Compatible
<1>4. next \in States /\ next.cur = state.prev /\ next.prev = prev /\ next.access = state.access
  BY <1>3 DEF States, Recoveries
<1>k. prev \notin {state.cur, state.prev} /\ state.prev \in artifacts /\ state.prev[1] <= ids
  <2>1. state.cur[1] <= ids /\ state.prev[1] <= ids /\ state.cur[1] \in Nat /\ state.prev[1] \in Nat
    BY <1>1, <1>2, <1>3 DEF Whole, Aged, States, Artifacts
  <2>2. prev # state.cur /\ prev # state.prev
    BY <1>3, <2>1
  <2> QED BY <1>1, <1>2, <2>1, <2>2 DEF Whole, Has
<1> HIDE DEF next
<1>5. /\ run'.at = "u-prepared" /\ run'.j = j /\ run' = [at |-> run'.at, j |-> run'.j]
      /\ j \in Journals /\ j.op = "rollback" /\ j.stage = "new" /\ j.before = state /\ j.after = next
      /\ j.prev = prev /\ j.cand = state.prev /\ ~j.changed /\ ~j.need
  BY <1>1, <1>3, <1>4 DEF Journals, Ops, Stages
<1> HIDE DEF j, prev
<1>6. UNCHANGED <<journal, state, bin, compose, access, snapshot, archive, data, service, faults, older>> /\ ops' = ops + 1
      /\ artifacts' = artifacts \cup {prev} /\ ids' = ids + 1
  BY <1>1
<1>7. ITypeOK'
  BY <1>t, <1>3, <1>5, <1>6 DEF ITypeOK
<1>8. OnDisk' /\ Whole(state)'
  BY <1>t, <1>1, <1>3, <1>6, <1>7, DiskGrows
<1>9. Swapping(run.j)'
  <2>1. Aged(run.j.after)'
    BY <1>3, <1>4, <1>5, <1>6, <1>k DEF Aged, Artifacts
  <2>2. Aged(state)' /\ Has(state)' /\ Accessed(state.access)'
    BY <1>8 DEF Whole
  <2>3. older' \/ (Contract(state.prev[2]) >= data' /\ Contract(bin) >= data')
    BY <1>2, <1>6, <1>c DEF Contract
  <2>4. Contract(state.prev[2]) >= Contract(bin)
    BY <1>c DEF Contract
  <2> QED BY <1>1, <1>2, <1>3, <1>4, <1>5, <1>6, <1>8, <1>k, <2>1, <2>2, <2>3, <2>4
          DEF Swapping, Fits, Compatible, Aged, Has, Accessed
<1>10. SwapBase("u-prepared")' /\ SwapDone("u-prepared")'
  BY <1>1, <1>5, <1>6, <1>9, <1>k DEF SwapBase, SwapDone, SwapPlaces, Closed, Swaps
<1> QED BY <1>5, <1>7, <1>8, <1>10, SwapAlone DEF IInv, Here, AtSwap, SwapAll

\* A command that only takes the lock, with a journal of its own.
LEMMA Begins ==
  ASSUME IInv, NEW p, NEW j \in Journals, run' = [at |-> p, j |-> j], ids <= ids', ids' \in Nat,
         ops' \in Nat, UNCHANGED <<disk, service, faults, older>>
  PROVE  /\ OnDisk' /\ ITypeOK' /\ run'.at = p /\ run'.j = j
         /\ UNCHANGED <<journal, state, artifacts, bin, compose, access, snapshot, archive, data, service>>
<1>1. run'.at = p /\ run'.j = j /\ run' = [at |-> run'.at, j |-> run'.j]
  OBVIOUS
<1>2. UNCHANGED <<journal, state, artifacts, bin, compose, access, snapshot, archive, data, service, faults, older>>
  BY DEF disk
<1>3. ITypeOK'
  BY <1>1, <1>2 DEF IInv, ITypeOK
<1> QED BY <1>1, <1>2, <1>3, DiskAges DEF IInv

\* A recovery takes over the journal on disk.
LEMMA TakesOver ==
  ASSUME IInv, NEW p, Enter(p, journal), UNCHANGED <<disk, service, ids, ops, faults, older>>
  PROVE  /\ OnDisk' /\ ITypeOK' /\ run'.at = p /\ run'.j = journal /\ Linked'
         /\ UNCHANGED <<journal, state, artifacts, bin, compose, access, snapshot, archive, data, service>>
<1>1. run' = [at |-> p, j |-> journal] /\ journal \in Journals /\ ids' = ids /\ ops' = ops
      /\ ids \in Nat /\ ops \in Nat
  BY DEF Enter, IInv, ITypeOK
<1>2. /\ OnDisk' /\ ITypeOK' /\ run'.at = p /\ run'.j = journal
      /\ UNCHANGED <<journal, state, artifacts, bin, compose, access, snapshot, archive, data, service>>
  BY <1>1, Begins
<1> QED BY <1>2 DEF Linked

\* BeginRecover: the journal on disk says all that recoverTransaction needs.
LEMMA BeginRecoverKeeps == ASSUME IInv, BeginRecover PROVE IInv'
<1>1. /\ OnDisk' /\ ITypeOK' /\ run'.at = "r-begin" /\ run'.j = journal /\ Linked' /\ journal' = journal
      /\ ~Closed(journal) /\ Swaps(journal)
  BY TakesOver DEF BeginRecover, Swaps
<1>2. Swapping(journal)' /\ journal.stage # "new"
  BY <1>1 DEF OnDisk, Interrupted, Closed, Swaps
<1>3. AtSwap("r-begin")'
  BY <1>1, <1>2 DEF AtSwap, SwapBase, SwapDone, SwapPlaces, Closed, Swaps, Swapping
<1> QED BY <1>1, <1>3, SwapAlone DEF IInv, Here, SwapAll, SwapPlaces

\* BeginRestore: only an incompatible update needs its backup.
LEMMA BeginRestoreKeeps == ASSUME IInv, BeginRestore PROVE IInv'
<1>1. /\ OnDisk' /\ ITypeOK' /\ run'.at = "q-stop" /\ run'.j = journal /\ Linked' /\ journal' = journal
      /\ ~Closed(journal) /\ journal.need
  BY TakesOver DEF BeginRestore
<1>2. Swaps(journal) /\ Swapping(journal)' /\ journal.stage # "new"
  BY <1>1 DEF OnDisk, Interrupted, Closed, Swaps
<1>3. journal.stage # "prepared" /\ ~Compatible(journal.prev, journal.cand)
  BY <1>1, <1>2 DEF Swapping, Compatible
<1>4. AtSwap("q-stop")'
  BY <1>1, <1>2, <1>3 DEF AtSwap, SwapBase, SwapDone, SwapPlaces, Closed, Swaps, Swapping
<1> QED BY <1>1, <1>4, SwapAlone DEF IInv, Here, SwapAll, SwapPlaces


\* BeginRestart: on a settled installation, or after an interrupted restart.
LEMMA BeginRestartKeeps == ASSUME IInv, BeginRestart PROVE IInv'
<1> DEFINE j == [NoJournal EXCEPT !.op = "restart", !.stage = "new", !.before = state, !.after = state]
<1>1. /\ state # Absent /\ run' = [at |-> "t-prepared", j |-> j] /\ UNCHANGED <<disk, service, ids, faults, older>>
      /\ ops' \in {ops, ops + 1} /\ (Closed(journal) \/ journal.op = "restart")
  BY DEF BeginRestart, BeginOp, Enter
<1>2. j \in Journals /\ j.op = "restart" /\ j.stage = "new" /\ ~j.need
  <2>1. state \in States \cup {Absent}
    BY DEF IInv, ITypeOK
  <2> QED BY <2>1, NoJournalIsOne DEF Journals, Ops, Stages, NoJournal
<1> HIDE DEF j
<1>3. /\ OnDisk' /\ ITypeOK' /\ run'.at = "t-prepared" /\ run'.j = j
      /\ UNCHANGED <<journal, state, artifacts, bin, compose, access, snapshot, archive, data, service>>
  <2>1. ids' \in Nat /\ ids <= ids' /\ ops' \in Nat
    BY <1>1 DEF IInv, ITypeOK
  <2> QED BY <1>1, <1>2, <2>1, Begins
<1>4. AtRestart("t-prepared")'
  BY <1>1, <1>2, <1>3 DEF AtRestart, Closed
<1> QED BY <1>3, <1>4, RestartAlone DEF IInv, Here, RestartAll

\* BeginAccess: the build stays, the access is another.
LEMMA BeginAccessKeeps == ASSUME IInv, NEW op \in {"exposure", "domains"}, BeginAccess(op) PROVE IInv'
<1> DEFINE next == [state EXCEPT !.access = @ + 1, !.recovery = "none"]
           j == [NoJournal EXCEPT !.op = op, !.stage = "new", !.before = state, !.after = next]
<1>1. /\ state # Absent /\ run' = [at |-> "e-prepared", j |-> j] /\ UNCHANGED <<disk, service, ids, faults, older>>
      /\ ops' = ops + 1 /\ Closed(journal)
  BY DEF BeginAccess, BeginOp, Enter
<1>2. Whole(state) /\ state \in States
  BY <1>1, WholeRuns DEF Whole
<1>3. next \in States /\ next.cur = state.cur /\ next.prev = state.prev
  <2>1. state.access + 1 \in Nat
    <3>1. state.access \in Nat
      BY <1>2 DEF States
    <3> QED BY <3>1
  <2> QED BY <1>2, <2>1 DEF States, Recoveries
<1> HIDE DEF next
<1>4. /\ j \in Journals /\ j.op = op /\ j.stage = "new" /\ ~j.need /\ j.before = state /\ j.after = next
  BY <1>2, <1>3, NoJournalIsOne DEF Journals, Ops, Stages, NoJournal
<1> HIDE DEF j
<1>5. /\ OnDisk' /\ ITypeOK' /\ run'.at = "e-prepared" /\ run'.j = j /\ ids' = ids
      /\ UNCHANGED <<journal, state, artifacts, bin, compose, access, snapshot, archive, data, service>>
  <2>1. ids' \in Nat /\ ids <= ids' /\ ops' \in Nat /\ ids' = ids
    BY <1>1 DEF IInv, ITypeOK
  <2> QED BY <1>1, <1>4, <2>1, Begins
<1>6. Whole(state)' /\ Closed(journal)'
  BY <1>1, <1>2, <1>5 DEF Whole, Has, Aged, Deployed, Accessed, Closed
<1>7. AtChange("e-prepared")'
  BY <1>3, <1>4, <1>5, <1>6 DEF AtChange, ChangeBase, ChangeDone, ChangePlaces, Changes
<1> QED BY <1>5, <1>7, ChangeAlone DEF IInv, Here, ChangeAll

\* RecoverExposure and RecoverDomains take over the journal of the change.
LEMMA BeginUndoKeeps == ASSUME IInv, BeginRecoverExposure \/ BeginRecoverDomains PROVE IInv'
<1>1. PICK p \in {"x-stop", "y-forget"} :
        /\ Enter(p, journal) /\ UNCHANGED <<disk, service, ids, ops, faults, older>>
        /\ ~Closed(journal) /\ Changes(journal)
        /\ p = "x-stop" => journal.stage # "prepared" \/ journal.op = "domains"
        /\ p = "y-forget" => journal.stage = "prepared" /\ journal.op = "exposure"
  BY DEF BeginRecoverExposure, BeginRecoverDomains, Changes
<1>2. OnDisk' /\ ITypeOK' /\ run'.at = p /\ run'.j = journal /\ Linked' /\ journal' = journal
  BY <1>1, TakesOver
<1>3. journal.stage # "new" /\ ~journal.need
  BY <1>1 DEF IInv, OnDisk, Interrupted, Changes, Swaps
<1>4. AtChange(p)'
  BY <1>1, <1>2, <1>3 DEF AtChange, ChangeBase, ChangeDone, ChangePlaces, Closed, Changes
<1> QED BY <1>2, <1>4, ChangeAlone DEF IInv, Here, ChangeAll, ChangePlaces

\* BeginInstall: on a host with no installation.
LEMMA BeginInstallKeeps == ASSUME IInv, NEW v \in Versions, BeginInstall(v) PROVE IInv'
<1> DEFINE a == <<ids + 1, v, Contract(v), 0>>
           j == [NoJournal EXCEPT !.op = "install", !.stage = "new", !.after = Installed(a), !.cand = a]
<1>1. /\ Closed(journal) /\ state = Absent /\ service = Absent /\ older' = (Contract(v) < data)
      /\ run' = [at |-> "i-prepared", j |-> j] /\ ids' = ids + 1 /\ ops' = ops + 1
      /\ UNCHANGED <<disk, service, faults>>
  BY DEF BeginInstall, BeginOp, Enter
<1>2. a \in Artifacts /\ ids \in Nat /\ a[1] = ids + 1 /\ a[2] = v /\ ops \in Nat
  <2>1. ids \in Nat /\ ops \in Nat /\ Contract(v) \in {1, 2}
    BY DEF IInv, ITypeOK, Contract
  <2> QED BY <2>1 DEF Artifacts
<1> HIDE DEF a
<1>3. Installed(a) \in States
  BY <1>2 DEF Installed, States, Recoveries
<1>4. j \in Journals /\ j.op = "install" /\ j.stage = "new" /\ ~j.need /\ j.after = Installed(a) /\ j.cand = a
  BY <1>2, <1>3, NoJournalIsOne DEF Journals, Ops, Stages, NoJournal
<1> HIDE DEF j
<1>5. /\ OnDisk' /\ ITypeOK' /\ run'.at = "i-prepared" /\ run'.j = j
      /\ UNCHANGED <<journal, state, artifacts, bin, compose, access, snapshot, archive, data, service>>
  <2>1. /\ run'.at = "i-prepared" /\ run'.j = j /\ run' = [at |-> run'.at, j |-> run'.j]
        /\ UNCHANGED <<journal, state, artifacts, bin, compose, access, snapshot, archive, data, service, faults>>
    BY <1>1 DEF disk
  <2>2. ITypeOK'
    BY <1>1, <1>2, <1>4, <2>1 DEF IInv, ITypeOK
  <2>3. OnDisk'
    BY <1>1, <2>1 DEF IInv, OnDisk, Settled, BuildsKept, Aging, NeverOldOnNew, Interrupted, Closed
  <2> QED BY <2>1, <2>2, <2>3
<1>6. Installing(run.j)'
  <2>1. older' \/ Contract(v) >= data'
    <3>1. Contract(v) \in {1, 2} /\ data \in {1, 2} /\ data' = data
      BY <1>5 DEF Contract, IInv, ITypeOK
    <3>2. older' \/ ~(Contract(v) < data)
      BY <1>1, Zenon
    <3> QED BY <3>1, <3>2
  <2> QED BY <1>1, <1>2, <1>4, <1>5, <2>1 DEF Installing, Installed, Fits
<1>7. AtInstall("i-prepared")'
  BY <1>1, <1>4, <1>5, <1>6 DEF AtInstall, InstallPlaces, Closed
<1> QED BY <1>5, <1>7, InstallAlone DEF IInv, Here, InstallAll

\* BeginUninstall: whatever is there.
LEMMA BeginUninstallKeeps == ASSUME IInv, BeginUninstall PROVE IInv'
<1> DEFINE st == IF state # Absent THEN state
                   ELSE IF journal.op = "uninstall" THEN journal.before ELSE journal.after
           j == [NoJournal EXCEPT !.op = "uninstall", !.stage = "new", !.before = st]
<1>1. run' = [at |-> "n-prepared", j |-> j] /\ UNCHANGED <<disk, service, ids, faults, older>> /\ ops' \in {ops, ops + 1}
  BY DEF BeginUninstall, BeginOp, Enter
<1>2. st \in States \cup {Absent}
  BY DEF IInv, ITypeOK, Journals
<1> HIDE DEF st
<1>3. j \in Journals /\ j.op = "uninstall" /\ j.stage = "new" /\ ~j.need
  BY <1>2, NoJournalIsOne DEF Journals, Ops, Stages, NoJournal
<1> HIDE DEF j
<1>4. OnDisk' /\ ITypeOK' /\ run'.at = "n-prepared" /\ run'.j = j
  <2>1. ids' \in Nat /\ ids <= ids' /\ ops' \in Nat
    BY <1>1 DEF IInv, ITypeOK
  <2> QED BY <1>1, <1>3, <2>1, Begins
<1>5. AtRemoval("n-prepared")'
  BY <1>3, <1>4 DEF AtRemoval
<1> QED BY <1>4, <1>5, RemovalAlone DEF IInv, Here, RemovalAll

\* A process that dies leaves what it did.
LEMMA DiesKeeps == ASSUME IInv, Dies PROVE IInv'
<1>1. run' = NoProcess /\ faults' = faults + 1 /\ UNCHANGED <<disk, service, ids, ops, older>>
  BY DEF Dies, Fault
<1>2. run'.at = "idle" /\ run' = [at |-> run'.at, j |-> run'.j] /\ run'.j \in Journals
  BY <1>1, NoJournalIsOne DEF NoProcess
<1>3. Still /\ faults' = faults + 1 /\ ops' = ops
  BY <1>1 DEF disk, Still
<1>4. ITypeOK'
  BY <1>2, <1>3 DEF IInv, ITypeOK, Still
<1>5. Stuck("idle")
  BY <1>2, <1>3 DEF Stuck, Goes
<1>6. AtRemoval("idle")
  BY DEF AtRemoval
<1> QED BY <1>4, <1>5, <1>6, RemovalMoves DEF RemovalAll

\* A fresh host, or one with an installation.
LEMMA InstallationBegins == IInit => IInv
<1> SUFFICES ASSUME IInit PROVE IInv
  OBVIOUS
<1>v. Versions \subseteq Int /\ 1 \in Versions /\ FirstNew \in Int /\ Absent \notin Versions
  BY VersionsAssumption
<1>1. run.at = "idle" /\ run.j \in Journals /\ run = [at |-> run.at, j |-> run.j] /\ journal \in Journals
      /\ journal.op = "none" /\ journal.stage = "complete" /\ ~journal.need
  BY NoJournalIsOne DEF IInit, NoProcess, NoJournal
<1>2. /\ data = 1 /\ ids = 2 /\ snapshot = Absent /\ archive = Absent /\ ops = 0 /\ faults = 0 /\ older = FALSE
  BY DEF IInit
<1>3. Here("idle")
  BY RestartAlone, InstallAlone DEF Here, RestartAll, InstallAll, AtRestart
<1>4. CASE /\ state = Absent /\ artifacts = {} /\ bin = Absent /\ compose = Absent /\ service = Absent
           /\ access = [policy |-> 0, boot |-> 0, unit |-> 0]
  <2>0. access \in AccessFiles
    BY <1>4 DEF AccessFiles
  <2>1. ITypeOK
    BY <1>1, <1>2, <1>4, <2>0 DEF ITypeOK
  <2>2. OnDisk
    BY <1>1, <1>4 DEF OnDisk, Settled, BuildsKept, Aging, NeverOldOnNew, Interrupted, Closed, Swaps
  <2> QED BY <1>1, <1>3, <2>1, <2>2 DEF IInv
<1>5. CASE /\ state = [cur |-> <<2, 1, Contract(1), 0>>, prev |-> <<1, 1, Contract(1), 0>>, access |-> 1,
                       recovery |-> "none"]
           /\ artifacts = {state.cur, state.prev} /\ bin = 1 /\ compose = 1 /\ service = 1
           /\ access = [policy |-> 1, boot |-> 1, unit |-> 1]
  <2>a. Contract(1) \in {1, 2}
    BY DEF Contract
  <2>b. /\ <<2, 1, Contract(1), 0>> \in Artifacts /\ <<1, 1, Contract(1), 0>> \in Artifacts
    BY <1>v, <2>a DEF Artifacts
  <2>1. /\ state \in States /\ state.cur = <<2, 1, Contract(1), 0>> /\ state.prev = <<1, 1, Contract(1), 0>>
        /\ state.access = 1
    BY <1>5, <2>b DEF States, Recoveries
  <2>c. access \in AccessFiles /\ access.policy = 1 /\ access.boot = 1 /\ access.unit = 1
    BY <1>5 DEF AccessFiles
  <2>2. artifacts = {state.cur, state.prev} /\ bin = 1 /\ compose = 1 /\ service = 1
    BY <1>5
  <2>3. ITypeOK
    BY <1>v, <1>1, <1>2, <2>b, <2>c, <2>1, <2>2 DEF ITypeOK
  <2>4. Whole(state)
    BY <1>2, <2>c, <2>1, <2>2 DEF Whole, Has, Aged, Deployed, Accessed
  <2>5. OnDisk
    BY <1>v, <1>1, <1>2, <2>2, <2>4 DEF OnDisk, Settled, BuildsKept, Aging, NeverOldOnNew, Interrupted, Closed, Swaps, Whole, Contract
  <2> QED BY <1>1, <1>3, <2>3, <2>5 DEF IInv
<1> QED BY <1>4, <1>5 DEF IInit

\* Every step keeps it.
LEMMA InstallationSteps == IInv /\ [INext]_ivars => IInv'
<1> SUFFICES ASSUME IInv, [INext]_ivars PROVE IInv'
  OBVIOUS
<1>1. CASE \E v \in Versions : (\E known \in BOOLEAN : BeginUpdate(v, known)) \/ BeginInstall(v)
  BY <1>1, BeginUpdateKeeps, BeginInstallKeeps
<1>2. CASE BeginRollback \/ BeginRecover \/ BeginRestore \/ BeginRestart
  BY <1>2, BeginRollbackKeeps, BeginRecoverKeeps, BeginRestoreKeeps, BeginRestartKeeps
<1>3. CASE \E op \in {"exposure", "domains"} : BeginAccess(op)
  BY <1>3, BeginAccessKeeps
<1>4. CASE BeginRecoverExposure \/ BeginRecoverDomains
  BY <1>4, BeginUndoKeeps
<1>5. CASE BeginUninstall
  BY <1>5, BeginUninstallKeeps
<1>6. CASE Operations
  BY <1>6, UpdateKeeps, RecoverTransactionKeeps, RestoreRecoverKeeps, RestartKeeps, ReconfigureKeeps,
     RollbackExposureKeeps, ClosePreparedKeeps, InstallKeeps, UninstallKeeps DEF Operations
<1>7. CASE Dies
  BY <1>7, DiesKeeps
<1>8. CASE UNCHANGED ivars
  <2>1. UNCHANGED <<journal, state, artifacts, bin, compose, access, snapshot, archive, data, service, run, ids, ops, faults, older>>
    BY <1>8 DEF ivars, disk
  <2>2. OnDisk'
    BY <2>1, DiskStays DEF IInv, Still
  <2>3. ITypeOK'
    BY <2>1 DEF IInv, ITypeOK
  <2>4. CASE run.at = "idle"
    BY <2>1, <2>2, <2>3, <2>4, RestartAlone DEF IInv, Here, RestartAll, AtRestart
  <2>5. CASE run.at # "idle"
    BY <2>1, <2>3, <2>5, Moves DEF Stuck, Goes, Still, IInv
  <2> QED BY <2>4, <2>5
<1> QED BY <1>1, <1>2, <1>3, <1>4, <1>5, <1>6, <1>7, <1>8 DEF INext

\* The invariant of the files and of the place holds always.
LEMMA InstallationIsSound == ISpec => []IInv
  BY InstallationBegins, InstallationSteps, PTL DEF ISpec

(* -------------------- the last word of the journal --------------------- *)

RestartAt == RestartPlaces \cup {"t-prepared"}
InstallAt == InstallPlaces \cup {"i-prepared"}
RemovalAt == RemovalPlaces \cup {"n-prepared"}

\* What a process at p can rely on of its journal: a restart is for the state
\* there is, an installation found none and a removal leaves none.
Knows(p) ==
  /\ p \in RestartAt => run.j.after = state
  /\ p \in InstallAt => run.j.before = Absent
  /\ p \in RemovalAt => run.j.after = Absent

Told == (Closed(journal) => OutcomeIsTrue) /\ Knows(run.at)

\* Closing the journal with the stage s tells the truth.
Ends(s) ==
  /\ s = "complete" => state = run.j.after
  /\ s \in {"rolled-back", "aborted"} =>
       state = run.j.before \/ state = [run.j.before EXCEPT !.recovery = "none"]

Strangers == SwapPlaces \cup ChangePlaces \cup {"idle", "u-prepared", "u-discard", "u-prune", "e-prepared",
                                                "e-forget", "x-forget", "i-cleanup"}

\* At the other places nothing has to be known.
LEMMA StrangersKnow == \A p \in Strangers : Knows(p) /\ Knows(p)'
<1>1. \A p \in Strangers : p \notin RestartAt /\ p \notin RemovalAt
  BY DEF Strangers, SwapPlaces, ChangePlaces, RestartAt, RestartPlaces, RemovalAt, RemovalPlaces
<1>2. \A p \in Strangers : p \notin InstallAt
  BY DEF Strangers, SwapPlaces, ChangePlaces, InstallAt, InstallPlaces
<1> QED BY <1>1, <1>2 DEF Knows

\* The process goes to p and neither journal nor state file change.
LEMMA TellsOn ==
  ASSUME Told, UNCHANGED <<journal, state>>, NEW p, Goes(p), Knows(p) PROVE Told'
<1>1. Closed(journal)' => OutcomeIsTrue'
  BY DEF Told, Closed, OutcomeIsTrue
<1>2. CASE p = "idle"
  BY <1>1, <1>2, StrangersKnow DEF Told, Goes, Strangers
<1>3. CASE p # "idle"
  BY <1>1, <1>3 DEF Told, Goes, Knows
<1> QED BY <1>2, <1>3

\* A stage is saved.
LEMMA SaveTells ==
  ASSUME Told, ITypeOK, NEW from, NEW s \in Stages, NEW ok, NEW bad, Save(from, s, ok, bad),
         Knows(ok), Knows(bad), Ends(s)
  PROVE  Told'
<1>1. CASE Stuck(bad)
  BY <1>1, TellsOn DEF Stuck, Still
<1>2. CASE Saved(s, ok)
  <2>1. /\ journal'.stage = s /\ journal'.before = run.j.before /\ journal'.after = run.j.after /\ state' = state
        /\ run'.at = ok /\ (ok # "idle" => run'.j = journal')
    BY <1>2 DEF Saved, Writes
  <2>2. Closed(journal)' => OutcomeIsTrue'
    BY <2>1 DEF Closed, OutcomeIsTrue, Ends
  <2>3. CASE ok = "idle"
    BY <2>1, <2>2, <2>3, StrangersKnow DEF Told, Strangers
  <2>4. CASE ok # "idle"
    BY <2>1, <2>2, <2>4 DEF Told, Knows
  <2> QED BY <2>3, <2>4
<1> QED BY <1>1, <1>2, SaveDoes

\* A stage that leaves the journal open says nothing yet.
OpenStages == {"prepared", "snapshot-ready", "swap-pending", "started", "recovery-required", "restore-required"}
LEMMA OpenTells ==
  ASSUME Told, ITypeOK, NEW from, NEW s \in OpenStages, NEW ok, NEW bad, Save(from, s, ok, bad),
         Knows(ok), Knows(bad)
  PROVE  Told'
<1>1. s \in Stages /\ Ends(s)
  BY DEF OpenStages, Stages, Ends
<1> QED BY <1>1, SaveTells

\* The state file is written under an open journal.
LEMMA StateTells ==
  ASSUME Told, ITypeOK, ~Closed(journal), NEW from, NEW st \in States \cup {Absent}, NEW ok, NEW bad,
         SaveState(from, st, ok, bad), Knows(ok), Knows(bad), ok \notin RestartAt
  PROVE  Told'
<1>1. CASE Stuck(bad)
  BY <1>1, TellsOn DEF Stuck, Still
<1>2. CASE StateSaved(st, ok)
  <2>1. journal' = journal /\ Goes(ok)
    BY <1>2 DEF StateSaved
  <2>2. CASE ok = "idle"
    BY <2>1, <2>2, StrangersKnow DEF Told, Goes, Strangers, Closed
  <2>3. CASE ok # "idle"
    BY <2>1, <2>3 DEF Told, Goes, Knows, Closed
  <2> QED BY <2>2, <2>3
<1> QED BY <1>1, <1>2, SaveStateDoes

\* The service, the builds and the access files are not the journal's word.
LEMMA WorkTells ==
  ASSUME Told, ITypeOK, NEW from, NEW ok, NEW bad, Knows(ok), Knows(bad),
         \/ Stop(from, ok, bad) \/ Health(from, ok, bad) \/ Start(from, ok, bad)
         \/ \E a \in Artifacts : DeployBinary(from, a, ok, bad) \/ DeployCompose(from, a, ok, bad)
         \/ \E written \in AccessFiles : WriteAccess(from, written, ok, bad)
  PROVE  Told'
<1>1. \E p \in {ok, bad} : Goes(p) /\ UNCHANGED <<journal, state>>
  <2>1. CASE Stop(from, ok, bad) \/ Health(from, ok, bad)
    BY <2>1, StopDoes, HealthDoes DEF Stopped, Stuck, Still
  <2>2. CASE Start(from, ok, bad)
    BY <2>2, StartDoes DEF Started, Stuck, Still
  <2>3. CASE \E a \in Artifacts : DeployBinary(from, a, ok, bad) \/ DeployCompose(from, a, ok, bad)
    BY <2>3, DeployBinaryDoes, DeployComposeDoes DEF BinaryIs, ComposeIs, Stuck, Still
  <2>4. ASSUME NEW written \in AccessFiles, WriteAccess(from, written, ok, bad)
        PROVE  \E p \in {ok, bad} : Goes(p) /\ UNCHANGED <<journal, state>>
    BY <2>4, WriteAccessDoes DEF AccessIs, Stuck, Still
  <2> QED BY <2>1, <2>2, <2>3, <2>4
<1> QED BY <1>1, TellsOn

\* What is known of the journal of an update, a rollback or a restore.
LEMMA SwapWords ==
  ASSUME IInv, run.at \in SwapPlaces
  PROVE  /\ ~Closed(journal) /\ run.j.before \in States /\ run.j.after \in States
         /\ run.j.prev \in Artifacts /\ run.j.cand \in Artifacts
         /\ \A r \in Recoveries : /\ [run.j.before EXCEPT !.recovery = r] \in States
                                  /\ [run.j.after EXCEPT !.recovery = r] \in States
<1>1. ~Closed(journal) /\ Swapping(run.j)
  BY DEF IInv, Here, AtSwap, SwapBase
<1>2. /\ run.j.before \in States /\ run.j.after \in States
      /\ run.j.prev \in Artifacts /\ run.j.cand \in Artifacts
  BY <1>1 DEF Swapping
<1>3. \A st \in States, r \in Recoveries : [st EXCEPT !.recovery = r] \in States
  BY DEF States
<1> QED BY <1>1, <1>2, <1>3

\* An update closes its journal where it is done, or where nothing was done.
LEMMA UpdateTells == ASSUME IInv, Told, Update PROVE Told'
<1>0. ITypeOK /\ SwapBase(run.at) /\ SwapDone(run.at)
  BY DEF IInv, Here, AtSwap
<1>k. /\ Knows("idle") /\ Knows("r-begin") /\ Knows("u-mark") /\ Knows("u-discard") /\ Knows("u-swap")
      /\ Knows("u-stop") /\ Knows("u-bin") /\ Knows("u-compose") /\ Knows("u-started") /\ Knows("u-start")
      /\ Knows("u-health") /\ Knows("u-state") /\ Knows("u-brokers") /\ Knows("u-complete") /\ Knows("u-prune")
  BY StrangersKnow DEF Strangers, SwapPlaces
<1>w. ASSUME run.at \in SwapPlaces
      PROVE  ~Closed(journal) /\ run.j.after \in States /\ run.j.cand \in Artifacts
  BY <1>w, SwapWords
<1>1. CASE \/ Save("u-prepared", "prepared", "u-mark", "u-discard") \/ Save("u-swap", "swap-pending", "u-stop", "idle")
           \/ Save("u-started", "started", "u-start", "r-begin")
  BY <1>0, <1>1, <1>k, OpenTells DEF OpenStages
<1>2. CASE DiscardArtifacts
  <2>1. Goes("idle") /\ UNCHANGED <<journal, state>>
    BY <1>0, <1>2, GoDoes DEF DiscardArtifacts
  <2> QED BY <1>k, <2>1, TellsOn
<1>3. CASE Save("u-mark", "aborted", "idle", "idle")
  <2>1. run.at = "u-mark"
    BY <1>3 DEF Save, Doing
  <2>2. run.j.stage = "prepared" /\ Swapping(run.j)
    BY <1>0, <2>1 DEF SwapBase, SwapPlaces
  <2>3. Ends("aborted") /\ "aborted" \in Stages
    BY <2>2 DEF Swapping, Ends, Stages
  <2> QED BY <1>0, <1>3, <1>k, <2>3, SaveTells
<1>4. CASE MarkChanged
  <2>1. run'.at = "u-swap" /\ UNCHANGED <<journal, state>>
    BY <1>4 DEF MarkChanged, disk
  <2> QED BY <2>1, StrangersKnow DEF Told, Strangers, SwapPlaces, Closed, OutcomeIsTrue
<1>5. CASE \/ Stop("u-stop", "u-bin", "r-begin") \/ Start("u-start", "u-health", "r-begin")
           \/ Health("u-health", "u-state", "r-begin") \/ Health("u-brokers", "u-complete", "r-begin")
  BY <1>0, <1>5, <1>k, WorkTells
<1>6. CASE \/ DeployBinary("u-bin", run.j.cand, "u-compose", "r-begin")
           \/ DeployCompose("u-compose", run.j.cand, "u-started", "r-begin")
  <2>1. run.at \in SwapPlaces
    BY <1>6 DEF DeployBinary, DeployCompose, Doing, SwapPlaces
  <2> QED BY <1>0, <1>6, <1>k, <1>w, <2>1, WorkTells
<1>7. CASE SaveState("u-state", run.j.after, "u-brokers", "r-begin")
  <2>1. run.at \in SwapPlaces /\ "u-brokers" \notin RestartAt
    BY <1>7 DEF SaveState, Doing, SwapPlaces, RestartAt, RestartPlaces
  <2> QED BY <1>0, <1>7, <1>k, <1>w, <2>1, StateTells
<1>8. CASE Save("u-complete", "complete", "u-prune", "r-begin")
  <2>1. run.at = "u-complete"
    BY <1>8 DEF Save, Doing
  <2>2. Ends("complete") /\ "complete" \in Stages
    BY <1>0, <2>1 DEF SwapDone, Ends, Stages
  <2> QED BY <1>0, <1>8, <1>k, <2>2, SaveTells
<1>9. CASE Prune
  <2>1. Goes("idle") /\ UNCHANGED <<journal, state>>
    BY <1>0, <1>9, GoDoes DEF Prune
  <2> QED BY <1>k, <2>1, TellsOn
<1> QED BY <1>1, <1>2, <1>3, <1>4, <1>5, <1>6, <1>7, <1>8, <1>9 DEF Update

\* recoverTransaction: aborted where nothing was done, rolled back once the
\* state of before is saved.
LEMMA RecoverTells == ASSUME IInv, Told, RecoverTransaction PROVE Told'
<1>0. ITypeOK /\ SwapBase(run.at) /\ SwapDone(run.at)
  BY DEF IInv, Here, AtSwap
<1>k. /\ Knows("idle") /\ Knows("r-abort") /\ Knows("r-stop") /\ Knows("r-data") /\ Knows("r-needs")
      /\ Knows("r-restore") /\ Knows("r-bin") /\ Knows("r-compose") /\ Knows("r-start") /\ Knows("r-health")
      /\ Knows("r-state") /\ Knows("r-brokers") /\ Knows("r-done") /\ Knows("r-fail-after")
      /\ Knows("r-fail-before") /\ Knows("r-fail")
  BY StrangersKnow DEF Strangers, SwapPlaces
<1>w. ASSUME run.at \in SwapPlaces
      PROVE  /\ ~Closed(journal) /\ run.j.before \in States /\ run.j.prev \in Artifacts
             /\ [run.j.before EXCEPT !.recovery = "restore-required"] \in States
             /\ [run.j.before EXCEPT !.recovery = "recovery-required"] \in States
             /\ [run.j.after EXCEPT !.recovery = "recovery-required"] \in States
  BY <1>w, SwapWords DEF Recoveries
<1>1. CASE RecoverBegins
  <2>1. \E p \in {"r-abort", "r-stop"} : Goes(p) /\ UNCHANGED <<journal, state>>
    BY <1>0, <1>1, GoDoes DEF RecoverBegins, disk
  <2> QED BY <1>k, <2>1, TellsOn
<1>2. CASE RecoverDecides
  <2>1. UNCHANGED <<journal, state>>
    BY <1>2 DEF RecoverDecides, disk
  <2>2. CASE NeedsRestore
    <3>1. run'.at = "r-needs"
      BY <1>2, <2>2 DEF RecoverDecides
    <3> QED BY <2>1, <3>1, StrangersKnow DEF Told, Strangers, SwapPlaces, Closed, OutcomeIsTrue
  <2>3. CASE ~NeedsRestore
    <3>1. Goes("r-bin")
      BY <1>0, <1>2, <2>3, GoDoes DEF RecoverDecides
    <3> QED BY <1>k, <2>1, <3>1, TellsOn
  <2> QED BY <2>2, <2>3
<1>3. CASE Save("r-abort", "aborted", "idle", "idle")
  <2>1. run.at = "r-abort"
    BY <1>3 DEF Save, Doing
  <2>2. run.j.stage = "prepared" /\ Swapping(run.j)
    BY <1>0, <2>1 DEF SwapBase, SwapPlaces
  <2>3. Ends("aborted") /\ "aborted" \in Stages
    BY <2>2 DEF Swapping, Ends, Stages
  <2> QED BY <1>0, <1>3, <1>k, <2>3, SaveTells
<1>4. CASE \/ Stop("r-stop", "r-data", "r-fail-after") \/ Start("r-start", "r-health", "r-fail-before")
           \/ Health("r-health", "r-state", "r-fail-before") \/ Health("r-brokers", "r-done", "r-fail-before")
  BY <1>0, <1>4, <1>k, WorkTells
<1>5. CASE \/ DeployBinary("r-bin", run.j.prev, "r-compose", "r-fail-after")
           \/ DeployCompose("r-compose", run.j.prev, "r-start", "r-fail-after")
  <2>1. run.at \in SwapPlaces
    BY <1>5 DEF DeployBinary, DeployCompose, Doing, SwapPlaces
  <2> QED BY <1>0, <1>5, <1>k, <1>w, <2>1, WorkTells
<1>6. CASE \/ Save("r-restore", "restore-required", "idle", "idle") \/ Save("r-fail", "recovery-required", "idle", "idle")
  BY <1>0, <1>6, <1>k, OpenTells DEF OpenStages
<1>n. /\ "r-restore" \notin RestartAt /\ "r-brokers" \notin RestartAt /\ "r-fail" \notin RestartAt
      /\ {"r-needs", "r-state", "r-fail-after", "r-fail-before"} \subseteq SwapPlaces
  BY DEF RestartAt, RestartPlaces, SwapPlaces
<1>7. CASE \/ SaveState("r-needs", [run.j.before EXCEPT !.recovery = "restore-required"], "r-restore", "r-fail-after")
           \/ SaveState("r-state", run.j.before, "r-brokers", "r-fail-before")
  <2>1. run.at \in SwapPlaces
    BY <1>7, <1>n DEF SaveState, Doing
  <2> QED BY <1>0, <1>7, <1>k, <1>w, <1>n, <2>1, StateTells
<1>8. CASE \/ SaveState("r-fail-after", [run.j.after EXCEPT !.recovery = "recovery-required"], "r-fail", "r-fail")
           \/ SaveState("r-fail-before", [run.j.before EXCEPT !.recovery = "recovery-required"], "r-fail", "r-fail")
  <2>1. run.at \in SwapPlaces
    BY <1>8, <1>n DEF SaveState, Doing
  <2> QED BY <1>0, <1>8, <1>k, <1>w, <1>n, <2>1, StateTells
<1>9. CASE Save("r-done", "rolled-back", "idle", "r-fail-before")
  <2>1. run.at = "r-done"
    BY <1>9 DEF Save, Doing
  <2>2. Ends("rolled-back") /\ "rolled-back" \in Stages
    BY <1>0, <2>1 DEF SwapDone, Ends, Stages
  <2> QED BY <1>0, <1>9, <1>k, <2>2, SaveTells
<1> QED BY <1>1, <1>2, <1>3, <1>4, <1>5, <1>6, <1>7, <1>8, <1>9 DEF RecoverTransaction

\* restore --recover ends with the state of before, without its mark.
LEMMA RestoreTells == ASSUME IInv, Told, RestoreRecover PROVE Told'
<1>0. ITypeOK /\ SwapBase(run.at) /\ SwapDone(run.at)
  BY DEF IInv, Here, AtSwap
<1>k. /\ Knows("idle") /\ Knows("q-swap") /\ Knows("q-apply") /\ Knows("q-bin") /\ Knows("q-compose")
      /\ Knows("q-started") /\ Knows("q-start") /\ Knows("q-health") /\ Knows("q-state") /\ Knows("q-done")
      /\ Knows("q-halt") /\ Knows("q-fail")
  BY StrangersKnow DEF Strangers, SwapPlaces
<1>w. ASSUME run.at \in SwapPlaces
      PROVE  /\ ~Closed(journal) /\ run.j.before \in States /\ run.j.prev \in Artifacts
             /\ [run.j.before EXCEPT !.recovery = "none"] \in States
  BY <1>w, SwapWords DEF Recoveries
<1>1. CASE \/ Stop("q-stop", "q-swap", "q-fail") \/ Start("q-start", "q-health", "q-halt")
           \/ Health("q-health", "q-state", "q-halt") \/ Stop("q-halt", "q-fail", "q-fail")
  BY <1>0, <1>1, <1>k, WorkTells
<1>2. CASE \/ Save("q-swap", "swap-pending", "q-apply", "q-fail") \/ Save("q-started", "started", "q-start", "q-fail")
           \/ Save("q-fail", "recovery-required", "idle", "idle")
  BY <1>0, <1>2, <1>k, OpenTells DEF OpenStages
<1>3. CASE ApplyBackup
  <2>1. UNCHANGED <<journal, state>>
    BY <1>3 DEF ApplyBackup, Fails, disk
  <2>2. run'.at \in {"q-bin", "q-fail"}
    <3>1. CASE Fails("q-fail")
      BY <1>0, <3>1, FailsDoes DEF Goes
    <3>2. CASE ~Fails("q-fail")
      BY <1>3, <3>2 DEF ApplyBackup
    <3> QED BY <3>1, <3>2
  <2> QED BY <2>1, <2>2, StrangersKnow DEF Told, Strangers, SwapPlaces, Closed, OutcomeIsTrue
<1>4. CASE \/ DeployBinary("q-bin", run.j.prev, "q-compose", "q-fail")
           \/ DeployCompose("q-compose", run.j.prev, "q-started", "q-fail")
  <2>1. run.at \in SwapPlaces
    BY <1>4 DEF DeployBinary, DeployCompose, Doing, SwapPlaces
  <2> QED BY <1>0, <1>4, <1>k, <1>w, <2>1, WorkTells
<1>5. CASE SaveState("q-state", [run.j.before EXCEPT !.recovery = "none"], "q-done", "q-halt")
  <2>1. run.at \in SwapPlaces /\ "q-done" \notin RestartAt
    BY <1>5 DEF SaveState, Doing, SwapPlaces, RestartAt, RestartPlaces
  <2> QED BY <1>0, <1>5, <1>k, <1>w, <2>1, StateTells
<1>6. CASE Save("q-done", "rolled-back", "idle", "q-halt")
  <2>1. run.at = "q-done" /\ run.at \in SwapPlaces
    BY <1>6 DEF Save, Doing, SwapPlaces
  <2>2. state = [run.j.before EXCEPT !.recovery = "none"]
    BY <1>0, <2>1 DEF SwapDone
  <2>3. Ends("rolled-back") /\ "rolled-back" \in Stages
    BY <2>2 DEF Ends, Stages
  <2> QED BY <1>0, <1>6, <1>k, <2>3, SaveTells
<1> QED BY <1>1, <1>2, <1>3, <1>4, <1>5, <1>6 DEF RestoreRecover

\* What is known of the journal of a change of access or domains.
LEMMA ChangeWords ==
  ASSUME IInv, run.at \in ChangePlaces
  PROVE  /\ ~Closed(journal) /\ run.j.after \in States /\ run.j.after.access \in Nat
         /\ \A r \in Recoveries : [run.j.before EXCEPT !.recovery = r] \in States
<1>1. ~Closed(journal) /\ run.j.before \in States /\ run.j.after \in States
  BY ChangeKnown DEF Changing
<1>2. \A st \in States : st.access \in Nat /\ \A r \in Recoveries : [st EXCEPT !.recovery = r] \in States
  BY DEF States
<1> QED BY <1>1, <1>2

\* A change is complete once its state is saved; one that is given up before
\* anything was activated leaves the state it found.
LEMMA ReconfigureTells == ASSUME IInv, Told, Reconfigure PROVE Told'
<1>0. ITypeOK /\ ChangeBase(run.at) /\ ChangeDone(run.at)
  BY DEF IInv, Here, AtChange
<1>k. /\ Knows("idle") /\ Knows("x-stop") /\ Knows("e-snapshot") /\ Knows("e-ready") /\ Knows("e-cancel")
      /\ Knows("e-prepare") /\ Knows("e-forget") /\ Knows("e-swap") /\ Knows("e-abort") /\ Knows("e-stop")
      /\ Knows("e-policy") /\ Knows("e-boot") /\ Knows("e-started") /\ Knows("e-start") /\ Knows("e-health")
      /\ Knows("e-state") /\ Knows("e-complete")
  BY StrangersKnow DEF Strangers, ChangePlaces
<1>c. Knows(Unactivated) /\ Knows(IF run.j.op = "domains" THEN "idle" ELSE "e-forget")
  BY <1>k DEF Unactivated
<1>w. ASSUME run.at \in ChangePlaces
      PROVE  ~Closed(journal) /\ run.j.after \in States /\ run.j.after.access \in Nat
  BY <1>w, ChangeWords
<1>1. CASE SavePrepared
  <2>1. CASE Fails("idle")
    BY <1>0, <1>k, <2>1, FailsDoes, TellsOn DEF Still
  <2>2. CASE ~Fails("idle")
    <3>1. /\ run'.at = "e-snapshot" /\ journal' = [run.j EXCEPT !.stage = "prepared"] /\ run.j \in Journals
      BY <1>0, <1>1, <2>2 DEF SavePrepared, ITypeOK
    <3>2. journal'.stage = "prepared"
      BY <3>1 DEF Journals
    <3> QED BY <3>1, <3>2, StrangersKnow DEF Told, Strangers, ChangePlaces, Closed
  <2> QED BY <2>1, <2>2
<1>2. CASE TakeSnapshot
  <2>1. \E p \in {"e-ready", "e-cancel"} : Goes(p) /\ UNCHANGED <<journal, state>>
    BY <1>0, <1>2, GoDoes, FailsDoes DEF TakeSnapshot, Still
  <2> QED BY <1>k, <2>1, TellsOn
<1>3. CASE Save("e-cancel", IF run.j.op = "domains" THEN "aborted" ELSE "rolled-back", "idle", "idle")
  <2> DEFINE s == IF run.j.op = "domains" THEN "aborted" ELSE "rolled-back"
  <2>1. run.at = "e-cancel"
    BY <1>3 DEF Save, Doing
  <2>2. state = run.j.before
    BY <1>0, <2>1 DEF ChangeBase
  <2>3. Ends(s) /\ s \in Stages
    BY <2>2 DEF Ends, Stages
  <2> QED BY <1>0, <1>3, <1>k, <2>3, SaveTells
<1>4. CASE \/ Save("e-ready", "snapshot-ready", "e-prepare", IF run.j.op = "domains" THEN "idle" ELSE "e-forget")
           \/ Save("e-swap", "swap-pending", "e-stop", Unactivated)
           \/ Save("e-started", "started", "e-start", "x-stop")
  BY <1>0, <1>4, <1>k, <1>c, OpenTells DEF OpenStages
<1>5. CASE DropSnapshot("e-forget", "idle")
  <2>1. Goes("idle") /\ UNCHANGED <<journal, state>>
    BY <1>0, <1>5, GoDoes DEF DropSnapshot
  <2> QED BY <1>k, <2>1, TellsOn
<1>6. CASE \/ WriteAccess("e-prepare", WithPolicy(run.j.after.access), "e-swap", "x-stop")
           \/ WriteAccess("e-policy", WithPolicy(run.j.after.access), "e-boot", "x-stop")
           \/ WriteAccess("e-boot", WithBoot(run.j.after.access), "e-started", "x-stop")
  <2>1. run.at \in ChangePlaces
    BY <1>6 DEF WriteAccess, Doing, ChangePlaces
  <2>2. access \in AccessFiles /\ run.j.after.access \in Nat
    BY <1>0, <1>w, <2>1 DEF ITypeOK
  <2>3. WithPolicy(run.j.after.access) \in AccessFiles /\ WithBoot(run.j.after.access) \in AccessFiles
    BY <2>2, AccessParts
  <2> QED BY <1>0, <1>6, <1>k, <2>3, WorkTells
<1>7. CASE Health("e-prepare", "e-swap", Unactivated)
  BY <1>0, <1>7, <1>k, <1>c, WorkTells
<1>8. CASE Save("e-abort", "aborted", "e-forget", "e-forget")
  <2>1. run.at = "e-abort"
    BY <1>8 DEF Save, Doing
  <2>2. state = run.j.before
    BY <1>0, <2>1 DEF ChangeBase
  <2>3. Ends("aborted") /\ "aborted" \in Stages
    BY <2>2 DEF Ends, Stages
  <2> QED BY <1>0, <1>8, <1>k, <2>3, SaveTells
<1>9. CASE \/ Stop("e-stop", "e-policy", "x-stop") \/ Start("e-start", "e-health", "x-stop")
           \/ Health("e-health", "e-state", "x-stop")
  BY <1>0, <1>9, <1>k, WorkTells
<1>10. CASE SaveState("e-state", run.j.after, "e-complete", "x-stop")
  <2>1. run.at \in ChangePlaces /\ "e-complete" \notin RestartAt
    BY <1>10 DEF SaveState, Doing, ChangePlaces, RestartAt, RestartPlaces
  <2> QED BY <1>0, <1>10, <1>k, <1>w, <2>1, StateTells
<1>11. CASE Save("e-complete", "complete", "e-forget", "x-stop")
  <2>1. run.at = "e-complete"
    BY <1>11 DEF Save, Doing
  <2>2. Ends("complete") /\ "complete" \in Stages
    BY <1>0, <2>1 DEF ChangeDone, Ends, Stages
  <2> QED BY <1>0, <1>11, <1>k, <2>2, SaveTells
<1> QED BY <1>1, <1>2, <1>3, <1>4, <1>5, <1>6, <1>7, <1>8, <1>9, <1>10, <1>11 DEF Reconfigure

\* rollbackExposure closes its journal on the state of before.
LEMMA RollbackExposureTells == ASSUME IInv, Told, RollbackExposure PROVE Told'
<1>0. ITypeOK /\ ChangeBase(run.at) /\ ChangeDone(run.at)
  BY DEF IInv, Here, AtChange
<1>k. /\ Knows("idle") /\ Knows("x-policy") /\ Knows("x-boot") /\ Knows("x-start") /\ Knows("x-health")
      /\ Knows("x-state") /\ Knows("x-done") /\ Knows("x-forget") /\ Knows("x-fail") /\ Knows("x-mark")
  BY StrangersKnow DEF Strangers, ChangePlaces
<1>w. ASSUME run.at \in ChangePlaces
      PROVE  /\ ~Closed(journal) /\ [run.j.before EXCEPT !.recovery = "none"] \in States
             /\ [run.j.before EXCEPT !.recovery = "exposure-recovery-required"] \in States
  BY <1>w, ChangeWords DEF Recoveries
<1>1. CASE \/ Stop("x-stop", "x-policy", "x-policy") \/ Start("x-start", "x-health", "x-fail")
           \/ Health("x-health", "x-state", "x-fail")
  BY <1>0, <1>1, <1>k, WorkTells
<1>2. CASE snapshot # Absent /\ WriteAccess("x-policy", WithPolicy(snapshot.policy), "x-boot", "x-fail")
  <2>0. snapshot.policy \in Nat \cup {Removed} /\ access \in AccessFiles
    BY <1>0, <1>2 DEF ITypeOK, AccessFiles
  <2>1. WithPolicy(snapshot.policy) \in AccessFiles
    BY <2>0, AccessParts
  <2> QED BY <1>0, <1>2, <1>k, <2>1, WorkTells
<1>3. CASE snapshot = Absent /\ Doing("x-policy") /\ Go("x-fail") /\ UNCHANGED <<disk, service, faults>> /\ Same
  <2>1. Goes("x-fail") /\ UNCHANGED <<journal, state>>
    BY <1>0, <1>3, GoDoes DEF disk
  <2> QED BY <1>k, <2>1, TellsOn
<1>4. CASE WriteAccess("x-boot", [snapshot EXCEPT !.policy = access.policy], "x-start", "x-fail")
  <2>1. run.at = "x-boot"
    BY <1>4 DEF WriteAccess, Doing
  <2>3. snapshot \in AccessFiles /\ access \in AccessFiles
    BY <1>0, <2>1 DEF ChangeDone, ITypeOK
  <2>2. [snapshot EXCEPT !.policy = access.policy] \in AccessFiles
    BY <2>3 DEF AccessFiles
  <2> QED BY <1>0, <1>4, <1>k, <2>2, WorkTells
<1>5. CASE \/ SaveState("x-state", [run.j.before EXCEPT !.recovery = "none"], "x-done", "x-mark")
           \/ SaveState("x-fail", [run.j.before EXCEPT !.recovery = "exposure-recovery-required"], "x-mark", "x-mark")
  <2>1. run.at \in ChangePlaces /\ "x-done" \notin RestartAt /\ "x-mark" \notin RestartAt
    BY <1>5 DEF SaveState, Doing, ChangePlaces, RestartAt, RestartPlaces
  <2> QED BY <1>0, <1>5, <1>k, <1>w, <2>1, StateTells
<1>6. CASE Save("x-done", "rolled-back", "x-forget", "idle")
  <2>1. run.at = "x-done"
    BY <1>6 DEF Save, Doing
  <2>2. state = [run.j.before EXCEPT !.recovery = "none"]
    BY <1>0, <2>1 DEF ChangeDone
  <2>3. Ends("rolled-back") /\ "rolled-back" \in Stages
    BY <2>2 DEF Ends, Stages
  <2> QED BY <1>0, <1>6, <1>k, <2>3, SaveTells
<1>7. CASE DropSnapshot("x-forget", "idle")
  <2>1. Goes("idle") /\ UNCHANGED <<journal, state>>
    BY <1>0, <1>7, GoDoes DEF DropSnapshot
  <2> QED BY <1>k, <2>1, TellsOn
<1>8. CASE Save("x-mark", "recovery-required", "idle", "idle")
  BY <1>0, <1>8, <1>k, OpenTells DEF OpenStages
<1> QED BY <1>1, <1>2, <1>3, <1>4, <1>5, <1>6, <1>7, <1>8 DEF RollbackExposure

\* A prepared change is closed with the state it found.
LEMMA ClosePreparedTells == ASSUME IInv, Told, ClosePrepared PROVE Told'
<1>0. ITypeOK /\ ChangeBase(run.at)
  BY DEF IInv, Here, AtChange
<1>k. Knows("idle") /\ Knows("y-done")
  BY StrangersKnow DEF Strangers, ChangePlaces
<1>1. CASE DropSnapshot("y-forget", "y-done")
  <2>1. Goes("y-done") /\ UNCHANGED <<journal, state>>
    BY <1>0, <1>1, GoDoes DEF DropSnapshot
  <2> QED BY <1>k, <2>1, TellsOn
<1>2. CASE Save("y-done", "rolled-back", "idle", "idle")
  <2>1. run.at = "y-done" /\ run.at \in ChangePlaces
    BY <1>2 DEF Save, Doing, ChangePlaces
  <2>2. run.j.stage = "prepared" /\ run.j.op = "exposure" /\ Changing(run.j)
    BY <1>0, <2>1, ChangeKnown DEF ChangeBase
  <2>3. state = run.j.before
    BY <2>2 DEF Changing
  <2>4. Ends("rolled-back") /\ "rolled-back" \in Stages
    BY <2>3 DEF Ends, Stages
  <2> QED BY <1>0, <1>2, <1>k, <2>4, SaveTells
<1> QED BY <1>1, <1>2 DEF ClosePrepared

\* A restart leaves the state there is.
LEMMA RestartTells == ASSUME IInv, Told, Restart PROVE Told'
<1>0. ITypeOK
  BY DEF IInv
<1>k. /\ Knows("idle")
      /\ run.at \in RestartAt =>
           /\ Knows("t-stop") /\ Knows("t-started") /\ Knows("t-start") /\ Knows("t-health") /\ Knows("t-done")
           /\ Knows("t-fail") /\ run.j.after = state
  <2>1. \A p \in RestartPlaces : p \notin InstallAt /\ p \notin RemovalAt
    BY DEF RestartPlaces, InstallAt, InstallPlaces, RemovalAt, RemovalPlaces
  <2>2. run.at \in RestartAt => run.j.after = state
    BY DEF Told, Knows
  <2>3. run.at \in RestartAt => \A p \in RestartPlaces : Knows(p)
    BY <2>1, <2>2 DEF Knows
  <2> QED BY <2>2, <2>3, StrangersKnow DEF RestartPlaces, Strangers
<1>1. CASE \/ Save("t-prepared", "prepared", "t-stop", "idle") \/ Save("t-started", "started", "t-start", "t-fail")
           \/ Save("t-fail", "recovery-required", "idle", "idle")
  <2>1. run.at \in RestartAt
    BY <1>1 DEF Save, Doing, RestartAt, RestartPlaces
  <2> QED BY <1>0, <1>1, <1>k, <2>1, OpenTells DEF OpenStages
<1>2. CASE Stop("t-stop", "t-started", "t-fail") \/ Start("t-start", "t-health", "t-fail")
           \/ Health("t-health", "t-done", "t-fail")
  <2>1. run.at \in RestartAt
    BY <1>2 DEF Stop, Start, Health, Doing, RestartAt, RestartPlaces
  <2> QED BY <1>0, <1>2, <1>k, <2>1, WorkTells
<1>3. CASE Save("t-done", "complete", "idle", "t-fail")
  <2>1. run.at \in RestartAt
    BY <1>3 DEF Save, Doing, RestartAt, RestartPlaces
  <2>2. Ends("complete") /\ "complete" \in Stages
    BY <1>k, <2>1 DEF Ends, Stages
  <2> QED BY <1>0, <1>3, <1>k, <2>1, <2>2, SaveTells
<1> QED BY <1>1, <1>2, <1>3 DEF Restart

\* A removal leaves no state.
LEMMA UninstallTells == ASSUME IInv, Told, Uninstall PROVE Told'
<1>0. ITypeOK /\ AtRemoval(run.at)
  BY DEF IInv, Here
<1>k. /\ Knows("idle")
      /\ run.at \in RemovalAt =>
           /\ Knows("n-stop") /\ Knows("n-swap") /\ Knows("n-remove") /\ Knows("n-state") /\ Knows("n-done")
           /\ run.j.after = Absent
  <2>1. \A p \in RemovalPlaces : p \notin InstallAt /\ p \notin RestartAt
    BY DEF RestartPlaces, InstallAt, InstallPlaces, RestartAt, RemovalPlaces
  <2>2. run.at \in RemovalAt => run.j.after = Absent
    BY DEF Told, Knows
  <2>3. run.at \in RemovalAt => \A p \in RemovalPlaces : Knows(p)
    BY <2>1, <2>2 DEF Knows
  <2> QED BY <2>2, <2>3, StrangersKnow DEF RemovalPlaces, Strangers
<1>1. CASE \/ Save("n-prepared", "prepared", "n-stop", "idle") \/ Save("n-swap", "swap-pending", "n-remove", "idle")
  <2>1. run.at \in RemovalAt
    BY <1>1 DEF Save, Doing, RemovalAt, RemovalPlaces
  <2> QED BY <1>0, <1>1, <1>k, <2>1, OpenTells DEF OpenStages
<1>2. CASE Stop("n-stop", "n-swap", "idle")
  <2>1. run.at \in RemovalAt
    BY <1>2 DEF Stop, Doing, RemovalAt, RemovalPlaces
  <2> QED BY <1>0, <1>2, <1>k, <2>1, WorkTells
<1>3. CASE RemoveArtifacts
  <2>1. run.at \in RemovalAt
    BY <1>3 DEF RemoveArtifacts, Doing, RemovalAt, RemovalPlaces
  <2>2. \E p \in {"n-state", "idle"} : Goes(p) /\ UNCHANGED <<journal, state>>
    BY <1>0, <1>3, GoDoes, FailsDoes DEF RemoveArtifacts, Still
  <2> QED BY <1>k, <2>1, <2>2, TellsOn
<1>4. CASE SaveState("n-state", Absent, "n-done", "idle")
  <2>1. run.at = "n-state" /\ run.at \in RemovalAt /\ "n-done" \notin RestartAt
    BY <1>4 DEF SaveState, Doing, RemovalAt, RemovalPlaces, RestartAt, RestartPlaces
  <2>2. ~Closed(journal)
    BY <1>0, <2>1 DEF AtRemoval
  <2> QED BY <1>0, <1>4, <1>k, <2>1, <2>2, StateTells
<1>5. CASE Save("n-done", "complete", "idle", "idle")
  <2>1. run.at = "n-done" /\ run.at \in RemovalAt
    BY <1>5 DEF Save, Doing, RemovalAt, RemovalPlaces
  <2>2. state = Absent
    BY <1>0, <2>1 DEF AtRemoval
  <2>3. Ends("complete") /\ "complete" \in Stages
    BY <1>k, <2>1, <2>2 DEF Ends, Stages
  <2> QED BY <1>0, <1>5, <1>k, <2>3, SaveTells
<1> QED BY <1>1, <1>2, <1>3, <1>4, <1>5 DEF Uninstall

\* An installation is complete with its state, or aborted without one.
LEMMA InstallTells == ASSUME IInv, Told, Install PROVE Told'
<1>0. ITypeOK /\ AtInstall(run.at)
  BY DEF IInv, Here
<1>k. /\ Knows("idle")
      /\ run.at \in InstallAt => run.j.before = Absent /\ \A p \in InstallPlaces : Knows(p)
  <2>1. \A p \in InstallPlaces : p \notin RemovalAt /\ p \notin RestartAt
    BY DEF RestartPlaces, RemovalAt, InstallPlaces, RestartAt, RemovalPlaces
  <2>2. run.at \in InstallAt => run.j.before = Absent
    BY DEF Told, Knows
  <2>3. run.at \in InstallAt => \A p \in InstallPlaces : Knows(p)
    BY <2>1, <2>2 DEF Knows
  <2> QED BY <2>2, <2>3, StrangersKnow DEF Strangers
<1>n. /\ run.at \in InstallAt =>
           /\ Knows("i-needs") /\ Knows("i-clear") /\ Knows("i-abort") /\ Knows("i-again") /\ Knows("i-stage")
           /\ Knows("i-swap") /\ Knows("i-mark") /\ Knows("i-started") /\ Knows("i-bin") /\ Knows("i-start")
           /\ Knows("i-health") /\ Knows("i-state") /\ Knows("i-complete") /\ Knows("i-stop") /\ Knows("i-fail")
           /\ Knows("i-mark-fail") /\ Knows("i-cert") /\ Knows("i-pending")
  BY <1>k DEF InstallPlaces
<1>w. ASSUME run.at \in InstallPlaces
      PROVE  /\ ~Closed(journal) /\ run.j.cand \in Artifacts /\ run.j.after \in States
             /\ [run.j.after EXCEPT !.recovery = "install-incomplete"] \in States
  <2>1. ~Closed(journal) /\ run.j.cand \in Artifacts /\ run.j.after = Installed(run.j.cand)
    BY <1>w, InstallKnown DEF Installing
  <2>2. Installed(run.j.cand) \in States
    BY <2>1 DEF Installed, States, Recoveries
  <2>3. \A st \in States : [st EXCEPT !.recovery = "install-incomplete"] \in States
    BY DEF States, Recoveries
  <2> QED BY <2>1, <2>2, <2>3
<1>1. CASE \/ Save("i-prepared", "prepared", "i-needs", "idle") \/ Save("i-again", "prepared", "i-stage", "i-fail")
           \/ Save("i-swap", "swap-pending", "i-mark", "i-fail") \/ Save("i-started", "started", "i-bin", "i-stop")
           \/ Save("i-mark-fail", "recovery-required", "idle", "idle")
  <2>1. run.at \in InstallAt
    BY <1>1 DEF Save, Doing, InstallAt, InstallPlaces
  <2> QED BY <1>0, <1>1, <1>k, <1>n, <2>1, OpenTells DEF OpenStages
<1>2. CASE \/ Health("i-needs", "i-again", "i-clear") \/ Start("i-start", "i-health", "i-stop")
           \/ Health("i-health", "i-state", "i-stop") \/ Stop("i-stop", "i-fail", "i-fail")
           \/ Health("i-cert", "i-complete", "i-pending")
  <2>1. run.at \in InstallAt
    BY <1>2 DEF Health, Start, Stop, Doing, InstallAt, InstallPlaces
  <2> QED BY <1>0, <1>2, <1>n, <2>1, WorkTells
<1>3. CASE DeployBinary("i-bin", run.j.cand, "i-start", "i-stop")
  <2>1. run.at \in InstallAt /\ run.at \in InstallPlaces
    BY <1>3 DEF DeployBinary, Doing, InstallAt, InstallPlaces
  <2> QED BY <1>0, <1>3, <1>n, <1>w, <2>1, WorkTells
<1>4. CASE SaveState("i-clear", Absent, "i-abort", "i-abort")
  <2>1. run.at \in InstallAt /\ run.at \in InstallPlaces /\ "i-abort" \notin RestartAt
    BY <1>4 DEF SaveState, Doing, InstallAt, InstallPlaces, RestartAt, RestartPlaces
  <2> QED BY <1>0, <1>4, <1>n, <1>w, <2>1, StateTells
<1>5. CASE Save("i-abort", "aborted", "idle", "idle")
  <2>1. run.at = "i-abort" /\ run.at \in InstallAt
    BY <1>5 DEF Save, Doing, InstallAt, InstallPlaces
  <2>2. state = Absent
    BY <1>0, <2>1 DEF AtInstall
  <2>3. Ends("aborted") /\ "aborted" \in Stages
    BY <1>k, <2>1, <2>2 DEF Ends, Stages
  <2> QED BY <1>0, <1>5, <1>k, <2>3, SaveTells
<1>6. CASE StageInstall
  <2>1. run.at \in InstallAt
    BY <1>6 DEF StageInstall, Doing, InstallAt, InstallPlaces
  <2>2. CASE Fails("i-fail")
    BY <1>0, <1>n, <2>1, <2>2, FailsDoes, TellsOn DEF Still
  <2>3. CASE ~Fails("i-fail")
    <3>1. Goes("i-swap") /\ UNCHANGED <<journal, state>>
      BY <1>6, <2>3 DEF StageInstall, Goes
    <3> QED BY <1>n, <2>1, <3>1, TellsOn
  <2> QED BY <2>2, <2>3
<1>7. CASE MarkInstall
  <2>1. run.at = "i-mark" /\ run.at \in InstallAt
    BY <1>7 DEF MarkInstall, Doing, InstallAt, InstallPlaces
  <2>2. run'.at = "i-started" /\ UNCHANGED <<journal, state>> /\ run'.j.before = run.j.before
    <3> DEFINE j == [run.j EXCEPT !.changed = TRUE]
    <3>1. j.before = run.j.before
      BY <1>0 DEF ITypeOK, Journals
    <3>2. run' = [at |-> "i-started", j |-> j]
      BY <1>7 DEF MarkInstall
    <3> HIDE DEF j
    <3>3. run'.at = "i-started" /\ run'.j = j
      BY <3>2
    <3>4. UNCHANGED <<journal, state>>
      BY <1>7 DEF MarkInstall, disk
    <3> QED BY <3>1, <3>3, <3>4
  <2>3. "i-started" \notin RestartAt /\ "i-started" \notin RemovalAt
    BY DEF RestartAt, RestartPlaces, RemovalAt, RemovalPlaces
  <2>4. Knows(run.at)'
    BY <1>k, <2>1, <2>2, <2>3 DEF Knows
  <2> QED BY <2>2, <2>4 DEF Told, Closed, OutcomeIsTrue
<1>8. CASE SaveState("i-state", run.j.after, "i-cert", "i-stop")
  <2>1. run.at \in InstallAt /\ run.at \in InstallPlaces /\ "i-cert" \notin RestartAt
    BY <1>8 DEF SaveState, Doing, InstallAt, InstallPlaces, RestartAt, RestartPlaces
  <2> QED BY <1>0, <1>8, <1>n, <1>w, <2>1, StateTells
<1>9. CASE Save("i-complete", "complete", "idle", "i-stop")
  <2>1. run.at = "i-complete" /\ run.at \in InstallAt
    BY <1>9 DEF Save, Doing, InstallAt, InstallPlaces
  <2>2. Ends("complete") /\ "complete" \in Stages
    BY <1>0, <2>1 DEF AtInstall, Ends, Stages
  <2> QED BY <1>0, <1>9, <1>k, <1>n, <2>1, <2>2, SaveTells
<1>10. CASE SaveState("i-fail", [run.j.after EXCEPT !.recovery = "install-incomplete"], "i-mark-fail", "i-mark-fail")
  <2>1. run.at \in InstallAt /\ run.at \in InstallPlaces /\ "i-mark-fail" \notin RestartAt
    BY <1>10 DEF SaveState, Doing, InstallAt, InstallPlaces, RestartAt, RestartPlaces
  <2> QED BY <1>0, <1>10, <1>n, <1>w, <2>1, StateTells
<1>11. CASE Save("i-pending", "complete", "i-cleanup", "i-stop")
  <2>1. run.at = "i-pending" /\ run.at \in InstallAt
    BY <1>11 DEF Save, Doing, InstallAt, InstallPlaces
  <2>2. Ends("complete") /\ "complete" \in Stages
    BY <1>0, <2>1 DEF AtInstall, Ends, Stages
  <2>3. Knows("i-cleanup")
    BY StrangersKnow DEF Strangers
  <2> QED BY <1>0, <1>11, <1>n, <2>1, <2>2, <2>3, SaveTells
<1>12. CASE WriteAccess("i-cleanup", WithPolicy(Removed), "idle", "idle")
  <2>1. access \in AccessFiles
    BY <1>0 DEF ITypeOK
  <2>2. WithPolicy(Removed) \in AccessFiles
    BY <2>1, AccessParts
  <2> QED BY <1>0, <1>12, <1>k, <2>2, WorkTells
<1> QED BY <1>1, <1>2, <1>3, <1>4, <1>5, <1>6, <1>7, <1>8, <1>9, <1>10, <1>11, <1>12 DEF Install

\* An operation that begins, and a recovery that takes over its journal, has
\* written nothing yet.
LEMMA BeginTells ==
  ASSUME Told, UNCHANGED <<journal, state>>, run'.at \in Strangers PROVE Told'
  BY StrangersKnow DEF Told, Closed, OutcomeIsTrue

\* An update that begins has written neither journal nor state.
LEMMA BeginUpdateTells == ASSUME IInv, Told, NEW v \in Versions, NEW known \in BOOLEAN, BeginUpdate(v, known) PROVE Told'
<1>1. run'.at = "u-prepared" /\ UNCHANGED <<journal, state>>
  BY DEF BeginUpdate, BeginOp, Enter
<1> QED BY <1>1, BeginTells DEF Strangers

\* An installation begins where there is no state.
LEMMA BeginInstallTells == ASSUME IInv, Told, NEW v \in Versions, BeginInstall(v) PROVE Told'
<1> DEFINE a == <<ids + 1, v, Contract(v), 0>>
           j == [NoJournal EXCEPT !.op = "install", !.stage = "new", !.after = Installed(a), !.cand = a]
<1>1. j.before = Absent
  BY DEF NoJournal
<1>2. run' = [at |-> "i-prepared", j |-> j] /\ UNCHANGED disk
  BY DEF BeginInstall, BeginOp, Enter
<1> HIDE DEF j
<1>3. run'.at = "i-prepared" /\ run'.j = j /\ UNCHANGED <<journal, state>>
  BY <1>2 DEF disk
<1>4. "i-prepared" \notin RestartAt /\ "i-prepared" \notin RemovalAt
  BY DEF RestartAt, RestartPlaces, RemovalAt, RemovalPlaces
<1> QED BY <1>1, <1>3, <1>4 DEF Told, Knows, Closed, OutcomeIsTrue

\* The commands that begin or take over an operation.
LEMMA BeginsTell ==
  ASSUME IInv, Told,
         \/ \E v \in Versions : (\E known \in BOOLEAN : BeginUpdate(v, known)) \/ BeginInstall(v)
         \/ BeginRollback \/ BeginRecover \/ BeginRestore \/ BeginRestart
         \/ \E op \in {"exposure", "domains"} : BeginAccess(op)
         \/ BeginRecoverExposure \/ BeginRecoverDomains \/ BeginUninstall \/ Dies
  PROVE  Told'
<1>1. CASE \E v \in Versions : (\E known \in BOOLEAN : BeginUpdate(v, known)) \/ BeginInstall(v)
  BY <1>1, BeginUpdateTells, BeginInstallTells
<1>2. CASE BeginRollback \/ BeginRecover \/ BeginRestore
  <2>1. run'.at \in {"u-prepared", "r-begin", "q-stop"} /\ UNCHANGED <<journal, state>>
    BY <1>2 DEF BeginRollback, BeginRecover, BeginRestore, BeginOp, Enter, disk
  <2> QED BY <2>1, BeginTells DEF Strangers, SwapPlaces
<1>3. CASE BeginRestart
  <2> DEFINE j == [NoJournal EXCEPT !.op = "restart", !.stage = "new", !.before = state, !.after = state]
  <2>1. j.after = state
    BY DEF NoJournal
  <2>2. run' = [at |-> "t-prepared", j |-> j] /\ UNCHANGED disk
    BY <1>3 DEF BeginRestart, BeginOp, Enter
  <2> HIDE DEF j
  <2>3. run'.at = "t-prepared" /\ run'.j = j /\ journal' = journal /\ state' = state
    BY <2>2 DEF disk
  <2>4. "t-prepared" \notin InstallAt /\ "t-prepared" \notin RemovalAt
    BY DEF InstallAt, InstallPlaces, RemovalAt, RemovalPlaces
  <2>5. run'.j.after = state'
    BY <2>1, <2>3
  <2>6. Knows(run.at)'
    BY <2>3, <2>4, <2>5 DEF Knows
  <2> QED BY <2>3, <2>6 DEF Told, Closed, OutcomeIsTrue
<1>4. ASSUME NEW op \in {"exposure", "domains"}, BeginAccess(op) PROVE Told'
  <2>1. run'.at = "e-prepared" /\ UNCHANGED <<journal, state>>
    BY <1>4 DEF BeginAccess, BeginOp, Enter, disk
  <2> QED BY <2>1, BeginTells DEF Strangers
<1>5. CASE BeginRecoverExposure \/ BeginRecoverDomains
  <2>1. run'.at \in {"x-stop", "y-forget"} /\ UNCHANGED <<journal, state>>
    BY <1>5 DEF BeginRecoverExposure, BeginRecoverDomains, Enter, disk
  <2> QED BY <2>1, BeginTells DEF Strangers, ChangePlaces
<1>6. CASE BeginUninstall
  <2> DEFINE st == IF state # Absent THEN state
                     ELSE IF journal.op = "uninstall" THEN journal.before ELSE journal.after
             j == [NoJournal EXCEPT !.op = "uninstall", !.stage = "new", !.before = st]
  <2>1. j.after = Absent
    BY DEF NoJournal
  <2>2. run' = [at |-> "n-prepared", j |-> j] /\ UNCHANGED disk
    BY <1>6 DEF BeginUninstall, BeginOp, Enter
  <2> HIDE DEF j
  <2>3. run'.at = "n-prepared" /\ run'.j = j /\ UNCHANGED <<journal, state>>
    BY <2>2 DEF disk
  <2>4. "n-prepared" \notin RestartAt /\ "n-prepared" \notin InstallAt
    BY DEF RestartAt, RestartPlaces, InstallAt, InstallPlaces
  <2>5. Knows(run.at)'
    BY <2>1, <2>3, <2>4 DEF Knows
  <2> QED BY <2>3, <2>5 DEF Told, Closed, OutcomeIsTrue
<1>7. CASE Dies
  <2>1. run'.at = "idle" /\ UNCHANGED <<journal, state>>
    BY <1>7 DEF Dies, NoProcess, disk
  <2> QED BY <2>1, BeginTells DEF Strangers
<1> QED BY <1>1, <1>2, <1>3, <1>4, <1>5, <1>6, <1>7

\* Every step leaves a journal whose last word is true.
LEMMA ToldSteps == IInv /\ Told /\ [INext]_ivars => Told'
<1> SUFFICES ASSUME IInv, Told, [INext]_ivars PROVE Told'
  OBVIOUS
<1>1. CASE Operations
  BY <1>1, UpdateTells, RecoverTells, RestoreTells, RestartTells, ReconfigureTells, RollbackExposureTells,
     ClosePreparedTells, InstallTells, UninstallTells DEF Operations
<1>2. CASE UNCHANGED ivars
  BY <1>2 DEF ivars, disk, Told, Knows, Closed, OutcomeIsTrue
<1>3. CASE INext /\ ~Operations
  BY <1>3, BeginsTell DEF INext
<1> QED BY <1>1, <1>2, <1>3

\* Once no operation is pending, state file, binary, Compose, access files and
\* service agree and are what the journal says the last operation left,
\* whatever failed or died before, for any number of builds, operations and
\* faults, but for the two exceptions of InOnePiece: the Compose that a rollback
\* over a change of access brings back, and the policy files that an install
\* with a pending certificate removes (install: Update, recoverTransaction,
\* deployArtifact, rollbackExposure, Restart, Install, Uninstall, Journal).
THEOREM SettledStaysAgreed == ISpec => []SettledAgrees
<1>1. IInv => (Closed(journal) => InOnePiece)
  <2> SUFFICES ASSUME IInv, Closed(journal), state # Absent PROVE InOnePiece
    BY DEF InOnePiece
  <2>1. Whole(state) /\ access \in AccessFiles
    BY DEF IInv, OnDisk, Settled, ITypeOK
  <2>2. access.boot = state.access /\ access.policy \in {state.access, Removed}
    BY <2>1 DEF Whole, Accessed
  <2> QED BY <2>1, <2>2 DEF Whole, Deployed, InOnePiece
<1>2. IInit => Told
  <2> SUFFICES ASSUME IInit PROVE Told
    OBVIOUS
  <2>1. journal.op = "none" /\ run.at = "idle"
    BY DEF IInit, NoJournal, NoProcess
  <2> QED BY <2>1, StrangersKnow DEF Told, OutcomeIsTrue, Strangers
<1>3. IInv /\ Told => SettledAgrees
  BY <1>1 DEF Told, SettledAgrees
<1> QED BY <1>2, <1>3, ToldSteps, InstallationIsSound, PTL DEF ISpec

\* The artifacts that the state file names are there, an update that asks for
\* its backup has one that the build it goes back to can read, and no build
\* runs on data that a newer contract migrated, as long as no older build was
\* deployed by an install on kept data or over a build of unknown contract
\* (install: pruneArtifacts, Update, recoverTransaction, RestoreRecover).
THEOREM RollbackStaysSafe == ISpec => []RollbackSafe
<1>1. IInv => RollbackKept /\ NeverOldOnNew
  BY DEF IInv, OnDisk, BuildsKept, Has, RollbackKept
<1>2. IInv => RestoreOffered
  <2> SUFFICES ASSUME IInv, ~Closed(journal), journal.need PROVE RestoreOffered
    BY DEF RestoreOffered
  <2>1. Swapping(journal)
    BY DEF IInv, OnDisk, Interrupted
  <2>2. ~Compatible(journal.prev, journal.cand)
    BY <2>1 DEF Swapping
  <2> QED BY <2>1, <2>2 DEF Swapping, RestoreOffered
<1>3. IInv => RollbackSafe
  BY <1>1, <1>2 DEF RollbackSafe
<1> QED BY <1>3, InstallationIsSound, PTL

(* ------------------- recoveries in which nothing fails ------------------ *)

\* What a recovery finds: an exposure change that went past its first stage
\* left its snapshot, which goes only with the journal or before it; a recovery
\* that asks for the backup has said so.
Retained ==
  /\ (~Closed(journal) /\ journal.op = "exposure" /\ journal.stage # "prepared") => snapshot # Absent
  /\ run.at \in {"e-snapshot", "e-ready"} => journal.stage = "prepared"
  /\ run.at = "e-ready" => snapshot # Absent
  /\ run.at = "e-forget" => Closed(journal) \/ journal.stage = "prepared" \/ journal.op = "domains"
  /\ run.at = "x-forget" => Closed(journal)
  /\ run.at \in {"r-needs", "r-restore"} => run.j.need

\* RecoveryHolds, of one step.
Held ==
  run.at \in Recovering /\ run.j.op # "domains" /\ faults' = faults =>
    \/ run'.at \in Recovering
    \/ Closed(journal') \/ (run'.at = "idle" /\ journal'.need)

\* A step from one place to one of two, the second only when something failed.
Passes(from, ok, bad) ==
  /\ run.at = from /\ run'.at \in {ok, bad} /\ (faults' = faults => run'.at = ok)
  /\ snapshot' = snapshot /\ (run'.at # "idle" => run'.j.need = run.j.need)

\* A step that fails is counted.
LEMMA FailsPasses ==
  ASSUME ITypeOK, NEW from, NEW ok, NEW bad, run.at = from, Fails(bad)
  PROVE  Passes(from, ok, bad) /\ journal' = journal
<1>1. Goes(bad) /\ Still
  BY FailsDoes
<1>2. faults' # faults
  BY DEF Fails, Fault, ITypeOK
<1> QED BY <1>1, <1>2 DEF Passes, Goes, Still

\* A stage is written, or something failed.
LEMMA SavePasses ==
  ASSUME ITypeOK, NEW from, NEW s \in Stages, NEW ok, NEW bad, Save(from, s, ok, bad)
  PROVE  /\ Passes(from, ok, bad)
         /\ faults' = faults => journal'.stage = s /\ journal'.need = run.j.need
         /\ \/ journal' = journal /\ run'.at = bad
            \/ journal'.op = run.j.op /\ journal'.stage = s /\ run'.at = ok
<1>0. run.at = from
  BY DEF Save, Doing
<1>1. CASE Fails(bad)
  <2>1. faults' # faults /\ Goes(bad)
    BY <1>1, FailsDoes DEF Fails, Fault, ITypeOK
  <2> QED BY <1>0, <1>1, <2>1, FailsPasses DEF Goes
<1>2. CASE ~Fails(bad)
  <2>1. /\ journal' = [run.j EXCEPT !.stage = s] /\ run.j \in Journals
        /\ run' = IF ok = "idle" THEN NoProcess ELSE [at |-> ok, j |-> [run.j EXCEPT !.stage = s]]
    BY <1>2 DEF Save, ITypeOK
  <2>2. journal'.op = run.j.op /\ journal'.stage = s /\ journal'.need = run.j.need
    BY <2>1 DEF Journals
  <2>3. run'.at = ok /\ (ok # "idle" => run'.j = journal')
    BY <2>1 DEF NoProcess
  <2>4. snapshot' = snapshot
    BY <1>2 DEF Save
  <2> QED BY <1>0, <2>2, <2>3, <2>4 DEF Passes
<1> QED BY <1>1, <1>2

\* The service is stopped, waited for or started.
LEMMA WorkPasses ==
  ASSUME ITypeOK, NEW from, NEW ok, NEW bad,
         Stop(from, ok, bad) \/ Health(from, ok, bad) \/ Start(from, ok, bad)
  PROVE  Passes(from, ok, bad) /\ journal' = journal
<1>0. run.at = from
  BY DEF Stop, Health, Start, Doing
<1>1. CASE Fails(bad)
  BY <1>0, <1>1, FailsPasses
<1>2. CASE ~Fails(bad)
  <2>1. /\ Go(ok) \/ (Fault /\ Go(bad))
        /\ journal' = journal /\ snapshot' = snapshot
    BY <1>2 DEF Stop, Health, Start, disk
  <2>2. CASE Go(ok)
    BY <1>0, <2>1, <2>2, GoDoes DEF Passes, Goes
  <2>3. CASE Fault /\ Go(bad)
    <3>1. faults' # faults
      BY <2>3 DEF Fault, ITypeOK
    <3> QED BY <1>0, <2>1, <2>3, <3>1, GoDoes DEF Passes, Goes
  <2> QED BY <2>1, <2>2, <2>3
<1> QED BY <1>1, <1>2

\* The state file is written.
LEMMA StatePasses ==
  ASSUME ITypeOK, NEW from, NEW st, NEW ok, NEW bad, SaveState(from, st, ok, bad)
  PROVE  Passes(from, ok, bad) /\ journal' = journal
<1>1. CASE Fails(bad)
  BY <1>1, FailsPasses DEF SaveState, Doing
<1>2. CASE ~Fails(bad)
  BY <1>2, GoDoes DEF SaveState, Doing, Passes, Goes
<1> QED BY <1>1, <1>2

\* A build that is there is deployed.
LEMMA BuildPasses ==
  ASSUME ITypeOK, NEW from, NEW a, NEW ok, NEW bad,
         (a \in artifacts /\ DeployBinary(from, a, ok, bad)) \/ DeployCompose(from, a, ok, bad)
  PROVE  Passes(from, ok, bad) /\ journal' = journal
<1>0. run.at = from
  BY DEF DeployBinary, DeployCompose, Doing
<1>1. CASE Fails(bad)
  BY <1>0, <1>1, FailsPasses
<1>2. CASE ~Fails(bad)
  <2>1. Go(ok) /\ journal' = journal /\ snapshot' = snapshot
    BY <1>2 DEF DeployBinary, DeployCompose
  <2> QED BY <1>0, <2>1, GoDoes DEF Passes, Goes
<1> QED BY <1>1, <1>2

\* An access file is written.
LEMMA AccessPasses ==
  ASSUME ITypeOK, NEW from, NEW written, NEW ok, NEW bad, WriteAccess(from, written, ok, bad)
  PROVE  Passes(from, ok, bad) /\ journal' = journal
<1>1. CASE Fails(bad)
  BY <1>1, FailsPasses DEF WriteAccess, Doing
<1>2. CASE ~Fails(bad)
  <2>1. run.at = from /\ Go(ok) /\ journal' = journal /\ snapshot' = snapshot
    BY <1>2 DEF WriteAccess, Doing
  <2> QED BY <2>1, GoDoes DEF Passes, Goes
<1> QED BY <1>1, <1>2

\* An operation other than an exposure change has no snapshot to keep.
LEMMA OtherKeeps ==
  ASSUME Retained, snapshot' = snapshot, journal' = journal \/ journal'.op = run.j.op,
         run.j.op # "exposure", run'.at \notin {"e-snapshot", "e-ready", "e-forget", "x-forget"},
         run'.at \in {"r-needs", "r-restore"} => run'.j.need
  PROVE  Retained'
  BY DEF Retained, Closed

\* The journal of an update, rollback or restore is not that of an exposure change.
LEMMA SwapIsOther == ASSUME IInv, run.at \in SwapPlaces \cup {"u-prepared", "u-discard", "u-prune"} PROVE run.j.op # "exposure"
  BY DEF IInv, Here, AtSwap, SwapBase, Swaps, Linked

\* A step that stays on the way of a recovery, and one that is on no such way.
LEMMA StaysIn ==
  ASSUME NEW from, NEW ok, NEW bad, Passes(from, ok, bad), ok \in Recovering \/ from \notin Recovering
  PROVE  Held
  BY DEF Passes, Held

\* Updates and rollbacks are no recoveries.
LEMMA UpdateHolds == ASSUME IInv, Retained, Update PROVE Retained' /\ Held
<1>0. ITypeOK /\ SwapBase(run.at)
  BY DEF IInv, Here, AtSwap
<1>s. {"prepared", "aborted", "swap-pending", "started", "complete"} \subseteq Stages
  BY DEF Stages
<1>q. SUFFICES /\ run.at \in SwapPlaces \cup {"u-prepared", "u-discard", "u-prune"} /\ run.at \notin Recovering
               /\ snapshot' = snapshot /\ (journal' = journal \/ journal'.op = run.j.op)
               /\ run'.at \notin {"e-snapshot", "e-ready", "e-forget", "x-forget", "r-needs", "r-restore"}
  BY SwapIsOther, OtherKeeps DEF Held
<1>1. CASE Save("u-prepared", "prepared", "u-mark", "u-discard") \/ Save("u-mark", "aborted", "idle", "idle")
           \/ Save("u-swap", "swap-pending", "u-stop", "idle")
  BY <1>0, <1>1, <1>s, SavePasses DEF Passes, SwapPlaces, Recovering
<1>2. CASE Save("u-started", "started", "u-start", "r-begin") \/ Save("u-complete", "complete", "u-prune", "r-begin")
  BY <1>0, <1>2, <1>s, SavePasses DEF Passes, SwapPlaces, Recovering
<1>3. CASE DiscardArtifacts \/ Prune
  <2>1. Goes("idle")
    BY <1>0, <1>3, GoDoes DEF DiscardArtifacts, Prune
  <2> QED BY <1>3, <2>1 DEF DiscardArtifacts, Prune, Doing, Goes, Recovering
<1>4. CASE MarkChanged
  BY <1>4 DEF MarkChanged, disk, Doing, SwapPlaces, Recovering
<1>5. CASE \/ Stop("u-stop", "u-bin", "r-begin") \/ Start("u-start", "u-health", "r-begin")
           \/ Health("u-health", "u-state", "r-begin") \/ Health("u-brokers", "u-complete", "r-begin")
  BY <1>0, <1>5, WorkPasses DEF Passes, SwapPlaces, Recovering
<1>6. CASE DeployBinary("u-bin", run.j.cand, "u-compose", "r-begin")
  <2>1. run.at = "u-bin"
    BY <1>6 DEF DeployBinary, Doing
  <2>2. run.j.cand \in artifacts
    BY <1>0, <2>1 DEF SwapBase, SwapPlaces, Swapping
  <2> QED BY <1>0, <1>6, <2>2, BuildPasses DEF Passes, SwapPlaces, Recovering
<1>7. CASE DeployCompose("u-compose", run.j.cand, "u-started", "r-begin")
  BY <1>0, <1>7, BuildPasses DEF Passes, SwapPlaces, Recovering
<1>8. CASE SaveState("u-state", run.j.after, "u-brokers", "r-begin")
  BY <1>0, <1>8, StatePasses DEF Passes, SwapPlaces, Recovering
<1> QED BY <1>1, <1>2, <1>3, <1>4, <1>5, <1>6, <1>7, <1>8 DEF Update

\* The steps of a recovery that may meet a failure only.
LEMMA SwapHolds ==
  ASSUME IInv, Retained, NEW from \in SwapPlaces, NEW ok, NEW bad, Passes(from, ok, bad),
         ok \in Recovering \/ from \notin Recovering, journal' = journal \/ journal'.op = run.j.op,
         ok \in (SwapPlaces \ {"r-needs", "r-restore"}) \cup {"idle"},
         bad \in (SwapPlaces \ {"r-needs", "r-restore"}) \cup {"idle"}
  PROVE  Retained' /\ Held
<1>1. run.j.op # "exposure"
  BY SwapIsOther DEF Passes
<1>2. run'.at \in SwapPlaces \cup {"idle"} /\ run'.at \notin {"r-needs", "r-restore"} /\ snapshot' = snapshot
  BY DEF Passes, SwapPlaces
<1>3. run'.at \notin {"e-snapshot", "e-ready", "e-forget", "x-forget"}
  BY <1>2 DEF SwapPlaces
<1> QED BY <1>1, <1>2, <1>3, StaysIn, OtherKeeps

\* recoverTransaction finds the predecessor's artifact.
LEMMA RecoverHolds == ASSUME IInv, Retained, RecoverTransaction PROVE Retained' /\ Held
<1>0. ITypeOK /\ SwapBase(run.at)
  BY DEF IInv, Here, AtSwap
<1>s. {"aborted", "restore-required", "rolled-back", "recovery-required"} \subseteq Stages
  BY DEF Stages
<1>p. {"r-begin", "r-abort", "r-stop", "r-data", "r-bin", "r-compose", "r-start", "r-health", "r-state", "r-brokers",
       "r-done", "r-fail-after", "r-fail-before", "r-fail"} \subseteq SwapPlaces \ {"r-needs", "r-restore"}
      /\ {"r-needs", "r-restore"} \subseteq SwapPlaces
  BY DEF SwapPlaces
<1>r. /\ {"r-begin", "r-abort", "r-stop", "r-data", "r-bin", "r-compose", "r-start", "r-health", "r-state",
          "r-brokers", "r-done", "r-needs", "r-restore"} \subseteq Recovering
      /\ "r-fail" \notin Recovering /\ "r-fail-after" \notin Recovering /\ "r-fail-before" \notin Recovering
  BY DEF Recovering
<1>1. CASE RecoverBegins
  <2>1. run.at = "r-begin" /\ run'.at \in {"r-abort", "r-stop"} /\ UNCHANGED <<journal, snapshot>>
    BY <1>0, <1>1, GoDoes DEF RecoverBegins, Doing, Goes, disk
  <2>2. run.j.op # "exposure"
    BY <1>p, <2>1, SwapIsOther
  <2> QED BY <1>r, <2>1, <2>2, OtherKeeps DEF Held
<1>2. CASE RecoverDecides
  <2>1. run.at = "r-data" /\ UNCHANGED <<journal, snapshot>> /\ run.j \in Journals
    BY <1>0, <1>2 DEF RecoverDecides, Doing, disk, ITypeOK
  <2>2. run.j.op # "exposure"
    BY <1>p, <2>1, SwapIsOther
  <2>3. CASE NeedsRestore
    <3> DEFINE j == [run.j EXCEPT !.need = TRUE]
    <3>1. j.need = TRUE
      BY <2>1 DEF Journals
    <3>2. run' = [at |-> "r-needs", j |-> j]
      BY <1>2, <2>3 DEF RecoverDecides
    <3> HIDE DEF j
    <3>3. run'.at = "r-needs" /\ run'.j.need
      BY <3>1, <3>2
    <3> QED BY <1>r, <2>1, <2>2, <3>3, OtherKeeps DEF Held
  <2>4. CASE ~NeedsRestore
    <3>1. run'.at = "r-bin"
      BY <1>0, <1>2, <2>4, GoDoes DEF RecoverDecides, Goes
    <3> QED BY <1>r, <2>1, <2>2, <3>1, OtherKeeps DEF Held
  <2> QED BY <2>3, <2>4
<1>3. CASE Save("r-abort", "aborted", "idle", "idle")
  <2>1. Passes("r-abort", "idle", "idle") /\ (faults' = faults => Closed(journal'))
        /\ (journal' = journal \/ journal'.op = run.j.op)
    BY <1>0, <1>3, <1>s, SavePasses DEF Closed
  <2>2. run.j.op # "exposure"
    BY <1>p, <2>1, SwapIsOther DEF Passes
  <2> QED BY <2>1, <2>2, OtherKeeps DEF Held, Passes
<1>4. CASE \/ Stop("r-stop", "r-data", "r-fail-after") \/ Start("r-start", "r-health", "r-fail-before")
           \/ Health("r-health", "r-state", "r-fail-before") \/ Health("r-brokers", "r-done", "r-fail-before")
  BY <1>0, <1>4, <1>p, <1>r, WorkPasses, SwapHolds
<1>5. CASE SaveState("r-needs", [run.j.before EXCEPT !.recovery = "restore-required"], "r-restore", "r-fail-after")
  <2>1. Passes("r-needs", "r-restore", "r-fail-after") /\ journal' = journal
    BY <1>0, <1>5, StatePasses
  <2>2. run.j.op # "exposure"
    BY <1>p, <2>1, SwapIsOther DEF Passes
  <2>3. run'.at = "r-restore" => run'.j.need
    BY <2>1 DEF Passes, Retained
  <2> QED BY <1>r, <2>1, <2>2, <2>3, OtherKeeps DEF Held, Passes
<1>6. CASE Save("r-restore", "restore-required", "idle", "idle")
  <2>1. Passes("r-restore", "idle", "idle") /\ (faults' = faults => journal'.need = run.j.need)
        /\ (journal' = journal \/ journal'.op = run.j.op)
    BY <1>0, <1>6, <1>s, SavePasses
  <2>2. run.j.op # "exposure" /\ run.j.need
    BY <1>p, <2>1, SwapIsOther DEF Passes, Retained
  <2> QED BY <2>1, <2>2, OtherKeeps DEF Held, Passes
<1>7. CASE DeployBinary("r-bin", run.j.prev, "r-compose", "r-fail-after")
  <2>1. run.at = "r-bin"
    BY <1>7 DEF DeployBinary, Doing
  <2>2. run.j.prev \in artifacts
    BY <1>0, <1>p, <2>1 DEF SwapBase, Swapping
  <2>3. Passes("r-bin", "r-compose", "r-fail-after") /\ journal' = journal
    BY <1>0, <1>7, <2>2, BuildPasses
  <2> QED BY <1>p, <1>r, <2>3, SwapHolds
<1>8. CASE \/ DeployCompose("r-compose", run.j.prev, "r-start", "r-fail-after")
           \/ SaveState("r-state", run.j.before, "r-brokers", "r-fail-before")
  <2>1. \/ Passes("r-compose", "r-start", "r-fail-after") /\ journal' = journal
        \/ Passes("r-state", "r-brokers", "r-fail-before") /\ journal' = journal
    BY <1>0, <1>8, BuildPasses, StatePasses
  <2> QED BY <1>p, <1>r, <2>1, SwapHolds
<1>9. CASE Save("r-done", "rolled-back", "idle", "r-fail-before")
  <2>1. Passes("r-done", "idle", "r-fail-before") /\ (faults' = faults => Closed(journal'))
        /\ (journal' = journal \/ journal'.op = run.j.op)
    BY <1>0, <1>9, <1>s, SavePasses DEF Closed
  <2>2. run.j.op # "exposure"
    BY <1>p, <2>1, SwapIsOther DEF Passes
  <2> QED BY <2>1, <2>2, OtherKeeps DEF Held, Passes
<1>10. CASE \/ SaveState("r-fail-after", [run.j.after EXCEPT !.recovery = "recovery-required"], "r-fail", "r-fail")
            \/ SaveState("r-fail-before", [run.j.before EXCEPT !.recovery = "recovery-required"], "r-fail", "r-fail")
  <2>1. \/ Passes("r-fail-after", "r-fail", "r-fail") /\ journal' = journal
        \/ Passes("r-fail-before", "r-fail", "r-fail") /\ journal' = journal
    BY <1>0, <1>10, StatePasses
  <2> QED BY <1>p, <1>r, <2>1, SwapHolds
<1>11. CASE Save("r-fail", "recovery-required", "idle", "idle")
  BY <1>0, <1>11, <1>p, <1>r, <1>s, SavePasses, SwapHolds
<1> QED BY <1>1, <1>2, <1>3, <1>4, <1>5, <1>6, <1>7, <1>8, <1>9, <1>10, <1>11 DEF RecoverTransaction

\* restore --recover finds the predecessor's artifact.
LEMMA RestoreHolds == ASSUME IInv, Retained, RestoreRecover PROVE Retained' /\ Held
<1>0. ITypeOK /\ SwapBase(run.at)
  BY DEF IInv, Here, AtSwap
<1>s. {"swap-pending", "started", "rolled-back", "recovery-required"} \subseteq Stages
  BY DEF Stages
<1>p. {"q-stop", "q-swap", "q-apply", "q-bin", "q-compose", "q-started", "q-start", "q-health", "q-state", "q-done",
       "q-halt", "q-fail"} \subseteq SwapPlaces \ {"r-needs", "r-restore"}
  BY DEF SwapPlaces
<1>r. /\ {"q-stop", "q-swap", "q-apply", "q-bin", "q-compose", "q-started", "q-start", "q-health", "q-state",
          "q-done"} \subseteq Recovering
      /\ "q-halt" \notin Recovering /\ "q-fail" \notin Recovering
  BY DEF Recovering
<1>1. CASE \/ Stop("q-stop", "q-swap", "q-fail") \/ Start("q-start", "q-health", "q-halt")
           \/ Health("q-health", "q-state", "q-halt") \/ Stop("q-halt", "q-fail", "q-fail")
  BY <1>0, <1>1, <1>p, <1>r, WorkPasses, SwapHolds
<1>2. CASE \/ Save("q-swap", "swap-pending", "q-apply", "q-fail") \/ Save("q-started", "started", "q-start", "q-fail")
           \/ Save("q-fail", "recovery-required", "idle", "idle")
  BY <1>0, <1>2, <1>p, <1>r, <1>s, SavePasses, SwapHolds
<1>3. CASE ApplyBackup
  <2>0. run.at = "q-apply"
    BY <1>3 DEF ApplyBackup, Doing
  <2>1. run.j.op # "exposure"
    BY <1>p, <2>0, SwapIsOther
  <2>2. CASE Fails("q-fail")
    <3>1. Passes("q-apply", "q-bin", "q-fail") /\ journal' = journal
      BY <1>0, <2>0, <2>2, FailsPasses
    <3> QED BY <1>p, <1>r, <3>1, SwapHolds
  <2>3. CASE ~Fails("q-fail")
    <3>1. run'.at = "q-bin" /\ UNCHANGED <<journal, snapshot>>
      BY <1>3, <2>3 DEF ApplyBackup
    <3> QED BY <1>r, <2>1, <3>1, OtherKeeps DEF Held
  <2> QED BY <2>2, <2>3
<1>4. CASE DeployBinary("q-bin", run.j.prev, "q-compose", "q-fail")
  <2>1. run.at = "q-bin"
    BY <1>4 DEF DeployBinary, Doing
  <2>2. run.j.prev \in artifacts
    BY <1>0, <1>p, <2>1 DEF SwapBase, Swapping
  <2>3. Passes("q-bin", "q-compose", "q-fail") /\ journal' = journal
    BY <1>0, <1>4, <2>2, BuildPasses
  <2> QED BY <1>p, <1>r, <2>3, SwapHolds
<1>5. CASE \/ DeployCompose("q-compose", run.j.prev, "q-started", "q-fail")
           \/ SaveState("q-state", [run.j.before EXCEPT !.recovery = "none"], "q-done", "q-halt")
  <2>1. \/ Passes("q-compose", "q-started", "q-fail") /\ journal' = journal
        \/ Passes("q-state", "q-done", "q-halt") /\ journal' = journal
    BY <1>0, <1>5, BuildPasses, StatePasses
  <2> QED BY <1>p, <1>r, <2>1, SwapHolds
<1>6. CASE Save("q-done", "rolled-back", "idle", "q-halt")
  <2>1. Passes("q-done", "idle", "q-halt") /\ (faults' = faults => Closed(journal'))
        /\ (journal' = journal \/ journal'.op = run.j.op)
    BY <1>0, <1>6, <1>s, SavePasses DEF Closed
  <2>2. run.j.op # "exposure"
    BY <1>p, <2>1, SwapIsOther DEF Passes
  <2> QED BY <2>1, <2>2, OtherKeeps DEF Held, Passes
<1> QED BY <1>1, <1>2, <1>3, <1>4, <1>5, <1>6 DEF RestoreRecover

\* An exposure change past its first stage has its snapshot at hand.
Snapped == ChangePlaces \ {"e-snapshot", "e-ready", "e-cancel", "y-forget", "y-done"}
LEMMA ChangeSnapped == ASSUME IInv, Retained, run.at \in Snapped PROVE run.j.op = "exposure" => snapshot # Absent
<1>1. run.at \in ChangePlaces
  BY DEF Snapped
<1>2. Linked /\ ~Closed(journal) /\ ChangeBase(run.at)
  BY <1>1, ChangeKnown DEF IInv, Here, AtChange
<1>3. run.j.stage # "prepared" \/ run.j.op = "domains"
  BY <1>2 DEF ChangeBase, Snapped, ChangePlaces
<1> QED BY <1>2, <1>3 DEF Retained, Linked

\* A step that leaves the snapshot alone.
Unmarked == (ChangePlaces \ {"e-snapshot", "e-ready"}) \cup {"idle", "e-prepared"}
LEMMA ChangeRetains ==
  ASSUME Retained, snapshot' = snapshot, run'.at \in Unmarked,
         journal' = journal \/ Closed(journal') \/ (journal'.op = "exposure" => snapshot # Absent)
  PROVE  Retained'
<1>1. run'.at \notin {"e-snapshot", "e-ready", "e-forget", "x-forget", "r-needs", "r-restore"}
  BY DEF Unmarked, ChangePlaces
<1> QED BY <1>1 DEF Retained, Closed

\* A change of access or domains keeps its snapshot until its journal is
\* closed, or drops it before it announced anything.
LEMMA ReconfigureHolds == ASSUME IInv, Retained, Reconfigure PROVE Retained' /\ Held
<1>0. ITypeOK /\ ChangeBase(run.at)
  BY DEF IInv, Here, AtChange
<1>h. SUFFICES run.at \notin Recovering /\ Retained'
  BY DEF Held
<1>s. {"aborted", "rolled-back", "snapshot-ready", "swap-pending", "started", "complete"} \subseteq Stages
  BY DEF Stages
<1>u. {"e-cancel", "e-prepare", "e-swap", "e-abort", "e-stop", "e-policy", "e-boot", "e-started", "e-start", "e-health",
       "e-state", "e-complete", "x-stop", "idle", Unactivated} \subseteq Unmarked
  BY DEF Unmarked, ChangePlaces, Unactivated
<1>p. {"e-prepare", "e-swap", "e-abort", "e-stop", "e-policy", "e-boot", "e-started", "e-start", "e-health", "e-state",
       "e-complete"} \subseteq Snapped
  BY DEF Snapped, ChangePlaces
<1>r. \A p \in {"e-prepared", "e-snapshot", "e-ready", "e-cancel", "e-forget", "e-prepare", "e-swap", "e-abort", "e-stop",
                "e-policy", "e-boot", "e-started", "e-start", "e-health", "e-state", "e-complete"} : p \notin Recovering
  BY DEF Recovering
<1>1. CASE SavePrepared
  <2>0. run.at = "e-prepared"
    BY <1>1 DEF SavePrepared, Doing
  <2>1. CASE Fails("idle")
    <3>1. run'.at = "idle" /\ UNCHANGED <<journal, snapshot>>
      BY <1>0, <2>1, FailsDoes DEF Goes, Still
    <3> QED BY <1>r, <1>u, <2>0, <3>1, ChangeRetains
  <2>2. CASE ~Fails("idle")
    <3>1. run'.at = "e-snapshot" /\ journal' = [run.j EXCEPT !.stage = "prepared"] /\ run.j \in Journals
      BY <1>0, <1>1, <2>2 DEF SavePrepared, ITypeOK
    <3>2. journal'.stage = "prepared"
      BY <3>1 DEF Journals
    <3>3. run'.at = "e-snapshot"
      BY <3>1
    <3>4. Retained'
      BY <3>2, <3>3 DEF Retained
    <3> QED BY <1>r, <2>0, <3>4
  <2> QED BY <2>1, <2>2
<1>2. CASE TakeSnapshot
  <2>0. run.at = "e-snapshot" /\ journal.stage = "prepared"
    BY <1>2 DEF TakeSnapshot, Doing, Retained
  <2>1. CASE Fails("e-cancel")
    <3>1. run'.at = "e-cancel" /\ UNCHANGED <<journal, snapshot>>
      BY <1>0, <2>1, FailsDoes DEF Goes, Still
    <3> QED BY <1>r, <1>u, <2>0, <3>1, ChangeRetains
  <2>2. CASE ~Fails("e-cancel")
    <3>1. run'.at = "e-ready" /\ journal' = journal /\ snapshot' = access /\ access \in AccessFiles
      BY <1>0, <1>2, <2>2, GoDoes DEF TakeSnapshot, Goes, ITypeOK
    <3>2. snapshot' # Absent
      BY <3>1, AbsentAssumption
    <3>3. Retained'
      BY <2>0, <3>1, <3>2 DEF Retained
    <3> QED BY <1>r, <2>0, <3>3
  <2> QED BY <2>1, <2>2
<1>3. CASE Save("e-cancel", IF run.j.op = "domains" THEN "aborted" ELSE "rolled-back", "idle", "idle")
  <2> DEFINE s == IF run.j.op = "domains" THEN "aborted" ELSE "rolled-back"
  <2>1. Passes("e-cancel", "idle", "idle") /\ (journal' = journal \/ journal'.stage = s)
    BY <1>0, <1>3, <1>s, SavePasses
  <2>2. journal' = journal \/ Closed(journal')
    BY <2>1 DEF Closed
  <2> QED BY <1>r, <1>u, <2>1, <2>2, ChangeRetains DEF Passes
<1>4. CASE Save("e-ready", "snapshot-ready", "e-prepare", IF run.j.op = "domains" THEN "idle" ELSE "e-forget")
  <2> DEFINE bad == IF run.j.op = "domains" THEN "idle" ELSE "e-forget"
  <2>1. /\ run.at = "e-ready" /\ snapshot' = snapshot
        /\ \/ journal' = journal /\ run'.at = bad
           \/ run'.at = "e-prepare"
    BY <1>0, <1>4, <1>s, SavePasses DEF Passes
  <2>2. snapshot # Absent /\ journal.stage = "prepared"
    BY <2>1 DEF Retained
  <2>3. CASE journal' = journal /\ run'.at = "e-forget"
    <3>1. Retained'
      BY <2>1, <2>2, <2>3 DEF Retained
    <3> QED BY <1>r, <2>1, <3>1
  <2>4. CASE run'.at # "e-forget"
    <3>1. run'.at \in Unmarked
      BY <1>u, <2>1, <2>4
    <3> QED BY <1>r, <2>1, <2>2, <3>1, ChangeRetains
  <2> QED BY <2>1, <2>3, <2>4
<1>5. CASE DropSnapshot("e-forget", "idle")
  <2>1. run.at = "e-forget" /\ run'.at = "idle" /\ journal' = journal
    BY <1>0, <1>5, GoDoes DEF DropSnapshot, Doing, Goes
  <2>2. Retained'
    BY <2>1 DEF Retained, Closed
  <2> QED BY <1>r, <2>1, <2>2
<1>6. CASE \/ WriteAccess("e-prepare", WithPolicy(run.j.after.access), "e-swap", "x-stop")
           \/ WriteAccess("e-policy", WithPolicy(run.j.after.access), "e-boot", "x-stop")
           \/ WriteAccess("e-boot", WithBoot(run.j.after.access), "e-started", "x-stop")
  BY <1>0, <1>6, <1>r, <1>u, AccessPasses, ChangeRetains DEF Passes
<1>7. CASE Health("e-prepare", "e-swap", Unactivated)
  BY <1>0, <1>7, <1>r, <1>u, WorkPasses, ChangeRetains DEF Passes
<1>8. CASE Save("e-swap", "swap-pending", "e-stop", Unactivated) \/ Save("e-started", "started", "e-start", "x-stop")
  <2>1. /\ run.at \in {"e-swap", "e-started"} /\ snapshot' = snapshot /\ run'.at \in Unmarked
        /\ (journal' = journal \/ journal'.op = run.j.op)
    BY <1>0, <1>8, <1>s, <1>u, SavePasses DEF Passes
  <2>2. run.j.op = "exposure" => snapshot # Absent
    BY <1>p, <2>1, ChangeSnapped
  <2> QED BY <1>r, <2>1, <2>2, ChangeRetains
<1>9. CASE Save("e-abort", "aborted", "e-forget", "e-forget")
  <2>1. /\ run.at = "e-abort" /\ snapshot' = snapshot /\ run'.at = "e-forget"
        /\ (journal' = journal \/ journal'.stage = "aborted")
    BY <1>0, <1>9, <1>s, SavePasses DEF Passes
  <2>2. run.at \in ChangePlaces
    BY <2>1 DEF ChangePlaces
  <2>3. journal.op = "domains"
    BY <1>0, <2>1, <2>2, ChangeKnown DEF ChangeBase, Linked
  <2>4. Retained'
    BY <2>1, <2>3 DEF Retained, Closed
  <2> QED BY <1>r, <2>1, <2>4
<1>10. CASE \/ Stop("e-stop", "e-policy", "x-stop") \/ Start("e-start", "e-health", "x-stop")
            \/ Health("e-health", "e-state", "x-stop")
  BY <1>0, <1>10, <1>r, <1>u, WorkPasses, ChangeRetains DEF Passes
<1>11. CASE SaveState("e-state", run.j.after, "e-complete", "x-stop")
  BY <1>0, <1>11, <1>r, <1>u, StatePasses, ChangeRetains DEF Passes
<1>12. CASE Save("e-complete", "complete", "e-forget", "x-stop")
  <2>1. /\ run.at = "e-complete" /\ snapshot' = snapshot
        /\ \/ journal' = journal /\ run'.at = "x-stop"
           \/ journal'.stage = "complete" /\ run'.at = "e-forget"
    BY <1>0, <1>12, <1>s, SavePasses DEF Passes
  <2>2. CASE run'.at = "x-stop"
    BY <1>r, <1>u, <2>1, <2>2, ChangeRetains
  <2>3. CASE journal'.stage = "complete" /\ run'.at = "e-forget"
    <3>1. Retained'
      BY <2>3 DEF Retained, Closed
    <3> QED BY <1>r, <2>1, <3>1
  <2> QED BY <2>1, <2>2, <2>3
<1> QED BY <1>1, <1>2, <1>3, <1>4, <1>5, <1>6, <1>7, <1>8, <1>9, <1>10, <1>11, <1>12 DEF Reconfigure

\* A step of rollbackExposure that leaves the journal alone.
LEMMA UndoHolds ==
  ASSUME Retained, NEW from, NEW ok \in Recovering \cap Unmarked, NEW bad \in Unmarked, Passes(from, ok, bad),
         journal' = journal
  PROVE  Retained' /\ Held
  BY StaysIn, ChangeRetains DEF Passes

\* rollbackExposure finds the snapshot of an exposure change.
LEMMA RollbackExposureHolds == ASSUME IInv, Retained, RollbackExposure PROVE Retained' /\ Held
<1>0. ITypeOK
  BY DEF IInv
<1>s. {"rolled-back", "recovery-required"} \subseteq Stages
  BY DEF Stages
<1>u. {"x-policy", "x-boot", "x-start", "x-health", "x-state", "x-done", "x-fail", "x-mark", "idle"} \subseteq Unmarked
  BY DEF Unmarked, ChangePlaces
<1>p. {"x-policy", "x-mark", "x-done"} \subseteq Snapped
  BY DEF Snapped, ChangePlaces
<1>r. /\ {"x-policy", "x-boot", "x-start", "x-health", "x-state", "x-done"} \subseteq Recovering
      /\ "x-fail" \notin Recovering /\ "x-mark" \notin Recovering /\ "x-forget" \notin Recovering
  BY DEF Recovering
<1>1. CASE \/ Stop("x-stop", "x-policy", "x-policy") \/ Start("x-start", "x-health", "x-fail")
           \/ Health("x-health", "x-state", "x-fail")
  BY <1>0, <1>1, <1>u, <1>r, WorkPasses, UndoHolds
<1>2. CASE \/ WriteAccess("x-policy", WithPolicy(snapshot.policy), "x-boot", "x-fail")
           \/ WriteAccess("x-boot", [snapshot EXCEPT !.policy = access.policy], "x-start", "x-fail")
  BY <1>0, <1>2, <1>u, <1>r, AccessPasses, UndoHolds
<1>3. CASE snapshot = Absent /\ Doing("x-policy") /\ Go("x-fail") /\ UNCHANGED <<disk, service, faults>> /\ Same
  <2>1. run.at = "x-policy" /\ run'.at = "x-fail" /\ UNCHANGED <<journal, snapshot>>
    BY <1>0, <1>3, GoDoes DEF Doing, Goes, disk
  <2>2. run.at \in ChangePlaces
    BY <2>1 DEF ChangePlaces
  <2>3. run.j.op = "domains"
    BY <1>3, <1>p, <2>1, <2>2, ChangeSnapped, ChangeKnown DEF Changes
  <2> QED BY <1>u, <2>1, <2>3, ChangeRetains DEF Held
<1>4. CASE SaveState("x-state", [run.j.before EXCEPT !.recovery = "none"], "x-done", "x-mark")
  BY <1>0, <1>4, <1>u, <1>r, StatePasses, UndoHolds
<1>5. CASE Save("x-done", "rolled-back", "x-forget", "idle")
  <2>1. /\ run.at = "x-done" /\ snapshot' = snapshot /\ (faults' = faults => journal'.stage = "rolled-back")
        /\ \/ journal' = journal /\ run'.at = "idle"
           \/ journal'.stage = "rolled-back" /\ run'.at = "x-forget"
    BY <1>0, <1>5, <1>s, SavePasses DEF Passes
  <2>2. Held
    BY <2>1 DEF Held, Closed
  <2>3. CASE journal' = journal /\ run'.at = "idle"
    BY <1>u, <2>1, <2>2, <2>3, ChangeRetains
  <2>4. CASE journal'.stage = "rolled-back" /\ run'.at = "x-forget"
    <3>1. Retained'
      BY <2>4 DEF Retained, Closed
    <3> QED BY <2>2, <3>1
  <2> QED BY <2>1, <2>3, <2>4
<1>6. CASE DropSnapshot("x-forget", "idle")
  <2>1. run.at = "x-forget" /\ run'.at = "idle" /\ journal' = journal
    BY <1>0, <1>6, GoDoes DEF DropSnapshot, Doing, Goes
  <2>2. Retained'
    BY <2>1 DEF Retained, Closed
  <2> QED BY <1>r, <2>1, <2>2 DEF Held
<1>7. CASE SaveState("x-fail", [run.j.before EXCEPT !.recovery = "exposure-recovery-required"], "x-mark", "x-mark")
  <2>1. Passes("x-fail", "x-mark", "x-mark") /\ journal' = journal
    BY <1>0, <1>7, StatePasses
  <2>2. Held
    BY <1>r, <2>1, StaysIn
  <2> QED BY <1>u, <2>1, <2>2, ChangeRetains DEF Passes
<1>8. CASE Save("x-mark", "recovery-required", "idle", "idle")
  <2>1. Passes("x-mark", "idle", "idle") /\ (journal' = journal \/ journal'.op = run.j.op)
    BY <1>0, <1>8, <1>s, SavePasses
  <2>2. run.j.op = "exposure" => snapshot # Absent
    BY <1>p, <2>1, ChangeSnapped DEF Passes
  <2>3. Held
    BY <1>r, <2>1, StaysIn
  <2> QED BY <1>u, <2>1, <2>2, <2>3, ChangeRetains DEF Passes
<1> QED BY <1>1, <1>2, <1>3, <1>4, <1>5, <1>6, <1>7, <1>8 DEF RollbackExposure

\* A prepared change needs no snapshot.
LEMMA ClosePreparedHolds == ASSUME IInv, Retained, ClosePrepared PROVE Retained' /\ Held
<1>0. ITypeOK
  BY DEF IInv
<1>1. CASE DropSnapshot("y-forget", "y-done")
  <2>1. run.at = "y-forget" /\ run'.at = "y-done" /\ journal' = journal
    BY <1>0, <1>1, GoDoes DEF DropSnapshot, Doing, Goes
  <2>2. journal.stage = "prepared"
    BY <2>1 DEF IInv, Here, AtChange, ChangeBase, ChangePlaces, Linked
  <2>3. Retained'
    BY <2>1, <2>2 DEF Retained
  <2>4. "y-done" \in Recovering
    BY DEF Recovering
  <2> QED BY <2>1, <2>3, <2>4 DEF Held
<1>2. CASE Save("y-done", "rolled-back", "idle", "idle")
  <2>1. "rolled-back" \in Stages /\ "idle" \in Unmarked
    BY DEF Stages, Unmarked
  <2>2. /\ run'.at = "idle" /\ snapshot' = snapshot /\ (faults' = faults => journal'.stage = "rolled-back")
        /\ (journal' = journal \/ journal'.stage = "rolled-back")
    BY <1>0, <1>2, <2>1, SavePasses DEF Passes
  <2>3. Retained'
    BY <2>1, <2>2, ChangeRetains DEF Closed
  <2> QED BY <2>2, <2>3 DEF Held, Closed
<1> QED BY <1>1, <1>2 DEF ClosePrepared

\* A step of an operation that has no snapshot.
Others == RestartAt \cup InstallAt \cup RemovalAt
LEMMA OtherHolds ==
  ASSUME IInv, Retained, NEW from \in Others, NEW ok \in Others \cup {"idle"}, NEW bad \in Others \cup {"idle"},
         Passes(from, ok, bad), journal' = journal \/ journal'.op = run.j.op,
         ok \in Recovering \/ from \notin Recovering \/ (faults' = faults => Closed(journal'))
  PROVE  Retained' /\ Held
<1>1. Passes(from, ok, bad) => run.at \in Others /\ run'.at \in Others \cup {"idle"}
  BY DEF Passes
<1>2. run.j.op # "exposure"
  BY <1>1 DEF IInv, Here, AtRestart, AtInstall, AtRemoval, Others, RestartAt, RestartPlaces, InstallAt, RemovalAt,
        RemovalPlaces
<1>3. run'.at \notin {"e-snapshot", "e-ready", "e-forget", "x-forget", "r-needs", "r-restore"}
  BY <1>1 DEF Others, RestartAt, RestartPlaces, InstallAt, InstallPlaces, RemovalAt, RemovalPlaces
<1>4. Retained'
  BY <1>2, <1>3, OtherKeeps DEF Passes
<1>5. Held
  BY DEF Passes, Held
<1> QED BY <1>4, <1>5

\* A restart that meets no failure completes.
LEMMA RestartHolds == ASSUME IInv, Retained, Restart PROVE Retained' /\ Held
<1>0. ITypeOK
  BY DEF IInv
<1>s. {"prepared", "started", "complete", "recovery-required"} \subseteq Stages
  BY DEF Stages
<1>o. {"t-prepared", "t-stop", "t-started", "t-start", "t-health", "t-done", "t-fail"} \subseteq Others
  BY DEF Others, RestartAt, RestartPlaces
<1>r. {"t-stop", "t-started", "t-start", "t-health", "t-done"} \subseteq Recovering /\ "t-fail" \notin Recovering
  BY DEF Recovering
<1>1. CASE \/ Save("t-prepared", "prepared", "t-stop", "idle") \/ Save("t-started", "started", "t-start", "t-fail")
           \/ Save("t-fail", "recovery-required", "idle", "idle")
  BY <1>0, <1>1, <1>s, <1>o, <1>r, SavePasses, OtherHolds
<1>2. CASE \/ Stop("t-stop", "t-started", "t-fail") \/ Start("t-start", "t-health", "t-fail")
           \/ Health("t-health", "t-done", "t-fail")
  BY <1>0, <1>2, <1>o, <1>r, WorkPasses, OtherHolds
<1>3. CASE Save("t-done", "complete", "idle", "t-fail")
  <2>1. Passes("t-done", "idle", "t-fail") /\ (faults' = faults => Closed(journal'))
        /\ (journal' = journal \/ journal'.op = run.j.op)
    BY <1>0, <1>3, <1>s, SavePasses DEF Closed
  <2> QED BY <1>o, <2>1, OtherHolds
<1> QED BY <1>1, <1>2, <1>3 DEF Restart

\* An uninstallation that meets no failure completes.
LEMMA UninstallHolds == ASSUME IInv, Retained, Uninstall PROVE Retained' /\ Held
<1>0. ITypeOK
  BY DEF IInv
<1>s. {"prepared", "swap-pending", "complete"} \subseteq Stages
  BY DEF Stages
<1>o. {"n-prepared", "n-stop", "n-swap", "n-remove", "n-state", "n-done"} \subseteq Others
  BY DEF Others, RemovalAt, RemovalPlaces
<1>r. {"n-stop", "n-swap", "n-remove", "n-state", "n-done"} \subseteq Recovering
  BY DEF Recovering
<1>1. CASE Save("n-prepared", "prepared", "n-stop", "idle") \/ Save("n-swap", "swap-pending", "n-remove", "idle")
  BY <1>0, <1>1, <1>s, <1>o, <1>r, SavePasses, OtherHolds
<1>2. CASE Stop("n-stop", "n-swap", "idle")
  BY <1>0, <1>2, <1>o, <1>r, WorkPasses, OtherHolds
<1>3. CASE RemoveArtifacts
  <2>1. run.at = "n-remove"
    BY <1>3 DEF RemoveArtifacts, Doing
  <2>2. Passes("n-remove", "n-state", "idle") /\ journal' = journal
    <3>1. CASE Fails("idle")
      BY <1>0, <2>1, <3>1, FailsPasses
    <3>2. CASE ~Fails("idle")
      <4>1. Go("n-state") /\ journal' = journal /\ snapshot' = snapshot
        BY <1>3, <3>2 DEF RemoveArtifacts
      <4> QED BY <1>0, <2>1, <4>1, GoDoes DEF Passes, Goes
    <3> QED BY <3>1, <3>2
  <2> QED BY <1>o, <1>r, <2>2, OtherHolds
<1>4. CASE SaveState("n-state", Absent, "n-done", "idle")
  BY <1>0, <1>4, <1>o, <1>r, StatePasses, OtherHolds
<1>5. CASE Save("n-done", "complete", "idle", "idle")
  <2>1. Passes("n-done", "idle", "idle") /\ (faults' = faults => Closed(journal'))
        /\ (journal' = journal \/ journal'.op = run.j.op)
    BY <1>0, <1>5, <1>s, SavePasses DEF Closed
  <2> QED BY <1>o, <2>1, OtherHolds
<1> QED BY <1>1, <1>2, <1>3, <1>4, <1>5 DEF Uninstall

\* An installation is no recovery.
LEMMA InstallHolds == ASSUME IInv, Retained, Install PROVE Retained' /\ Held
<1>0. ITypeOK /\ AtInstall(run.at)
  BY DEF IInv, Here
<1>s. {"prepared", "aborted", "swap-pending", "started", "complete", "recovery-required"} \subseteq Stages
  BY DEF Stages
<1>o. {"i-prepared", "i-needs", "i-clear", "i-abort", "i-again", "i-stage", "i-swap", "i-mark", "i-started", "i-bin",
       "i-start", "i-health", "i-state", "i-cert", "i-complete", "i-pending", "i-stop", "i-fail", "i-mark-fail"} \subseteq Others \ Recovering
  BY DEF Others, InstallAt, InstallPlaces, Recovering
<1>e. \A from \in Others \ Recovering : \A ok, bad \in Others \cup {"idle"} :
        Passes(from, ok, bad) /\ (journal' = journal \/ journal'.op = run.j.op) => Retained' /\ Held
  BY OtherHolds
<1>1. CASE \/ Save("i-prepared", "prepared", "i-needs", "idle") \/ Save("i-abort", "aborted", "idle", "idle")
           \/ Save("i-again", "prepared", "i-stage", "i-fail") \/ Save("i-swap", "swap-pending", "i-mark", "i-fail")
  <2>1. /\ \/ Passes("i-prepared", "i-needs", "idle") \/ Passes("i-abort", "idle", "idle")
           \/ Passes("i-again", "i-stage", "i-fail") \/ Passes("i-swap", "i-mark", "i-fail")
        /\ journal' = journal \/ journal'.op = run.j.op
    BY <1>0, <1>1, <1>s, SavePasses
  <2> QED BY <1>e, <1>o, <2>1
<1>2. CASE \/ Save("i-started", "started", "i-bin", "i-stop") \/ Save("i-complete", "complete", "idle", "i-stop")
           \/ Save("i-mark-fail", "recovery-required", "idle", "idle")
  <2>1. /\ \/ Passes("i-started", "i-bin", "i-stop") \/ Passes("i-complete", "idle", "i-stop")
           \/ Passes("i-mark-fail", "idle", "idle")
        /\ journal' = journal \/ journal'.op = run.j.op
    BY <1>0, <1>2, <1>s, SavePasses
  <2> QED BY <1>e, <1>o, <2>1
<1>3. CASE \/ Health("i-needs", "i-again", "i-clear") \/ Health("i-health", "i-state", "i-stop")
           \/ Start("i-start", "i-health", "i-stop") \/ Stop("i-stop", "i-fail", "i-fail")
           \/ Health("i-cert", "i-complete", "i-pending")
  BY <1>0, <1>3, <1>o, WorkPasses, OtherHolds
<1>4. CASE \/ SaveState("i-clear", Absent, "i-abort", "i-abort") \/ SaveState("i-state", run.j.after, "i-cert", "i-stop")
           \/ SaveState("i-fail", [run.j.after EXCEPT !.recovery = "install-incomplete"], "i-mark-fail", "i-mark-fail")
  <2>1. \/ Passes("i-clear", "i-abort", "i-abort") /\ journal' = journal
        \/ Passes("i-state", "i-cert", "i-stop") /\ journal' = journal
        \/ Passes("i-fail", "i-mark-fail", "i-mark-fail") /\ journal' = journal
    BY <1>0, <1>4, StatePasses
  <2> QED BY <1>o, <2>1, OtherHolds
<1>5. CASE StageInstall
  <2>1. run.at = "i-stage"
    BY <1>5 DEF StageInstall, Doing
  <2>2. Passes("i-stage", "i-swap", "i-fail") /\ journal' = journal
    <3>1. CASE Fails("i-fail")
      BY <1>0, <2>1, <3>1, FailsPasses
    <3>2. CASE ~Fails("i-fail")
      <4>1. run' = [at |-> "i-swap", j |-> run.j] /\ journal' = journal /\ snapshot' = snapshot
        BY <1>5, <3>2 DEF StageInstall
      <4>2. run'.at = "i-swap" /\ run'.j = run.j
        BY <4>1
      <4> QED BY <2>1, <4>1, <4>2 DEF Passes
    <3> QED BY <3>1, <3>2
  <2> QED BY <1>o, <2>2, OtherHolds
<1>6. CASE MarkInstall
  <2> DEFINE j == [run.j EXCEPT !.changed = TRUE]
  <2>1. run.at = "i-mark" /\ run' = [at |-> "i-started", j |-> j] /\ UNCHANGED disk
    BY <1>6 DEF MarkInstall, Doing
  <2>2. j.need = run.j.need
    BY <1>0 DEF ITypeOK, Journals
  <2> HIDE DEF j
  <2>3. run'.at = "i-started" /\ run'.j.need = run.j.need
    BY <2>1, <2>2
  <2>4. Passes("i-mark", "i-started", "i-started") /\ journal' = journal
    BY <2>1, <2>3 DEF Passes, disk
  <2> QED BY <1>o, <2>4, OtherHolds
<1>7. CASE DeployBinary("i-bin", run.j.cand, "i-start", "i-stop")
  <2>1. run.at = "i-bin"
    BY <1>7 DEF DeployBinary, Doing
  <2>2. run.j.cand \in artifacts
    BY <1>0, <2>1 DEF AtInstall
  <2>3. Passes("i-bin", "i-start", "i-stop") /\ journal' = journal
    BY <1>0, <1>7, <2>2, BuildPasses
  <2> QED BY <1>o, <2>3, OtherHolds
<1>8. CASE Save("i-pending", "complete", "i-cleanup", "i-stop")
  <2>1. /\ run.at = "i-pending" /\ snapshot' = snapshot
        /\ \/ journal' = journal /\ run'.at = "i-stop"
           \/ journal'.stage = "complete" /\ run'.at = "i-cleanup"
    BY <1>0, <1>8, <1>s, SavePasses DEF Passes
  <2>2. Retained'
    BY <2>1 DEF Retained, Closed
  <2> QED BY <1>o, <2>1, <2>2 DEF Held
<1>9. CASE WriteAccess("i-cleanup", WithPolicy(Removed), "idle", "idle")
  <2>1. run.at = "i-cleanup" /\ run'.at = "idle" /\ snapshot' = snapshot /\ journal' = journal
    BY <1>0, <1>9, AccessPasses DEF Passes
  <2>2. Retained'
    BY <2>1 DEF Retained, Closed
  <2> QED BY <2>1, <2>2 DEF Held, Recovering
<1> QED BY <1>1, <1>2, <1>3, <1>4, <1>5, <1>6, <1>7, <1>8, <1>9 DEF Install

\* A command that begins finds the files as they are.
LEMMA BeginHolds ==
  ASSUME Retained, UNCHANGED <<journal, snapshot>>, run.at = "idle",
         run'.at \notin {"e-snapshot", "e-ready", "e-forget", "x-forget", "r-needs", "r-restore"}
  PROVE  Retained' /\ Held
<1>1. Retained'
  BY DEF Retained, Closed
<1>2. "idle" \notin Recovering
  BY DEF Recovering
<1> QED BY <1>1, <1>2 DEF Held

\* An update that begins has not written its journal.
LEMMA BeginUpdateHolds == ASSUME Retained, NEW v \in Versions, NEW known \in BOOLEAN, BeginUpdate(v, known) PROVE Retained' /\ Held
<1>1. run.at = "idle" /\ run'.at = "u-prepared" /\ UNCHANGED <<journal, snapshot>>
  BY DEF BeginUpdate, BeginOp, Enter, Doing
<1> QED BY <1>1, BeginHolds

\* Nor has an installation.
LEMMA BeginInstallHolds == ASSUME Retained, NEW v \in Versions, BeginInstall(v) PROVE Retained' /\ Held
<1>1. run.at = "idle" /\ run'.at = "i-prepared" /\ UNCHANGED <<journal, snapshot>>
  BY DEF BeginInstall, BeginOp, Enter, Doing, disk
<1> QED BY <1>1, BeginHolds

\* The commands that begin or take over an operation, and the death of one.
LEMMA BeginsHold ==
  ASSUME IInv, Retained,
         \/ \E v \in Versions : (\E known \in BOOLEAN : BeginUpdate(v, known)) \/ BeginInstall(v)
         \/ BeginRollback \/ BeginRecover \/ BeginRestore \/ BeginRestart
         \/ \E op \in {"exposure", "domains"} : BeginAccess(op)
         \/ BeginRecoverExposure \/ BeginRecoverDomains \/ BeginUninstall \/ Dies
  PROVE  Retained' /\ Held
<1>1. CASE \E v \in Versions : (\E known \in BOOLEAN : BeginUpdate(v, known)) \/ BeginInstall(v)
  BY <1>1, BeginUpdateHolds, BeginInstallHolds
<1>2. CASE BeginRollback \/ BeginRecover \/ BeginRestore \/ BeginRestart
  <2>1. run.at = "idle" /\ run'.at \in {"u-prepared", "r-begin", "q-stop", "t-prepared"} /\ UNCHANGED <<journal, snapshot>>
    BY <1>2 DEF BeginRollback, BeginRecover, BeginRestore, BeginRestart, BeginOp, Enter, Doing, disk
  <2> QED BY <2>1, BeginHolds
<1>3. ASSUME NEW op \in {"exposure", "domains"}, BeginAccess(op) PROVE Retained' /\ Held
  <2>1. run.at = "idle" /\ run'.at = "e-prepared" /\ UNCHANGED <<journal, snapshot>>
    BY <1>3 DEF BeginAccess, BeginOp, Enter, Doing, disk
  <2> QED BY <2>1, BeginHolds
<1>4. CASE BeginRecoverExposure \/ BeginRecoverDomains \/ BeginUninstall
  <2>1. run.at = "idle" /\ run'.at \in {"x-stop", "y-forget", "n-prepared"} /\ UNCHANGED <<journal, snapshot>>
    BY <1>4 DEF BeginRecoverExposure, BeginRecoverDomains, BeginUninstall, BeginOp, Enter, Doing, disk
  <2> QED BY <2>1, BeginHolds
<1>5. CASE Dies
  <2>1. run'.at = "idle" /\ UNCHANGED <<journal, snapshot>> /\ faults' # faults
    BY <1>5 DEF Dies, NoProcess, disk, Fault, IInv, ITypeOK
  <2>2. Retained'
    BY <2>1 DEF Retained, Closed
  <2> QED BY <2>1, <2>2 DEF Held
<1> QED BY <1>1, <1>2, <1>3, <1>4, <1>5

\* Every step keeps what a recovery needs and leaves a recovery only as it may.
LEMMA HeldSteps == IInv /\ Retained /\ [INext]_ivars => Retained' /\ [Held]_ivars
<1> SUFFICES ASSUME IInv, Retained, [INext]_ivars PROVE Retained' /\ [Held]_ivars
  OBVIOUS
<1>1. CASE Operations
  BY <1>1, UpdateHolds, RecoverHolds, RestoreHolds, RestartHolds, ReconfigureHolds, RollbackExposureHolds,
     ClosePreparedHolds, InstallHolds, UninstallHolds DEF Operations
<1>2. CASE UNCHANGED ivars
  BY <1>2 DEF ivars, disk, Retained, Closed
<1>3. CASE INext /\ ~Operations
  BY <1>3, BeginsHold DEF INext
<1> QED BY <1>1, <1>2, <1>3

\* A recovery in which nothing fails succeeds, from whatever files an
\* interrupted operation left: it finds the artifact or the snapshot it goes
\* back to and goes on until it closes the journal or asks for the backup, for
\* any number of builds, operations and earlier faults (install:
\* recoverTransaction, rollbackExposure, RestoreRecover, Restart, Uninstall).
THEOREM RecoveriesHold == ISpec => RecoveryHolds
<1>1. IInit => Retained
  <2> SUFFICES ASSUME IInit PROVE Retained
    OBVIOUS
  <2>1. journal.stage = "complete" /\ run.at = "idle"
    BY DEF IInit, NoJournal, NoProcess
  <2> QED BY <2>1 DEF Retained, Closed
<1>2. ISpec => [][Held]_ivars
  BY <1>1, HeldSteps, InstallationIsSound, PTL DEF ISpec
<1> QED BY <1>2 DEF RecoveryHolds, Held
=============================================================================
