--------------------------- MODULE BackupSchedule ----------------------------
(***************************************************************************)
(* internal/backup/schedule.go: one scheduled backup.  RunDue reads due    *)
(* rows under byte 4 of the data lock, archives each, and advances a row   *)
(* only if nobody edited it meanwhile.  The panel edits rows at any time.  *)
(* Time is counted in slots of half a day; the day after SlotsPerDay slots *)
(* has the next weekday, seven of them make a week.                        *)
(***************************************************************************)
EXTENDS Naturals, FiniteSets, FiniteSetsExt

CONSTANTS
  Runners,      \* processes that run due schedules
  NoRunner,
  MaxSlot,      \* bound on time
  MaxEdits, MaxBusy,
  MaxCut        \* bound on passes that end before the row is advanced

ASSUME RunnersAssumption == NoRunner \notin Runners
ASSUME BackupBoundsAssumption ==
  MaxSlot \in Nat /\ MaxEdits \in Nat /\ MaxBusy \in Nat /\ MaxCut \in Nat

VARIABLES
  slot,         \* now
  plan,         \* the schedule's row
  byte4,        \* owner of the schedule byte
  bpc,          \* where each runner is
  read,         \* the row a runner has read
  edits, busy,
  cut,          \* passes that died, were cancelled or could not advance the row
  archives,     \* runs of Create for the slot that is due
  asked         \* ghost: the next run the last edit computed

bvars == <<slot, plan, byte4, bpc, read, edits, busy, cut, archives, asked>>

SlotsPerDay == 2

Kinds == [kind : {"interval"}, every : {1, 3}] \cup [kind : {"daily"}, at : {1}]
         \cup [kind : {"weekly"}, at : {0}, weekday : {2}]

Weekday(t) == (t \div SlotsPerDay) % 7

\* nextWallClock: the slot of the same day, or of one of the next seven.
NextWallClock(from, days, at) ==
  LET candidates == {t \in {(from \div SlotsPerDay + i) * SlotsPerDay + at : i \in 0..7} :
                       t > from /\ Weekday(t) \in days}
  IN  IF candidates = {} THEN from + SlotsPerDay ELSE Min(candidates)

NextRun(sc, from) ==
  CASE sc.kind = "interval" -> from + sc.every
    [] sc.kind = "daily" -> NextWallClock(from, 0..6, sc.at)
    [] sc.kind = "weekly" -> NextWallClock(from, {sc.weekday}, sc.at)

Row == [what : Kinds, enabled : BOOLEAN, next : Nat, stamp : 0..MaxEdits]

BTypeOK ==
  /\ slot \in 0..MaxSlot /\ plan \in Row /\ byte4 \in Runners \cup {NoRunner}
  /\ bpc \in [Runners -> {"idle", "query", "create", "advance"}] /\ read \in [Runners -> Row \cup {NoRunner}]
  /\ edits \in 0..MaxEdits /\ busy \in 0..MaxBusy /\ cut \in 0..MaxCut
  /\ archives \in Nat /\ asked \in Nat

BInit ==
  /\ slot = 0
  /\ \E k \in Kinds : plan = [what |-> k, enabled |-> TRUE, next |-> NextRun(k, 0), stamp |-> 0]
  /\ byte4 = NoRunner /\ bpc = [w \in Runners |-> "idle"] /\ read = [w \in Runners |-> NoRunner]
  /\ edits = 0 /\ busy = 0 /\ cut = 0 /\ archives = 0 /\ asked = plan.next

SlotPasses ==
  /\ slot < MaxSlot /\ slot' = slot + 1
  /\ UNCHANGED <<plan, byte4, bpc, read, edits, busy, cut, archives, asked>>

\* UpdateSchedule: the editable fields and the next run, from now.
UpdateSchedule(k, on) ==
  /\ edits < MaxEdits /\ edits' = edits + 1
  /\ plan' = [what |-> k, enabled |-> on, next |-> NextRun(k, slot), stamp |-> edits']
  /\ asked' = NextRun(k, slot)
  /\ archives' = 0
  /\ UNCHANGED <<slot, byte4, bpc, read, busy, cut>>

Due == plan.enabled /\ plan.next <= slot

\* Variant: the byte is not taken.
RunDueUnclaimed(w) ==
  /\ bpc[w] = "idle"
  /\ bpc' = [bpc EXCEPT ![w] = "query"]
  /\ UNCHANGED <<slot, plan, byte4, read, edits, busy, cut, archives, asked>>

\* RunDue takes byte 4 or gives up, and reads the due rows under it.
RunDue(w) ==
  /\ bpc[w] = "idle" /\ byte4 = NoRunner
  /\ byte4' = w /\ bpc' = [bpc EXCEPT ![w] = "query"]
  /\ UNCHANGED <<slot, plan, read, edits, busy, cut, archives, asked>>

\* The runner ends and its lease is closed.
Leave4(w) ==
  /\ byte4' = IF byte4 = w THEN NoRunner ELSE byte4
  /\ bpc' = [bpc EXCEPT ![w] = "idle"] /\ read' = [read EXCEPT ![w] = NoRunner]

Query(w) ==
  /\ bpc[w] = "query"
  /\ IF Due THEN bpc' = [bpc EXCEPT ![w] = "create"] /\ read' = [read EXCEPT ![w] = plan] /\ UNCHANGED byte4
            ELSE Leave4(w)
  /\ UNCHANGED <<slot, plan, edits, busy, cut, archives, asked>>

\* Create is busy (another archive runs): the row is left for a later pass.
CreateBusy(w) ==
  /\ bpc[w] = "create" /\ busy < MaxBusy /\ busy' = busy + 1
  /\ Leave4(w)
  /\ UNCHANGED <<slot, plan, edits, cut, archives, asked>>

Archived(w) == archives' = IF plan = read[w] THEN archives + 1 ELSE archives

\* Create ran, well or not.
Create(w) ==
  /\ bpc[w] = "create" /\ Archived(w)
  /\ bpc' = [bpc EXCEPT ![w] = "advance"]
  /\ UNCHANGED <<slot, plan, byte4, read, edits, busy, cut, asked>>

\* Create ran and the context was cancelled since (shutdown): RunDue returns
\* with the archive published and the row still due.
CreateCancelled(w) ==
  /\ bpc[w] = "create" /\ Archived(w)
  /\ cut < MaxCut /\ cut' = cut + 1
  /\ Leave4(w)
  /\ UNCHANGED <<slot, plan, edits, busy, asked>>

\* The slot after the one that was due, unless that is over too.
NextSlot(sc) ==
  LET next == NextRun(sc.what, sc.next) IN IF next > slot THEN next ELSE NextRun(sc.what, slot)

Advance(w) ==
  /\ bpc[w] = "advance" /\ Leave4(w)
  /\ IF plan.enabled /\ plan.next = read[w].next /\ plan.stamp = read[w].stamp
       THEN plan' = [plan EXCEPT !.next = NextSlot(read[w])] /\ archives' = 0
       ELSE UNCHANGED <<plan, archives>>
  /\ UNCHANGED <<slot, edits, busy, cut, asked>>

\* The UPDATE fails: the row stays due.
AdvanceFails(w) ==
  /\ bpc[w] = "advance" /\ cut < MaxCut /\ cut' = cut + 1
  /\ Leave4(w)
  /\ UNCHANGED <<slot, plan, edits, busy, archives, asked>>

CrashRunner(w) ==
  /\ bpc[w] # "idle" /\ cut < MaxCut /\ cut' = cut + 1
  /\ Leave4(w)
  /\ UNCHANGED <<slot, plan, edits, busy, archives, asked>>

RunnerStep(w) ==
  \/ RunDue(w) \/ Query(w)
  \/ Create(w) \/ CreateBusy(w) \/ CreateCancelled(w)
  \/ Advance(w) \/ AdvanceFails(w)

BNext ==
  \/ SlotPasses \/ (\E k \in Kinds, on \in BOOLEAN : UpdateSchedule(k, on))
  \/ \E w \in Runners : RunnerStep(w) \/ CrashRunner(w)

\* The backup job of the scheduler retries; contention and failures are
\* bounded by MaxBusy and MaxCut.
BFairness == \A w \in Runners : WF_bvars(RunnerStep(w))

BSpec == BInit /\ [][BNext]_bvars /\ BFairness

\* NextRun is the first matching slot strictly after `from'.
NextRunIsFirst ==
  LET sc == plan.what
      Matches(t) == CASE sc.kind = "interval" -> t = slot + sc.every
                      [] sc.kind = "daily" -> t % SlotsPerDay = sc.at
                      [] sc.kind = "weekly" -> t % SlotsPerDay = sc.at /\ Weekday(t) = sc.weekday
  IN  /\ NextRun(sc, slot) > slot /\ Matches(NextRun(sc, slot))
      /\ \A t \in (slot + 1)..(NextRun(sc, slot) - 1) : ~Matches(t)

\* However many processes run due schedules, a due slot is archived once, and
\* once more only for every pass that ended between Create and the advance: it
\* died, its context was cancelled (schedule.go:280-282) or the UPDATE failed
\* (305-310).  schedule.go:241 calls this "at-least-once execution".
OncePerSlot == archives <= 1 + cut

\* A runner that read the row before an edit does not put back an earlier
\* next run than the edit asked for.
NotBeforeEdit == plan.next >= asked

\* The three together: RunDue archives a due slot once, and again only for a
\* pass that was cut, at the first slot of the schedule as it was last edited.
BackupsOnTime == NextRunIsFirst /\ OncePerSlot /\ NotBeforeEdit

\* A due schedule is archived and advanced, or edited, in the end.
DueRuns == Due ~> ~Due

=============================================================================
