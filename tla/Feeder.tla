------------------------------- MODULE Feeder -------------------------------
(* The resolver's feeder: internal/egress/dnsrouter/feeder.go, with the     *)
(* part of an egress apply that rebuilds the sets it writes to              *)
(* (routing/manager.go apply: Configure, inventory, nft -f, Forget).        *)
(*                                                                          *)
(* A DNS answer for a matched name is learned: its address goes into the    *)
(* rule's nftables set with a timeout, and the reply waits until it is      *)
(* there, unless the feeder remembers that it already is.  The memory, the  *)
(* kernel and the tables are changed by three parties that hold no common   *)
(* lock: the feeder's goroutine, the query handlers and the apply.          *)
(*                                                                          *)
(* One address per set: an element is named by its set.  Time is counted in *)
(* half timeouts, so an element is refreshed after one and gone after two.  *)
EXTENDS Integers, Sequences, FiniteSets, SequencesExt

CONSTANTS
  Sets,        \* the resolver-fed sets the rules may name
  None,        \* no memory of an element, and no element
  FeedQueue,   \* feedQueue: capacity of the feeder's channel
  FeedBatch,   \* feedBatch: elements of one transaction
  MaxRemembered, \* maxRemembered
  MaxTime,     \* bound: half timeouts that pass
  MaxApplies,  \* bound: applies
  MaxFeedFaults \* bound: failed nft calls and tables removed by others

ASSUME FeederAssumption ==
  /\ None \notin Nat
  /\ MaxTime \in Nat /\ MaxApplies \in Nat /\ MaxFeedFaults \in Nat

Timeout == 2
Refresh == 1

VARIABLES
  now,         \* the clock
  sets,        \* feeder.sets
  remembered,  \* feeder.remembered: when it was written, per element
  gen,         \* feeder.gen
  queue,       \* feeder.in: elements, each with whether a reply waits on it
  fed,         \* the feeder goroutine's batch
  flush,       \* the flush in progress
  ksets,       \* the sets of the kernel's table
  kernel,      \* when the kernel drops an element, per element
  apply,       \* the apply in progress
  faults       \* failures so far

fvars == <<now, sets, remembered, gen, queue, fed, flush, ksets, kernel, apply, faults>>
feederVars == <<remembered, gen, queue, fed, flush>>

NoFlush == [at |-> "idle", start |-> 0, gen |-> 0, left |-> {}, written |-> {}]
NoApply == [at |-> "idle", plan |-> {}, created |-> {}]

\* The kernel has the element.
Present(s) == s \in ksets /\ kernel[s] # None /\ now < kernel[s]
\* learn: the memory says that it need not be written again, or is not urgent.
Fresh(s) == remembered[s] # None /\ now < remembered[s] + Refresh
Known(s) == remembered[s] # None /\ now < remembered[s] + Timeout

FTypeOK ==
  /\ now \in 0..MaxTime
  /\ sets \subseteq Sets
  /\ remembered \in [Sets -> {None} \cup (0..MaxTime)]
  /\ gen \in 0..MaxApplies
  /\ queue \in BoundedSeq([elem : Sets, waits : BOOLEAN], FeedQueue)
  /\ fed \in BoundedSeq([elem : Sets, waits : BOOLEAN], FeedBatch)
  /\ ksets \subseteq Sets
  /\ kernel \in [Sets -> {None} \cup (0..MaxTime + Timeout)]
  /\ faults \in 0..MaxFeedFaults

FInit ==
  /\ now = 0 /\ sets = {} /\ gen = 0 /\ queue = <<>> /\ fed = <<>>
  /\ remembered = [s \in Sets |-> None]
  /\ flush = NoFlush /\ apply = [NoApply EXCEPT !.created = Sets]
  /\ ksets = {} /\ kernel = [s \in Sets |-> None] /\ faults = 0

Tick ==
  /\ now < MaxTime
  /\ now' = now + 1
  /\ UNCHANGED <<sets, feederVars, ksets, kernel, apply, faults>>

-----------------------------------------------------------------------------
(* Query handlers                                                          *)

\* An answer for set s.  A fresh element is skipped; a known one is queued to
\* be refreshed and the reply does not wait; a full queue drops it.
Learn(s) ==
  /\ s \in sets /\ ~Fresh(s)
  /\ queue' = IF Len(queue) < FeedQueue
                THEN Append(queue, [elem |-> s, waits |-> ~Known(s)])
                ELSE queue
  /\ UNCHANGED <<now, sets, remembered, gen, fed, flush, ksets, kernel, apply, faults>>

-----------------------------------------------------------------------------
(* The feeder's goroutine                                                  *)

Min2(a, b) == IF a < b THEN a ELSE b

\* One element is received.  When a reply waits on it the batch is filled
\* from the queue (drain) and written now, a full batch is written too.
Receive ==
  LET e == Head(queue)
      took == IF e.waits THEN Min2(Len(queue), FeedBatch - Len(fed)) ELSE 1
      got == fed \o SubSeq(queue, 1, took)
  IN /\ flush.at = "idle" /\ queue # <<>>
     /\ fed' = got
     /\ queue' = SubSeq(queue, took + 1, Len(queue))
     /\ flush' = IF e.waits \/ Len(got) >= FeedBatch
                   THEN [NoFlush EXCEPT !.at = "read"] ELSE NoFlush
     /\ UNCHANGED <<now, sets, remembered, gen, ksets, kernel, apply, faults>>

FlushOnTick ==
  /\ flush.at = "idle" /\ fed # <<>>
  /\ flush' = [NoFlush EXCEPT !.at = "read"]
  /\ UNCHANGED <<now, sets, remembered, gen, queue, fed, ksets, kernel, apply, faults>>

\* The bounded memory: the elements that ran out go first, all of it next.
Pruned ==
  LET kept == {s \in Sets : Known(s)}
      size == Cardinality({s \in Sets : remembered[s] # None})
  IN [s \in Sets |->
        IF size > MaxRemembered /\ (s \notin kept \/ Cardinality(kept) > MaxRemembered)
          THEN None ELSE remembered[s]]

\* flush, under the mutex: what is to be written, the time and the generation
\* are read.
FlushRead ==
  LET wanted == {e.elem : e \in ToSet(fed)} \cap sets
      due == {s \in wanted : Pruned[s] = None \/ now >= Pruned[s] + Refresh}
  IN /\ flush.at = "read"
     /\ remembered' = Pruned
     /\ flush' = IF due = {} THEN NoFlush
                   ELSE [at |-> "write", start |-> now, gen |-> gen,
                         left |-> due, written |-> {}]
     /\ fed' = IF due = {} THEN <<>> ELSE fed
     /\ UNCHANGED <<now, sets, gen, queue, ksets, kernel, apply, faults>>

\* A transaction puts every element of some sets, each with a full timeout.
Put(ss) == [s \in Sets |-> IF s \in ss THEN now + Timeout ELSE kernel[s]]

\* Everything is written in one transaction, which fails as a whole when one
\* of its sets is missing or the call fails; then each set has its own.
WriteAll ==
  /\ flush.at = "write"
  /\ \/ /\ flush.left \subseteq ksets
        /\ kernel' = Put(flush.left)
        /\ flush' = [flush EXCEPT !.at = "record", !.written = flush.left, !.left = {}]
        /\ UNCHANGED faults
     \/ /\ ~(flush.left \subseteq ksets) \/ faults < MaxFeedFaults
        /\ faults' = IF flush.left \subseteq ksets THEN faults + 1 ELSE faults
        /\ flush' = IF Cardinality(flush.left) = 1
                      THEN [flush EXCEPT !.at = "record", !.left = {}]
                      ELSE [flush EXCEPT !.at = "each"]
        /\ UNCHANGED kernel
  /\ UNCHANGED <<now, sets, remembered, gen, queue, fed, ksets, apply>>

WriteOne(s) ==
  /\ flush.at = "each" /\ s \in flush.left
  /\ \/ /\ s \in ksets
        /\ kernel' = Put({s})
        /\ flush' = [flush EXCEPT !.left = @ \ {s}, !.written = @ \cup {s},
                                  !.at = IF flush.left = {s} THEN "record" ELSE "each"]
        /\ UNCHANGED faults
     \/ /\ s \notin ksets \/ faults < MaxFeedFaults
        /\ faults' = IF s \in ksets THEN faults + 1 ELSE faults
        /\ flush' = [flush EXCEPT !.left = @ \ {s},
                                  !.at = IF flush.left = {s} THEN "record" ELSE "each"]
        /\ UNCHANGED kernel
  /\ UNCHANGED <<now, sets, remembered, gen, queue, fed, ksets, apply>>

\* Variant: the generation is not compared.
FlushRecordAnyGen ==
  /\ flush.at = "record"
  /\ remembered' = [s \in Sets |->
       IF s \in flush.written /\ s \in sets THEN flush.start ELSE remembered[s]]
  /\ flush' = NoFlush /\ fed' = <<>>
  /\ UNCHANGED <<now, sets, gen, queue, ksets, kernel, apply, faults>>

\* flush, under the mutex again: what was written is remembered from the
\* time at which the flush began, unless the memory was invalidated since.
FlushRecord ==
  /\ flush.at = "record"
  /\ remembered' = [s \in Sets |->
       IF s \in flush.written /\ gen = flush.gen /\ s \in sets
         THEN flush.start ELSE remembered[s]]
  /\ flush' = NoFlush /\ fed' = <<>>
  /\ UNCHANGED <<now, sets, gen, queue, ksets, kernel, apply, faults>>

-----------------------------------------------------------------------------
(* An egress apply (one at a time: Manager.mu)                             *)

\* Configure: setSets with the plan's sets; memory of the others is dropped.
\* With no set left the listeners and the feeder are stopped: the goroutine
\* ends after the flush it is in, its batch is lost, the queue stays.
Configure(plan) ==
  /\ apply.at = "idle" /\ gen < MaxApplies
  /\ (plan = {}) => flush.at = "idle"
  /\ sets' = plan
  /\ remembered' = [s \in Sets |-> IF s \in plan THEN remembered[s] ELSE None]
  /\ apply' = [at |-> "inventory", plan |-> plan, created |-> {}]
  /\ fed' = IF plan = {} THEN <<>> ELSE fed
  /\ UNCHANGED <<now, gen, queue, flush, ksets, kernel, faults>>

\* syncTable lists the table: the sets it does not have will be created.
ReadInventory ==
  /\ apply.at = "inventory"
  /\ \/ apply' = [apply EXCEPT !.at = "table", !.created = apply.plan \ ksets] /\ UNCHANGED faults
     \/ /\ faults < MaxFeedFaults /\ faults' = faults + 1
        /\ apply' = NoApply
  /\ UNCHANGED <<now, sets, feederVars, ksets, kernel>>

\* nft -f: sets not in the plan go, missing ones are created empty, the
\* others keep their elements.  A failed call changes nothing.
ApplyTable ==
  /\ apply.at = "table"
  /\ \/ /\ ksets' = apply.plan
        /\ kernel' = [s \in Sets |-> IF s \in apply.plan \cap ksets THEN kernel[s] ELSE None]
        /\ UNCHANGED faults
     \/ /\ faults < MaxFeedFaults /\ faults' = faults + 1
        /\ UNCHANGED <<ksets, kernel>>
  /\ apply' = [apply EXCEPT !.at = "forget"]
  /\ UNCHANGED <<now, sets, feederVars>>

\* The memory of the given sets is dropped and the generation changes.
Forget ==
  /\ apply.at = "forget"
  /\ gen' = IF apply.created = {} THEN gen ELSE gen + 1
  /\ remembered' = [s \in Sets |-> IF s \in apply.created THEN None ELSE remembered[s]]
  /\ apply' = NoApply
  /\ UNCHANGED <<now, sets, queue, fed, flush, ksets, kernel, faults>>

\* Something outside the program removes the table; the health pass notices
\* and applies again.  (Assumed not to fall between the listing of an apply
\* and its nft -f, where the apply cannot know that it creates the sets.)
TableRemoved ==
  /\ faults < MaxFeedFaults /\ ksets # {} /\ apply.at # "table"
  /\ faults' = faults + 1
  /\ ksets' = {} /\ kernel' = [s \in Sets |-> None]
  /\ UNCHANGED <<now, sets, feederVars, apply>>

FNext ==
  \/ Tick \/ Receive \/ FlushOnTick \/ FlushRead \/ WriteAll \/ FlushRecord
  \/ ReadInventory \/ ApplyTable \/ Forget \/ TableRemoved
  \/ \E s \in Sets : Learn(s) \/ WriteOne(s)
  \/ \E plan \in SUBSET Sets : Configure(plan)

FSpec == FInit /\ [][FNext]_fvars

-----------------------------------------------------------------------------
(* Properties                                                              *)

\* "a reply only waits for addresses the kernel may not have yet": whatever
\* the feeder remembers is in the kernel's set, as long as the rule has one;
\* the only exception is an apply that has created sets and not yet said so.
KnownIsPresent ==
  \A s \in ksets \cap sets : Known(s) =>
    Present(s) \/ (apply.at = "forget" /\ s \in apply.created)
=============================================================================
