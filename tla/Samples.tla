------------------------------- MODULE Samples -------------------------------
(***************************************************************************)
(* internal/accounting/samples.go: the chart rows of a device.  A cycle    *)
(* charges a device and, inside the same transaction but outside its       *)
(* rollback, adds the amount to an accumulator in memory; a flush drains   *)
(* the accumulator and writes the batch to the samples and to the hourly   *)
(* and daily rollups in one transaction of its own; retention removes old  *)
(* rows of each table.  The database has one writer, so a transaction is   *)
(* one step; what happens to the accumulator before or after it is a step  *)
(* of its own, and a restart loses it.  Buckets are left out: a device has *)
(* one amount per table, of which retention may take any part.             *)
(***************************************************************************)
EXTENDS Naturals, FiniteSets

CONSTANTS
  Devs,       \* devices of one account
  MaxBytes    \* bound on the bytes measured

VARIABLES
  row,        \* devices that have a row
  buffer,     \* the accumulator
  batch,      \* the batch a flush has taken
  flushing,   \* a flush is between take and its transaction
  clearing,   \* devices a reset has still to clear from the accumulator
  chart,      \* chart[t][d]: bytes in the sample, hourly and daily rows
  measured,   \* bytes measured so far
  truth,      \* ghost: bytes committed cycles charged to a device
  excess,     \* ghost: bytes buffered by cycles that were rolled back
  aged,       \* ghost: aged[t][d]: bytes of t's rows that retention removed
  lost        \* ghost: bytes of the accumulator that reached no row

svars == <<row, buffer, batch, flushing, clearing, chart, measured, truth, excess, aged, lost>>

Tables == {"samples", "hourly", "daily"}
NoBytes == [d \in Devs |-> 0]
Plus(f, g) == [d \in Devs |-> f[d] + g[d]]
Some(f) == {d \in Devs : f[d] > 0}

\* The amounts that can be left of f when some of its rows are removed.
LeftOf(f) == {g \in [Devs -> 0..MaxBytes] : \A d \in Devs : g[d] <= f[d]}

STypeOK ==
  /\ row \subseteq Devs /\ clearing \subseteq Devs
  /\ buffer \in [Devs -> Nat] /\ batch \in [Devs -> Nat] /\ flushing \in BOOLEAN
  /\ chart \in [Tables -> [Devs -> Nat]] /\ aged \in [Tables -> [Devs -> Nat]] /\ lost \in [Devs -> Nat]
  /\ measured \in 0..MaxBytes /\ truth \in [Devs -> Nat] /\ excess \in [Devs -> Nat]

SInit ==
  /\ row = Devs /\ clearing = {} /\ lost = NoBytes
  /\ buffer = NoBytes /\ batch = NoBytes /\ flushing = FALSE
  /\ chart = [t \in Tables |-> NoBytes] /\ aged = chart
  /\ measured = 0 /\ truth = NoBytes /\ excess = NoBytes

\* cycleTx pushes each device's delta while its transaction is open; the push
\* is not undone when the transaction is rolled back.
Push(d, commits) ==
  /\ d \in row /\ measured < MaxBytes
  /\ measured' = measured + 1
  /\ buffer' = [buffer EXCEPT ![d] = @ + 1]
  /\ IF commits THEN truth' = [truth EXCEPT ![d] = @ + 1] /\ UNCHANGED excess
                ELSE excess' = [excess EXCEPT ![d] = @ + 1] /\ UNCHANGED truth
  /\ UNCHANGED <<row, batch, flushing, clearing, chart, aged, lost>>

\* FlushSamples begins: the accumulator is drained before any write.
Take ==
  /\ ~flushing /\ Some(buffer) # {}
  /\ flushing' = TRUE /\ batch' = buffer /\ buffer' = NoBytes
  /\ UNCHANGED <<row, clearing, chart, measured, truth, excess, aged, lost>>

\* Variant: an error after the commit puts the batch back.
FlushSamplesRetried(ok) ==
  /\ flushing /\ flushing' = FALSE /\ batch' = NoBytes
  /\ chart' = [t \in Tables |-> [d \in Devs |->
                 IF d \in row THEN chart[t][d] + batch[d] ELSE chart[t][d]]]
  /\ buffer' = IF ok THEN buffer ELSE Plus(buffer, batch)
  /\ UNCHANGED <<row, clearing, measured, truth, excess, aged, lost>>

\* One transaction for the three tables, rows of devices that still exist;
\* when it fails the batch is gone.
FlushSamples(ok) ==
  /\ flushing /\ flushing' = FALSE /\ batch' = NoBytes
  /\ IF ok
       THEN /\ chart' = [t \in Tables |-> [d \in Devs |->
                           IF d \in row THEN chart[t][d] + batch[d] ELSE chart[t][d]]]
            /\ UNCHANGED lost
       ELSE lost' = Plus(lost, batch) /\ UNCHANGED chart
  /\ UNCHANGED <<row, buffer, clearing, measured, truth, excess, aged>>

\* ResetTraffic commits, then clears the accumulator: a cycle in between has
\* its bytes cleared too.
ResetSamples ==
  /\ clearing = {} /\ row # {}
  /\ clearing' = row
  /\ UNCHANGED <<row, buffer, batch, flushing, chart, measured, truth, excess, aged, lost>>

ClearDevices ==
  /\ clearing # {} /\ clearing' = {}
  /\ lost' = [d \in Devs |-> IF d \in clearing THEN lost[d] + buffer[d] ELSE lost[d]]
  /\ buffer' = [d \in Devs |-> IF d \in clearing THEN 0 ELSE buffer[d]]
  /\ UNCHANGED <<row, batch, flushing, chart, measured, truth, excess, aged>>

\* A deleted device takes its chart rows with it (ON DELETE CASCADE); bytes
\* still buffered for it find no row.
CascadeDelete(d) ==
  /\ d \in row /\ row' = row \ {d}
  /\ chart' = [t \in Tables |-> [chart[t] EXCEPT ![d] = 0]]
  /\ UNCHANGED <<buffer, batch, flushing, clearing, measured, truth, excess, aged, lost>>

\* Prune: in one transaction the samples, the hourly and the daily rollups
\* older than the retention of each go; the three retentions are settings of
\* their own.  The operator's cleanup deletes chosen old rows the same way.
Prune ==
  \E s \in LeftOf(chart["samples"]), h \in LeftOf(chart["hourly"]), y \in LeftOf(chart["daily"]) :
    /\ chart' = [t \in Tables |-> CASE t = "samples" -> s [] t = "hourly" -> h [] OTHER -> y]
    /\ aged' = [t \in Tables |-> [d \in Devs |-> aged[t][d] + (chart[t][d] - chart'[t][d])]]
    /\ UNCHANGED <<row, buffer, batch, flushing, clearing, measured, truth, excess, lost>>

\* The process ends and starts again: the accumulator, a batch taken and not
\* written and a reset's pending clear were in its memory.
Restart ==
  /\ flushing' = FALSE /\ clearing' = {} /\ buffer' = NoBytes /\ batch' = NoBytes
  /\ lost' = Plus(lost, Plus(buffer, batch))
  /\ UNCHANGED <<row, chart, measured, truth, excess, aged>>

SNext ==
  \/ \E d \in Devs, c \in BOOLEAN : Push(d, c)
  \/ Take \/ (\E ok \in BOOLEAN : FlushSamples(ok))
  \/ ResetSamples \/ ClearDevices
  \/ (\E d \in Devs : CascadeDelete(d)) \/ Prune \/ Restart

SSpec == SInit /\ [][SNext]_svars

\* "all in ONE transaction, so a retried flush can never double count" and "a
\* crash can only lose chart granularity": of a device that has a row, each
\* table holds every byte a cycle charged (and those a rolled back cycle had
\* already pushed), once: less what its own retention removed, what is still
\* in memory, and the accumulator's bytes that a failed flush, a restart or a
\* reset after its commit let go, which all three tables miss alike.
SamplesAccounted ==
  \A t \in Tables, d \in row :
    chart[t][d] + aged[t][d] + batch[d] + buffer[d] + lost[d] = truth[d] + excess[d]
=============================================================================
