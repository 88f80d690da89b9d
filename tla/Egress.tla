------------------------------- MODULE Egress -------------------------------
(* The egress manager: internal/egress/routing/manager.go.                  *)
(*                                                                          *)
(* Apply converges links, policy routes, the resolver and the nftables      *)
(* table to the stored outbounds, one apply at a time (Manager.mu), step by *)
(* step and with any step failing.  Around it run the health pass           *)
(* (ProbeAll), which retries, repairs, probes and re-renders; the panel's   *)
(* Test; edits of the stored state; the crash and the restart of the panel, *)
(* over which links and table survive and everything in memory is lost.     *)
(*                                                                          *)
(* A configuration is an identity (keys, obfuscation) and the rest          *)
(* (endpoint, MTU, address).  Rules are abstracted to the outbounds their   *)
(* chains send traffic to: the ones Compile finds usable.                   *)
EXTENDS Integers, FiniteSets

CONSTANTS
  Outbounds,    \* outbounds with a link of their own
  Identities, Rests, \* what a configuration is made of
  None,         \* no configuration, no link, no record
  Half,         \* a link that was created and never configured
  MaxEdits,     \* bound: edits of the stored state
  MaxEgressFaults, \* bound: failed calls, crashes, passes cut off, removals
  MaxFlips      \* bound: probes whose result differs from the one before

Configs == Identities \X Rests
FailuresDown == 2

VARIABLES
  estored,   \* the stored configuration of an enabled outbound, or None
  dns,       \* whether a stored rule needs the resolver
  link,      \* the kernel's link
  applied,   \* Manager.applied: the configuration it believes the link has
  health,    \* Manager.health: failed probes in a row
  dirty,     \* Manager.healthDirty
  idle,      \* Manager.idle: an empty state has been converged to
  estatus,   \* Manager.status: error, outbounds with a link error
  table,     \* the kernel's table: where it routes, whether DNS is redirected
  listening, \* the resolver serves every gateway
  ap,        \* the apply in progress
  hpass,     \* the health pass: where it is, whether it saw a change
  up,        \* the panel runs
  edits, efaults, flips

memory == <<applied, health, dirty, idle, estatus, listening>>
counts == <<edits, efaults, flips>>
evars == <<estored, dns, link, memory, table, ap, hpass, up, counts>>

NoTable == [present |-> FALSE, routes |-> {}, redirect |-> FALSE]
NoApply == [at |-> "none", for |-> "none", snap |-> [o \in Outbounds |-> None],
            dns |-> FALSE, down |-> {}, exists |-> {}, todo |-> {}, failed |-> {},
            ok |-> FALSE, error |-> "none"]
NoPass == [at |-> "none", changed |-> FALSE]
\* Status: an error of "never" is a status no apply has set yet.
NoStatus == [error |-> "never", links |-> {}, known |-> {}]

ETypeOK ==
  /\ estored \in [Outbounds -> Configs \cup {None}] /\ dns \in BOOLEAN
  /\ link \in [Outbounds -> Configs \cup {None, Half}]
  /\ applied \in [Outbounds -> Configs \cup {None}]
  /\ health \in [Outbounds -> 0..FailuresDown] /\ dirty \in BOOLEAN /\ idle \in BOOLEAN
  /\ estatus \in [error : {"never", "none", "snapshot", "policy", "table"},
                 links : SUBSET Outbounds, known : SUBSET Outbounds]
  /\ table \in [present : BOOLEAN, routes : SUBSET Outbounds, redirect : BOOLEAN]
  /\ listening \in BOOLEAN /\ up \in BOOLEAN
  /\ ap.at \in {"none", "load", "links", "policy", "resolver", "table", "finish"}
  /\ hpass.at \in {"none", "retry", "repair", "repaired", "probe", "rerender",
                 "rendering"}

EInit ==
  /\ estored = [o \in Outbounds |-> None] /\ dns = FALSE
  /\ link = [o \in Outbounds |-> None]
  /\ applied = [o \in Outbounds |-> None]
  /\ health = [o \in Outbounds |-> 0] /\ dirty = FALSE /\ idle = FALSE
  /\ estatus = NoStatus /\ table = NoTable /\ listening = FALSE
  /\ ap = NoApply /\ hpass = NoPass /\ up = FALSE
  /\ edits = 0 /\ efaults = 0 /\ flips = 0

Fault == efaults < MaxEgressFaults /\ efaults' = efaults + 1

-----------------------------------------------------------------------------
(* Apply                                                                   *)

\* Apply and Reapply: by boot or an edit ("caller"), or by the health pass.
Start(for) ==
  /\ up /\ ap.at = "none"
  /\ ap' = [NoApply EXCEPT !.at = "load", !.for = for]

StartApply ==
  /\ Start("caller")
  /\ UNCHANGED <<estored, dns, link, memory, table, hpass, up, counts>>

\* The apply returns to whoever called it.
Return == ap' = NoApply

\* LoadSnapshot fails, and the status knows no outbound.
LoadFails ==
  /\ ap.at = "load" /\ Fault
  /\ estatus' = [error |-> "snapshot", links |-> {}, known |-> {}]
  /\ Return
  /\ UNCHANGED <<estored, dns, link, applied, health, dirty, idle, listening, table, hpass, up,
                 edits, flips>>

\* Nothing is stored, and an earlier apply removed everything there was.
LoadEmpty ==
  /\ ap.at = "load" /\ idle /\ ~dns /\ \A o \in Outbounds : estored[o] = None
  /\ estatus' = [error |-> "none", links |-> {}, known |-> {}]
  /\ Return
  /\ UNCHANGED <<estored, dns, link, applied, health, dirty, idle, listening, table, hpass, up,
                 counts>>

\* LoadSnapshot, pruneHealth and healthSnapshot, ListInterfaces: what the
\* rest of this apply works with.  Without a list every link is in error.  Of
\* the outbounds without a configuration the deleted ones lose their health,
\* the disabled ones keep it.
Load ==
  LET live == {o \in Outbounds : estored[o] # None}
      begun == [ap EXCEPT !.snap = estored, !.dns = dns,
                          !.down = {o \in live : health[o] >= FailuresDown}]
  IN /\ ap.at = "load" /\ ~(idle /\ ~dns /\ live = {})
     /\ \E deleted \in SUBSET (Outbounds \ live) :
          health' = [o \in Outbounds |-> IF o \in deleted THEN 0 ELSE health[o]]
     /\ dirty' = FALSE
     /\ \/ /\ ap' = [begun EXCEPT !.at = "links", !.todo = Outbounds,
                                  !.exists = {o \in Outbounds : link[o] # None}]
           /\ UNCHANGED efaults
        \/ /\ Fault
           /\ ap' = [begun EXCEPT !.at = "policy", !.failed = live]
     /\ UNCHANGED <<estored, dns, link, applied, idle, estatus, listening, table, hpass, up,
                    edits, flips>>

LinkDone(o, bad) == ap' = [ap EXCEPT !.todo = @ \ {o}, !.failed = IF bad THEN @ \cup {o} ELSE @]

\* syncLinks, a link nobody wants: it is removed, and forgotten; a failure is
\* logged.
RemoveStale(o) ==
  /\ ap.snap[o] = None
  /\ LinkDone(o, FALSE)
  /\ \/ o \notin ap.exists /\ UNCHANGED <<link, applied, efaults>>
     \/ /\ o \in ap.exists
        /\ link' = [link EXCEPT ![o] = None] /\ applied' = [applied EXCEPT ![o] = None]
        /\ UNCHANGED efaults
     \/ o \in ap.exists /\ Fault /\ UNCHANGED <<link, applied>>

\* syncLinks, a link that is as it should be, as far as is known.
KeepLink(o) ==
  /\ ap.snap[o] # None /\ o \in ap.exists /\ applied[o] = ap.snap[o]
  /\ LinkDone(o, FALSE)
  /\ UNCHANGED <<link, applied, efaults>>

Adoptable(o) ==
  /\ ap.snap[o] # None /\ o \in ap.exists /\ applied[o] = None
  /\ link[o] \notin {None, Half} /\ link[o][1] = ap.snap[o][1]

\* adopt: a link that survived keeps its session; the rest is set in place.
Adopt(o) ==
  /\ Adoptable(o)
  /\ link' = [link EXCEPT ![o] = ap.snap[o]]
  /\ applied' = [applied EXCEPT ![o] = ap.snap[o]]
  /\ LinkDone(o, FALSE)
  /\ UNCHANGED efaults

Replaced(o) ==
  /\ ap.snap[o] # None
  /\ o \in ap.exists => applied[o] # ap.snap[o]
  /\ Adoptable(o) => efaults < MaxEgressFaults

\* The old link cannot be removed: it stays, with the record it has.
ReplaceFails(o) ==
  /\ Replaced(o) /\ o \in ap.exists /\ Fault
  /\ LinkDone(o, TRUE)
  /\ UNCHANGED <<link, applied>>

\* createLink succeeds on one of the two runtimes.
CreateLink(o) ==
  /\ Replaced(o)
  /\ link' = [link EXCEPT ![o] = ap.snap[o]]
  /\ applied' = [applied EXCEPT ![o] = ap.snap[o]]
  /\ LinkDone(o, FALSE)
  /\ efaults' = IF Adoptable(o) THEN efaults + 1 ELSE efaults

\* Variant: the record of the replaced link is kept.
CreateFailsKeeping(o) ==
  /\ Replaced(o) /\ Fault
  /\ \E l \in {None, Half} : link' = [link EXCEPT ![o] = l]
  /\ LinkDone(o, TRUE)
  /\ UNCHANGED applied

\* createLink fails.  What it created is removed, an error of which is
\* ignored, so a link without configuration may stay behind.
CreateFails(o) ==
  /\ Replaced(o) /\ Fault
  /\ \E l \in {None, Half} : link' = [link EXCEPT ![o] = l]
  /\ applied' = [applied EXCEPT ![o] = None]
  /\ LinkDone(o, TRUE)

SyncLink(o) ==
  /\ ap.at = "links" /\ o \in ap.todo
  /\ \/ RemoveStale(o) \/ KeepLink(o) \/ Adopt(o)
     \/ ReplaceFails(o) \/ CreateLink(o) \/ CreateFails(o)
  /\ UNCHANGED <<estored, dns, health, dirty, idle, estatus, listening, table, hpass, up, edits, flips>>

LinksDone ==
  /\ ap.at = "links" /\ ap.todo = {}
  /\ ap' = [ap EXCEPT !.at = "policy"]
  /\ UNCHANGED <<estored, dns, link, memory, table, hpass, up, counts>>

\* syncPolicy: a failure is noted, and the apply goes on.
SyncPolicy ==
  /\ ap.at = "policy"
  /\ \/ ap' = [ap EXCEPT !.at = "resolver"] /\ UNCHANGED efaults
     \/ Fault /\ ap' = [ap EXCEPT !.at = "resolver", !.error = "policy"]
  /\ UNCHANGED <<estored, dns, link, memory, table, hpass, up, edits, flips>>

\* Resolver.Configure: it serves the gateways, some listener fails, or it is
\* stopped because no rule needs it.
ConfigureResolver ==
  /\ ap.at = "resolver"
  /\ \/ listening' = ap.dns /\ UNCHANGED efaults
     \/ ap.dns /\ Fault /\ listening' = FALSE
  /\ ap' = [ap EXCEPT !.at = "table", !.ok = listening']
  /\ UNCHANGED <<estored, dns, link, applied, health, dirty, idle, estatus, table, hpass, up,
                 edits, flips>>

\* Compile: the outbounds whose chains get traffic.  The second compilation
\* leaves out the ones whose link failed.
Routes == {o \in Outbounds : ap.snap[o] # None /\ o \notin ap.down \cup ap.failed}

\* syncTable: the table is rendered, or removed when nothing needs it; a
\* failed call leaves it as it was.
SyncTable ==
  /\ ap.at = "table"
  /\ \/ /\ table' = IF ap.ok \/ \E o \in Outbounds : ap.snap[o] # None
                      THEN [present |-> TRUE, routes |-> Routes, redirect |-> ap.ok]
                      ELSE NoTable
        /\ ap' = [ap EXCEPT !.at = "finish"]
        /\ UNCHANGED efaults
     \/ /\ Fault
        /\ ap' = [ap EXCEPT !.at = "finish", !.error = "table"]
        /\ UNCHANGED table
  /\ UNCHANGED <<estored, dns, link, memory, hpass, up, edits, flips>>

\* The status is set and the connections of outbounds that stopped carrying
\* traffic are drained.
Finish ==
  /\ ap.at = "finish"
  /\ estatus' = [error |-> ap.error, links |-> ap.failed,
                known |-> {o \in Outbounds : ap.snap[o] # None}]
  /\ idle' = (/\ \A o \in Outbounds : ap.snap[o] = None
              /\ ~ap.dns /\ ap.error = "none" /\ ap.failed = {})
  /\ Return
  /\ UNCHANGED <<estored, dns, link, applied, health, dirty, listening, table, hpass, up, counts>>

Apply ==
  \/ LoadFails \/ LoadEmpty \/ Load \/ LinksDone \/ SyncPolicy \/ ConfigureResolver \/ SyncTable \/ Finish
  \/ \E o \in Outbounds : SyncLink(o)

-----------------------------------------------------------------------------
(* Health                                                                  *)

Probeable == estatus.known \ estatus.links

\* record: one probe; two failures in a row make an outbound down, one
\* success makes it healthy.
Recorded(o, good) ==
  [health EXCEPT ![o] = IF good THEN 0 ELSE IF @ < FailuresDown THEN @ + 1 ELSE @]
Flipped(o, good) == (health[o] < FailuresDown) # (Recorded(o, good)[o] < FailuresDown)

\* The answer of a probe; a changed answer is counted to bound the model.
Probe(o, good) ==
  /\ o \in Probeable
  /\ IF Recorded(o, good) = health THEN UNCHANGED flips
       ELSE flips < MaxFlips /\ flips' = flips + 1
  /\ health' = Recorded(o, good)

\* The panel's Test: a flip is left to the next health pass.
Test(o, good) ==
  /\ up /\ Probe(o, good)
  /\ dirty' = (dirty \/ Flipped(o, good))
  /\ UNCHANGED <<estored, dns, link, applied, idle, estatus, listening, table, ap, hpass, up,
                 edits, efaults>>

\* Variant: a link that failed is not retried.
RetryErrorsOnly == estatus.error \notin {"none", "never"}

\* ProbeAll, first step: an apply that did not converge is tried again
\* once its backoff has run out, and the pass goes on after it.
RetryDue == estatus.error \notin {"none", "never"} \/ estatus.links # {}

PassRetries ==
  /\ up /\ hpass.at = "none" /\ RetryDue
  /\ Start("pass") /\ hpass' = [NoPass EXCEPT !.at = "retry"]
  /\ UNCHANGED <<estored, dns, link, memory, table, up, counts>>

PassBegins ==
  /\ up /\ hpass.at = "none"
  /\ hpass' = [NoPass EXCEPT !.at = "repair"]
  /\ UNCHANGED <<estored, dns, link, memory, table, ap, up, counts>>

PassRetried ==
  /\ hpass.at = "retry" /\ ap.for # "pass"
  /\ hpass' = [hpass EXCEPT !.at = "repair"]
  /\ UNCHANGED <<estored, dns, link, memory, table, ap, up, counts>>

\* Second step: a table that should be there and is not is applied again.
PassRepairs ==
  /\ hpass.at = "repair"
  /\ IF estatus.error = "none" /\ estatus.known # {} /\ ~table.present
       THEN Start("pass") /\ hpass' = [hpass EXCEPT !.at = "repaired"]
       ELSE hpass' = [hpass EXCEPT !.at = "probe"] /\ UNCHANGED ap
  /\ UNCHANGED <<estored, dns, link, memory, table, up, counts>>

\* A failed repair ends the pass.
PassRepaired ==
  /\ hpass.at = "repaired" /\ ap.for # "pass"
  /\ hpass' = IF estatus.error = "none" THEN [hpass EXCEPT !.at = "probe"] ELSE NoPass
  /\ UNCHANGED <<estored, dns, link, memory, table, ap, up, counts>>

PassProbes(o, good) ==
  /\ hpass.at = "probe" /\ Probe(o, good)
  /\ hpass' = [hpass EXCEPT !.changed = @ \/ Flipped(o, good)]
  /\ UNCHANGED <<estored, dns, link, applied, dirty, idle, estatus, listening, table, ap, up,
                 edits, efaults>>

\* reresolve: the name of a down outbound moved, so its record is dropped and
\* the next apply sets its peer again (it waits for an apply in progress).
Reresolve(o) ==
  /\ hpass.at = "probe" /\ ap.at = "none"
  /\ o \in Probeable /\ health[o] >= FailuresDown
  /\ applied' = [applied EXCEPT ![o] = None]
  /\ hpass' = [hpass EXCEPT !.changed = TRUE]
  /\ UNCHANGED <<estored, dns, link, health, dirty, idle, estatus, listening, table, ap, up, counts>>

\* The pending flip of a Test is taken; with a change and time left the pass
\* renders again.  A pass that was cut off does not.
PassEnds ==
  /\ hpass.at = "probe"
  /\ dirty' = FALSE
  /\ \/ /\ hpass.changed \/ dirty
        /\ hpass' = [hpass EXCEPT !.at = "rerender"] /\ UNCHANGED efaults
     \/ /\ ~(hpass.changed \/ dirty)
        /\ hpass' = NoPass /\ UNCHANGED efaults
     \/ Fault /\ hpass' = NoPass
  /\ UNCHANGED <<estored, dns, link, applied, health, idle, estatus, listening, table, ap, up,
                 edits, flips>>

PassRerenders ==
  /\ hpass.at = "rerender" /\ Start("pass") /\ hpass' = [hpass EXCEPT !.at = "rendering"]
  /\ UNCHANGED <<estored, dns, link, memory, table, up, counts>>

PassRendered ==
  /\ hpass.at = "rendering" /\ ap.for # "pass"
  /\ hpass' = NoPass
  /\ UNCHANGED <<estored, dns, link, memory, table, ap, up, counts>>

ProbeAll ==
  \/ PassRetries \/ PassBegins \/ PassRetried \/ PassRepairs \/ PassRepaired
  \/ PassEnds \/ PassRerenders \/ PassRendered

-----------------------------------------------------------------------------
(* The node around it                                                      *)

Edit ==
  /\ edits < MaxEdits /\ edits' = edits + 1
  /\ \/ \E o \in Outbounds, c \in Configs \cup {None} :
          estored[o] # c /\ estored' = [estored EXCEPT ![o] = c] /\ UNCHANGED dns
     \/ dns' = ~dns /\ UNCHANGED estored
  /\ UNCHANGED <<link, memory, table, ap, hpass, up, efaults, flips>>

\* Memory is empty after a start; the boot pass applies.
Boot ==
  /\ ~up /\ up' = TRUE
  /\ ap' = [NoApply EXCEPT !.at = "load", !.for = "caller"]
  /\ UNCHANGED <<estored, dns, link, memory, table, hpass, counts>>

Forgotten ==
  /\ applied' = [o \in Outbounds |-> None]
  /\ health' = [o \in Outbounds |-> 0] /\ dirty' = FALSE /\ idle' = FALSE
  /\ estatus' = NoStatus /\ listening' = FALSE
  /\ ap' = NoApply /\ hpass' = NoPass /\ up' = FALSE

PanelDies ==
  /\ up /\ Fault /\ Forgotten
  /\ UNCHANGED <<estored, dns, link, table, edits, flips>>

\* Shutdown, once the workers are drained: ReleaseRedirects, then the
\* resolver is closed.
Shutdown ==
  /\ up /\ ap.at = "none" /\ hpass.at = "none" /\ Fault /\ Forgotten
  /\ table' = [table EXCEPT !.redirect = FALSE]
  /\ UNCHANGED <<estored, dns, link, edits, flips>>

\* Something outside the program removes the table or a link.
Removed ==
  /\ Fault /\ ap.at = "none"
  /\ \/ table' = NoTable /\ UNCHANGED link
     \/ \E o \in Outbounds : link' = [link EXCEPT ![o] = None] /\ UNCHANGED table
  /\ UNCHANGED <<estored, dns, memory, ap, hpass, up, edits, flips>>

ENext ==
  \/ StartApply \/ Apply \/ ProbeAll \/ Edit \/ Boot \/ PanelDies \/ Shutdown \/ Removed
  \/ \E o \in Outbounds : Reresolve(o) \/ \E good \in BOOLEAN : Test(o, good) \/ PassProbes(o, good)

ESpec == EInit /\ [][ENext]_evars

\* The calls an apply makes end (they have timeouts), the scheduler wakes the
\* health worker, the service manager starts the panel again; the backoff of
\* a retry is bounded (retryMax), so a pass finds it elapsed again and again.
EFairness ==
  /\ WF_evars(Apply) /\ WF_evars(ProbeAll) /\ WF_evars(Boot)
  /\ SF_evars(PassRetries)
EFairSpec == ESpec /\ EFairness

-----------------------------------------------------------------------------
(* Properties                                                              *)

\* What the manager remembers of a link is what the kernel has, through
\* failed replacements, adoption after a restart and re-resolution: a link
\* that is kept because its record matches really has that configuration.
LinkRecordHonest ==
  \A o \in Outbounds : applied[o] # None /\ link[o] # None => link[o] = applied[o]

\* "client DNS is never redirected to a resolver that is not listening", and
\* no chain sends traffic to an outbound whose link could not be applied:
\* whenever an apply has ended without an error of the table.
RenderedIsServed ==
  up /\ ap.at = "none" /\ estatus.error \notin {"never", "table", "snapshot"} =>
    /\ table.redirect => listening
    /\ table.routes \cap estatus.links = {}

\* Memory, kernel and resolver agree wherever the next step relies on it.
KernelAgrees == LinkRecordHonest /\ RenderedIsServed

\* An apply that did not converge, in any of its parts, is retried until one
\* does, without waiting for an edit.
Unconverged == estatus.error \notin {"none", "never"} \/ estatus.links # {}
Converges == Unconverged ~> estatus.error = "none" /\ estatus.links = {}
=============================================================================
