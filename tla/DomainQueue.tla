----------------------------- MODULE DomainQueue -----------------------------
(***************************************************************************)
(* The queue of domain and certificate operations: internal/domainqueue,   *)
(* the panel's request handler and the host helper's run.  As in           *)
(* UpdateQueue the two processes interleave at every file operation.  A    *)
(* manual certificate is first staged in a private import directory that   *)
(* the request names; directories older than an hour are swept by the next *)
(* upload unless the request or running file names them.                   *)
(***************************************************************************)
EXTENDS Naturals, FiniteSets

CONSTANTS
  NoRequest,       \* no file, no request
  MaxRequests,     \* bound on the requests the panel makes
  MaxImports,      \* 4 in the source
  MaxHelperCrashes \* bound on crashes and failed writes of the helper

ASSUME RequestsAssumption ==
  MaxRequests \in Nat /\ MaxHelperCrashes \in Nat /\ NoRequest \notin 1..MaxRequests

VARIABLES
  dreq, drun,    \* request.json and running.json: a request's number or NoRequest
  dstatus,       \* status.json
  dused,         \* requests made so far
  aged,          \* requests more than an hour old
  imports,       \* age of the import directory of each request
  dpanel,        \* the panel's handler
  dhelper,       \* the host helper
  lock,          \* holder of the maintenance runner's lock
  dcrashes,
  dworked,       \* how often each request's work was started
  renewals       \* the last helper run renewed due certificates

dvars == <<dreq, drun, dstatus, dused, aged, imports, dpanel, dhelper, lock, dcrashes,
           dworked, renewals>>

Requests == 1..MaxRequests
Ages == {"absent", "fresh", "stale"}

NoCall == [pc |-> "idle", id |-> NoRequest, look |-> {}, item |-> NoRequest, kept |-> 0]
NoRun == [pc |-> "idle", id |-> NoRequest]

DTypeOK ==
  /\ dreq \in Requests \cup {NoRequest} /\ drun \in Requests \cup {NoRequest}
  /\ dstatus \in [id : Requests \cup {NoRequest}, state : {"none", "running", "succeeded", "failed"}]
  /\ dused \in 0..MaxRequests /\ aged \subseteq Requests
  /\ imports \in [Requests -> Ages]
  /\ dpanel.pc \in {"idle", "sweep", "srun", "sdrop", "enqueue", "link", "unstage"}
  /\ dhelper.pc \in {"idle", "recover", "rremove", "look", "claim", "unlink", "record", "work",
                     "finish", "fremove", "unstage", "renew"}
  /\ lock \in {"none", "update", "domain"} /\ dcrashes \in 0..MaxHelperCrashes
  /\ dworked \in [Requests -> Nat] /\ renewals \in BOOLEAN

DInit ==
  /\ dreq = NoRequest /\ drun = NoRequest /\ dstatus = [id |-> NoRequest, state |-> "none"]
  /\ dused = 0 /\ aged = {} /\ imports = [r \in Requests |-> "absent"]
  /\ dpanel = NoCall /\ dhelper = NoRun
  /\ lock = "none" /\ dcrashes = 0
  /\ dworked = [r \in Requests |-> 0] /\ renewals = FALSE

Present == {r \in Requests : imports[r] # "absent"}

(* ------------------------------ the panel ------------------------------ *)

HelperSide == <<drun, dstatus, dhelper, lock, dcrashes, dworked, renewals>>

\* handleDomainsRequest: with an upload (Stage first) or without one.
HandleDomainsRequest(upload) ==
  /\ dpanel.pc = "idle" /\ dused < MaxRequests
  /\ dused' = dused + 1
  /\ dpanel' = IF upload
                 THEN [NoCall EXCEPT !.pc = "sweep", !.id = dused + 1, !.look = Present]
                 ELSE [NoCall EXCEPT !.pc = "enqueue", !.id = dused + 1]
  /\ UNCHANGED <<dreq, aged, imports, HelperSide>>

\* Variant: running.json is looked at first.
SweepRunningFirst ==
  /\ dpanel.pc = "sweep"
  /\ \E r \in dpanel.look :
       dpanel' = IF imports[r] # "stale" \/ drun = r
                   THEN [dpanel EXCEPT !.look = @ \ {r}, !.kept = @ + 1]
                   ELSE [dpanel EXCEPT !.look = @ \ {r}, !.item = r, !.pc = "srun"]
  /\ UNCHANGED <<dreq, dused, aged, imports, HelperSide>>

\* Stage: for each stale directory request.json and then running.json is read;
\* one that neither names is removed.
SweepRequest ==
  /\ dpanel.pc = "sweep"
  /\ \E r \in dpanel.look :
       dpanel' = IF imports[r] # "stale" \/ dreq = r
                   THEN [dpanel EXCEPT !.look = @ \ {r}, !.kept = @ + 1]
                   ELSE [dpanel EXCEPT !.look = @ \ {r}, !.item = r, !.pc = "srun"]
  /\ UNCHANGED <<dreq, dused, aged, imports, HelperSide>>

SweepRunning ==
  /\ dpanel.pc = "srun"
  /\ dpanel' = IF drun = dpanel.item
                 THEN [dpanel EXCEPT !.pc = "sweep", !.kept = @ + 1]
                 ELSE [dpanel EXCEPT !.pc = "sdrop"]
  /\ UNCHANGED <<dreq, dused, aged, imports, HelperSide>>

SweepRemove ==
  /\ dpanel.pc = "sdrop"
  /\ imports' = [imports EXCEPT ![dpanel.item] = "absent"]
  /\ dpanel' = [dpanel EXCEPT !.pc = "sweep"]
  /\ UNCHANGED <<dreq, dused, aged, HelperSide>>

\* Room for one more directory, or ErrBusy.
StageCreate ==
  /\ dpanel.pc = "sweep" /\ dpanel.look = {}
  /\ IF dpanel.kept < MaxImports
       THEN /\ imports' = [imports EXCEPT ![dpanel.id] = "fresh"]
            /\ dpanel' = [dpanel EXCEPT !.pc = "enqueue"]
       ELSE dpanel' = NoCall /\ UNCHANGED imports
  /\ UNCHANGED <<dreq, dused, aged, HelperSide>>

Stage == SweepRequest \/ SweepRunning \/ SweepRemove \/ StageCreate

\* Enqueue: refused while running.json exists; link(2) refuses a second
\* request.  A refusal removes the caller's own import.
Enqueue ==
  \/ /\ dpanel.pc = "enqueue"
     /\ dpanel' = [dpanel EXCEPT !.pc = IF drun # NoRequest THEN "unstage" ELSE "link"]
     /\ UNCHANGED <<dreq, dused, aged, imports, HelperSide>>
  \/ /\ dpanel.pc = "link"
     /\ IF dreq = NoRequest
          THEN dreq' = dpanel.id /\ dpanel' = NoCall
          ELSE dpanel' = [dpanel EXCEPT !.pc = "unstage"] /\ UNCHANGED dreq
     /\ UNCHANGED <<dused, aged, imports, HelperSide>>
  \/ /\ dpanel.pc = "unstage"
     /\ imports' = [imports EXCEPT ![dpanel.id] = "absent"]
     /\ dpanel' = NoCall
     /\ UNCHANGED <<dreq, dused, aged, HelperSide>>

PanelStep == Stage \/ Enqueue

(* --------------------------- the host helper --------------------------- *)

PanelSide == <<dused, aged, dpanel>>
Step(here, there) == dhelper.pc = here /\ dhelper' = [dhelper EXCEPT !.pc = there]
Exit(here) == dhelper.pc = here /\ dhelper' = NoRun /\ lock' = "none"

StartRun ==
  /\ lock = "none" /\ dhelper.pc = "idle"
  /\ lock' = "domain" /\ dhelper' = [NoRun EXCEPT !.pc = "recover"]
  /\ renewals' = FALSE
  /\ UNCHANGED <<dreq, drun, dstatus, imports, dcrashes, dworked, PanelSide>>

\* Variant: a running.json is taken for another run's.
RecoverRefuses ==
  \/ /\ drun = NoRequest /\ Step("recover", "look")
     /\ UNCHANGED <<dreq, drun, dstatus, imports, lock, dcrashes, dworked, renewals, PanelSide>>
  \/ /\ drun # NoRequest /\ Exit("recover")
     /\ UNCHANGED <<dreq, drun, dstatus, imports, dcrashes, dworked, renewals, PanelSide>>

\* RecoverInterrupted: the request of a dead run is recorded as interrupted.
RecoverInterrupted ==
  \/ /\ drun = NoRequest /\ Step("recover", "look")
     /\ UNCHANGED <<dreq, drun, dstatus, imports, lock, dcrashes, dworked, renewals, PanelSide>>
  \/ /\ drun # NoRequest /\ Step("recover", "rremove")
     /\ dstatus' = [id |-> drun, state |-> "failed"]
     /\ UNCHANGED <<dreq, drun, imports, lock, dcrashes, dworked, renewals, PanelSide>>
  \/ /\ Step("rremove", "look") /\ drun' = NoRequest
     /\ UNCHANGED <<dreq, dstatus, imports, lock, dcrashes, dworked, renewals, PanelSide>>

\* Due certificates are renewed only by a run that finds no request.
LookForRequest ==
  \/ /\ dreq # NoRequest /\ Step("look", "claim")
     /\ UNCHANGED <<dreq, drun, dstatus, imports, lock, dcrashes, dworked, renewals, PanelSide>>
  \/ /\ dreq = NoRequest /\ Step("look", "renew")
     /\ renewals' = TRUE
     /\ UNCHANGED <<dreq, drun, dstatus, imports, lock, dcrashes, dworked, PanelSide>>
  \/ /\ Exit("renew")
     /\ UNCHANGED <<dreq, drun, dstatus, imports, dcrashes, dworked, renewals, PanelSide>>

\* Claim: running.json is linked to the request before the request is
\* removed; a request older than an hour is refused and stays.
ClaimRequest ==
  \/ /\ dhelper.pc = "claim" /\ dreq \notin aged
     /\ drun' = dreq
     /\ dhelper' = [pc |-> "unlink", id |-> dreq]
     /\ UNCHANGED <<dreq, dstatus, imports, lock, dcrashes, dworked, renewals, PanelSide>>
  \/ /\ dreq \in aged /\ Exit("claim")
     /\ UNCHANGED <<dreq, drun, dstatus, imports, dcrashes, dworked, renewals, PanelSide>>
  \/ /\ Step("unlink", "record") /\ dreq' = NoRequest
     /\ UNCHANGED <<drun, dstatus, imports, lock, dcrashes, dworked, renewals, PanelSide>>

\* executeDomainRequest: authorization may have been revoked; then the work,
\* which reads the import directory (ReadDomainInput).
ExecuteDomainRequest ==
  \/ /\ Step("record", "work")
     /\ dstatus' = [id |-> dhelper.id, state |-> "running"]
     /\ dworked' = [dworked EXCEPT ![dhelper.id] = @ + 1]
     /\ UNCHANGED <<dreq, drun, imports, lock, dcrashes, renewals, PanelSide>>
  \/ /\ Step("record", "finish")
     /\ dstatus' = [id |-> dhelper.id, state |-> "failed"]
     /\ UNCHANGED <<dreq, drun, imports, lock, dcrashes, dworked, renewals, PanelSide>>
  \/ /\ Step("work", "finish")
     /\ UNCHANGED <<dreq, drun, dstatus, imports, lock, dcrashes, dworked, renewals, PanelSide>>

\* Finish, then the import directory goes.
FinishRequest ==
  \/ /\ Step("finish", "fremove")
     /\ \E st \in {"succeeded", "failed"} : dstatus' = [id |-> dhelper.id, state |-> st]
     /\ UNCHANGED <<dreq, drun, imports, lock, dcrashes, dworked, renewals, PanelSide>>
  \/ /\ Step("fremove", "unstage") /\ drun' = NoRequest
     /\ UNCHANGED <<dreq, dstatus, imports, lock, dcrashes, dworked, renewals, PanelSide>>
  \/ /\ Exit("unstage")
     /\ imports' = [imports EXCEPT ![dhelper.id] = "absent"]
     /\ UNCHANGED <<dreq, drun, dstatus, dcrashes, dworked, renewals, PanelSide>>

HelperStep ==
  RecoverInterrupted \/ LookForRequest \/ ClaimRequest \/ ExecuteDomainRequest \/ FinishRequest

(* --------------------------- the environment --------------------------- *)

\* An hour passes over an import that no handler is still filling ...
AgeImport(r) ==
  /\ imports[r] = "fresh" /\ dpanel.id # r
  /\ imports' = [imports EXCEPT ![r] = "stale"]
  /\ UNCHANGED <<dreq, HelperSide, PanelSide>>

\* ... and over the request, which is younger than its import.
AgeRequest(r) ==
  /\ dreq = r /\ r \notin aged /\ imports[r] # "fresh"
  /\ aged' = aged \cup {r}
  /\ UNCHANGED <<dreq, imports, HelperSide, dused, dpanel>>

Crash ==
  /\ dcrashes < MaxHelperCrashes /\ dhelper.pc # "idle"
  /\ dcrashes' = dcrashes + 1
  /\ dhelper' = NoRun /\ lock' = "none"
  /\ UNCHANGED <<dreq, drun, dstatus, imports, dworked, renewals, PanelSide>>

\* The maintenance helper holds the same lock for a run of its own.
UpdateHelper ==
  /\ lock # "domain"
  /\ lock' = IF lock = "none" THEN "update" ELSE "none"
  /\ UNCHANGED <<dreq, drun, dstatus, imports, dhelper, dcrashes, dworked, renewals, PanelSide>>

\* Finish cannot write the status or remove running.json: the import
\* directory goes all the same, and the next run finds an interrupted request.
FinishFails ==
  /\ dcrashes < MaxHelperCrashes /\ dcrashes' = dcrashes + 1
  /\ Step("finish", "unstage") \/ Step("fremove", "unstage")
  /\ UNCHANGED <<dreq, drun, dstatus, imports, lock, dworked, renewals, PanelSide>>

DNext ==
  \/ (\E u \in BOOLEAN : HandleDomainsRequest(u)) \/ PanelStep
  \/ StartRun \/ HelperStep
  \/ (\E r \in Requests : AgeImport(r) \/ AgeRequest(r))
  \/ Crash \/ FinishFails \/ UpdateHelper

\* The timer unit starts the helper again and again; a run and a handler end.
\* A run that finds the lock held ends with an error: that one of the next
\* finds it free is assumed (strong fairness), as nothing in the code orders
\* the two helpers.
DFairness ==
  /\ WF_dvars(PanelStep) /\ SF_dvars(StartRun) /\ WF_dvars(HelperStep)
  /\ WF_dvars(lock = "update" /\ UpdateHelper)

DSpec == DInit /\ [][DNext]_dvars /\ DFairness

(* ----------------------------- properties ------------------------------ *)

\* A request is worked on at most once: Claim removes request.json before the
\* work, and an interrupted run never implies a retry.
WorkedOnce == \A r \in Requests : dworked[r] <= 1

\* The certificate a queued or running request names is still in its import
\* directory when the helper reads it: the sweep reads request.json before
\* running.json and Claim links the second before it removes the first.  Only
\* the helper removes it, once the work is over.
ImportKept ==
  [][\A r \in Requests :
       (/\ r \in {dreq, drun} /\ imports[r] # "absent"
        /\ ~(dhelper.pc = "unstage" /\ dhelper.id = r)) => imports'[r] # "absent"]_dvars

\* Both: the helper works on what was uploaded, once.
DomainWorkSound == []WorkedOnce /\ ImportKept

\* Certificates that are due keep being renewed, unless a request that was not
\* claimed within its hour sits in request.json: nothing removes it, and a run
\* that finds a request renews nothing.
RenewalsContinue ==
  []<>(renewals) \/ <>[](dreq \in aged)

=============================================================================
