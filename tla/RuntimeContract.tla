-------------------------- MODULE RuntimeContract --------------------------
(***************************************************************************)
(* What internal/runtimeapply promises the rest of the program, without    *)
(* gates, revisions, callers or retries: mutations become durable one      *)
(* after the other, the runtime follows them and never goes back, and the  *)
(* node says "applied" only while the runtime has every mutation that      *)
(* somebody asked it to apply.                                             *)
(***************************************************************************)
EXTENDS Naturals

VARIABLES durable,  \* mutations that are in the database
          owed,     \* of these, how many somebody has asked to be applied
          live,     \* how many the runtime reflects
          shown     \* the node says that all is applied

cvars == <<durable, owed, live, shown>>

CInit == durable = 0 /\ owed = 0 /\ live = 0 /\ shown = FALSE

Save == durable' = durable + 1 /\ UNCHANGED <<owed, live, shown>>

\* A request to apply takes the claim back before it does anything else.
Ask == owed' = durable /\ shown' = FALSE /\ UNCHANGED <<durable, live>>

\* The runtime catches up, with some or all of what is durable.
Follow ==
  /\ live' \in live + 1 .. durable
  /\ UNCHANGED <<durable, owed, shown>>

Show == live >= owed /\ shown' = TRUE /\ UNCHANGED <<durable, owed, live>>
Hide == shown' = FALSE /\ UNCHANGED <<durable, owed, live>>

\* The process starts again; its first pass may already catch up.
Reboot ==
  /\ owed' = 0 /\ shown' = FALSE
  /\ live' \in {live, durable}
  /\ UNCHANGED durable

CNext == Save \/ Ask \/ Follow \/ Show \/ Hide \/ Reboot

Contract == CInit /\ [][CNext]_cvars

\* Durable mutations are not left behind.
FairContract == Contract /\ WF_cvars(Follow)
=============================================================================
