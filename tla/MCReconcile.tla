---------------------------- MODULE MCReconcile ----------------------------
(***************************************************************************)
(* Reconcile on three small instances:                                     *)
(* one profile whose parameters change ("profile"), two profiles without   *)
(* peers of others ("profiles"), and one plain profile under the policy    *)
(* that removes unknown peers ("removing").                                *)
(* A behaviour exercises one of them, which `subject' names.               *)
(***************************************************************************)
EXTENDS Reconcile, TLC

CONSTANTS TwoIfaces, PlainKind, OneParam,
          Strangers \* the peers of others where they are removed

VARIABLE subject

Two == INSTANCE Reconcile WITH Ifaces <- TwoIfaces, Kinds <- PlainKind, Params <- OneParam,
                               Foreign <- {}
Removing == INSTANCE Reconcile WITH Kinds <- PlainKind, Params <- OneParam, Policy <- "remove",
                                    Foreign <- Strangers

LinksInit ==
  /\ subject \in {"profile", "profiles", "removing"}
  /\ CASE subject = "profiles" -> Two!Init
       [] subject = "removing" -> Removing!Init
       [] OTHER -> Init

InProfile(A) == subject = "profile" /\ A /\ UNCHANGED subject
InProfiles(A) == subject = "profiles" /\ A /\ UNCHANGED subject
InRemoving(A) == subject = "removing" /\ A /\ UNCHANGED subject

LinksNext == InProfile(Next) \/ InProfiles(Two!Next) \/ InRemoving(Removing!Next)
LinksSpec == LinksInit /\ [][LinksNext]_<<subject, vars>>

\* Neither keys nor parameters nor the two profiles are told apart.
Symmetry == Permutations(Keys) \cup Permutations(TwoIfaces) \cup Permutations(Params)
=============================================================================
