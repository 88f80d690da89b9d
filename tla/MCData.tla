------------------------------- MODULE MCData -------------------------------
(***************************************************************************)
(* What the node keeps in its data directory: the traffic it charged, the  *)
(* samples behind its charts, its tunnel profiles and the addresses taken  *)
(* from them, the lease that says who may use the directory and the key    *)
(* its secrets are stored under; and the one thing it remembers of the     *)
(* kernel, which addresses are in the sets of the routing table.  A        *)
(* behaviour exercises one of them, which `subject' names.  Keys are       *)
(* interchangeable.                                                        *)
(***************************************************************************)
EXTENDS Metering, Samples, Profiles, DataLease, KeyRotation, Feeder, TLC

VARIABLE subject

DataInit ==
  /\ subject \in {"meter", "samples", "profiles", "lease", "rotation", "sets"}
  /\ Init /\ PInit /\ SInit /\ LInit /\ KInit /\ FInit
  /\ subject # "lease" => members = {}
  /\ subject # "profiles" => links = {CHOOSE i \in Ifaces : TRUE}

InMeter(A) == subject = "meter" /\ A /\ UNCHANGED <<subject, pvars, svars, lvars, kvars, fvars>>
InProfiles(A) == subject = "profiles" /\ A /\ UNCHANGED <<subject, vars, svars, lvars, kvars, fvars>>
InSamples(A) == subject = "samples" /\ A /\ UNCHANGED <<subject, vars, pvars, lvars, kvars, fvars>>
InLease(A) == subject = "lease" /\ A /\ UNCHANGED <<subject, vars, pvars, svars, kvars, fvars>>
InRotation(A) == subject = "rotation" /\ A /\ UNCHANGED <<subject, vars, pvars, svars, lvars, fvars>>
InSets(A) == subject = "sets" /\ A /\ UNCHANGED <<subject, vars, pvars, svars, lvars, kvars>>

\* The bounds on bytes, keys and time, or the loss of all devices, end a behaviour.
AtBound ==
  /\ \/ subject = "samples" /\ (measured = MaxBytes \/ row = {})
     \/ subject = "rotation" /\ made = MaxKeyIds /\ kpc = "idle"
     \/ subject = "sets" /\ now = MaxTime
  /\ UNCHANGED <<subject, vars, pvars, svars, lvars, kvars, fvars>>

DataNext ==
  \/ InMeter(Next) \/ InProfiles(PNext) \/ InSamples(SNext) \/ InLease(LNext)
  \/ InRotation(KNext) \/ InSets(FNext) \/ AtBound
DataSpec == DataInit /\ [][DataNext]_<<subject, vars, pvars, svars, lvars, kvars, fvars>>

PoolChoices == {<<1>>, <<2>>, <<1, 2>>}
KeySymmetry == Permutations(Keys)
=============================================================================
