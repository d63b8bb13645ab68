-------------------------- MODULE VolumeLifecycle --------------------------
(***************************************************************************)
(* What the user of a claim is promised, whatever the provisioner does to  *)
(* keep it: a claim that is bound has a bucket of its own that starts      *)
(* empty, keeps every object its pods have written until the claim is      *)
(* released, and is never seen by another claim.                           *)
(***************************************************************************)
CONSTANTS
  Claims,      \* persistent volume claims
  Objects      \* object keys

VARIABLES
  life,        \* life[c]: where the claim and its volume are
  data         \* data[c]: the objects in the volume of claim c

vars == <<life, data>>

Init ==
  /\ life = [c \in Claims |-> "none"]
  /\ data = [c \in Claims |-> {}]

\* Claim c goes from one part of its life to another with the given objects.
Moves(c, from, to, objects) ==
  /\ life[c] = from
  /\ life' = [life EXCEPT ![c] = to]
  /\ data' = [data EXCEPT ![c] = objects]

Ask(c) == Moves(c, "none", "pending", data[c])

Bind(c) == Moves(c, "pending", "bound", {})

Write(c) == \E key \in Objects : Moves(c, "bound", "bound", data[c] \cup {key})

\* The user deletes the claim, bound or not.
Withdraw(c) == Moves(c, "pending", "gone", {})

Release(c) == Moves(c, "bound", "released", data[c])

\* Objects go away only now, some at a time.
Purge(c) == \E rest \in SUBSET data[c] : Moves(c, "released", "released", rest)

Forget(c) == Moves(c, "released", "gone", {})

\* A volume that was still being made when its claim was deleted.
ComeLate(c) == Moves(c, "gone", "released", {})

Next ==
  \E c \in Claims :
    \/ Ask(c) \/ Bind(c) \/ Write(c) \/ Withdraw(c) \/ Release(c)
    \/ Purge(c) \/ Forget(c) \/ ComeLate(c)

Spec == Init /\ [][Next]_vars
=============================================================================
