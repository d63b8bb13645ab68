---------------------------- MODULE VolumeMounts ----------------------------
(***************************************************************************)
(* What a node promises of its volumes, whatever the driver does to keep   *)
(* it.  A call changes what is mounted at most once and at its own target  *)
(* only.  A Mount puts the bucket it names there and succeeds, or it fails *)
(* and leaves all as it was: nothing it tries, undoes or cleans up is seen *)
(* from there.  An Unmount takes off at most one mount, before it knows    *)
(* whether it will succeed.                                                *)
(***************************************************************************)
EXTENDS Sequences

CONSTANTS
  Callers,     \* those who mount and unmount
  Targets,     \* directories volumes are mounted on
  Buckets,     \* buckets that may be mounted
  Secrets      \* credentials they may be mounted with

VARIABLES
  view,        \* view[t]: what is mounted on target t, the visible one first
  work         \* work[p]: the call of p and how far it has come

vars == <<view, work>>

Free == [stage |-> "free"]

Begun(kind, t, b) ==
  [stage |-> "begun", kind |-> kind, target |-> t, bucket |-> b]

\* What an Unmount names.
NoBucket == "none"

Init ==
  /\ view = [t \in Targets |-> <<>>]
  /\ work = [p \in Callers |-> Free]

Begin(p) ==
  /\ work[p] = Free
  /\ \E t \in Targets :
       \/ \E b \in Buckets : work' = [work EXCEPT ![p] = Begun("mount", t, b)]
       \/ work' = [work EXCEPT ![p] = Begun("unmount", t, NoBucket)]
  /\ UNCHANGED view

\* The call of p, one of that kind, comes from one stage to another.
Comes(p, kinds, from, to) ==
  /\ work[p].stage \in from
  /\ work[p].kind \in kinds
  /\ work' = [work EXCEPT ![p].stage = to]

Serve(p) ==
  /\ Comes(p, {"mount"}, {"begun"}, "succeeded")
  /\ \E s \in Secrets :
       view' = [view EXCEPT ![work[p].target] =
                  <<[bucket |-> work[p].bucket, secret |-> s, live |-> TRUE]>> \o @]

Release(p) ==
  /\ Comes(p, {"unmount"}, {"begun"}, "released")
  /\ \/ /\ view[work[p].target] # <<>>
        /\ view' = [view EXCEPT ![work[p].target] = Tail(@)]
     \/ UNCHANGED view

Succeed(p) ==
  /\ Comes(p, {"unmount"}, {"released"}, "succeeded")
  /\ UNCHANGED view

Fail(p) ==
  /\ Comes(p, {"mount", "unmount"}, {"begun", "released"}, "failed")
  /\ UNCHANGED view

\* The call has been answered, or cut off anywhere.
End(p) ==
  /\ work[p] # Free
  /\ work' = [work EXCEPT ![p] = Free]
  /\ UNCHANGED view

\* A server dies; its mount stays.
Die(t) ==
  /\ view[t] # <<>>
  /\ view' = [view EXCEPT ![t] = <<[Head(@) EXCEPT !.live = FALSE]>> \o Tail(@)]
  /\ UNCHANGED work

Next ==
  \/ \E p \in Callers :
       Begin(p) \/ Serve(p) \/ Release(p) \/ Succeed(p) \/ Fail(p) \/ End(p)
  \/ \E t \in Targets : Die(t)

Spec == Init /\ [][Next]_vars
=============================================================================
