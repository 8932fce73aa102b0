-------------------------- MODULE ManagedLifecycle --------------------------
(***************************************************************************)
(* What a controller with a finalizer promises about one custom resource   *)
(* and the one object of the Admin API it stands for: the operator writes  *)
(* the remote object only while a finalizer guards the resource, and the   *)
(* resource leaves the cluster only once the operator's object is gone.    *)
(* docs/operator.md, section 5, states the promise to the user.            *)
(*                                                                         *)
(* Outsiders (clavexctl, the Admin UI, a direct API call) may create and   *)
(* delete the remote object at any time; nothing here is a data value.     *)
(***************************************************************************)

VARIABLES
  cr,       \* the custom resource, as the API server stores it
  remote    \* the object of the Admin API, by whoever wrote it as its manager

vars == <<cr, remote>>

CRStates == {"absent", "plain", "guarded", "terminating"}
Remotes  == {"absent", "operator", "other"}

Init ==
  /\ cr = "absent"
  /\ remote = "absent"

\* The user applies the manifest: no finalizer yet.
Apply ==
  /\ cr = "absent"
  /\ cr' = "plain"
  /\ UNCHANGED remote

\* The controller's first write is always its finalizer.
Guard ==
  /\ cr = "plain"
  /\ cr' = "guarded"
  /\ UNCHANGED remote

\* kubectl delete: at once without a finalizer, a mark with one.
Delete ==
  /\ \/ cr = "plain"   /\ cr' = "absent"
     \/ cr = "guarded" /\ cr' = "terminating"
  /\ UNCHANGED remote

\* Create, or adoption by a PATCH that stamps the marker.
Manage ==
  /\ cr \in {"guarded", "terminating"}
  /\ remote' = "operator"
  /\ UNCHANGED cr

\* Deletion of the remote object, by the finalizer or by an outsider.
Vanish ==
  /\ remote # "absent"
  /\ remote' = "absent"
  /\ UNCHANGED cr

\* An outsider creates an object under the same key.
Appear ==
  /\ remote = "absent"
  /\ remote' = "other"
  /\ UNCHANGED cr

\* The finalizer is removed: never while the operator's object is there.
Release ==
  /\ cr = "terminating"
  /\ remote # "operator"
  /\ cr' = "absent"
  /\ UNCHANGED remote

Next == Apply \/ Guard \/ Delete \/ Manage \/ Vanish \/ Appear \/ Release

Spec == Init /\ [][Next]_vars

-----------------------------------------------------------------------------
\* The two variables stay in their types.
TypeOK ==
  /\ cr \in CRStates
  /\ remote \in Remotes

\* The operator's object never outlives the resource that declares it, and is
\* never written before the finalizer is in place.
NoOrphan == remote = "operator" => cr \in {"guarded", "terminating"}
=============================================================================
