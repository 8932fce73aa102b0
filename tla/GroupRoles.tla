------------------------------ MODULE GroupRoles ------------------------------
(***************************************************************************)
(* The ClavexGroup controller on one CR: the group itself, found by its    *)
(* name, and the convergence of its roles to the names in spec.roles.  The *)
(* roles belong to others: the ClavexRole controller, clavexctl, the Admin *)
(* UI create and delete them between any two calls of a pass, and a role   *)
(* created again has a new ID.                                             *)
(*                                                                         *)
(* What the key of a group has in common with other keys (duplicates,      *)
(* edits) is in NamedResource, what a stale cache adds in ClavexClient.    *)
(***************************************************************************)
EXTENDS Naturals

CONSTANTS
  Names,      \* names of roles
  Specs,      \* the sets of names the user may write into spec.roles
  MaxGen,     \* bound: generation an edit of the spec may reach
  MaxRole,    \* bound: roles ever created
  MaxGroup,   \* bound: groups ever created
  MaxUser,    \* bound: steps of the user, of the roles and of outsiders
  MaxFaults   \* bound: crashes, failed calls and lost replies

ASSUME SpecsAssumption == Specs # {} /\ Specs \subseteq SUBSET Names
ASSUME BoundsAssumption == {MaxGen, MaxRole, MaxGroup, MaxUser, MaxFaults} \subseteq Nat

VARIABLES
  stored,    \* the CR in the API server
  authOk,    \* spec.authSecretRef resolves
  roles,     \* the ID of the role of each name, 0 if there is none: names are
             \* taken as unique, and so are groups'; where they are not the code
             \* takes the last role of the list
  group,     \* the group of the CR's name: its ID, 0 if none, its roles, and
             \* whether the operator created it and its marker names the CR
  lastRole, lastGroup,  \* last IDs the Admin API gave
  changed,   \* history: others may have changed the group, its roles or what
             \* their names stand for since the last status was true
  calm,      \* history: they did not since the pass began
  pc, cr,    \* the next call of the running pass, and its copy of the CR
  behind,    \* the CR was written after that copy was
  gid,       \* ID of the group the pass found or created
  wantIDs,   \* IDs of the wanted roles, from the pass's list of roles
  adds,      \* roles still to be assigned
  drops,     \* roles still to be removed
  user, faults

kube    == <<stored, authOk>>
admin   == <<roles, group, lastRole, lastGroup>>
history == <<changed, calm>>
lists   == <<gid, wantIDs, adds, drops>>
held    == <<cr, behind, lists>>
vars    == <<kube, admin, history, held, pc, user, faults>>

-----------------------------------------------------------------------------
(* Types *)

Steps == {"idle", "auth", "autherr", "lookup", "delete", "release", "guard",
          "refetch", "find", "create", "roles", "current", "assign", "remove",
          "synced", "failed"}

Outcomes == {"ok", "lost", "failed"}
Readys == {"none", "True", "AuthSecretError", "ReconcileError"}

CRType == [here: BOOLEAN, gen: Nat, obs: Nat, fin: BOOLEAN, del: BOOLEAN,
           want: Specs, ready: Readys]

Fresh(want) == [here |-> TRUE, gen |-> 1, obs |-> 0, fin |-> FALSE, del |-> FALSE,
                want |-> want, ready |-> "none"]

Gone == [Fresh(CHOOSE s \in Specs : TRUE) EXCEPT !.here = FALSE, !.gen = 0]

NoGroup == [id |-> 0, roles |-> {}, ours |-> FALSE]

Init ==
  /\ stored = Gone
  /\ authOk = TRUE
  /\ roles = [n \in Names |-> 0]
  /\ group = NoGroup
  /\ lastRole = 0
  /\ lastGroup = 0
  /\ changed = FALSE
  /\ calm = FALSE
  /\ pc = "idle"
  /\ cr = Gone
  /\ behind = FALSE
  /\ gid = 0
  /\ wantIDs = {}
  /\ adds = {}
  /\ drops = {}
  /\ user = MaxUser
  /\ faults = MaxFaults

-----------------------------------------------------------------------------
(* Calls: answered ("ok"), taking effect without the caller learning it    *)
(* ("lost"), or failing without effect ("failed").                         *)

Call(o) ==
  /\ o = "ok" \/ faults > 0
  /\ faults' = IF o = "ok" THEN faults ELSE faults - 1

Applied(o) == o \in {"ok", "lost"}

\* A write of the CR: refused as a conflict when the copy is behind.
Write(o, new) ==
  /\ Call(o)
  /\ stored' = IF Applied(o) /\ ~behind THEN new ELSE stored
  /\ UNCHANGED <<authOk, admin, calm, user>>

Goto(step) ==
  /\ pc' = step
  /\ UNCHANGED held

EndPass ==
  /\ pc' = "idle"
  /\ cr' = Gone
  /\ behind' = FALSE
  /\ gid' = 0
  /\ wantIDs' = {}
  /\ adds' = {}
  /\ drops' = {}

-----------------------------------------------------------------------------
(* One Reconcile pass: the CR and the group *)

GetCR ==
  /\ pc = "idle"
  /\ stored.here
  /\ cr' = stored
  /\ pc' = "auth"
  /\ calm' = TRUE
  /\ UNCHANGED <<kube, admin, changed, behind, lists, user, faults>>

ResolveAuth ==
  /\ pc = "auth"
  /\ IF ~authOk THEN Goto("autherr")
     ELSE IF cr.del THEN IF cr.fin THEN Goto("lookup") ELSE EndPass
     ELSE IF cr.fin THEN Goto("find") ELSE Goto("guard")
  /\ UNCHANGED <<kube, admin, history, user, faults>>

AuthSecretError(o) ==
  /\ pc = "autherr"
  /\ Write(o, [cr EXCEPT !.ready = "AuthSecretError"])
  /\ EndPass
  /\ UNCHANGED changed

\* findGroupByName: the group's ID goes with the pass.
Look(o, absent, present) ==
  /\ o # "lost"
  /\ Call(o)
  /\ gid' = IF o = "ok" THEN group.id ELSE 0
  /\ pc' = IF o = "failed" THEN "failed" ELSE IF group.id = 0 THEN absent ELSE present
  /\ UNCHANGED <<kube, admin, history, cr, behind, wantIDs, adds, drops, user>>

\* The deletion's lookup; one that fails returns the error without a status.
LookupThen(o, bad) ==
  /\ pc = "lookup"
  /\ IF bad
     THEN Call(o) /\ EndPass /\ UNCHANGED <<kube, admin, history, user>>
     ELSE Look(o, "release", "delete")

\* Mutant: a group that is not there cannot be deleted.
LookupStrict(o) == LookupThen(o, o = "failed" \/ (o = "ok" /\ group.id = 0))

Lookup(o) == LookupThen(o, o = "failed")

\* Groups.Delete by ID; `good' says whether the finalizer may go.
DeleteThen(o, good) ==
  /\ pc = "delete"
  /\ Call(o)
  /\ group' = IF Applied(o) /\ group.id = gid THEN NoGroup ELSE group
  /\ IF good THEN Goto("release") ELSE EndPass
  /\ UNCHANGED <<kube, roles, lastRole, lastGroup, history, user>>

\* Mutant: the error of Groups.Delete is ignored.
DeleteRemoteUnchecked(o) == DeleteThen(o, TRUE)

\* A group that is gone meanwhile is deleted.
DeleteRemote(o) == DeleteThen(o, o = "ok")

RemoveFinalizer(o) ==
  /\ pc = "release"
  /\ Write(o, Gone)
  /\ EndPass
  /\ UNCHANGED changed

AddFinalizer(o) ==
  /\ pc = "guard"
  /\ LET new == [cr EXCEPT !.fin = TRUE]
     IN  /\ Write(o, new)
         /\ IF o = "ok" /\ ~behind
            THEN cr' = new /\ pc' = "refetch" /\ UNCHANGED <<behind, lists>>
            ELSE EndPass
  /\ UNCHANGED changed

Refetch ==
  /\ pc = "refetch"
  /\ IF stored.here
     THEN cr' = stored /\ behind' = FALSE /\ pc' = "find" /\ UNCHANGED lists
     ELSE EndPass
  /\ UNCHANGED <<kube, admin, history, user, faults>>

Find(o) == pc = "find" /\ Look(o, "create", "roles")

\* A new group of the CR's name.
Appears(ours) ==
  /\ lastGroup < MaxGroup
  /\ lastGroup' = lastGroup + 1
  /\ group' = [id |-> lastGroup', roles |-> {}, ours |-> ours]

\* Groups.Create; a name in use, by an outsider's group, is refused.
Create(o) ==
  /\ pc = "create"
  /\ Call(o)
  /\ IF Applied(o) /\ group.id = 0
     THEN Appears(TRUE)
     ELSE UNCHANGED <<group, lastGroup>>
  /\ IF o = "ok" /\ group.id = 0
     THEN gid' = lastGroup' /\ pc' = "roles"
     ELSE UNCHANGED gid /\ pc' = "failed"
  /\ UNCHANGED <<kube, roles, lastRole, history, cr, behind, wantIDs, adds, drops, user>>

-----------------------------------------------------------------------------
(* syncGroupRoles *)

\* Roles.List, and the IDs of the names: one that does not resolve fails the pass.
ListRoles(o) ==
  /\ pc = "roles"
  /\ o # "lost"
  /\ Call(o)
  /\ IF o = "failed" \/ \E n \in cr.want : roles[n] = 0
     THEN Goto("failed")
     ELSE /\ wantIDs' = {roles[n] : n \in cr.want}
          /\ pc' = "current"
          /\ UNCHANGED <<cr, behind, gid, adds, drops>>
  /\ UNCHANGED <<kube, admin, history, user>>

\* Groups.ListRoles of a group that may be gone.
ListGroupRoles(o) ==
  /\ pc = "current"
  /\ o # "lost"
  /\ Call(o)
  /\ IF o = "failed" \/ group.id # gid
     THEN Goto("failed")
     ELSE /\ adds' = wantIDs \ group.roles
          /\ drops' = group.roles \ wantIDs
          /\ pc' = "assign"
          /\ UNCHANGED <<cr, behind, gid, wantIDs>>
  /\ UNCHANGED <<kube, admin, history, user>>

Exists(id) == \E n \in Names : roles[n] = id

\* The group and the role are still there.
Assignable(id) == group.id = gid /\ Exists(id)

\* Groups.AssignRole; `good' says whether the loop goes on after its answer.
AssignRoleThen(o, id, good) ==
  /\ pc = "assign"
  /\ id \in adds
  /\ Call(o)
  /\ group' = IF Applied(o) /\ Assignable(id) THEN [group EXCEPT !.roles = @ \cup {id}] ELSE group
  /\ adds' = adds \ {id}
  /\ pc' = IF good THEN pc ELSE "failed"
  /\ UNCHANGED <<kube, roles, lastRole, lastGroup, history, cr, behind, gid, wantIDs, drops, user>>

\* Mutant: the error of AssignRole is logged and passed over.
AssignRoleUnchecked(o, id) == AssignRoleThen(o, id, TRUE)

\* In the order of Go's map, which is any order.
AssignRole(o, id) == AssignRoleThen(o, id, o = "ok" /\ Assignable(id))

\* Mutant: what is missing is assigned after the rest is removed.
AssignedEarly ==
  /\ pc = "assign"
  /\ Goto("remove")
  /\ UNCHANGED <<kube, admin, history, user, faults>>

\* The first loop is over.
Assigned ==
  /\ pc = "assign"
  /\ adds = {}
  /\ Goto("remove")
  /\ UNCHANGED <<kube, admin, history, user, faults>>

\* Groups.RemoveRole; a role the group does not have is an error.
RemoveRole(o, id) ==
  /\ pc = "remove"
  /\ id \in drops
  /\ Call(o)
  /\ LET served == group.id = gid /\ id \in group.roles
     IN  /\ group' = IF Applied(o) /\ served THEN [group EXCEPT !.roles = @ \ {id}] ELSE group
         /\ drops' = drops \ {id}
         /\ pc' = IF o = "ok" /\ served THEN pc ELSE "failed"
  /\ UNCHANGED <<kube, roles, lastRole, lastGroup, history, cr, behind, gid, wantIDs, adds, user>>

Removed ==
  /\ pc = "remove"
  /\ drops = {}
  /\ Goto("synced")
  /\ UNCHANGED <<kube, admin, history, user, faults>>

ReportSynced(o) ==
  /\ pc = "synced"
  /\ Write(o, [cr EXCEPT !.obs = cr.gen, !.ready = "True"])
  /\ changed' = IF Applied(o) /\ ~behind THEN ~calm ELSE changed
  /\ EndPass

\* The error is kept back: the pass asks for another in 15 s.
ReportError(o) ==
  /\ pc = "failed"
  /\ Write(o, [cr EXCEPT !.ready = "ReconcileError"])
  /\ EndPass
  /\ UNCHANGED changed

Reconcile ==
  \/ GetCR \/ ResolveAuth \/ Refetch \/ Assigned \/ Removed
  \/ \E o \in Outcomes :
       \/ AuthSecretError(o)
       \/ Lookup(o)
       \/ DeleteRemote(o)
       \/ RemoveFinalizer(o)
       \/ AddFinalizer(o)
       \/ Find(o)
       \/ Create(o)
       \/ ListRoles(o)
       \/ ListGroupRoles(o)
       \/ ReportSynced(o)
       \/ ReportError(o)
       \/ \E id \in adds : AssignRole(o, id)
       \/ \E id \in drops : RemoveRole(o, id)

-----------------------------------------------------------------------------
(* Around the pass *)

Crash ==
  /\ pc # "idle"
  /\ faults > 0
  /\ faults' = faults - 1
  /\ EndPass
  /\ UNCHANGED <<kube, admin, history, user>>

UserStep ==
  /\ user > 0
  /\ user' = user - 1
  /\ UNCHANGED <<cr, lists, pc, faults>>

\* A write by the user leaves the pass's copy behind.
UserWrites(new) ==
  /\ UserStep
  /\ stored' = new
  /\ behind' = (pc # "idle")
  /\ UNCHANGED <<authOk, admin, history>>

Apply == ~stored.here /\ \E want \in Specs : UserWrites(Fresh(want))

Edit ==
  /\ stored.here
  /\ stored.gen < MaxGen
  /\ \E want \in Specs \ {stored.want} :
       UserWrites([stored EXCEPT !.want = want, !.gen = @ + 1])

\* kubectl delete: without the finalizer the CR goes at once.
Delete ==
  /\ stored.here
  /\ ~stored.del
  /\ UserWrites(IF stored.fin THEN [stored EXCEPT !.del = TRUE] ELSE Gone)

ToggleAuth ==
  /\ UserStep
  /\ authOk' = ~authOk
  /\ UNCHANGED <<stored, admin, history, behind>>

\* Somebody else changes something at the Admin API.
Disturb ==
  /\ UserStep
  /\ changed' = TRUE
  /\ calm' = FALSE
  /\ UNCHANGED <<kube, behind>>

\* The ClavexRole controller, or an outsider, creates a role.
RoleAppears(n) ==
  /\ Disturb
  /\ roles[n] = 0
  /\ lastRole < MaxRole
  /\ lastRole' = lastRole + 1
  /\ roles' = [roles EXCEPT ![n] = lastRole']
  /\ UNCHANGED <<group, lastGroup>>

\* Mutant: a deleted role stays in its groups.
RoleVanishesAlone(n) ==
  /\ Disturb
  /\ roles[n] # 0
  /\ roles' = [roles EXCEPT ![n] = 0]
  /\ UNCHANGED <<group, lastRole, lastGroup>>

\* It deletes one, which takes it from its groups.
RoleVanishes(n) ==
  /\ Disturb
  /\ roles[n] # 0
  /\ roles' = [roles EXCEPT ![n] = 0]
  /\ group' = [group EXCEPT !.roles = @ \ {roles[n]}]
  /\ UNCHANGED <<lastRole, lastGroup>>

\* An outsider assigns a role to the group or takes it away.
OutsideAssign(n) ==
  /\ Disturb
  /\ group.id # 0
  /\ roles[n] # 0
  /\ group' = [group EXCEPT !.roles = IF roles[n] \in @ THEN @ \ {roles[n]} ELSE @ \cup {roles[n]}]
  /\ UNCHANGED <<roles, lastRole, lastGroup>>

\* An outsider creates the group or deletes it.
OutsideGroup ==
  /\ Disturb
  /\ \/ /\ group.id = 0
        /\ Appears(FALSE)
     \/ /\ group.id # 0
        /\ group' = NoGroup
        /\ UNCHANGED lastGroup
  /\ UNCHANGED <<roles, lastRole>>

Next ==
  \/ Reconcile \/ Crash
  \/ Apply \/ Edit \/ Delete \/ ToggleAuth \/ OutsideGroup
  \/ \E n \in Names : RoleAppears(n) \/ RoleVanishes(n) \/ OutsideAssign(n)

Spec == Init /\ [][Next]_vars

\* Passes go on: status updates, the 15 s after an error and the 15 minutes
\* after a success queue the CR again.  Everybody else may stop.
FairSpec == Spec /\ WF_vars(Reconcile)

-----------------------------------------------------------------------------
(* Properties *)

\* The variables stay in their types; the group's roles exist, and a pass that
\* has lists has a group.
TypeOK ==
  /\ stored \in CRType /\ authOk \in BOOLEAN
  /\ roles \in [Names -> 0..lastRole] /\ lastRole \in 0..MaxRole
  /\ \A m, n \in Names : roles[m] = roles[n] => m = n \/ roles[m] = 0
  /\ group \in [id: 0..lastGroup, roles: SUBSET (1..lastRole), ours: BOOLEAN]
  /\ lastGroup \in 0..MaxGroup
  /\ group.id = 0 => group = NoGroup
  /\ \A id \in group.roles : Exists(id)
  /\ changed \in BOOLEAN /\ calm \in BOOLEAN /\ behind \in BOOLEAN
  /\ pc \in Steps /\ cr \in CRType
  /\ gid \in 0..lastGroup
  /\ pc \in {"delete", "roles", "current", "assign", "remove", "synced"} => gid # 0
  /\ {wantIDs, adds, drops} \subseteq SUBSET (1..lastRole)
  /\ adds \subseteq wantIDs /\ drops \cap wantIDs = {}
  /\ user \in Nat /\ faults \in Nat

\* The abstract state of ManagedLifecycle: the stored CR, and whose group it is.
CRState ==
  IF ~stored.here THEN "absent"
  ELSE IF stored.del THEN "terminating"
  ELSE IF stored.fin THEN "guarded" ELSE "plain"

Remote == IF group.id = 0 THEN "absent" ELSE IF group.ours THEN "operator" ELSE "other"

\* Where the server keeps names unique, the CR and its group go through the life
\* docs/operator.md, section 5, promises, whatever becomes of the group and its
\* ID under the pass.
Lifecycle == INSTANCE ManagedLifecycle WITH cr <- CRState, remote <- Remote
ImplementsLifecycle == Lifecycle!Spec

\* The group has exactly the roles the names stand for.
Exact(want) == group.id # 0 /\ group.roles = {roles[n] : n \in want}

\* Ready for the current generation means exactly spec.roles, however the pass
\* got there: errors and lost replies half way through the two loops, a map's
\* order, retries; unless others changed something since that pass began.
SyncedTruth ==
  stored.here /\ ~stored.del /\ stored.ready = "True" /\ stored.obs = stored.gen
  => changed \/ Exact(stored.want)

\* No pass takes from the group a role its CR asks for, though roles may vanish
\* and return under a new ID after they were listed: such a pass fails at an
\* assignment before it removes anything.
NeverTakesWanted ==
  [][\A n \in stored.want :
       pc = "remove" /\ roles[n] \in drops \ drops' => behind]_vars

\* The names resolve, and so does authSecretRef.
Resolves ==
  /\ authOk
  /\ stored.here /\ ~stored.del => \A n \in stored.want : roles[n] # 0

\* In whatever order the group and its roles were applied, once the names
\* resolve the group has exactly its roles, or a deleted CR goes.
Converges ==
  <>[]Resolves =>
    <>[](stored.here => /\ ~stored.del
                        /\ stored.ready = "True" /\ stored.obs = stored.gen
                        /\ Exact(stored.want))
=============================================================================
